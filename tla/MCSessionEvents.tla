---------------------------- MODULE MCSessionEvents ----------------------------
(* Finite instances of SessionEvents for TLC. *)
EXTENDS SessionEvents

(* A drafted message; a draft that is never finished, and a bad end; a     *)
(* message with a call whose result comes twice; two calls, the later one  *)
(* answered; lines of unknown type and the result of no call.  The agent   *)
(* may also end anywhere before; three scripts have no Result line.        *)
FiveScripts == {
    <<Line("delta"), Line("text"), Line("success")>>,
    <<Line("delta"), Line("error")>>,
    <<Line("text_use"), ResultOf(1), ResultOf(1)>>,
    <<Line("use"), Line("use"), ResultOf(2)>>,
    <<ResultOf(0), Line("mystery"), Line("mystery")>>}
=============================================================================
