------------------------------ MODULE MCFleet ------------------------------
(* Finite instances of Fleet for TLC. *)
EXTENDS Fleet, TLC

CONSTANTS m1, m2, c1, c2, c3, s1, s2

(* One machine that may dial twice. *)
Redial == (c1 :> m1) @@ (c2 :> m1)

(* Two machines, the first of which may dial twice. *)
RedialOfTwo == (c1 :> m1) @@ (c2 :> m1) @@ (c3 :> m2)

(* The sessions are alike. *)
Alike == Permutations({s1, s2})
=============================================================================
