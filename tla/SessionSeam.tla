---------------------------- MODULE SessionSeam ----------------------------
(***************************************************************************)
(* What dispatching a session promises to the scheduler, wherever the      *)
(* session runs (fleet.rs:369-371: "the scheduler is unchanged below the   *)
(* seam") and what ADR 0030 D4 calls at-most-once: the agent of a session  *)
(* is started at most once, the scheduler gets at most one verdict, a      *)
(* verdict never changes, and "ok" is only ever said of an agent that      *)
(* finished well.  A verdict of failure promises nothing about the agent:  *)
(* it may still be running, or may be about to start.                      *)
(***************************************************************************)

CONSTANT Sessions

VARIABLES
    agent,      \* "none", "running", "ok", "err", "killed"
    verdict     \* "none", "ok", "err", "cancelled"

vars == <<agent, verdict>>

Init ==
    /\ agent = [s \in Sessions |-> "none"]
    /\ verdict = [s \in Sessions |-> "none"]

Start(s) ==
    /\ agent[s] = "none"
    /\ agent' = [agent EXCEPT ![s] = "running"]
    /\ UNCHANGED verdict

End(s) ==
    /\ agent[s] = "running"
    /\ \E e \in {"ok", "err", "killed"} : agent' = [agent EXCEPT ![s] = e]
    /\ UNCHANGED verdict

Decided(s, v) ==
    /\ verdict[s] = "none"
    /\ v = "ok" => agent[s] = "ok"
    /\ v \in {"ok", "err", "cancelled"}

(* Several sessions are decided at once when the control plane dies.       *)
Decide ==
    \E S \in (SUBSET Sessions) \ {{}} : \E v \in {"ok", "err", "cancelled"} :
        /\ \A s \in S : Decided(s, v)
        /\ verdict' = [s \in Sessions |-> IF s \in S THEN v ELSE verdict[s]]
        /\ UNCHANGED agent

Next == (\E s \in Sessions : Start(s) \/ End(s)) \/ Decide

Spec == Init /\ [][Next]_vars
=============================================================================
