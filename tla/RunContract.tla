---------------------------- MODULE RunContract ----------------------------
(***************************************************************************)
(* What a run promises to those who fired it, whatever executes it and     *)
(* whatever dies on the way (ADR 0030 D4; sessions.rs:356-359): its stages *)
(* are dispatched in their order, each at most once and only after all     *)
(* before it were dispatched and have delivered; only what was dispatched  *)
(* delivers; and nothing is dispatched for a run that is completed or      *)
(* failed.  A run is completed only if every stage was dispatched and has  *)
(* delivered; completed and failed never replace each other.  An abort may *)
(* be overruled, and may overrule.                                         *)
(***************************************************************************)
EXTENDS Naturals

CONSTANTS Runs, Stages

VARIABLES
    status,       \* "none", "running", "completed", "failed", "aborted"
    dispatched,   \* stages of runs whose agent was asked for
    delivered     \* stages of runs that have something to show for it

vars == <<status, dispatched, delivered>>

StagesOf(r, n) == {r} \X (1..n)
Finished(S) == S \subseteq dispatched \cap delivered

Init ==
    /\ status = [r \in Runs |-> "none"]
    /\ dispatched = {} /\ delivered = {}

Fire(r) ==
    /\ status[r] = "none"
    /\ status' = [status EXCEPT ![r] = "running"]
    /\ UNCHANGED <<dispatched, delivered>>

Dispatch(r, k) ==
    /\ status[r] \in {"running", "aborted"}
    /\ <<r, k>> \notin dispatched
    /\ Finished(StagesOf(r, k - 1))
    /\ dispatched' = dispatched \cup {<<r, k>>}
    /\ UNCHANGED <<status, delivered>>

Deliver(s) ==
    /\ delivered' = delivered \cup {s}
    /\ UNCHANGED <<status, dispatched>>

Conclude(r, v) ==
    /\ status[r] \in {"running", "aborted"}
    /\ v = "completed" => Finished(StagesOf(r, Stages))
    /\ status' = [status EXCEPT ![r] = v]
    /\ UNCHANGED <<dispatched, delivered>>

Abort(r) ==
    /\ status[r] # "none"
    /\ status' = [status EXCEPT ![r] = "aborted"]
    /\ UNCHANGED <<dispatched, delivered>>

Next ==
    \/ \E r \in Runs :
        \/ Fire(r) \/ Abort(r)
        \/ \E k \in 1..Stages : Dispatch(r, k)
        \/ \E v \in {"completed", "failed"} : Conclude(r, v)
    \/ \E s \in dispatched : Deliver(s)

Spec == Init /\ [][Next]_vars
=============================================================================
