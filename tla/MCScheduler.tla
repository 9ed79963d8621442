---------------------------- MODULE MCScheduler ----------------------------
(* Finite instances of Scheduler for TLC. *)
EXTENDS Scheduler, TLC

CONSTANTS r1, r2, a1, a2

(* Each run has an abort request of its own. *)
OneAbortEach == (a1 :> r1) @@ (a2 :> r2)

(* Only the first run is aborted; the second competes for its slot. *)
FirstAborted == a1 :> r1

(* Two abort requests for the same run. *)
BothAbortFirst == (a1 :> r1) @@ (a2 :> r1)

(* Every agent may deliver; that of the second run alone. *)
AllDeliver == Sessions
SecondDelivers == {<<r2, 1>>}
=============================================================================
