----------------------------- MODULE MCRollout -----------------------------
(* Finite instances of Rollout for TLC. *)
EXTENDS Rollout, TLC

CONSTANTS r1, r2

(* The second file refers to the first, the third to none: as the files    *)
(* 002 and 003 of the repository.                                          *)
OnTheFirst == (1 :> {}) @@ (2 :> {1}) @@ (3 :> {})

(* No deployment resets the schema, or one does.                           *)
AtMostOne == {{}} \cup {{d} : d \in 1..Last}

Single == 1 :> {}

NoReset == {{}}

BothModes == {"stop_first", "overlap"}
OnlyOverlap == {"overlap"}
=============================================================================
