------------------------------ MODULE MCIngress ------------------------------
(* Finite instance of Ingress for TLC. *)
EXTENDS Ingress, TLC

CONSTANTS ada, bob, h1, h2, w1, w2, i1, i2, i3

(* Bob's login is the slug of the dev seed. *)
Logins == (ada :> "ada") @@ (bob :> "dev")

Symmetry == Permutations(Handlers) \cup Permutations(Wfs)
=============================================================================
