---------------------- MODULE MCOperatorDecisionStore ----------------------
(***************************************************************************)
(* Two commands, three requests of which the first two collide on their    *)
(* admission key and expire early, and two concurrent projections.         *)
(***************************************************************************)
EXTENDS OperatorDecisionStore, TLC

CONSTANTS r1, r2, r3

MCRequests == {r1, r2, r3}
MCKeyOf == (r1 :> "key1") @@ (r2 :> "key1") @@ (r3 :> "key2")
MCExpiry == (r1 :> 1) @@ (r2 :> 1) @@ (r3 :> 2)

Symmetry == Permutations(Projectors) \cup Permutations(Commands) \cup Permutations({r1, r2})
============================================================================
