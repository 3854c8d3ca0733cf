---------------------------- MODULE MCOrderIntent ----------------------------
(***************************************************************************)
(* Instances of OrderIntentProtocol for TLC.                               *)
(***************************************************************************)
EXTENDS OrderIntentProtocol, TLC

CONSTANTS w1, w2, w3, d1, d2

\* One coordinator, two threads.
OneCoordinator == w1 :> "c1" @@ w2 :> "c1"
\* Two coordinators (ExecutionEngine and PositionManager), one thread each.
TwoCoordinators2 == w1 :> "c1" @@ w2 :> "c2"
\* The same, and a thread on an adapter that is not certified.
TwoCoordinators == w1 :> "c1" @@ w2 :> "c2" @@ w3 :> "c3"

OneProcess1 == "c1" :> "p1"
OneProcess2 == "c1" :> "p1" @@ "c2" :> "p1"
OneProcess == "c1" :> "p1" @@ "c2" :> "p1" @@ "c3" :> "p1"

\* The threads of OneCoordinator are interchangeable.
ThreadSymmetry == Permutations({w1, w2})

DistinctIds == d1 :> "cid1" @@ d2 :> "cid2"
CollidingIds == d1 :> "cid" @@ d2 :> "cid"
=============================================================================
