------------------------ MODULE MCDurableEventStore ------------------------
(***************************************************************************)
(* Instances of DurableEventStore for TLC.                                 *)
(***************************************************************************)
EXTENDS DurableEventStore

Event(i, ep, n, b) == [id |-> i, epoch |-> ep, seq |-> n, body |-> b]

\* One epoch with two events, and the first event of another epoch, under its
\* own id or under a taken one.
FourEvents ==
    {Event("a", "E1", 1, "x"), Event("b", "E1", 2, "x"),
     Event("c", "E2", 1, "x"), Event("a", "E2", 1, "x")}

\* The same without the second epoch.
TwoEvents == {e \in FourEvents : e.epoch = "E1"}
=============================================================================
