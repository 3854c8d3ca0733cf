----------------------------- MODULE SubmitOnce -----------------------------
(***************************************************************************)
(* What OrderIntentCoordinator promises, without journal, locks, threads   *)
(* or crashes: an intent is sent to the exchange at most once, the         *)
(* exchange decides once what becomes of it, and what is learned about it  *)
(* is the truth and is never forgotten.                                    *)
(***************************************************************************)
EXTENDS Naturals

CONSTANTS Digests, ClientOrderId

VARIABLES
    sent,   \* [Digests -> Nat]: requests sent for the intent
    fate,   \* [Digests -> what the exchange made of the request]
    known   \* [Digests -> what is durably known of it]

avars == <<sent, fate, known>>

Init ==
    /\ sent = [d \in Digests |-> 0]
    /\ fate = [d \in Digests |-> "unsent"]
    /\ known = [d \in Digests |-> "unknown"]

\* An intent is sent once, and never under an id that another one was sent under.
Send(d) ==
    /\ sent[d] = 0
    /\ \A e \in Digests : ClientOrderId[e] = ClientOrderId[d] => sent[e] = 0
    /\ sent' = [sent EXCEPT ![d] = 1]
    /\ fate' = [fate EXCEPT ![d] = "in_flight"]
    /\ UNCHANGED known

Decide(d) ==
    /\ fate[d] = "in_flight"
    /\ \E f \in {"order", "void"} : fate' = [fate EXCEPT ![d] = f]
    /\ UNCHANGED <<sent, known>>

\* The fate of some intents is learned at once, or given up as a conflict.
Learn(D) ==
    /\ \A d \in D : known[d] = "unknown" /\ sent[d] > 0
    /\ known' \in [Digests -> {"unknown", "order", "void", "conflict"}]
    /\ \A d \in D : known'[d] \in {fate[d], "conflict"}
    /\ \A d \in Digests \ D : known'[d] = known[d]
    /\ UNCHANGED <<sent, fate>>

Next ==
    \/ \E d \in Digests : Send(d) \/ Decide(d)
    \/ \E D \in SUBSET Digests : Learn(D)

Spec == Init /\ [][Next]_avars
=============================================================================
