----------------------------- MODULE AtLeastOnce -----------------------------
(***************************************************************************)
(* What an outbox promises to its readers, without tables, locks and       *)
(* dispatchers: an event is delivered only after its transaction committed,*)
(* is acknowledged only after it was delivered, and nothing of this is     *)
(* ever undone.  A delivery may repeat, so it is not counted here.         *)
(***************************************************************************)
CONSTANT Events

VARIABLES published, delivered, acknowledged

vars == <<published, delivered, acknowledged>>

Init ==
    /\ published    = {}
    /\ delivered    = {}
    /\ acknowledged = {}

Publish(e) ==
    /\ e \notin published
    /\ published' = published \cup {e}
    /\ UNCHANGED <<delivered, acknowledged>>

Deliver(e) ==
    /\ e \in published
    /\ delivered' = delivered \cup {e}
    /\ UNCHANGED <<published, acknowledged>>

Acknowledge(e) ==
    /\ e \in delivered \ acknowledged
    /\ acknowledged' = acknowledged \cup {e}
    /\ UNCHANGED <<published, delivered>>

Next == \E e \in Events : Publish(e) \/ Deliver(e) \/ Acknowledge(e)

Spec == Init /\ [][Next]_vars
=============================================================================
