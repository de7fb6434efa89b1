----------------------------- MODULE MCEventBus -----------------------------
(* Values for model checking EventBus.                                     *)
EXTENDS EventBus

CONSTANTS p1, s1, e1, e2

OnePublisher == {p1}
NoSubscribers == {}
OneSubscriber == {s1}
NoEvents == {}
OneEvent == {e1}
TwoEvents == {e1, e2}

OneTopic == [c \in Clients |-> 1]
=============================================================================
