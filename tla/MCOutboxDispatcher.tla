------------------------- MODULE MCOutboxDispatcher -------------------------
(* Instances of OutboxDispatcher for TLC.                                  *)
EXTENDS OutboxDispatcher, TLC

MCRows      == {1, 2}
MCThreeRows == {1, 2, 3}
OneAggregate  == [r \in Rows |-> "item1"]
TwoAggregates == [r \in Rows |-> IF r = 1 THEN "item1" ELSE "item2"]

MCNone               == {}
MCFirstUnregistered  == {1}
MCSecondUnregistered == {2}

MCSymmetry == Permutations(Dispatchers)
=============================================================================
