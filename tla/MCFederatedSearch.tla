------------------------- MODULE MCFederatedSearch -------------------------
EXTENDS FederatedSearch

\* A record that fits inline, one that never fits inline but has a descriptor
\* that does, and one whose identity alone is over the limit.
MCHitCost == [small |-> 2, large |-> 99, huge |-> 99]
MCDescriptorCost == [small |-> 1, large |-> 1, huge |-> 99]
MCKinds == {"small", "large", "huge"}

\* The records of one provider, up to n; those that one of the two holds alone;
\* and those that they share.
Upto(n) == UNION {[1 .. k -> MCKinds] : k \in 0 .. n}
OneHolds == {<<c, <<>>>> : c \in Upto(3)} \cup {<<<<>>, c>> : c \in Upto(3)}
BothHold == Upto(2) \X Upto(2)
MCCorpora == OneHolds \cup BothHold

\* Warnings, page evidence and the metadata of failures, until compacted.
MCOverhead == [c \in 0 .. 3 |-> <<4, 3, 1, 0>>[c + 1]]
=============================================================================
