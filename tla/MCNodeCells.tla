---------------------------- MODULE MCNodeCells ----------------------------
EXTENDS NodeCellsProps

CONSTANTS t1, t2

MCSelections == [user |-> {"u1"}, group |-> {"g1"}]

MCTyped == {"by hand"}

MCStored == [t \in Tasks |-> [k \in Kinds |-> [ids |-> "", names |-> ""]]]

=============================================================================
