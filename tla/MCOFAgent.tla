----------------------------- MODULE MCOFAgent ------------------------------
\* An instance of OFAgent in which the logical devices have the same datapath
\* id, so that one can take the place of the other.
EXTENDS OFAgent

CONSTANTS ld1, ld2

MCDp == [d \in Ids |-> 1]
=============================================================================
