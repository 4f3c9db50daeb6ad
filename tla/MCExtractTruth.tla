--------------------------- MODULE MCExtractTruth ---------------------------
EXTENDS ExtractTruth
LeadValue == [s \in Stream |-> s]
=============================================================================
