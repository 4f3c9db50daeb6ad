----------------------------- MODULE MCExtract -----------------------------
EXTENDS Extract
LeadValue == [s \in Stream |-> s]
=============================================================================
