---------------------------- MODULE MCZutilRead ----------------------------
EXTENDS ZutilRead
CONSTANT MaxLen

\* Every text of at most MaxLen bytes.
AllTexts == UNION {[len : {n}, nl : SUBSET (1..n)] : n \in 0..MaxLen}

\* Those made of complete lines of at most Longest bytes.
LineTexts ==
  {t \in AllTexts : \A b \in {0} \cup t.nl :
     b = t.len \/ (b + 1 .. b + Longest) \cap t.nl # {}}
=============================================================================
