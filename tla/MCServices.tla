------------------------------- MODULE MCServices -------------------------------
EXTENDS Services

MCNeeds == {1, 2}
=============================================================================
