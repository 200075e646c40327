--------------------------- MODULE MCRiskSession ---------------------------
EXTENDS RiskSession

MCMultiplier == [i \in Instruments |-> IF i = 1 THEN 2 ELSE 1]
=============================================================================
