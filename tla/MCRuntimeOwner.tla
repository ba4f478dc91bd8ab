---------------------------- MODULE MCRuntimeOwner ----------------------------
EXTENDS RuntimeOwner

CONSTANTS r1, r2, k1, k2

AllOfFirst == [r \in Request |-> 1]
OneEach == [r \in Request |-> IF r = r1 THEN 1 ELSE 2]
DistinctKeys == [r \in Request |-> IF r = r1 THEN k1 ELSE k2]
===============================================================================
