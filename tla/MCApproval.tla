---- MODULE MCApproval ----
EXTENDS Approval

CONSTANTS e1, e2, v1, v2, s, m

\* A season of two episodes and a movie with two files.
MCBatchOf == [f \in Files |-> IF f \in {e1, e2} THEN s ELSE m]
====
