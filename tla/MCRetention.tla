---- MODULE MCRetention ----
EXTENDS Retention

CONSTANTS f1, f2
====
