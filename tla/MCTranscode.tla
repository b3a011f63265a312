---- MODULE MCTranscode ----
EXTENDS Transcode

CONSTANTS f1, f2
====
