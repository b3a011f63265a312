---- MODULE MCTranscodeQueue ----
EXTENDS TranscodeQueue

CONSTANTS f1, f2, f3, w1
====
