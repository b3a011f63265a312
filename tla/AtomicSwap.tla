----------------------------- MODULE AtomicSwap -----------------------------
(***************************************************************************)
(* What transcoding promises about a library, without the steps it takes:  *)
(* a file's content is replaced by its encode in one step, only while its  *)
(* row is transcoding; the replacement is never undone; a row becomes done *)
(* only after it and is skipped by the worker only without it.             *)
(***************************************************************************)

CONSTANT Files

VARIABLES
    phase,    \* workflow state of each file, waiting before transcoding
    library   \* what the library shows for each file

vars == <<phase, library>>

Phases == {"waiting", "transcoding", "done", "skipped", "failed"}

TypeOK ==
    /\ phase \in [Files -> Phases]
    /\ library \in [Files -> {"original", "encode"}]

Init ==
    /\ phase = [f \in Files |-> "waiting"]
    /\ library = [f \in Files |-> "original"]

Become(f, p) == phase' = [phase EXCEPT ![f] = p] /\ UNCHANGED library

\* The pipeline decides on a waiting file.
Decide(f) ==
    /\ phase[f] = "waiting"
    /\ \E p \in {"transcoding", "skipped", "failed"} : Become(f, p)

Retry(f) == phase[f] = "failed" /\ Become(f, "waiting")

\* The operator sends a set of skipped files to the encoder again.
Reconsider ==
    \E S \in SUBSET {f \in Files : phase[f] = "skipped"} :
        /\ phase' = [f \in Files |-> IF f \in S THEN "transcoding" ELSE phase[f]]
        /\ UNCHANGED library

Replace(f) ==
    /\ phase[f] = "transcoding"
    /\ library[f] = "original"
    /\ library' = [library EXCEPT ![f] = "encode"]
    /\ UNCHANGED phase

Complete(f) ==
    /\ phase[f] = "transcoding"
    /\ library[f] = "encode"
    /\ Become(f, "done")

Decline(f) ==
    /\ phase[f] = "transcoding"
    /\ library[f] = "original"
    /\ Become(f, "skipped")

Abort(f) == phase[f] = "transcoding" /\ Become(f, "failed")

Next ==
    \/ Reconsider
    \/ \E f \in Files : \/ Decide(f) \/ Retry(f)
                        \/ Replace(f) \/ Complete(f) \/ Decline(f) \/ Abort(f)

Spec == Init /\ [][Next]_vars
=============================================================================
