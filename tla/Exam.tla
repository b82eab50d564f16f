-------------------------------- MODULE Exam --------------------------------
(***************************************************************************)
(* What a test with an attempt limit of one promises, whatever requests,   *)
(* clients and clocks do: a student with access sits it once; it is handed *)
(* in only while it is being sat, possibly from several windows at once;   *)
(* and its score is settled as soon as everything handed in is marked.     *)
(* Each sheet handed in is marked at most once, and the last one marked    *)
(* gives the score.                                                        *)
(***************************************************************************)
EXTENDS Integers

CONSTANTS
  Students,
  Entitled,  \* students with access to the test
  Hands      \* through which sheets are handed in

VARIABLES
  phase,     \* how far a student has come
  score,     \* the score of a finished sitting
  marking    \* hands with a sheet of the student that is not marked yet

vars == <<phase, score, marking>>

Init ==
  /\ phase = [s \in Students |-> "none"]
  /\ score = [s \in Students |-> 0]
  /\ marking = [s \in Students |-> {}]

Sit(s) ==
  /\ s \in Entitled /\ phase[s] = "none"
  /\ phase' = [phase EXCEPT ![s] = "sitting"]
  /\ UNCHANGED <<score, marking>>

HandIn(s, h) ==
  /\ phase[s] = "sitting" /\ h \notin marking[s]
  /\ marking' = [marking EXCEPT ![s] = @ \cup {h}]
  /\ UNCHANGED <<phase, score>>

Mark(s, h) ==
  /\ h \in marking[s]
  /\ marking' = [marking EXCEPT ![s] = @ \ {h}]
  /\ phase' = [phase EXCEPT ![s] = "finished"]
  /\ score'[s] \in Int
  /\ score' = [score EXCEPT ![s] = score'[s]]

\* A sheet gets lost before it is marked.
Drop(s, h) ==
  /\ h \in marking[s]
  /\ marking' = [marking EXCEPT ![s] = @ \ {h}]
  /\ UNCHANGED <<phase, score>>

Next == \E s \in Students : Sit(s) \/ \E h \in Hands : HandIn(s, h) \/ Mark(s, h) \/ Drop(s, h)

Spec == Init /\ [][Next]_vars
=============================================================================
