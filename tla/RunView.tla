------------------------------- MODULE RunView -------------------------------
(***************************************************************************)
(* What someone who watches a run is promised (frontend/src/domain/runs/    *)
(* timeline.ts): the story on the screen is made of events of the durable   *)
(* log, each once and in the order of the log, and it is never unsaid.      *)
(***************************************************************************)
EXTENDS Integers, Sequences, Functions

CONSTANT Total   \* events of a run

VARIABLES
  log,   \* how many events are durable
  view   \* the events on the screen

InOrder(story) == \A i, j \in DOMAIN story : i < j => story[i] < story[j]

Init == log \in 1 .. Total /\ view = << >>

Append1 == log < Total /\ log' = log + 1 /\ UNCHANGED view

Learn ==
  /\ view' \in Seq(1 .. log)
  /\ InOrder(view')
  /\ Range(view) \subseteq Range(view') /\ Range(view) # Range(view')
  /\ UNCHANGED log

Next == Append1 \/ Learn

Spec == Init /\ [][Next]_<<log, view>>
=============================================================================
