----------------------------- MODULE MCServices -----------------------------
(***************************************************************************)
(* Five components of the service that share no state, side by side: the      *)
(* initial state chooses the one that moves, and the others keep theirs.     *)
(* The run is the sum of their state graphs and not the product, and the     *)
(* fairness of one asks nothing of the others, none of which has a fair      *)
(* step before its first.                                                  *)
(***************************************************************************)
EXTENDS ModelSlot, ThreadPools, JobEvents, Lifespan, Parsing

VARIABLE subject

Subjects == {"models", "pools", "events", "life", "parse"}

all_vars == <<vars, pool, events, life_vars, parse_vars, subject>>

MCInit ==
  /\ subject \in Subjects
  /\ Init /\ PoolInit /\ EventsInit /\ LifeInit /\ ParseInit

\* Every component but s keeps its state.
Only(s) ==
  /\ subject = s /\ UNCHANGED subject
  /\ s # "models" => UNCHANGED vars
  /\ s # "pools" => UNCHANGED pool
  /\ s # "events" => UNCHANGED events
  /\ s # "life" => UNCHANGED life_vars
  /\ s # "parse" => UNCHANGED parse_vars

MCNext ==
  \/ Only("models") /\ Next
  \/ Only("pools") /\ PoolNext
  \/ Only("events") /\ EventsNext
  \/ Only("life") /\ LifeNext
  \/ Only("parse") /\ ParseNext

MCFairness == PoolFairness /\ EventsFairness /\ ParseFairness

MCSpec == MCInit /\ [][MCNext]_all_vars /\ MCFairness
=============================================================================
