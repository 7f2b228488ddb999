---------------------------- MODULE TaskService ----------------------------
(***************************************************************************)
(* What the scheduler promises its callers, with no store, no runner and   *)
(* no process in sight: a service counter with a fixed number of slots and *)
(* one bounded line.  Work is served in the order it was accepted, never   *)
(* more than Slots pieces at a time, and never twice.  A restart empties   *)
(* the counter.                                                            *)
(***************************************************************************)
EXTENDS Naturals, Sequences, FiniteSets

CONSTANTS
  Tasks,   \* everything that may ever be handed in
  Slots,   \* how many pieces of work are served at once
  Room     \* how many may wait in the line

VARIABLES
  line,     \* accepted and not yet begun, oldest first
  serving,  \* begun and not ended
  over      \* ended, or lost in a restart

serviceVars == <<line, serving, over>>

InLine == {line[i] : i \in DOMAIN line}

Init ==
  /\ line = <<>>
  /\ serving = {}
  /\ over = {}

Accept(t) ==
  /\ t \notin InLine \cup serving \cup over
  /\ Len(line) < Room
  /\ line' = Append(line, t)
  /\ UNCHANGED <<serving, over>>

Begin ==
  /\ line # <<>>
  /\ Cardinality(serving) < Slots
  /\ serving' = serving \cup {Head(line)}
  /\ line' = Tail(line)
  /\ UNCHANGED over

End(t) ==
  /\ t \in serving
  /\ serving' = serving \ {t}
  /\ over' = over \cup {t}
  /\ UNCHANGED line

\* Whatever was waiting or being served is given up, together with work that
\* was on its way in and had not reached the line yet.
Restart ==
  /\ line' = <<>>
  /\ serving' = {}
  /\ over \cup serving \cup InLine \subseteq over'
  /\ over' \in SUBSET Tasks

Next ==
  \/ \E t \in Tasks : Accept(t) \/ End(t)
  \/ Begin
  \/ Restart

Spec == Init /\ [][Next]_serviceVars
=============================================================================
