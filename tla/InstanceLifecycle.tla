---- MODULE InstanceLifecycle ----
(***************************************************************************)
(* What an instance promises to everything that watches it (the dashboard, *)
(* the event log, macros): an abstract specification with two variables,   *)
(* the state stored in the instance and the last StateTransition event     *)
(* that was broadcast.  InstanceServer is shown to implement it.           *)
(***************************************************************************)
EXTENDS InstanceState

VARIABLES
  state,      \* the instance's State, as TServer::state() returns it
  announced   \* the state named by the last StateTransition event

vars == <<state, announced>>

Init ==
  /\ state = "Stopped"
  /\ announced = "Stopped"

\* try_transition: the event goes out while the state lock is held, so the
\* event and the assignment are one step.
Transition(a) ==
  /\ Allowed(state, a)
  /\ state' = TryNewState(state, a)
  /\ announced' = TryNewState(state, a)

\* kill writes the state without the table and without an event ...
Force ==
  /\ state' = "Stopped"
  /\ UNCHANGED announced

\* ... and sends its event later, whatever the state has become.
AnnounceForced ==
  /\ announced' = "Stopped"
  /\ UNCHANGED state

\* A "stop" typed in the console is announced as Stopping; the state is left.
AnnounceConsoleStop ==
  /\ Allowed(state, "UserStop")
  /\ announced' = TryNewState(state, "UserStop")
  /\ UNCHANGED state

Next ==
  \/ \E a \in StateAction : Transition(a)
  \/ Force
  \/ AnnounceForced
  \/ AnnounceConsoleStop

Spec == Init /\ [][Next]_vars
====
