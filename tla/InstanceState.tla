---- MODULE InstanceState ----
(***************************************************************************)
(* The state table every instance kind shares: `State`, `StateAction` and  *)
(* `State::try_new_state` of core/src/traits/t_server.rs.  Pure operators, *)
(* no variables.                                                           *)
(***************************************************************************)

State == {"Starting", "Running", "Stopping", "Stopped", "Error"}

StateAction == {"UserStart", "UserStop", "InstanceStart", "InstanceStop"}

\* Mutant: an instance that is starting can be started.
TryNewStateLax(s, a) ==
  IF a = "InstanceStart" THEN "Running"
  ELSE IF a = "InstanceStop" THEN "Stopped"
  ELSE IF a = "UserStart" /\ s \in {"Stopped", "Starting"} THEN "Starting"
  ELSE IF a = "UserStop" /\ s = "Running" THEN "Stopping"
  ELSE IF s = "Error" THEN "Panic"
  ELSE "Refused"

\* The state the action leads to; "Refused" stands for every Err of the table
\* and "Panic" for its two todo!() entries.
TryNewState(s, a) ==
  IF a = "InstanceStart" THEN "Running"
  ELSE IF a = "InstanceStop" THEN "Stopped"
  ELSE IF a = "UserStart" /\ s = "Stopped" THEN "Starting"
  ELSE IF a = "UserStop" /\ s = "Running" THEN "Stopping"
  ELSE IF s = "Error" THEN "Panic"
  ELSE "Refused"

\* The table lets the action through.
Allowed(s, a) == TryNewState(s, a) \in State
====
