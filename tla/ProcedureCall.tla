---- MODULE ProcedureCall ----
(***************************************************************************)
(* What the bridge to a core macro promises the methods of a generic       *)
(* instance: an abstract specification without channels, results in        *)
(* transit or a macro.  Procedures are carried out once at most, in the    *)
(* order they were called; a method returns what its own came to, or an    *)
(* error, or is dropped.  ProcedureBridge is shown to implement it.        *)
(***************************************************************************)
EXTENDS BridgeProcedures, Naturals, Sequences

CONSTANT Callers   \* methods of the instance that run concurrently

VARIABLES
  asked,     \* the kinds of the procedures called; an id is a place in it
  outcome,   \* of each call: what it came to, or "none"
  open,      \* the id of the call each caller waits for; 0: none
  returned   \* what its last call returned, and the id it was

vars == <<asked, outcome, open, returned>>

Init ==
  /\ asked = <<>>
  /\ outcome = <<>>
  /\ open = [c \in Callers |-> 0]
  /\ returned = [c \in Callers |-> NoReturn]

Ask(c, p) ==
  /\ open[c] = 0
  /\ asked' = Append(asked, p)
  /\ outcome' = Append(outcome, "none")
  /\ open' = [open EXCEPT ![c] = Len(asked) + 1]
  /\ UNCHANGED returned

\* A procedure is not carried out again, nor after a later one.
CarryOut(i) ==
  /\ \A j \in i .. Len(asked) : outcome[j] = "none"
  /\ \E kind \in Outcomes(asked[i]) : outcome' = [outcome EXCEPT ![i] = kind]
  /\ UNCHANGED <<asked, open, returned>>

End(c) ==
  /\ open[c] # 0
  /\ open' = [open EXCEPT ![c] = 0]
  /\ UNCHANGED <<asked, outcome>>

Return(c, kind) ==
  /\ End(c)
  /\ returned' = [returned EXCEPT ![c] =
       [id |-> open[c], of |-> asked[open[c]], what |-> Returns(asked[open[c]], kind)]]

Answer(c) ==
  /\ open[c] # 0
  /\ outcome[open[c]] # "none"
  /\ Return(c, outcome[open[c]])

\* The result was lost.
Fail(c) == Return(c, "error")

\* The caller has given up.
Drop(c) == End(c) /\ UNCHANGED returned

Next ==
  \/ \E c \in Callers :
       \/ \E p \in Procedures : Ask(c, p)
       \/ Answer(c) \/ Fail(c) \/ Drop(c)
  \/ \E i \in 1 .. Len(asked) : CarryOut(i)

Spec == Init /\ [][Next]_vars
====
