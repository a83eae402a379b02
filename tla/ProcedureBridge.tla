---- MODULE ProcedureBridge ----
(***************************************************************************)
(* The bridge between a generic instance and its core macro                *)
(* (core/src/implementations/generic/bridge/procedure_call.rs and          *)
(* js/main/libs/procedure_bridge.ts): every method of the instance is a    *)
(* call with an id of its own, broadcast to the macro, whose results are   *)
(* broadcast to all who wait.                                              *)
(***************************************************************************)
EXTENDS BridgeProcedures, Naturals, Sequences

CONSTANTS
  Callers,         \* methods of the instance that run concurrently
  CallCapacity,    \* of the channel of calls (256)
  ResultCapacity,  \* of the channel of results (256)
  MaxCalls         \* bound: how many calls are made

VARIABLES
  calls,      \* the kinds of the procedures called; an id is a place in it
  taken,      \* how many calls next_procedure has passed
  results,    \* the results emitted: an id, and "value", "error" or "void"
  core,       \* the core macro: "loading", "free", "busy", "again" or "dead"
  serving,    \* the id the core macro works on
  outcome,    \* of each call: what the procedure itself came to
  method,     \* where each caller is
  procedure,  \* the kind of procedure it calls
  id,         \* the id of its call
  cursor,     \* the results it has seen
  returned    \* what its last call returned, and the id it was

brVars == <<calls, taken, results, core, serving, outcome, method, procedure, id, cursor,
            returned>>
macroVars  == <<taken, core, serving, outcome>>
callerVars == <<method, procedure, id, cursor, returned>>

ASSUME BridgeAssumption ==
  /\ CallCapacity \in Nat \ {0}
  /\ ResultCapacity \in Nat \ {0}
  /\ MaxCalls \in Nat

BrInit ==
  /\ calls = <<>>
  /\ taken = 0
  /\ results = <<>>
  /\ core = "loading"
  /\ serving = 0
  /\ outcome = <<>>
  /\ method = [c \in Callers |-> "idle"]
  /\ procedure = [c \in Callers |-> "own"]
  /\ id = [c \in Callers |-> 0]
  /\ cursor = [c \in Callers |-> 0]
  /\ returned = [c \in Callers |-> NoReturn]

-----------------------------------------------------------------------------
(* The core macro *)

\* procedure_bridge announces itself and detaches; the instance makes no call
\* before.
BridgeReady ==
  /\ core = "loading"
  /\ core' = "free"
  /\ UNCHANGED <<calls, results, taken, serving, outcome, callerVars>>

\* A call that was overwritten before it was read is an error, which nobody
\* catches: the loop ends, and the macro.
NextProcedure ==
  /\ core = "free"
  /\ taken < Len(calls)
  /\ IF taken + CallCapacity < Len(calls)
     THEN core' = "dead" /\ UNCHANGED <<taken, serving>>
     ELSE /\ core' = "busy"
          /\ taken' = taken + 1
          /\ serving' = taken + 1
  /\ UNCHANGED <<calls, results, outcome, callerVars>>

Emit(kind) == results' = Append(results, [id |-> serving, kind |-> kind])

\* The handlers emit a result or an error; a procedure of the bridge's own emits
\* its error itself.
Handle ==
  /\ core = "busy"
  /\ \E kind \in Outcomes(calls[serving]) :
       /\ outcome' = [outcome EXCEPT ![serving] = kind]
       /\ IF calls[serving] = "own" /\ kind # "error"
          THEN core' = "again" /\ UNCHANGED results
          ELSE /\ Emit(kind)
               /\ core' = IF calls[serving] = "own" THEN "free" ELSE "again"
  /\ UNCHANGED <<calls, taken, serving, callerVars>>

\* Mutant: the loop tries a procedure again that came to an error.
TryAgain ==
  /\ core = "again"
  /\ IF outcome[serving] = "error"
     THEN core' = "busy" /\ UNCHANGED results
     ELSE core' = "free" /\ Emit("void")
  /\ UNCHANGED <<calls, taken, serving, outcome, callerVars>>

\* Mutant: the loop goes on under the id of the next call.
EmitNextId ==
  /\ core = "again"
  /\ results' = Append(results, [id |-> serving + 1, kind |-> "void"])
  /\ core' = "free"
  /\ UNCHANGED <<calls, taken, serving, outcome, callerVars>>

\* The end of the loop emits a success without a value for every procedure,
\* for those a handler has answered too.
EmitAgain ==
  /\ core = "again"
  /\ Emit("void")
  /\ core' = "free"
  /\ UNCHANGED <<calls, taken, serving, outcome, callerVars>>

\* The macro throws, or is aborted when the instance is dropped.  The bridge
\* keeps both channels open.
CoreDies ==
  /\ core # "dead"
  /\ core' = "dead"
  /\ UNCHANGED <<calls, results, taken, serving, outcome, callerVars>>

-----------------------------------------------------------------------------
(* Callers *)

\* ProcedureBridge::call takes an id and subscribes to the results, ...
Subscribe(c, p) ==
  /\ core # "loading"
  /\ method[c] = "idle"
  /\ Len(calls) < MaxCalls
  /\ method' = [method EXCEPT ![c] = "subscribed"]
  /\ procedure' = [procedure EXCEPT ![c] = p]
  /\ cursor' = [cursor EXCEPT ![c] = Len(results)]
  /\ UNCHANGED <<calls, results, macroVars, id, returned>>

\* It is called by state(), monitor(), name(), ... of the instance, ...
CallGetter(c) == Subscribe(c, "get")

\* ... by the methods that count and list its players, ...
CallPlayers(c) == Subscribe(c, "ask")

\* ... by start, stop, set_name, update_configurable, ...
CallCommand(c) == Subscribe(c, "act")

\* ... and when the instance is made or restored.
CallBridge(c) == Subscribe(c, "own")

\* ... and then sends the call.
SendCall(c) ==
  /\ method[c] = "subscribed"
  /\ method' = [method EXCEPT ![c] = "waiting"]
  /\ calls' = Append(calls, procedure[c])
  /\ outcome' = Append(outcome, "none")
  /\ id' = [id EXCEPT ![c] = Len(calls) + 1]
  /\ UNCHANGED <<results, taken, core, serving, procedure, cursor, returned>>

\* The call is over, and its receiver dropped.
Over(c) ==
  /\ method' = [method EXCEPT ![c] = "idle"]
  /\ procedure' = [procedure EXCEPT ![c] = "own"]
  /\ id' = [id EXCEPT ![c] = 0]
  /\ cursor' = [cursor EXCEPT ![c] = 0]

Return(c, kind) ==
  /\ Over(c)
  /\ returned' = [returned EXCEPT ![c] =
       [id |-> id[c], of |-> procedure[c], what |-> Returns(procedure[c], kind)]]

\* The results of other calls are passed over.
Receive(c) ==
  LET r == results[cursor[c] + 1] IN
  /\ method[c] = "waiting"
  /\ cursor[c] < Len(results)
  /\ cursor[c] + ResultCapacity >= Len(results)
  /\ IF r.id = id[c]
     THEN Return(c, r.kind)
     ELSE /\ cursor' = [cursor EXCEPT ![c] = @ + 1]
          /\ UNCHANGED <<method, procedure, id, returned>>
  /\ UNCHANGED <<calls, results, macroVars>>

\* Results were overwritten before the caller saw them: an error.
ReceiveLags(c) ==
  /\ method[c] = "waiting"
  /\ cursor[c] + ResultCapacity < Len(results)
  /\ Return(c, "error")
  /\ UNCHANGED <<calls, results, macroVars>>

\* A handler's future is dropped with the call in it.
DropCall(c) ==
  /\ method[c] # "idle"
  /\ Over(c)
  /\ UNCHANGED <<calls, results, macroVars, returned>>

BrNext ==
  \/ BridgeReady \/ NextProcedure \/ Handle \/ EmitAgain \/ CoreDies
  \/ \E c \in Callers :
       \/ CallGetter(c) \/ CallPlayers(c) \/ CallCommand(c) \/ CallBridge(c)
       \/ SendCall(c) \/ Receive(c) \/ ReceiveLags(c) \/ DropCall(c)

BrSpec == BrInit /\ [][BrNext]_brVars

-----------------------------------------------------------------------------
(* Properties *)

\* A method returns what its own procedure came to, although the macro answers
\* most calls twice, the second time with a success without a value, and
\* although every caller sees everybody's results; or else the error, or the
\* default, of a caller that has fallen behind.
ReturnsItsResult ==
  \A c \in Callers :
    LET r == returned[c] IN
    r.id # 0 => r.what \in {Returns(r.of, outcome[r.id]), Returns(r.of, "error")}

Promise == INSTANCE ProcedureCall WITH asked <- calls, open <- id

\* The bridge does what ProcedureCall promises: whatever is lost, lags or dies, a
\* procedure is carried out once at most and in the order of the calls, and a method
\* gets what its own came to, or an error.
ImplementsProcedureCall == Promise!Spec
====
