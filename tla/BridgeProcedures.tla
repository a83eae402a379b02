---- MODULE BridgeProcedures ----
(***************************************************************************)
(* The procedures a generic instance has its core macro carry out, by what *)
(* becomes of their results:                                               *)
(*   "get"  a getter with a default (name, state, port, monitor, ...)      *)
(*   "ask"  a question whose failure is passed on (players)                *)
(*   "act"  a command whose result is dropped (start, set_name, ...)       *)
(*   "own"  one of the bridge's own (SetupInstance, RestoreInstance, ...)  *)
(* The macro hands the first three to handlers.                            *)
(***************************************************************************)

Procedures == {"get", "ask", "act", "own"}

NoReturn == [id |-> 0, of |-> "own", what |-> "nothing"]

\* What the handlers of the macro make of a procedure.  The code of one getter of
\* the configuration is commented out: it succeeds without a value.
tConfigHandle(p) == {"void", "error"} \union (IF p = "get" THEN {"value"} ELSE {})

tServerHandle(p) == {IF p = "get" THEN "value" ELSE "void", "error"}

tPlayerHandle == {"value", "error"}

Outcomes(p) ==
  IF p = "ask" THEN tPlayerHandle
  ELSE IF p = "own" THEN {"void", "error"}
  ELSE tConfigHandle(p) \union tServerHandle(p)

\* What a method makes of a result.  A getter has no error to return: an error,
\* and a result that does not fit, is "Unknown", 0, false, Stopped, ...
GetterReturns(kind) == IF kind = "value" THEN "value" ELSE "default"

PlayersReturn(kind) == IF kind = "value" THEN "value" ELSE "error"

CommandReturns(kind) == IF kind = "error" THEN "error" ELSE "ok"

Returns(p, kind) ==
  IF p = "get" THEN GetterReturns(kind)
  ELSE IF p = "ask" THEN PlayersReturn(kind)
  ELSE CommandReturns(kind)
====
