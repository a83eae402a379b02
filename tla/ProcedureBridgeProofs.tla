---- MODULE ProcedureBridgeProofs ----
(***************************************************************************)
(* Proofs about ProcedureBridge, for any number of callers and calls and   *)
(* any capacities of the channels.                                         *)
(*                                                                         *)
(* A caller takes the first result with its id that it sees, and the macro *)
(* emits two for most ids.  So the invariant says which of the results is  *)
(* the first of its id, that a waiting caller has none of its own behind   *)
(* it, and that ids are not used before they are given out.                *)
(*                                                                         *)
(* That the bridge implements ProcedureCall needs two facts more: no call  *)
(* that is to come has been carried out (UndoneInv), and an id says what a *)
(* caller waits for (AskedInv).                                            *)
(***************************************************************************)
EXTENDS ProcedureBridge, TLAPS

Kinds == {"value", "error", "void"}

Result == [id : Nat \ {0}, kind : Kinds]

Returned == [id : Nat, of : Procedures, what : {"nothing", "value", "default", "error", "ok"}]

BrTypeOK ==
  /\ calls \in Seq(Procedures)
  /\ taken \in Nat /\ taken <= Len(calls)
  /\ results \in Seq(Result)
  /\ core \in {"loading", "free", "busy", "again", "dead"}
  /\ serving \in Nat
  /\ outcome \in Seq(Kinds \union {"none"}) /\ Len(outcome) = Len(calls)
  /\ method \in [Callers -> {"idle", "subscribed", "waiting"}]
  /\ procedure \in [Callers -> Procedures]
  /\ id \in [Callers -> Nat]
  /\ cursor \in [Callers -> Nat]
  /\ returned \in [Callers -> Returned]

\* The results of one id begin with what the procedure came to.
FirstIsOutcome ==
  \A n \in 1 .. Len(results) :
    \E m \in 1 .. n : results[m].id = results[n].id /\ results[m].kind = outcome[results[n].id]

Answered(k) == \E m \in 1 .. Len(results) : results[m].id = k

\* Results are of calls the macro has taken, the one it works on excepted; at the
\* end of the loop it has answered, or is about to.
MacroInv ==
  /\ \A n \in 1 .. Len(results) : results[n].id <= taken
  /\ core \in {"busy", "again"} => serving = taken /\ serving > 0
  /\ core = "busy" => ~Answered(serving)
  /\ core = "again" => Answered(serving) \/ outcome[serving] = "void"

\* A waiting caller has passed over no result of its own.
PassedOver(c) ==
  /\ cursor[c] <= Len(results)
  /\ method[c] = "waiting" =>
       /\ id[c] \in 1 .. Len(calls)
       /\ \A m \in 1 .. cursor[c] : results[m].id # id[c]

CallerInv == \A c \in Callers : PassedOver(c)

\* What a caller has returned is its error, or the outcome, which stays.
Truthful(c) ==
  LET r == returned[c] IN
  r.id # 0 => \/ r.what = Returns(r.of, "error")
              \/ /\ r.what = Returns(r.of, outcome[r.id])
                 /\ r.id <= taken
                 /\ Answered(r.id)

ReturnedInv == \A c \in Callers : Truthful(c)

\* What has not been taken has not been carried out, and the macro carries out what
\* it has just taken.
UndoneInv ==
  /\ \A k \in 1 .. Len(calls) : k > taken => outcome[k] = "none"
  /\ core = "busy" => outcome[serving] = "none"

\* The id of a caller is that of the call it waits for.
Asked(c) == IF method[c] = "waiting" THEN procedure[c] = calls[id[c]] ELSE id[c] = 0

AskedInv == \A c \in Callers : Asked(c)

IInv ==
  /\ BrTypeOK /\ FirstIsOutcome /\ MacroInv /\ CallerInv /\ ReturnedInv
  /\ UndoneInv /\ AskedInv

-----------------------------------------------------------------------------

\* A procedure comes to one of three kinds of result (procedure_bridge.ts:26-224).
LEMMA OutcomesAreKinds ==
  /\ \A p : Outcomes(p) \subseteq Kinds
  /\ \A p, k : Returns(p, k) \in {"value", "default", "error", "ok"}
  BY DEF Outcomes, tConfigHandle, tServerHandle, tPlayerHandle, Kinds, Returns,
         GetterReturns, PlayersReturn, CommandReturns

\* What the loop of the macro does with the call it works on.
LEMMA HandleFacts ==
  ASSUME BrTypeOK, MacroInv, Handle
  PROVE  \E kind \in Kinds :
           /\ outcome' = [outcome EXCEPT ![serving] = kind]
           /\ serving \in 1 .. Len(outcome)
           /\ \/ results' = results /\ core' = "again" /\ kind = "void"
              \/ results' = Append(results, [id |-> serving, kind |-> kind])
                 /\ core' \in {"free", "again"}
<1>1. serving \in 1 .. Len(calls) /\ serving \in 1 .. Len(outcome)
  BY DEF BrTypeOK, MacroInv, Handle
<1>2. PICK kind \in Outcomes(calls[serving]) :
        /\ outcome' = [outcome EXCEPT ![serving] = kind]
        /\ IF calls[serving] = "own" /\ kind # "error"
           THEN core' = "again" /\ UNCHANGED results
           ELSE /\ Emit(kind)
                /\ core' = IF calls[serving] = "own" THEN "free" ELSE "again"
  BY DEF Handle
<1>3. kind \in Kinds
  BY <1>2, OutcomesAreKinds
<1>4. calls[serving] = "own" /\ kind # "error" => kind = "void"
  BY <1>2 DEF Outcomes
<1> QED
  BY <1>1, <1>2, <1>3, <1>4 DEF Emit

\* Every step keeps the types (procedure_call.rs:405-456).
LEMMA TypeStep ==
  ASSUME IInv, [BrNext]_brVars
  PROVE  BrTypeOK'
<1>1. BrTypeOK /\ MacroInv
  BY DEF IInv
<1> USE DEF BrTypeOK, callerVars, macroVars
<1>2. CASE BridgeReady \/ CoreDies
  BY <1>1, <1>2 DEF BridgeReady, CoreDies
<1>3. CASE NextProcedure
  BY <1>1, <1>3 DEF NextProcedure
<1>4. CASE Handle
  <2>1. PICK kind \in Kinds :
           /\ outcome' = [outcome EXCEPT ![serving] = kind]
           /\ serving \in 1 .. Len(outcome)
           /\ \/ results' = results /\ core' = "again" /\ kind = "void"
              \/ results' = Append(results, [id |-> serving, kind |-> kind])
                 /\ core' \in {"free", "again"}
    BY <1>1, <1>4, HandleFacts
  <2>2. [id |-> serving, kind |-> kind] \in Result
    BY <1>1, <2>1 DEF Result
  <2>3. results' \in Seq(Result)
    <3>1. Append(results, [id |-> serving, kind |-> kind]) \in Seq(Result)
      BY <1>1, <2>2
    <3> QED
      BY <1>1, <2>1, <3>1
  <2>4. outcome' \in Seq(Kinds \union {"none"}) /\ Len(outcome') = Len(outcome)
    BY <1>1, <2>1
  <2> QED
    BY <1>1, <1>4, <2>1, <2>3, <2>4 DEF Handle
<1>5. CASE EmitAgain
  <2>1. [id |-> serving, kind |-> "void"] \in Result
    BY <1>1, <1>5 DEF EmitAgain, MacroInv, Result, Kinds
  <2> QED
    BY <1>1, <1>5, <2>1 DEF EmitAgain, Emit
<1>6. ASSUME NEW c \in Callers, NEW p \in Procedures, Subscribe(c, p) PROVE BrTypeOK'
  BY <1>1, <1>6 DEF Subscribe
<1>7. ASSUME NEW c \in Callers, SendCall(c) PROVE BrTypeOK'
  BY <1>1, <1>7 DEF SendCall
<1>8. ASSUME NEW c \in Callers, NEW k, Return(c, k), UNCHANGED <<calls, results, macroVars>>
      PROVE  BrTypeOK'
  <2>1. [id |-> id[c], of |-> procedure[c], what |-> Returns(procedure[c], k)] \in Returned
    BY <1>1, OutcomesAreKinds DEF Returned
  <2> QED
    BY <1>1, <1>8, <2>1 DEF Return, Over, Procedures
<1>9. ASSUME NEW c \in Callers, Receive(c) \/ ReceiveLags(c) PROVE BrTypeOK'
  <2>1. CASE \E k : Return(c, k) /\ UNCHANGED <<calls, results, macroVars>>
    BY <1>8, <2>1
  <2>2. CASE /\ cursor' = [cursor EXCEPT ![c] = @ + 1]
             /\ UNCHANGED <<method, procedure, id, returned>>
             /\ UNCHANGED <<calls, results, macroVars>>
    BY <1>1, <2>2
  <2> QED
    BY <1>9, <2>1, <2>2 DEF Receive, ReceiveLags
<1>10. ASSUME NEW c \in Callers, DropCall(c) PROVE BrTypeOK'
  BY <1>1, <1>10 DEF DropCall, Over, Procedures
<1>11. CASE UNCHANGED brVars
  BY <1>1, <1>11 DEF brVars
<1> QED
  BY <1>2, <1>3, <1>4, <1>5, <1>6, <1>7, <1>9, <1>10, <1>11
     DEF BrNext, CallGetter, CallPlayers, CallCommand, CallBridge, Procedures

\* Ids of results have been given out, and taken by the macro.
LEMMA ResultIds ==
  ASSUME BrTypeOK, MacroInv
  PROVE  \A n \in 1 .. Len(results) :
           results[n].id \in 1 .. taken /\ results[n].id \in 1 .. Len(outcome)
<1> TAKE n \in 1 .. Len(results)
<1>1. results[n] \in Result
  BY DEF BrTypeOK
<1>2. results[n].id \in Nat \ {0}
  BY <1>1 DEF Result
<1>3. results[n].id <= taken /\ taken <= Len(outcome) /\ taken \in Nat /\ Len(outcome) \in Nat
  BY DEF BrTypeOK, MacroInv
<1> QED
  BY <1>2, <1>3

\* The first result of an id is what its procedure came to, whatever follows
\* (procedure_bridge.ts:236-293).
LEMMA ResultStep ==
  ASSUME IInv, [BrNext]_brVars
  PROVE  (FirstIsOutcome /\ MacroInv)'
<1>1. BrTypeOK /\ FirstIsOutcome /\ MacroInv
  BY DEF IInv
<1>2. \A n \in 1 .. Len(results) : results[n].id \in 1 .. taken /\ results[n].id \in 1 .. Len(outcome)
  BY <1>1, ResultIds
<1>3. ASSUME UNCHANGED <<results, outcome, taken, core, serving>>
      PROVE  (FirstIsOutcome /\ MacroInv)'
  BY <1>1, <1>3 DEF FirstIsOutcome, MacroInv, Answered
<1>4. CASE BridgeReady \/ CoreDies
  BY <1>1, <1>4 DEF BridgeReady, CoreDies, FirstIsOutcome, MacroInv, Answered
<1>5. CASE NextProcedure
  <2>1. FirstIsOutcome'
    BY <1>1, <1>5 DEF NextProcedure, FirstIsOutcome
  <2>2. MacroInv'
    BY <1>1, <1>2, <1>5 DEF NextProcedure, MacroInv, Answered, BrTypeOK
  <2> QED
    BY <2>1, <2>2
<1>6. CASE Handle
  <2>1. PICK kind \in Kinds :
           /\ outcome' = [outcome EXCEPT ![serving] = kind]
           /\ serving \in 1 .. Len(outcome)
           /\ \/ results' = results /\ core' = "again" /\ kind = "void"
              \/ results' = Append(results, [id |-> serving, kind |-> kind])
                 /\ core' \in {"free", "again"}
    BY <1>1, <1>6, HandleFacts
  <2>2. /\ serving = taken /\ serving > 0
        /\ UNCHANGED <<taken, serving>>
        /\ \A n \in 1 .. Len(results) : results[n].id # serving
    BY <1>1, <1>6 DEF Handle, MacroInv, Answered
  <2>3. outcome'[serving] = kind /\ \A k \in 1 .. Len(outcome) : k # serving => outcome'[k] = outcome[k]
    BY <1>1, <2>1 DEF BrTypeOK
  <2>4. \A n \in 1 .. Len(results) : outcome'[results[n].id] = outcome[results[n].id]
    BY <1>2, <2>2, <2>3
  <2>5. CASE results' = results /\ core' = "again" /\ kind = "void"
    BY <1>1, <2>2, <2>3, <2>4, <2>5 DEF FirstIsOutcome, MacroInv, Answered
  <2>6. CASE /\ results' = Append(results, [id |-> serving, kind |-> kind])
             /\ core' \in {"free", "again"}
    <3> DEFINE l == Len(results) + 1
    <3>1. /\ Len(results') = l /\ l \in Nat
          /\ results'[l].id = serving /\ results'[l].kind = kind
          /\ \A n \in 1 .. Len(results) : results'[n] = results[n]
      BY <1>1, <2>6 DEF BrTypeOK
    <3>2. FirstIsOutcome'
      <4> SUFFICES ASSUME NEW n \in 1 .. l
                   PROVE  \E m \in 1 .. n : /\ results'[m].id = results'[n].id
                                            /\ results'[m].kind = outcome'[results'[n].id]
        BY <3>1 DEF FirstIsOutcome
      <4>1. CASE n = l
        BY <2>3, <3>1, <4>1
      <4>2. CASE n \in 1 .. Len(results)
        <5>1. PICK m \in 1 .. n : /\ results[m].id = results[n].id
                                  /\ results[m].kind = outcome[results[n].id]
          BY <1>1, <4>2 DEF FirstIsOutcome
        <5>2. m \in 1 .. Len(results)
          BY <1>1, <4>2, <5>1 DEF BrTypeOK
        <5> QED
          BY <2>4, <3>1, <4>2, <5>1, <5>2
      <4> QED
        BY <1>1, <4>1, <4>2 DEF BrTypeOK
    <3>3. MacroInv'
      <4>1. \A n \in 1 .. Len(results') : results'[n].id <= taken'
        <5> TAKE n \in 1 .. Len(results')
        <5>1. n = l \/ n \in 1 .. Len(results)
          BY <1>1, <3>1 DEF BrTypeOK
        <5>2. taken \in Nat
          BY <1>1 DEF BrTypeOK
        <5> QED
          BY <1>2, <2>2, <3>1, <5>1, <5>2
      <4>2. Answered(serving)'
        BY <2>2, <3>1 DEF Answered
      <4> QED
        BY <2>2, <2>6, <4>1, <4>2 DEF MacroInv
    <3> QED
      BY <3>2, <3>3
  <2> QED
    BY <2>1, <2>5, <2>6
<1>7. CASE EmitAgain
  <2> DEFINE l == Len(results) + 1
  <2>1. /\ Len(results') = l /\ l \in Nat
        /\ results'[l].id = serving /\ results'[l].kind = "void"
        /\ \A n \in 1 .. Len(results) : results'[n] = results[n]
        /\ UNCHANGED <<outcome, taken, serving>> /\ core' = "free"
    BY <1>1, <1>7 DEF EmitAgain, Emit, BrTypeOK
  <2>2. /\ serving = taken /\ serving > 0
        /\ Answered(serving) \/ outcome[serving] = "void"
    BY <1>1, <1>7 DEF EmitAgain, MacroInv
  <2>3. FirstIsOutcome'
    <3> SUFFICES ASSUME NEW n \in 1 .. l
                 PROVE  \E m \in 1 .. n : /\ results'[m].id = results'[n].id
                                          /\ results'[m].kind = outcome[results'[n].id]
      BY <2>1 DEF FirstIsOutcome
    <3>1. ASSUME NEW k \in 1 .. Len(results), k <= n, results[k].id = results'[n].id
          PROVE  \E m \in 1 .. n : /\ results'[m].id = results'[n].id
                                   /\ results'[m].kind = outcome[results'[n].id]
      <4>1. PICK m \in 1 .. k : /\ results[m].id = results[k].id
                                /\ results[m].kind = outcome[results[k].id]
        BY <1>1, <3>1 DEF FirstIsOutcome
      <4>2. m \in 1 .. n /\ m \in 1 .. Len(results)
        BY <1>1, <2>1, <3>1, <4>1 DEF BrTypeOK
      <4> QED
        BY <2>1, <3>1, <4>1, <4>2
    <3>2. CASE n \in 1 .. Len(results)
      BY <2>1, <3>1, <3>2
    <3>3. CASE n = l /\ Answered(serving)
      BY <1>1, <2>1, <3>1, <3>3 DEF Answered, BrTypeOK
    <3>4. CASE n = l /\ outcome[serving] = "void"
      BY <2>1, <3>4
    <3> QED
      BY <1>1, <2>2, <3>2, <3>3, <3>4 DEF BrTypeOK
  <2>4. \A n \in 1 .. Len(results') : results'[n].id <= taken'
    <3> TAKE n \in 1 .. Len(results')
    <3>1. n = l \/ n \in 1 .. Len(results)
      <4>1. Len(results) \in Nat
        BY <1>1 DEF BrTypeOK
      <4> QED
        BY <2>1, <4>1
    <3>2. taken \in Nat
      BY <1>1 DEF BrTypeOK
    <3> QED
      BY <1>2, <2>1, <2>2, <3>1, <3>2
  <2>5. MacroInv'
    BY <2>1, <2>4 DEF MacroInv
  <2> QED
    BY <2>3, <2>5
<1>8. ASSUME NEW c \in Callers, NEW p \in Procedures, Subscribe(c, p)
      PROVE  (FirstIsOutcome /\ MacroInv)'
  BY <1>3, <1>8 DEF Subscribe, macroVars
<1>9. ASSUME NEW c \in Callers, SendCall(c) PROVE (FirstIsOutcome /\ MacroInv)'
  <2>1. /\ UNCHANGED <<results, taken, core, serving>>
        /\ \A k \in 1 .. Len(outcome) : outcome'[k] = outcome[k]
    BY <1>1, <1>9 DEF SendCall, BrTypeOK
  <2>2. \A n \in 1 .. Len(results) : outcome'[results[n].id] = outcome[results[n].id]
    BY <1>2, <2>1
  <2>3. core = "again" => outcome'[serving] = outcome[serving]
    BY <1>1, <2>1 DEF BrTypeOK, MacroInv
  <2> QED
    BY <1>1, <2>1, <2>2, <2>3 DEF FirstIsOutcome, MacroInv, Answered
<1>10. ASSUME NEW c \in Callers, Receive(c) \/ ReceiveLags(c) \/ DropCall(c)
       PROVE  (FirstIsOutcome /\ MacroInv)'
  BY <1>3, <1>10 DEF Receive, ReceiveLags, DropCall, macroVars
<1>11. CASE UNCHANGED brVars
  BY <1>3, <1>11 DEF brVars
<1> QED
  BY <1>4, <1>5, <1>6, <1>7, <1>8, <1>9, <1>10, <1>11
     DEF BrNext, CallGetter, CallPlayers, CallCommand, CallBridge, Procedures

\* Results are only ever added at the end, and outcomes of answered calls stay
\* (procedure_call.rs:371-404).
LEMMA OnlyAppends ==
  ASSUME IInv, [BrNext]_brVars
  PROVE  /\ Len(results) \in Nat /\ Len(results') \in Nat /\ Len(results) <= Len(results')
         /\ \A n \in 1 .. Len(results) : results'[n] = results[n]
         /\ \A k \in 1 .. Len(outcome) : Answered(k) => outcome'[k] = outcome[k]
         /\ taken <= taken' /\ taken \in Nat /\ taken' \in Nat
<1>1. BrTypeOK /\ MacroInv
  BY DEF IInv
<1>2. CASE Handle
  <2>1. PICK kind \in Kinds :
           /\ outcome' = [outcome EXCEPT ![serving] = kind]
           /\ serving \in 1 .. Len(outcome)
           /\ \/ results' = results /\ core' = "again" /\ kind = "void"
              \/ results' = Append(results, [id |-> serving, kind |-> kind])
                 /\ core' \in {"free", "again"}
    BY <1>1, <1>2, HandleFacts
  <2>2. ~Answered(serving) /\ taken' = taken
    BY <1>1, <1>2 DEF Handle, MacroInv
  <2>3. \A k \in 1 .. Len(outcome) : k # serving => outcome'[k] = outcome[k]
    BY <1>1, <2>1 DEF BrTypeOK
  <2>4. /\ Len(results) \in Nat /\ Len(results') \in Nat /\ Len(results) <= Len(results')
        /\ \A n \in 1 .. Len(results) : results'[n] = results[n]
    <3>1. CASE results' = results
      BY <1>1, <3>1 DEF BrTypeOK
    <3>2. CASE results' = Append(results, [id |-> serving, kind |-> kind])
      BY <1>1, <3>2 DEF BrTypeOK
    <3> QED
      BY <2>1, <3>1, <3>2
  <2>5. \A k \in 1 .. Len(outcome) : Answered(k) => outcome'[k] = outcome[k]
    BY <2>2, <2>3
  <2>6. taken <= taken' /\ taken \in Nat /\ taken' \in Nat
    BY <1>1, <2>2 DEF BrTypeOK
  <2> QED
    BY <2>4, <2>5, <2>6
<1>3. CASE EmitAgain
  BY <1>1, <1>3 DEF EmitAgain, Emit, BrTypeOK
<1>4. CASE NextProcedure
  BY <1>1, <1>4 DEF NextProcedure, BrTypeOK
<1>5. CASE \E c \in Callers : SendCall(c)
  BY <1>1, <1>5 DEF SendCall, BrTypeOK
<1>6. CASE UNCHANGED <<results, outcome, taken>>
  BY <1>1, <1>6 DEF BrTypeOK
<1> QED
  BY <1>2, <1>3, <1>4, <1>5, <1>6
     DEF BrNext, CallGetter, CallPlayers, CallCommand, CallBridge, Subscribe, BridgeReady,
         CoreDies, Receive, ReceiveLags, DropCall, brVars, macroVars

\* A call is received by its first result (procedure_call.rs:418-433).
LEMMA CallerStep ==
  ASSUME IInv, [BrNext]_brVars
  PROVE  CallerInv'
<1> SUFFICES ASSUME NEW c \in Callers PROVE PassedOver(c)'
  BY DEF CallerInv
<1>1. BrTypeOK /\ MacroInv /\ PassedOver(c)
  BY DEF IInv, CallerInv
<1>2. /\ Len(results) \in Nat /\ Len(results') \in Nat /\ Len(results) <= Len(results')
      /\ \A n \in 1 .. Len(results) : results'[n] = results[n]
  BY OnlyAppends
<1>3. cursor[c] \in Nat /\ Len(calls) \in Nat /\ cursor[c] <= Len(results)
  BY <1>1 DEF BrTypeOK, PassedOver
<1>4. ASSUME id'[c] = id[c], cursor'[c] = cursor[c], method'[c] = method[c],
             Len(calls') \in Nat, Len(calls) <= Len(calls')
      PROVE  PassedOver(c)'
  BY <1>1, <1>2, <1>3, <1>4 DEF PassedOver
<1>5. ASSUME cursor'[c] \in {0, Len(results)}, method'[c] # "waiting"
      PROVE  PassedOver(c)'
  BY <1>2, <1>5 DEF PassedOver
<1>6. CASE UNCHANGED <<calls, id, cursor, method>>
  BY <1>3, <1>4, <1>6
<1>7. ASSUME NEW d \in Callers, NEW p, Subscribe(d, p) PROVE PassedOver(c)'
  <2>1. CASE d = c
    BY <1>1, <1>5, <1>7, <2>1 DEF Subscribe, BrTypeOK
  <2>2. CASE d # c
    BY <1>1, <1>3, <1>4, <1>7, <2>2 DEF Subscribe, BrTypeOK
  <2> QED
    BY <2>1, <2>2
<1>8. ASSUME NEW d \in Callers, SendCall(d) PROVE PassedOver(c)'
  <2>1. Len(calls') = Len(calls) + 1 /\ results' = results /\ cursor' = cursor
    BY <1>1, <1>8 DEF SendCall, BrTypeOK
  <2>2. CASE d = c
    <3>1. id'[c] = Len(calls) + 1
      BY <1>1, <1>8, <2>2 DEF SendCall, BrTypeOK
    <3>2. ASSUME NEW m \in 1 .. cursor[c] PROVE results[m].id # Len(calls) + 1
      <4>1. results[m].id \in 1 .. taken /\ taken <= Len(calls) /\ taken \in Nat
        BY <1>1, <1>2, <1>3, ResultIds DEF BrTypeOK
      <4> QED
        BY <1>3, <4>1
    <3> QED
      BY <1>3, <2>1, <3>1, <3>2 DEF PassedOver
  <2>3. CASE d # c
    BY <1>1, <1>3, <1>4, <1>8, <2>1, <2>3 DEF SendCall, BrTypeOK
  <2> QED
    BY <2>2, <2>3
<1>9. ASSUME NEW d \in Callers, Over(d), UNCHANGED calls PROVE PassedOver(c)'
  <2>1. CASE d = c
    BY <1>1, <1>5, <1>9, <2>1 DEF Over, BrTypeOK
  <2>2. CASE d # c
    BY <1>1, <1>3, <1>4, <1>9, <2>2 DEF Over, BrTypeOK
  <2> QED
    BY <2>1, <2>2
<1>10. ASSUME NEW d \in Callers, Receive(d) \/ ReceiveLags(d) \/ DropCall(d)
       PROVE  PassedOver(c)'
  <2>1. CASE Over(d) /\ UNCHANGED calls
    BY <1>9, <2>1
  <2>2. CASE /\ results[cursor[d] + 1].id # id[d]
             /\ method[d] = "waiting" /\ cursor[d] < Len(results)
             /\ cursor' = [cursor EXCEPT ![d] = @ + 1]
             /\ UNCHANGED <<method, id, calls, results>>
    <3>1. CASE d = c
      <4>1. cursor'[c] = cursor[c] + 1
        BY <1>1, <2>2, <3>1 DEF BrTypeOK
      <4> QED
        BY <1>1, <1>2, <1>3, <2>2, <3>1, <4>1 DEF PassedOver
    <3>2. CASE d # c
      BY <1>1, <1>3, <1>4, <2>2, <3>2 DEF BrTypeOK
    <3> QED
      BY <3>1, <3>2
  <2> QED
    BY <1>10, <2>1, <2>2 DEF Receive, ReceiveLags, DropCall, Return
<1> QED
  BY <1>6, <1>7, <1>8, <1>10
     DEF BrNext, CallGetter, CallPlayers, CallCommand, CallBridge, BridgeReady, NextProcedure,
         Handle, EmitAgain, CoreDies, brVars, callerVars

\* What was returned does not change its meaning (procedure_call.rs:425-456).
LEMMA ReturnedStep ==
  ASSUME IInv, [BrNext]_brVars
  PROVE  ReturnedInv'
<1>1. BrTypeOK /\ FirstIsOutcome /\ MacroInv /\ CallerInv /\ ReturnedInv
  BY DEF IInv
<1>2. /\ Len(results) \in Nat /\ Len(results') \in Nat /\ Len(results) <= Len(results')
      /\ \A n \in 1 .. Len(results) : results'[n] = results[n]
      /\ \A k \in 1 .. Len(outcome) : Answered(k) => outcome'[k] = outcome[k]
      /\ taken <= taken' /\ taken \in Nat /\ taken' \in Nat
  BY OnlyAppends
<1>3. \A k : Answered(k) => Answered(k)'
  BY <1>2 DEF Answered
<1>4. ASSUME NEW c \in Callers, returned'[c] = returned[c]
      PROVE  Truthful(c)'
  <2>1. Truthful(c) /\ returned[c].id \in Nat
    BY <1>1 DEF ReturnedInv, BrTypeOK, Returned
  <2>2. taken <= Len(outcome) /\ Len(outcome) \in Nat
    BY <1>1 DEF BrTypeOK
  <2>3. /\ returned[c].id # 0
        /\ returned[c].id <= taken
        /\ Answered(returned[c].id)
        => outcome'[returned[c].id] = outcome[returned[c].id]
    BY <1>2, <2>1, <2>2
  <2> QED
    BY <1>2, <1>3, <1>4, <2>1, <2>3 DEF Truthful
<1>5. CASE UNCHANGED returned
  BY <1>4, <1>5 DEF ReturnedInv
<1>6. ASSUME NEW c \in Callers, NEW k, Return(c, k), UNCHANGED <<results, outcome, taken>>,
             \/ k = "error"
             \/ k = outcome[id[c]] /\ id[c] <= taken /\ Answered(id[c])
      PROVE  ReturnedInv'
  <2>1. returned'[c] = [id |-> id[c], of |-> procedure[c], what |-> Returns(procedure[c], k)]
    BY <1>1, <1>6 DEF Return, BrTypeOK
  <2>2. Truthful(c)'
    BY <1>6, <2>1 DEF Truthful, Answered
  <2>3. ASSUME NEW d \in Callers, d # c PROVE Truthful(d)'
    BY <1>1, <1>4, <1>6, <2>3 DEF Return, BrTypeOK
  <2> QED
    BY <2>2, <2>3 DEF ReturnedInv
<1>7. ASSUME NEW c \in Callers, Receive(c), results[cursor[c] + 1].id = id[c]
      PROVE  ReturnedInv'
  <2> DEFINE n == cursor[c] + 1
  <2>1. n \in 1 .. Len(results) /\ method[c] = "waiting"
    BY <1>1, <1>7 DEF Receive, BrTypeOK
  <2>2. PICK m \in 1 .. n : results[m].id = id[c] /\ results[m].kind = outcome[id[c]]
    BY <1>1, <1>7, <2>1 DEF FirstIsOutcome
  <2>3. m = n
    BY <1>1, <2>1, <2>2 DEF CallerInv, PassedOver, BrTypeOK
  <2>4. id[c] <= taken /\ Answered(id[c])
    BY <1>1, <1>7, <2>1, ResultIds DEF Answered, MacroInv
  <2> QED
    BY <1>6, <1>7, <2>2, <2>3, <2>4 DEF Receive, macroVars
<1>8. ASSUME NEW c \in Callers, ReceiveLags(c) PROVE ReturnedInv'
  BY <1>6, <1>8 DEF ReceiveLags, macroVars
<1> QED
  BY <1>5, <1>7, <1>8
     DEF BrNext, CallGetter, CallPlayers, CallCommand, CallBridge, Subscribe, BridgeReady,
         NextProcedure, Handle, EmitAgain, CoreDies, SendCall, Receive, DropCall, brVars,
         callerVars

\* A procedure that has come to something is not taken again (procedure_bridge.ts:229).
LEMMA UndoneStep ==
  ASSUME IInv, [BrNext]_brVars
  PROVE  UndoneInv'
<1>1. BrTypeOK /\ MacroInv /\ UndoneInv
  BY DEF IInv
<1>2. CASE NextProcedure
  BY <1>1, <1>2 DEF NextProcedure, BrTypeOK, UndoneInv
<1>3. CASE Handle
  <2>1. PICK kind \in Kinds :
           /\ outcome' = [outcome EXCEPT ![serving] = kind]
           /\ serving \in 1 .. Len(outcome)
           /\ \/ results' = results /\ core' = "again" /\ kind = "void"
              \/ results' = Append(results, [id |-> serving, kind |-> kind])
                 /\ core' \in {"free", "again"}
    BY <1>1, <1>3, HandleFacts
  <2>2. /\ serving = taken /\ taken \in Nat
        /\ calls' = calls /\ taken' = taken /\ core' # "busy"
    BY <1>1, <1>3, <2>1 DEF Handle, MacroInv, BrTypeOK
  <2>3. \A k \in 1 .. Len(calls) : k # serving => outcome'[k] = outcome[k]
    BY <1>1, <2>1 DEF BrTypeOK
  <2>4. \A k \in 1 .. Len(calls) : k > taken => k # serving
    BY <2>2
  <2> QED
    BY <1>1, <2>2, <2>3, <2>4 DEF UndoneInv
<1>4. ASSUME NEW c \in Callers, SendCall(c) PROVE UndoneInv'
  <2>1. /\ Len(calls') = Len(calls) + 1 /\ Len(calls) \in Nat
        /\ \A k \in 1 .. Len(calls) : outcome'[k] = outcome[k]
        /\ outcome'[Len(calls) + 1] = "none"
    BY <1>1, <1>4 DEF SendCall, BrTypeOK
  <2>2. core = "busy" => serving \in 1 .. Len(calls)
    BY <1>1 DEF MacroInv, BrTypeOK
  <2>3. \A k \in 1 .. Len(calls') : k \in 1 .. Len(calls) \/ k = Len(calls) + 1
    BY <2>1
  <2>4. UNCHANGED <<taken, core, serving>>
    BY <1>4 DEF SendCall
  <2> QED
    BY <1>1, <2>1, <2>2, <2>3, <2>4 DEF UndoneInv
<1>5. CASE EmitAgain \/ BridgeReady \/ CoreDies
  BY <1>1, <1>5 DEF EmitAgain, BridgeReady, CoreDies, UndoneInv
<1>6. CASE UNCHANGED <<calls, taken, core, serving, outcome>>
  BY <1>1, <1>6 DEF UndoneInv
<1> QED
  BY <1>2, <1>3, <1>4, <1>5, <1>6
     DEF BrNext, CallGetter, CallPlayers, CallCommand, CallBridge, Subscribe, Receive,
         ReceiveLags, DropCall, brVars, macroVars

\* A caller waits for the call it has sent (procedure_call.rs:418-424).
LEMMA AskedStep ==
  ASSUME IInv, [BrNext]_brVars
  PROVE  AskedInv'
<1> SUFFICES ASSUME NEW c \in Callers PROVE Asked(c)'
  BY DEF AskedInv
<1>1. BrTypeOK /\ PassedOver(c) /\ Asked(c)
  BY DEF IInv, CallerInv, AskedInv
<1>2. ASSUME id'[c] = id[c], procedure'[c] = procedure[c], method'[c] = method[c],
             \A k \in 1 .. Len(calls) : calls'[k] = calls[k]
      PROVE  Asked(c)'
  BY <1>1, <1>2 DEF PassedOver, Asked
<1>3. CASE UNCHANGED <<calls, id, procedure, method>>
  BY <1>2, <1>3
<1>4. ASSUME NEW d \in Callers, NEW p, Subscribe(d, p) PROVE Asked(c)'
  <2>1. CASE d = c
    BY <1>1, <1>4, <2>1 DEF Subscribe, BrTypeOK, Asked
  <2>2. CASE d # c
    BY <1>1, <1>2, <1>4, <2>2 DEF Subscribe, BrTypeOK
  <2> QED
    BY <2>1, <2>2
<1>5. ASSUME NEW d \in Callers, SendCall(d) PROVE Asked(c)'
  <2>1. /\ \A k \in 1 .. Len(calls) : calls'[k] = calls[k]
        /\ calls'[Len(calls) + 1] = procedure[d]
    BY <1>1, <1>5 DEF SendCall, BrTypeOK
  <2>2. CASE d = c
    <3>1. id'[c] = Len(calls) + 1 /\ method'[c] = "waiting" /\ procedure' = procedure
      BY <1>1, <1>5, <2>2 DEF SendCall, BrTypeOK
    <3> QED
      BY <2>1, <2>2, <3>1 DEF Asked
  <2>3. CASE d # c
    BY <1>1, <1>2, <1>5, <2>1, <2>3 DEF SendCall, BrTypeOK
  <2> QED
    BY <2>2, <2>3
<1>6. ASSUME NEW d \in Callers, Over(d), UNCHANGED calls PROVE Asked(c)'
  <2>1. CASE d = c
    BY <1>1, <1>6, <2>1 DEF Over, BrTypeOK, Asked
  <2>2. CASE d # c
    BY <1>1, <1>2, <1>6, <2>2 DEF Over, BrTypeOK
  <2> QED
    BY <2>1, <2>2
<1> QED
  BY <1>3, <1>4, <1>5, <1>6
     DEF BrNext, CallGetter, CallPlayers, CallCommand, CallBridge, BridgeReady, NextProcedure,
         Handle, EmitAgain, CoreDies, Receive, ReceiveLags, Return, DropCall, brVars, callerVars

-----------------------------------------------------------------------------

\* A bridge begins with nothing (procedure_call.rs:405-416).
LEMMA InitOK == BrInit => IInv
  BY DEF BrInit, IInv, BrTypeOK, FirstIsOutcome, MacroInv, CallerInv, PassedOver, ReturnedInv,
         Truthful, Procedures, Returned, NoReturn, Answered, UndoneInv, AskedInv, Asked

\* The inductive invariant of the bridge.
THEOREM Inductive == BrSpec => []IInv
<1>1. IInv /\ [BrNext]_brVars => IInv'
  BY TypeStep, ResultStep, CallerStep, ReturnedStep, UndoneStep, AskedStep DEF IInv
<1> QED
  BY InitOK, <1>1, PTL DEF BrSpec

\* A method returns what its own procedure came to, or its error, for any number
\* of concurrent methods and any capacity (procedure_call.rs:418-456,
\* procedure_bridge.ts:284).
THEOREM ResultsAreOnesOwn == BrSpec => []ReturnsItsResult
<1>1. IInv => ReturnsItsResult
  BY DEF IInv, ReturnedInv, Truthful, ReturnsItsResult
<1> QED
  BY Inductive, <1>1, PTL

-----------------------------------------------------------------------------
(* The promise of the bridge *)

\* Procedures come to the same, and methods return the same, in the promise.
LEMMA SameTables ==
  /\ Promise!Procedures = Procedures /\ Promise!NoReturn = NoReturn
  /\ \A p : Promise!Outcomes(p) = Outcomes(p)
  /\ \A p, k : Promise!Returns(p, k) = Returns(p, k)
<1>1. Promise!Procedures = Procedures /\ Promise!NoReturn = NoReturn
  BY DEF Promise!Procedures, Procedures, Promise!NoReturn, NoReturn
<1>2. \A p : Promise!Outcomes(p) = Outcomes(p)
  BY DEF Promise!Outcomes, Outcomes, Promise!tPlayerHandle, tPlayerHandle, Promise!tConfigHandle,
         tConfigHandle, Promise!tServerHandle, tServerHandle
<1>3. \A p, k : Promise!Returns(p, k) = Returns(p, k)
  BY DEF Promise!Returns, Returns, Promise!GetterReturns, GetterReturns, Promise!PlayersReturn,
         PlayersReturn, Promise!CommandReturns, CommandReturns
<1> QED
  BY <1>1, <1>2, <1>3

\* A procedure the macro carries out was not carried out before, nor was a later one
\* (procedure_bridge.ts:229-282).
LEMMA HandleCarriesOut ==
  ASSUME IInv, Handle
  PROVE  \E i \in 1 .. Len(calls) : Promise!CarryOut(i)
<1>1. BrTypeOK /\ MacroInv /\ UndoneInv
  BY DEF IInv
<1>2. core = "busy" /\ serving = taken /\ serving \in 1 .. Len(calls)
  BY <1>1 DEF Handle, MacroInv, BrTypeOK
<1>3. \A j \in serving .. Len(calls) : outcome[j] = "none"
  BY <1>1, <1>2 DEF UndoneInv, BrTypeOK
<1>4. \E kind \in Outcomes(calls[serving]) : outcome' = [outcome EXCEPT ![serving] = kind]
  BY DEF Handle
<1>5. UNCHANGED <<calls, id, returned>>
  BY DEF Handle, callerVars
<1>6. Promise!CarryOut(serving)
  BY <1>3, <1>4, <1>5, SameTables DEF Promise!CarryOut
<1> QED
  BY <1>2, <1>6

\* A call that is sent is one that is asked (procedure_call.rs:423).
LEMMA SendCallAsks ==
  ASSUME IInv, NEW c \in Callers, SendCall(c)
  PROVE  \E p \in Procedures : Promise!Ask(c, p)
<1>1. BrTypeOK /\ Asked(c)
  BY DEF IInv, AskedInv
<1>2. id[c] = 0 /\ procedure[c] \in Procedures
  BY <1>1 DEF SendCall, Asked, BrTypeOK
<1>3. Promise!Ask(c, procedure[c])
  BY <1>2 DEF SendCall, Promise!Ask
<1> QED
  BY <1>2, <1>3

\* A method that returns gives what its call came to, or an error (procedure_call.rs:427).
LEMMA ReturnAnswers ==
  ASSUME IInv, NEW c \in Callers, NEW kind, method[c] = "waiting", Return(c, kind),
         UNCHANGED <<calls, outcome>>
  PROVE  Promise!Return(c, kind)
<1>1. BrTypeOK /\ Asked(c) /\ PassedOver(c)
  BY DEF IInv, AskedInv, CallerInv
<1>2. id[c] # 0 /\ procedure[c] = calls[id[c]]
  BY <1>1 DEF Asked, PassedOver, BrTypeOK
<1> QED
  BY <1>2, SameTables DEF Return, Over, Promise!Return, Promise!End

\* The result that a caller receives is what its procedure came to
\* (procedure_call.rs:425-433).
LEMMA ReceivedIsOutcome ==
  ASSUME IInv, NEW c \in Callers, Receive(c), results[cursor[c] + 1].id = id[c]
  PROVE  results[cursor[c] + 1].kind = outcome[id[c]] /\ outcome[id[c]] # "none"
<1>1. BrTypeOK /\ FirstIsOutcome /\ PassedOver(c)
  BY DEF IInv, CallerInv
<1> DEFINE n == cursor[c] + 1
<1>2. n \in 1 .. Len(results) /\ method[c] = "waiting"
  BY <1>1 DEF Receive, BrTypeOK
<1>3. PICK m \in 1 .. n : results[m].id = id[c] /\ results[m].kind = outcome[id[c]]
  BY <1>1, <1>2 DEF FirstIsOutcome
<1>4. m = n
  BY <1>1, <1>2, <1>3 DEF PassedOver, BrTypeOK
<1>5. results[n] \in Result
  BY <1>1, <1>2 DEF BrTypeOK
<1> QED
  BY <1>3, <1>4, <1>5 DEF Result, Kinds

\* Every step of a caller is a step of the promise, or changes nothing it speaks of.
LEMMA CallerKeepsPromise ==
  ASSUME IInv, NEW c \in Callers, SendCall(c) \/ Receive(c) \/ ReceiveLags(c) \/ DropCall(c)
  PROVE  [Promise!Next]_(Promise!vars)
<1>1. BrTypeOK /\ Asked(c)
  BY DEF IInv, AskedInv
<1>2. CASE SendCall(c)
  BY <1>2, SendCallAsks, SameTables DEF Promise!Next
<1>3. CASE Receive(c)
  <2>1. CASE results[cursor[c] + 1].id = id[c]
    <3>1. /\ method[c] = "waiting" /\ Return(c, outcome[id[c]])
          /\ UNCHANGED <<calls, outcome>> /\ outcome[id[c]] # "none"
      BY <1>3, <2>1, ReceivedIsOutcome DEF Receive, macroVars
    <3>2. Promise!Return(c, outcome[id[c]])
      BY <3>1, ReturnAnswers
    <3> QED
      BY <3>1, <3>2 DEF Promise!Next, Promise!Answer, Promise!Return, Promise!End
  <2>2. CASE results[cursor[c] + 1].id # id[c]
    BY <1>3, <2>2 DEF Receive, macroVars, Promise!vars
  <2> QED
    BY <2>1, <2>2
<1>4. CASE ReceiveLags(c)
  <2>1. Promise!Return(c, "error")
    BY <1>4, ReturnAnswers DEF ReceiveLags, macroVars
  <2> QED
    BY <2>1 DEF Promise!Next, Promise!Fail
<1>5. CASE DropCall(c)
  <2>1. /\ id' = [id EXCEPT ![c] = 0]
        /\ UNCHANGED <<calls, outcome, returned>>
    BY <1>5 DEF DropCall, Over, macroVars
  <2>2. CASE id[c] = 0
    <3>1. id' = id
      BY <1>1, <2>1, <2>2 DEF BrTypeOK
    <3> QED
      BY <2>1, <3>1 DEF Promise!vars
  <2>3. CASE id[c] # 0
    BY <2>1, <2>3 DEF Promise!Next, Promise!Drop, Promise!End
  <2> QED
    BY <2>2, <2>3
<1> QED
  BY <1>2, <1>3, <1>4, <1>5

\* The bridge implements ProcedureCall (procedure_call.rs:349-456,
\* procedure_bridge.ts:229-293).
THEOREM Refinement == BrSpec => ImplementsProcedureCall
<1>1. BrInit => Promise!Init
  BY SameTables DEF BrInit, Promise!Init
<1>2. IInv /\ [BrNext]_brVars => [Promise!Next]_(Promise!vars)
  <2> SUFFICES ASSUME IInv, [BrNext]_brVars PROVE [Promise!Next]_(Promise!vars)
    OBVIOUS
  <2>1. CASE Handle
    BY <2>1, HandleCarriesOut DEF Promise!Next
  <2>2. CASE \E c \in Callers : SendCall(c) \/ Receive(c) \/ ReceiveLags(c) \/ DropCall(c)
    BY <2>2, CallerKeepsPromise
  <2>3. CASE UNCHANGED <<calls, outcome, id, returned>>
    BY <2>3 DEF Promise!vars
  <2> QED
    BY <2>1, <2>2, <2>3
       DEF BrNext, CallGetter, CallPlayers, CallCommand, CallBridge, Subscribe, BridgeReady,
           NextProcedure, EmitAgain, CoreDies, brVars, macroVars, callerVars
<1> QED
  BY Inductive, <1>1, <1>2, PTL DEF BrSpec, ImplementsProcedureCall, Promise!Spec
====
