---- MODULE EventBroadcastProofs ----
(***************************************************************************)
(* Proofs about EventBroadcast, for any capacity of the channel, size of   *)
(* the buffers and number of events.                                       *)
(*                                                                         *)
(* What a receiver has got is what was sent between its subscription and   *)
(* its place, but for what it has missed (Got).  A lag moves its place and *)
(* adds what it skips to what was missed, so it got nothing new; an event  *)
(* is later than all it got before.  The buffers, the store and the        *)
(* streams are functions of that.                                          *)
(***************************************************************************)
EXTENDS EventBroadcast, SequenceTheorems, TLAPS

StreamStages == {"closed", "open", "deaf", "left"}

EvTypeOK ==
  /\ sent \in Seq(EventKinds)
  /\ next \in [Receivers -> Nat]
  /\ since \in [Receivers -> Nat]
  /\ missed \in [Receivers -> SUBSET Nat]
  /\ buffer \in Seq(Nat)
  /\ outputs \in Seq(Nat)
  /\ store \in Seq(Nat)
  /\ stream \in [Streams -> StreamStages]
  /\ delivered \in [Streams -> SUBSET Nat]

\* A receiver is between its subscription and the tail of the channel, and has
\* missed only what it is past.
PlaceInv ==
  \A r \in Receivers : next[r] # 0 =>
    /\ since[r] \in 1 .. next[r]
    /\ next[r] <= Len(sent) + 1
    /\ \A e \in missed[r] : e < next[r]

BufferInv ==
  next["buffer"] # 0 =>
    /\ ListsLatest(buffer, BufferSize, {e \in Got("buffer") : sent[e] # "console"})
    /\ ListsLatest(outputs, BufferSize, {e \in Got("buffer") : sent[e] = "console"})

StoreInv ==
  /\ next["store"] # 0 => Lists(store, Rows)
  /\ storing \/ next["store"] = 0 \/ closing

\* Nothing has been written before the tasks subscribed, and the store's runs
\* only then.
IdleInv ==
  /\ next["buffer"] = 0 => buffer = <<>> /\ outputs = <<>>
  /\ next["store"] = 0 => store = <<>> /\ ~storing

\* A console stream is closed by the logout it gets, and delivers what it gets.
ConsoleInv ==
  /\ next["console"] = 0 => delivered["console"] = {} /\ stream["console"] = "closed"
  /\ next["console"] # 0 => \A e \in delivered["console"] : e < next["console"]
  /\ (next["console"] # 0 /\ \E out \in Got("console") : sent[out] = "logout")
       => stream["console"] = "closed"
  /\ ConsoleEndsWithSession

IInv == EvTypeOK /\ PlaceInv /\ BufferInv /\ StoreInv /\ IdleInv /\ ConsoleInv

-----------------------------------------------------------------------------
(* Sequences of events in the order they were sent *)

\* What is appended to a sequence is in its range.
LEMMA RangeOfAppend ==
  ASSUME NEW seq \in Seq(Nat), NEW e \in Nat
  PROVE  /\ Append(seq, e) \in Seq(Nat)
         /\ Range(Append(seq, e)) = Range(seq) \union {e}
<1>1. /\ Append(seq, e) \in Seq(Nat)
      /\ Len(Append(seq, e)) = Len(seq) + 1
      /\ Len(seq) \in Nat
      /\ \A i \in 1 .. Len(seq) : Append(seq, e)[i] = seq[i]
      /\ Append(seq, e)[Len(seq) + 1] = e
  BY AppendProperties, LenProperties
<1>2. DOMAIN seq = 1 .. Len(seq) /\ DOMAIN Append(seq, e) = 1 .. Len(seq) + 1
  BY <1>1, LenProperties
<1>3. \A x : x \in Range(seq) => x \in Range(Append(seq, e))
  BY <1>1, <1>2 DEF Range
<1>4. \A x : x \in Range(Append(seq, e)) => x \in Range(seq) \union {e}
  BY <1>1, <1>2 DEF Range
<1>5. e \in Range(Append(seq, e))
  BY <1>1, <1>2 DEF Range
<1> QED
  BY <1>1, <1>3, <1>4, <1>5

\* A later event keeps a sequence in order.
LEMMA AppendIncreases ==
  ASSUME NEW seq \in Seq(Nat), NEW e \in Nat, Increases(seq), \A d \in Range(seq) : d < e
  PROVE  Increases(Append(seq, e))
<1>1. /\ Len(Append(seq, e)) = Len(seq) + 1
      /\ Len(seq) \in Nat
      /\ \A i \in 1 .. Len(seq) : Append(seq, e)[i] = seq[i]
      /\ Append(seq, e)[Len(seq) + 1] = e
      /\ Append(seq, e) \in Seq(Nat)
  BY AppendProperties, LenProperties
<1>2. DOMAIN seq = 1 .. Len(seq) /\ DOMAIN Append(seq, e) = 1 .. Len(seq) + 1
  BY <1>1, LenProperties
<1>3. \A i \in 1 .. Len(seq) : seq[i] < e
  BY <1>2 DEF Range
<1> QED
  BY <1>1, <1>2, <1>3 DEF Increases

\* The tail of a sequence in order is in order, and later than its head.
LEMMA TailIncreases ==
  ASSUME NEW seq \in Seq(Nat), seq # <<>>, Increases(seq)
  PROVE  /\ Tail(seq) \in Seq(Nat)
         /\ Len(Tail(seq)) = Len(seq) - 1
         /\ Increases(Tail(seq))
         /\ Range(seq) = Range(Tail(seq)) \union {Head(seq)}
         /\ \A d \in Range(Tail(seq)) : Head(seq) < d
<1>1. /\ Tail(seq) \in Seq(Nat)
      /\ Len(Tail(seq)) = Len(seq) - 1
      /\ \A i \in 1 .. Len(Tail(seq)) : Tail(seq)[i] = seq[i + 1]
      /\ Head(seq) = seq[1]
      /\ Len(seq) \in Nat \ {0}
  BY HeadTailProperties, EmptySeq
<1>2. DOMAIN seq = 1 .. Len(seq) /\ DOMAIN Tail(seq) = 1 .. Len(seq) - 1
  BY <1>1, LenProperties
<1>3. Increases(Tail(seq))
  BY <1>1, <1>2 DEF Increases
<1>4. \A d \in Range(Tail(seq)) : Head(seq) < d /\ d \in Range(seq)
  BY <1>1, <1>2 DEF Increases, Range
<1>5. Head(seq) \in Range(seq)
  BY <1>1, <1>2 DEF Range
<1>6. ASSUME NEW d \in Range(seq), d # Head(seq)
      PROVE  d \in Range(Tail(seq))
  <2>1. PICK i \in 1 .. Len(seq) : d = seq[i]
    BY <1>2 DEF Range
  <2>2. i # 1 /\ i - 1 \in 1 .. Len(Tail(seq))
    BY <1>1, <1>6, <2>1
  <2>3. Tail(seq)[i - 1] = d
    BY <1>1, <2>1, <2>2
  <2> QED
    BY <1>1, <1>2, <2>2, <2>3 DEF Range
<1> QED
  BY <1>1, <1>3, <1>4, <1>5, <1>6

\* A ring buffer keeps the latest events.
LEMMA PushKeepsLatest ==
  ASSUME NEW ring \in Seq(Nat), NEW events \in SUBSET Nat, NEW e \in Nat,
         ListsLatest(ring, BufferSize, events),
         \A d \in events : d < e
  PROVE  /\ Push(ring, e) \in Seq(Nat)
         /\ ListsLatest(Push(ring, e), BufferSize, events \union {e})
<1>1. /\ Increases(ring) /\ Range(ring) \subseteq events /\ Len(ring) <= BufferSize
      /\ \A d \in events \ Range(ring) : Len(ring) = BufferSize /\ \A c \in Range(ring) : d < c
  BY DEF ListsLatest
<1>2. BufferSize \in Nat \ {0} /\ Len(ring) \in Nat
  BY EventsAssumption, LenProperties
<1>3. CASE Len(ring) # BufferSize
  <2>1. Push(ring, e) = Append(ring, e)
    BY <1>3 DEF Push
  <2>2. /\ Append(ring, e) \in Seq(Nat)
        /\ Range(Append(ring, e)) = Range(ring) \union {e}
        /\ Increases(Append(ring, e))
        /\ Len(Append(ring, e)) = Len(ring) + 1
    BY <1>1, RangeOfAppend, AppendIncreases, AppendProperties
  <2>3. events = Range(ring)
    BY <1>1, <1>3
  <2> QED
    BY <1>1, <1>2, <1>3, <2>1, <2>2, <2>3 DEF ListsLatest
<1>4. CASE Len(ring) = BufferSize
  <2> DEFINE rest == Tail(ring)
  <2>1. ring # <<>>
    BY <1>2, <1>4, EmptySeq
  <2>2. /\ rest \in Seq(Nat) /\ Len(rest) = BufferSize - 1 /\ Increases(rest)
        /\ Range(ring) = Range(rest) \union {Head(ring)}
        /\ \A d \in Range(rest) : Head(ring) < d
    BY <1>1, <1>4, <2>1, TailIncreases
  <2>3. Range(rest) \subseteq events
    BY <1>1, <2>2
  <2>4. Push(ring, e) = Append(rest, e)
    BY <1>4 DEF Push
  <2> HIDE DEF rest
  <2>5. /\ Append(rest, e) \in Seq(Nat)
        /\ Range(Append(rest, e)) = Range(rest) \union {e}
        /\ Increases(Append(rest, e))
        /\ Len(Append(rest, e)) = BufferSize
    <3>1. \A d \in Range(rest) : d < e
      BY <2>3
    <3>2. Increases(Append(rest, e))
      BY <2>2, <3>1, AppendIncreases
    <3>3. Len(Append(rest, e)) = Len(rest) + 1
      BY <2>2, AppendProperties
    <3> QED
      BY <1>2, <2>2, <3>2, <3>3, RangeOfAppend
  <2>6. ASSUME NEW d \in events, d \notin Range(rest), NEW c \in Range(rest) \union {e}
        PROVE  d < c
    <3>1. CASE c = e
      BY <3>1
    <3>2. CASE c \in Range(rest) /\ d = Head(ring)
      BY <2>2, <3>2
    <3>3. CASE c \in Range(rest) /\ d # Head(ring)
      BY <1>1, <2>2, <2>6, <3>3
    <3> QED
      BY <3>1, <3>2, <3>3
  <2>7. Range(rest) \union {e} \subseteq events \union {e}
    BY <2>3
  <2>8. \A d \in (events \union {e}) \ (Range(rest) \union {e}) :
          \A c \in Range(rest) \union {e} : d < c
    BY <2>6
  <2> QED
    BY <1>2, <2>4, <2>5, <2>7, <2>8 DEF ListsLatest
<1> QED
  BY <1>3, <1>4

\* An empty ring has the latest of no events.
LEMMA EmptyLists ==
  /\ ListsLatest(<<>>, BufferSize, {})
  /\ Lists(<<>>, {})
<1>1. Len(<<>>) = 0 /\ Range(<<>>) = {} /\ Increases(<<>>)
  BY DEF Range, Increases
<1> QED
  BY <1>1, EventsAssumption DEF ListsLatest, Lists


-----------------------------------------------------------------------------
(* Receivers *)

\* What is sent stays where it is, and has its place.
LEMMA SentGrows ==
  ASSUME EvTypeOK, [EvNext]_evVars
  PROVE  /\ Len(sent) \in Nat
         /\ Len(sent') \in Nat
         /\ Len(sent) <= Len(sent')
         /\ \A e \in 1 .. Len(sent) : sent'[e] = sent[e]
         /\ sent' \in Seq(EventKinds)
<1>1. sent \in Seq(EventKinds) /\ Len(sent) \in Nat
  BY LenProperties DEF EvTypeOK
<1>2. CASE \E k \in EventKinds : Send(k)
  BY <1>1, <1>2, AppendProperties DEF Send
<1>3. CASE UNCHANGED sent
  BY <1>1, <1>3
<1>4. (\E k \in EventKinds : Send(k)) \/ UNCHANGED sent
  BY DEF EvNext, evVars, SubscribeBuffer, SubscribeStore, BufferLags, BufferEvent, StoreLags,
         StoreEvent, ChangeView, DeleteViewer, OpenStream, StreamEvent, StreamLags,
         ClientMessage, ClientLeaves, Call, WaiterEvent, WaitAgain, WaiterPanics
<1> QED
  BY <1>2, <1>3, <1>4

\* What a receiver may do in a step.
Rests(r)      == UNCHANGED <<next[r], since[r], missed[r]>>
Subscribes(r) == next'[r] = Upcoming /\ since'[r] = Upcoming /\ missed'[r] = {}
Takes(r)      == Ready(r) /\ next'[r] = next[r] + 1 /\ UNCHANGED <<since[r], missed[r]>>
Skipped(r)    == /\ Behind(r)
                 /\ next'[r] = Upcoming - Capacity
                 /\ missed'[r] = missed[r] \union (next[r] .. Upcoming - Capacity - 1)
                 /\ UNCHANGED since[r]
Leaves(r)     == next'[r] = 0 /\ UNCHANGED <<since[r], missed[r]>>

\* Subscribing, taking, lagging and dropping are all that is done to a receiver.
LEMMA ReceiverSteps ==
  ASSUME EvTypeOK, [EvNext]_evVars, NEW r \in Receivers
  PROVE  /\ Rests(r) \/ Subscribes(r) \/ Takes(r) \/ Skipped(r) \/ Leaves(r)
         /\ next' \in [Receivers -> Nat]
         /\ since' \in [Receivers -> Nat]
         /\ missed' \in [Receivers -> SUBSET Nat]
<1> DEFINE Goal == /\ Rests(r) \/ Subscribes(r) \/ Takes(r) \/ Skipped(r) \/ Leaves(r)
                   /\ next' \in [Receivers -> Nat]
                   /\ since' \in [Receivers -> Nat]
                   /\ missed' \in [Receivers -> SUBSET Nat]
<1> SUFFICES Goal
  OBVIOUS
<1>1. /\ next \in [Receivers -> Nat] /\ since \in [Receivers -> Nat]
      /\ missed \in [Receivers -> SUBSET Nat]
      /\ Upcoming \in Nat /\ Capacity \in Nat
  BY EventsAssumption, LenProperties DEF EvTypeOK, Upcoming
<1>2. ASSUME NEW x \in Receivers, SubscribeTo(x) PROVE Goal
  BY <1>1, <1>2 DEF SubscribeTo, Rests, Subscribes
<1>3. ASSUME NEW x \in Receivers, Lag(x), UNCHANGED since PROVE Goal
  <2>1. Upcoming - Capacity \in Nat
    BY <1>1, <1>3 DEF Lag, Behind
  <2> QED
    BY <1>1, <1>3, <2>1 DEF Lag, Rests, Skipped
<1>4. ASSUME NEW x \in Receivers, Ready(x), Advance(x), UNCHANGED <<since, missed>> PROVE Goal
  BY <1>1, <1>4 DEF Advance, Rests, Takes
<1>5. ASSUME NEW x \in Receivers, next' = [next EXCEPT ![x] = 0], UNCHANGED <<since, missed>> PROVE Goal
  BY <1>1, <1>5 DEF Rests, Leaves
<1>6. CASE UNCHANGED <<next, since, missed>>
  BY <1>1, <1>6 DEF Rests
<1> HIDE DEF Goal
<1>7. /\ {"buffer", "store", "waiter"} \subseteq Receivers
      /\ \A s \in Streams : s \in Receivers
  BY DEF Receivers
<1>8. CASE SubscribeBuffer \/ SubscribeStore \/ Call \/ WaitAgain
  BY <1>2, <1>7, <1>8 DEF SubscribeBuffer, SubscribeStore, Call, WaitAgain
<1>9. CASE BufferLags \/ StoreLags \/ WaiterPanics
  BY <1>3, <1>7, <1>9 DEF BufferLags, StoreLags, WaiterPanics
<1>10. CASE BufferEvent
  BY <1>4, <1>7, <1>10 DEF BufferEvent
<1>11. CASE StoreEvent
  BY <1>4, <1>7, <1>11 DEF StoreEvent
<1>12. CASE WaiterEvent
  BY <1>4, <1>5, <1>7, <1>12 DEF WaiterEvent
<1>13. ASSUME NEW s \in Streams, OpenStream(s) PROVE Goal
  BY <1>2, <1>7, <1>13 DEF OpenStream
<1>14. ASSUME NEW s \in Streams, StreamLags(s) PROVE Goal
  BY <1>3, <1>7, <1>14 DEF StreamLags
<1>15. ASSUME NEW s \in Streams, StreamEvent(s) PROVE Goal
  BY <1>4, <1>7, <1>15 DEF StreamEvent
<1>16. ASSUME NEW s \in Streams, ClientMessage(s) \/ ClientLeaves(s) PROVE Goal
  BY <1>6, <1>16 DEF ClientMessage, ClientLeaves
<1>17. CASE ChangeView \/ DeleteViewer \/ UNCHANGED evVars
  BY <1>6, <1>17 DEF ChangeView, DeleteViewer, evVars
<1>18. ASSUME NEW k \in EventKinds, Send(k) PROVE Goal
  BY <1>6, <1>18 DEF Send
<1> QED
  BY <1>8, <1>9, <1>10, <1>11, <1>12, <1>13, <1>14, <1>15, <1>16, <1>17, <1>18 DEF EvNext

\* The five ways, and what the receiver has got after each.
LEMMA GotSteps ==
  ASSUME EvTypeOK, PlaceInv, NEW r \in Receivers, next[r] # 0
  PROVE  /\ Got(r) \subseteq 1 .. Len(sent)
         /\ \A e \in Got(r) : e < next[r]
         /\ Rests(r) => Got(r)' = Got(r)
         /\ Skipped(r) => Got(r)' = Got(r)
         /\ Takes(r) => Got(r)' = Got(r) \union {next[r]} /\ next[r] \in 1 .. Len(sent)
<1>1. /\ next[r] \in Nat /\ since[r] \in 1 .. next[r] /\ next[r] <= Len(sent) + 1
      /\ \A e \in missed[r] : e < next[r] /\ e \in Nat
      /\ Len(sent) \in Nat /\ Capacity \in Nat
  BY EventsAssumption, LenProperties DEF EvTypeOK, PlaceInv
<1>2. Got(r) \subseteq 1 .. Len(sent) /\ \A e \in Got(r) : e < next[r]
  BY <1>1 DEF Got
<1>3. Rests(r) => Got(r)' = Got(r)
  BY DEF Rests, Got
<1>4. ASSUME Skipped(r) PROVE Got(r)' = Got(r)
  <2>1. next[r] < Upcoming - Capacity /\ Upcoming \in Nat
    BY <1>1, <1>4 DEF Skipped, Behind, Upcoming
  <2>2. Got(r)' = {e \in since[r] .. Upcoming - Capacity - 1 :
                     e \notin missed[r] \union (next[r] .. Upcoming - Capacity - 1)}
    BY <1>4 DEF Skipped, Got
  <2> QED
    BY <1>1, <2>1, <2>2 DEF Got
<1>5. ASSUME Takes(r) PROVE Got(r)' = Got(r) \union {next[r]} /\ next[r] \in 1 .. Len(sent)
  <2>1. next[r] \in 1 .. Len(sent)
    BY <1>1, <1>5 DEF Takes, Ready, Upcoming
  <2>2. Got(r)' = {e \in since[r] .. next[r] : e \notin missed[r]}
    <3>1. Got(r)' = {e \in since[r] .. (next[r] + 1) - 1 : e \notin missed[r]}
      BY <1>5 DEF Takes, Got
    <3>2. (next[r] + 1) - 1 = next[r]
      BY <1>1
    <3> QED
      BY <3>1, <3>2
  <2> QED
    BY <1>1, <2>1, <2>2 DEF Got
<1> QED
  BY <1>2, <1>3, <1>4, <1>5

\* Nothing that a receiver gets or misses is ahead of it.
LEMMA PlaceStep ==
  ASSUME EvTypeOK, PlaceInv, [EvNext]_evVars
  PROVE  PlaceInv'
<1> SUFFICES ASSUME NEW r \in Receivers, next'[r] # 0
             PROVE  /\ since'[r] \in 1 .. next'[r]
                    /\ next'[r] <= Len(sent') + 1
                    /\ \A e \in missed'[r] : e < next'[r]
  BY DEF PlaceInv
<1>1. /\ next[r] \in Nat /\ since[r] \in Nat /\ missed[r] \subseteq Nat
      /\ Len(sent) \in Nat /\ Len(sent') \in Nat /\ Len(sent) <= Len(sent')
      /\ Capacity \in Nat \ {0}
  BY EventsAssumption, SentGrows DEF EvTypeOK
<1>2. next[r] # 0 => /\ since[r] \in 1 .. next[r]
                     /\ next[r] <= Len(sent) + 1
                     /\ \A e \in missed[r] : e < next[r]
  BY DEF PlaceInv
<1>3. CASE Rests(r)
  BY <1>1, <1>2, <1>3 DEF Rests
<1>4. CASE Subscribes(r)
  BY <1>1, <1>4 DEF Subscribes, Upcoming
<1>5. CASE Takes(r)
  BY <1>1, <1>2, <1>5 DEF Takes, Ready, Upcoming
<1>6. CASE Skipped(r)
  BY <1>1, <1>2, <1>6 DEF Skipped, Behind, Upcoming
<1>7. CASE Leaves(r)
  BY <1>7 DEF Leaves
<1> QED
  BY <1>3, <1>4, <1>5, <1>6, <1>7, ReceiverSteps

\* Only the task of the buffers touches them.
LEMMA BufferSteps ==
  ASSUME EvTypeOK, [EvNext]_evVars
  PROVE  \/ SubscribeBuffer \/ BufferEvent
         \/ /\ Rests("buffer") \/ Skipped("buffer")
            /\ UNCHANGED <<buffer, outputs>>
<1> DEFINE Goal == \/ SubscribeBuffer \/ BufferEvent
                   \/ /\ Rests("buffer") \/ Skipped("buffer")
                      /\ UNCHANGED <<buffer, outputs>>
<1> SUFFICES Goal
  OBVIOUS
<1>1. next \in [Receivers -> Nat] /\ since \in [Receivers -> Nat] /\ missed \in [Receivers -> SUBSET Nat]
      /\ {"buffer", "store", "waiter"} \subseteq Receivers /\ "buffer" \notin Streams
  BY DEF EvTypeOK, Receivers, Streams
<1> USE DEF recordVars, userVars, streamVars, waiterVars
<1>2. ASSUME NEW k \in EventKinds, Send(k) PROVE Goal
  BY <1>1, <1>2 DEF Send, Rests, Skipped, Streams
<1>3. CASE SubscribeBuffer
  BY <1>1, <1>3 DEF SubscribeBuffer, SubscribeTo, Rests, Skipped, Streams
<1>4. CASE SubscribeStore
  BY <1>1, <1>4 DEF SubscribeStore, SubscribeTo, Rests, Skipped, Streams
<1>5. CASE BufferLags
  BY <1>1, <1>5 DEF BufferLags, Lag, Rests, Skipped, Streams
<1>6. CASE BufferEvent
  BY <1>1, <1>6 DEF BufferEvent, Advance, Rests, Skipped, Streams
<1>7. CASE StoreLags
  BY <1>1, <1>7 DEF StoreLags, Lag, Rests, Skipped, Streams
<1>8. CASE StoreEvent
  BY <1>1, <1>8 DEF StoreEvent, Advance, Rests, Skipped, Streams
<1>9. CASE ChangeView
  BY <1>1, <1>9 DEF ChangeView, Rests, Skipped, Streams
<1>10. CASE DeleteViewer
  BY <1>1, <1>10 DEF DeleteViewer, Rests, Skipped, Streams
<1>11. ASSUME NEW s \in Streams, OpenStream(s) PROVE Goal
  BY <1>1, <1>11 DEF OpenStream, SubscribeTo, Rests, Skipped, Streams
<1>12. ASSUME NEW s \in Streams, StreamEvent(s) PROVE Goal
  BY <1>1, <1>12 DEF StreamEvent, Advance, Rests, Skipped, Streams
<1>13. ASSUME NEW s \in Streams, StreamLags(s) PROVE Goal
  BY <1>1, <1>13 DEF StreamLags, Lag, Rests, Skipped, Streams
<1>14. ASSUME NEW s \in Streams, ClientMessage(s) PROVE Goal
  BY <1>1, <1>14 DEF ClientMessage, Rests, Skipped, Streams
<1>15. ASSUME NEW s \in Streams, ClientLeaves(s) PROVE Goal
  BY <1>1, <1>15 DEF ClientLeaves, Rests, Skipped, Streams
<1>16. CASE Call
  BY <1>1, <1>16 DEF Call, SubscribeTo, Rests, Skipped, Streams
<1>17. CASE WaiterEvent
  BY <1>1, <1>17 DEF WaiterEvent, Advance, Rests, Skipped, Streams
<1>18. CASE WaitAgain
  BY <1>1, <1>18 DEF WaitAgain, SubscribeTo, Rests, Skipped, Streams
<1>19. CASE WaiterPanics
  BY <1>1, <1>19 DEF WaiterPanics, Lag, Rests, Skipped, Streams
<1>20. CASE UNCHANGED evVars
  BY <1>1, <1>20 DEF evVars, Rests, Skipped, Streams
<1> QED
  BY <1>2, <1>3, <1>4, <1>5, <1>6, <1>7, <1>8, <1>9, <1>10, <1>11, <1>12, <1>13, <1>14, <1>15,
     <1>16, <1>17, <1>18, <1>19, <1>20 DEF EvNext

\* Only its task touches the store.
LEMMA StoreSteps ==
  ASSUME EvTypeOK, [EvNext]_evVars
  PROVE  \/ SubscribeStore \/ StoreEvent
         \/ /\ Rests("store") \/ (storing /\ Skipped("store"))
            /\ UNCHANGED <<store, storing, closing>>
<1> DEFINE Goal == \/ SubscribeStore \/ StoreEvent
                   \/ /\ Rests("store") \/ (storing /\ Skipped("store"))
                      /\ UNCHANGED <<store, storing, closing>>
<1> SUFFICES Goal
  OBVIOUS
<1>1. next \in [Receivers -> Nat] /\ since \in [Receivers -> Nat] /\ missed \in [Receivers -> SUBSET Nat]
      /\ {"buffer", "store", "waiter"} \subseteq Receivers
  BY DEF EvTypeOK, Receivers, Streams
<1> USE DEF recordVars, userVars, streamVars, waiterVars
<1>2. ASSUME NEW k \in EventKinds, Send(k) PROVE Goal
  BY <1>1, <1>2 DEF Send, Rests, Skipped, Streams
<1>3. CASE SubscribeBuffer
  BY <1>1, <1>3 DEF SubscribeBuffer, SubscribeTo, Rests, Skipped, Streams
<1>4. CASE SubscribeStore
  BY <1>1, <1>4 DEF SubscribeStore, SubscribeTo, Rests, Skipped, Streams
<1>5. CASE BufferLags
  BY <1>1, <1>5 DEF BufferLags, Lag, Rests, Skipped, Streams
<1>6. CASE BufferEvent
  BY <1>1, <1>6 DEF BufferEvent, Advance, Rests, Skipped, Streams
<1>7. CASE StoreLags
  BY <1>1, <1>7 DEF StoreLags, Lag, Rests, Skipped, Streams
<1>8. CASE StoreEvent
  BY <1>1, <1>8 DEF StoreEvent, Advance, Rests, Skipped, Streams
<1>9. CASE ChangeView
  BY <1>1, <1>9 DEF ChangeView, Rests, Skipped, Streams
<1>10. CASE DeleteViewer
  BY <1>1, <1>10 DEF DeleteViewer, Rests, Skipped, Streams
<1>11. ASSUME NEW s \in Streams, OpenStream(s) PROVE Goal
  BY <1>1, <1>11 DEF OpenStream, SubscribeTo, Rests, Skipped, Streams
<1>12. ASSUME NEW s \in Streams, StreamEvent(s) PROVE Goal
  BY <1>1, <1>12 DEF StreamEvent, Advance, Rests, Skipped, Streams
<1>13. ASSUME NEW s \in Streams, StreamLags(s) PROVE Goal
  BY <1>1, <1>13 DEF StreamLags, Lag, Rests, Skipped, Streams
<1>14. ASSUME NEW s \in Streams, ClientMessage(s) PROVE Goal
  BY <1>1, <1>14 DEF ClientMessage, Rests, Skipped, Streams
<1>15. ASSUME NEW s \in Streams, ClientLeaves(s) PROVE Goal
  BY <1>1, <1>15 DEF ClientLeaves, Rests, Skipped, Streams
<1>16. CASE Call
  BY <1>1, <1>16 DEF Call, SubscribeTo, Rests, Skipped, Streams
<1>17. CASE WaiterEvent
  BY <1>1, <1>17 DEF WaiterEvent, Advance, Rests, Skipped, Streams
<1>18. CASE WaitAgain
  BY <1>1, <1>18 DEF WaitAgain, SubscribeTo, Rests, Skipped, Streams
<1>19. CASE WaiterPanics
  BY <1>1, <1>19 DEF WaiterPanics, Lag, Rests, Skipped, Streams
<1>20. CASE UNCHANGED evVars
  BY <1>1, <1>20 DEF evVars, Rests, Skipped, Streams
<1> QED
  BY <1>2, <1>3, <1>4, <1>5, <1>6, <1>7, <1>8, <1>9, <1>10, <1>11, <1>12, <1>13, <1>14, <1>15,
     <1>16, <1>17, <1>18, <1>19, <1>20 DEF EvNext

\* What a console stream delivers, and how it closes.
LEMMA ConsoleSteps ==
  ASSUME EvTypeOK, [EvNext]_evVars
  PROVE  \/ OpenStream("console") \/ StreamEvent("console")
         \/ /\ Rests("console") \/ Skipped("console")
            /\ delivered'["console"] = delivered["console"]
            /\ stream["console"] = "closed" => stream'["console"] = "closed"
<1> DEFINE Goal == \/ OpenStream("console") \/ StreamEvent("console")
                   \/ /\ Rests("console") \/ Skipped("console")
                      /\ delivered'["console"] = delivered["console"]
                      /\ stream["console"] = "closed" => stream'["console"] = "closed"
<1> SUFFICES Goal
  OBVIOUS
<1>1. next \in [Receivers -> Nat] /\ since \in [Receivers -> Nat] /\ missed \in [Receivers -> SUBSET Nat]
      /\ {"buffer", "store", "waiter", "events", "console"} \subseteq Receivers
      /\ stream \in [Streams -> StreamStages] /\ delivered \in [Streams -> SUBSET Nat]
      /\ "console" \in Streams
  BY DEF EvTypeOK, Receivers, Streams
<1> USE DEF recordVars, userVars, streamVars, waiterVars
<1>2. ASSUME NEW k \in EventKinds, Send(k) PROVE Goal
  BY <1>1, <1>2 DEF Send, Rests, Skipped, Streams
<1>3. CASE SubscribeBuffer
  BY <1>1, <1>3 DEF SubscribeBuffer, SubscribeTo, Rests, Skipped, Streams
<1>4. CASE SubscribeStore
  BY <1>1, <1>4 DEF SubscribeStore, SubscribeTo, Rests, Skipped, Streams
<1>5. CASE BufferLags
  BY <1>1, <1>5 DEF BufferLags, Lag, Rests, Skipped, Streams
<1>6. CASE BufferEvent
  BY <1>1, <1>6 DEF BufferEvent, Advance, Rests, Skipped, Streams
<1>7. CASE StoreLags
  BY <1>1, <1>7 DEF StoreLags, Lag, Rests, Skipped, Streams
<1>8. CASE StoreEvent
  BY <1>1, <1>8 DEF StoreEvent, Advance, Rests, Skipped, Streams
<1>9. CASE ChangeView
  BY <1>1, <1>9 DEF ChangeView, Rests, Skipped, Streams
<1>10. CASE DeleteViewer
  BY <1>1, <1>10 DEF DeleteViewer, Rests, Skipped, Streams
<1>11. ASSUME NEW s \in Streams, OpenStream(s) PROVE Goal
  BY <1>1, <1>11 DEF OpenStream, SubscribeTo, Rests, Skipped, Streams
<1>12. ASSUME NEW s \in Streams, StreamEvent(s) PROVE Goal
  BY <1>1, <1>12 DEF StreamEvent, Advance, Rests, Skipped, Streams
<1>13. ASSUME NEW s \in Streams, StreamLags(s) PROVE Goal
  BY <1>1, <1>13 DEF StreamLags, Lag, Rests, Skipped, Streams
<1>14. ASSUME NEW s \in Streams, ClientMessage(s) PROVE Goal
  BY <1>1, <1>14 DEF ClientMessage, Rests, Skipped, Streams
<1>15. ASSUME NEW s \in Streams, ClientLeaves(s) PROVE Goal
  BY <1>1, <1>15 DEF ClientLeaves, Rests, Skipped, Streams
<1>16. CASE Call
  BY <1>1, <1>16 DEF Call, SubscribeTo, Rests, Skipped, Streams
<1>17. CASE WaiterEvent
  BY <1>1, <1>17 DEF WaiterEvent, Advance, Rests, Skipped, Streams
<1>18. CASE WaitAgain
  BY <1>1, <1>18 DEF WaitAgain, SubscribeTo, Rests, Skipped, Streams
<1>19. CASE WaiterPanics
  BY <1>1, <1>19 DEF WaiterPanics, Lag, Rests, Skipped, Streams
<1>20. CASE UNCHANGED evVars
  BY <1>1, <1>20 DEF evVars, Rests, Skipped, Streams
<1> QED
  BY <1>2, <1>3, <1>4, <1>5, <1>6, <1>7, <1>8, <1>9, <1>10, <1>11, <1>12, <1>13, <1>14, <1>15,
     <1>16, <1>17, <1>18, <1>19, <1>20 DEF EvNext

\* Every step keeps the types.
LEMMA TypeStep ==
  ASSUME EvTypeOK, [EvNext]_evVars
  PROVE  EvTypeOK'
<1>1. /\ buffer \in Seq(Nat) /\ outputs \in Seq(Nat) /\ store \in Seq(Nat)
      /\ next \in [Receivers -> Nat]
      /\ stream \in [Streams -> StreamStages] /\ delivered \in [Streams -> SUBSET Nat]
  BY DEF EvTypeOK
<1>2. ASSUME NEW ring \in Seq(Nat), NEW e \in Nat PROVE Push(ring, e) \in Seq(Nat)
  <2>1. CASE Len(ring) # BufferSize
    BY <2>1, AppendProperties DEF Push
  <2>2. CASE Len(ring) = BufferSize
    <3>1. Tail(ring) \in Seq(Nat)
      BY <2>2, EventsAssumption, EmptySeq, HeadTailProperties
    <3> QED
      BY <2>2, <3>1, AppendProperties DEF Push
  <2> QED
    BY <2>1, <2>2
<1>3. /\ next["buffer"] \in Nat /\ next["store"] \in Nat
      /\ \A s \in Streams : next[s] \in Nat
  BY <1>1 DEF Receivers
<1>4. buffer' \in Seq(Nat) /\ outputs' \in Seq(Nat)
  <2>1. CASE BufferEvent
    BY <1>1, <1>2, <1>3, <2>1 DEF BufferEvent
  <2>2. CASE UNCHANGED <<buffer, outputs>>
    BY <1>1, <2>2
  <2> QED
    BY <2>1, <2>2, BufferSteps DEF SubscribeBuffer, recordVars
<1>5. store' \in Seq(Nat)
  <2>1. CASE StoreEvent
    <3>1. Append(store, next["store"]) \in Seq(Nat)
      BY <1>1, <1>3, AppendProperties
    <3> QED
      BY <1>1, <2>1, <3>1 DEF StoreEvent
  <2>2. CASE UNCHANGED store
    BY <1>1, <2>2
  <2> QED
    BY <2>1, <2>2, StoreSteps DEF SubscribeStore
<1>6. stream' \in [Streams -> StreamStages] /\ delivered' \in [Streams -> SUBSET Nat]
  <2>1. ASSUME NEW s \in Streams, OpenStream(s) \/ StreamLags(s) \/ ClientMessage(s) \/ ClientLeaves(s)
        PROVE  <1>6!1 /\ <1>6!2
    BY <1>1, <2>1 DEF OpenStream, StreamLags, ClientMessage, ClientLeaves, StreamStages
  <2>2. ASSUME NEW s \in Streams, StreamEvent(s)
        PROVE  <1>6!1 /\ <1>6!2
    BY <1>1, <1>3, <2>2 DEF StreamEvent, StreamStages
  <2>3. CASE UNCHANGED streamVars
    BY <1>1, <2>3 DEF streamVars
  <2> QED
    BY <2>1, <2>2, <2>3
       DEF EvNext, evVars, streamVars, Send, SubscribeBuffer, SubscribeStore, BufferLags,
           BufferEvent, StoreLags, StoreEvent, ChangeView, DeleteViewer, Call, WaiterEvent,
           WaitAgain, WaiterPanics
<1>7. next' \in [Receivers -> Nat] /\ since' \in [Receivers -> Nat]
        /\ missed' \in [Receivers -> SUBSET Nat]
  <2>1. "buffer" \in Receivers
    BY DEF Receivers
  <2> QED
    BY <2>1, ReceiverSteps
<1> QED
  BY <1>4, <1>5, <1>6, <1>7, SentGrows DEF EvTypeOK

\* The buffers hold the latest of what their task has got (lib.rs:595).
LEMMA BufferStep ==
  ASSUME EvTypeOK, PlaceInv, BufferInv, IdleInv, [EvNext]_evVars
  PROVE  BufferInv'
<1> SUFFICES ASSUME next'["buffer"] # 0
             PROVE  /\ ListsLatest(buffer', BufferSize, {e \in Got("buffer")' : sent'[e] # "console"})
                    /\ ListsLatest(outputs', BufferSize, {e \in Got("buffer")' : sent'[e] = "console"})
  BY DEF BufferInv
<1> DEFINE old == {e \in Got("buffer") : sent[e] # "console"}
           out == {e \in Got("buffer") : sent[e] = "console"}
<1>1. "buffer" \in Receivers
  BY DEF Receivers
<1>2. CASE SubscribeBuffer
  <2>1. buffer' = <<>> /\ outputs' = <<>>
    BY <1>2 DEF SubscribeBuffer, IdleInv, recordVars
  <2>2. Upcoming \in Nat
    BY LenProperties DEF EvTypeOK, Upcoming
  <2>3. next'["buffer"] = Upcoming /\ since'["buffer"] = Upcoming
    BY <1>1, <1>2 DEF SubscribeBuffer, SubscribeTo, EvTypeOK
  <2>4. Got("buffer")' = {}
    BY <2>2, <2>3 DEF Got
  <2> QED
    BY <2>1, <2>4, EmptyLists
<1>3. CASE /\ Rests("buffer") \/ Skipped("buffer")
           /\ UNCHANGED <<buffer, outputs>>
  <2>1. next["buffer"] # 0
    BY <1>3 DEF Rests, Skipped, Behind
  <2>2. Got("buffer")' = Got("buffer") /\ Got("buffer") \subseteq 1 .. Len(sent)
    BY <1>1, <1>3, <2>1, GotSteps
  <2>3. \A e \in Got("buffer") : sent'[e] = sent[e]
    BY <2>2, SentGrows
  <2>4. /\ {e \in Got("buffer")' : sent'[e] # "console"} = old
        /\ {e \in Got("buffer")' : sent'[e] = "console"} = out
    BY <2>2, <2>3
  <2> QED
    BY <1>3, <2>1, <2>4 DEF BufferInv
<1>4. CASE BufferEvent
  <2> DEFINE e == next["buffer"]
  <2>1. Takes("buffer") /\ UNCHANGED sent /\ e # 0 /\ e \in Nat
    BY <1>1, <1>4 DEF BufferEvent, Advance, Takes, Ready, EvTypeOK
  <2>2. /\ Got("buffer")' = Got("buffer") \union {e}
        /\ Got("buffer") \subseteq 1 .. Len(sent)
        /\ \A d \in Got("buffer") : d < e
    BY <1>1, <2>1, GotSteps
  <2>3. old \in SUBSET Nat /\ out \in SUBSET Nat
    BY <2>2
  <2>4. ListsLatest(buffer, BufferSize, old) /\ ListsLatest(outputs, BufferSize, out)
    BY <2>1 DEF BufferInv
  <2>5. buffer \in Seq(Nat) /\ outputs \in Seq(Nat)
    BY DEF EvTypeOK
  <2>6. CASE sent[e] = "console"
    <3>1. /\ {d \in Got("buffer")' : sent'[d] # "console"} = old
          /\ {d \in Got("buffer")' : sent'[d] = "console"} = out \union {e}
      BY <2>1, <2>2, <2>6
    <3>2. outputs' = Push(outputs, e) /\ buffer' = buffer
      BY <1>4, <2>6 DEF BufferEvent
    <3>3. ListsLatest(Push(outputs, e), BufferSize, out \union {e})
      <4>1. \A d \in out : d < e
        BY <2>2
      <4> HIDE DEF e, out
      <4> QED
        BY <2>1, <2>3, <2>4, <2>5, <4>1, PushKeepsLatest
    <3> QED
      BY <2>4, <3>1, <3>2, <3>3
  <2>7. CASE sent[e] # "console"
    <3>1. /\ {d \in Got("buffer")' : sent'[d] # "console"} = old \union {e}
          /\ {d \in Got("buffer")' : sent'[d] = "console"} = out
      BY <2>1, <2>2, <2>7
    <3>2. buffer' = Push(buffer, e) /\ outputs' = outputs
      BY <1>4, <2>7 DEF BufferEvent
    <3>3. ListsLatest(Push(buffer, e), BufferSize, old \union {e})
      <4>1. \A d \in old : d < e
        BY <2>2
      <4> HIDE DEF e, old
      <4> QED
        BY <2>1, <2>3, <2>4, <2>5, <4>1, PushKeepsLatest
    <3> QED
      BY <2>4, <3>1, <3>2, <3>3
  <2> QED
    BY <2>6, <2>7
<1> QED
  BY <1>2, <1>3, <1>4, BufferSteps

\* The store holds what its task has got, but for what it could not insert
\* (db/write.rs:44).
LEMMA StoreStep ==
  ASSUME EvTypeOK, PlaceInv, StoreInv, IdleInv, [EvNext]_evVars
  PROVE  StoreInv'
<1> DEFINE rows == {e \in Got("store") : sent[e] # "update"}
<1>1. "store" \in Receivers
  BY DEF Receivers
<1>2. CASE SubscribeStore
  <2>1. store' = <<>> /\ storing'
    BY <1>2 DEF SubscribeStore, IdleInv
  <2>2. Upcoming \in Nat
    BY LenProperties DEF EvTypeOK, Upcoming
  <2>3. next'["store"] = Upcoming /\ since'["store"] = Upcoming
    BY <1>1, <1>2 DEF SubscribeStore, SubscribeTo, EvTypeOK
  <2>4. Got("store")' = {}
    BY <2>2, <2>3 DEF Got
  <2>5. Rows' = {}
    BY <2>4 DEF Rows
  <2> QED
    BY <2>1, <2>5, EmptyLists DEF StoreInv
<1>3. CASE /\ Rests("store") \/ (storing /\ Skipped("store"))
           /\ UNCHANGED <<store, storing, closing>>
  <2>1. CASE next["store"] = 0
    <3>1. next'["store"] = 0
      BY <1>3, <2>1 DEF Rests, Skipped, Behind
    <3> QED
      BY <3>1 DEF StoreInv
  <2>2. CASE next["store"] # 0
    <3>1. Got("store")' = Got("store") /\ Got("store") \subseteq 1 .. Len(sent)
      BY <1>1, <1>3, <2>2, GotSteps
    <3>2. {e \in Got("store")' : sent'[e] # "update"} = rows
      BY <3>1, SentGrows
    <3>3. CASE storing
      BY <1>3, <2>2, <3>2, <3>3 DEF StoreInv, Rows
    <3>4. CASE ~storing
      <4>1. Rests("store")
        BY <1>3, <3>4
      <4> QED
        BY <1>3, <2>2, <3>2, <3>4, <4>1 DEF StoreInv, Rows, Rests
    <3> QED
      BY <3>3, <3>4
  <2> QED
    BY <2>1, <2>2
<1>4. CASE StoreEvent
  <2> DEFINE e == next["store"]
  <2>1. Takes("store") /\ UNCHANGED sent /\ e # 0 /\ e \in Nat /\ storing
    BY <1>1, <1>4 DEF StoreEvent, Advance, Takes, Ready, EvTypeOK
  <2>2. /\ Got("store")' = Got("store") \union {e}
        /\ Got("store") \subseteq 1 .. Len(sent)
        /\ \A d \in Got("store") : d < e
    BY <1>1, <2>1, GotSteps
  <2>3. store \in Seq(Nat) /\ rows \in SUBSET Nat /\ Lists(store, rows)
    BY <2>1, <2>2 DEF EvTypeOK, StoreInv, Rows
  <2>4. next'["store"] - 1 = e
    BY <2>1 DEF Takes
  <2>5. CASE sent[e] = "update"
    <3>1. {d \in Got("store")' : sent'[d] # "update"} = rows
      BY <2>1, <2>2, <2>5
    <3>2. storing' = storing /\ store' = store
      BY <1>4, <2>5 DEF StoreEvent
    <3> QED
      BY <2>1, <2>3, <3>1, <3>2 DEF StoreInv, Rows
  <2>6. CASE sent[e] # "update"
    <3>1. {d \in Got("store")' : sent'[d] # "update"} = rows \union {e}
      BY <2>1, <2>2, <2>6
    <3>2. CASE store' = Append(store, e) /\ UNCHANGED <<storing, closing>>
      <4>1. Lists(Append(store, e), rows \union {e})
        <5>1. \A d \in Range(store) : d < e
          BY <2>2, <2>3 DEF Lists
        <5> QED
          BY <2>1, <2>3, <5>1, AppendIncreases, RangeOfAppend DEF Lists
      <4> QED
        BY <2>1, <3>1, <3>2, <4>1 DEF StoreInv, Rows
    <3>3. CASE ~storing' /\ closing' /\ UNCHANGED store
      <4>1. (rows \union {e}) \ {e} = rows
        BY <2>2
      <4> QED
        BY <2>3, <2>4, <3>1, <3>3, <4>1 DEF StoreInv, Rows
    <3> QED
      BY <1>4, <2>6, <3>2, <3>3 DEF StoreEvent
  <2> QED
    BY <2>5, <2>6
<1> QED
  BY <1>2, <1>3, <1>4, StoreSteps

\* The tasks write only once they have subscribed, and stay subscribed.
LEMMA IdleStep ==
  ASSUME EvTypeOK, IdleInv, [EvNext]_evVars
  PROVE  IdleInv'
<1>1. ASSUME next'["buffer"] = 0 PROVE buffer' = <<>> /\ outputs' = <<>>
  <2>1. next["buffer"] = 0 /\ UNCHANGED <<buffer, outputs>>
    <3>1. "buffer" \in Receivers /\ next["buffer"] \in Nat /\ Upcoming \in Nat \ {0} /\ Capacity \in Nat
      BY EventsAssumption, LenProperties DEF EvTypeOK, Receivers, Upcoming
    <3>2. ~SubscribeBuffer /\ ~BufferEvent
      BY <1>1, <3>1 DEF SubscribeBuffer, BufferEvent, SubscribeTo, Advance, EvTypeOK
    <3>3. ~Skipped("buffer")
      BY <1>1, <3>1 DEF Skipped, Behind
    <3> QED
      BY <1>1, <3>2, <3>3, BufferSteps DEF Rests
  <2> QED
    BY <2>1 DEF IdleInv
<1>2. ASSUME next'["store"] = 0 PROVE store' = <<>> /\ ~storing'
  <2>1. next["store"] = 0 /\ UNCHANGED <<store, storing>>
    <3>1. "store" \in Receivers /\ next["store"] \in Nat /\ Upcoming \in Nat \ {0} /\ Capacity \in Nat
      BY EventsAssumption, LenProperties DEF EvTypeOK, Receivers, Upcoming
    <3>2. ~SubscribeStore /\ ~StoreEvent
      BY <1>2, <3>1 DEF SubscribeStore, StoreEvent, SubscribeTo, Advance, EvTypeOK
    <3>3. ~Skipped("store")
      BY <1>2, <3>1 DEF Skipped, Behind
    <3> QED
      BY <1>2, <3>2, <3>3, StoreSteps DEF Rests
  <2> QED
    BY <2>1 DEF IdleInv
<1> QED
  BY <1>1, <1>2 DEF IdleInv

\* A console stream that gets the logout of its user closes before it delivers
\* anything else (handlers/events.rs:243-283).
LEMMA ConsoleStep ==
  ASSUME EvTypeOK, PlaceInv, ConsoleInv, [EvNext]_evVars
  PROVE  ConsoleInv'
<1> DEFINE LoggedOut == \E out \in Got("console") : sent[out] = "logout"
<1>1. /\ "console" \in Receivers /\ "console" \in Streams
      /\ next["console"] \in Nat
      /\ stream \in [Streams -> StreamStages] /\ delivered \in [Streams -> SUBSET Nat]
  BY DEF EvTypeOK, Receivers, Streams
<1>2. CASE OpenStream("console")
  <2>1. Upcoming \in Nat \ {0}
    BY LenProperties DEF EvTypeOK, Upcoming
  <2>2. /\ next'["console"] = Upcoming /\ since'["console"] = Upcoming
        /\ delivered'["console"] = {}
    BY <1>1, <1>2 DEF OpenStream, SubscribeTo, EvTypeOK, ConsoleInv
  <2>3. Got("console")' = {}
    BY <2>1, <2>2 DEF Got
  <2> QED
    BY <2>1, <2>2, <2>3 DEF ConsoleInv, ConsoleEndsWithSession
<1>3. CASE /\ Rests("console") \/ Skipped("console")
           /\ delivered'["console"] = delivered["console"]
           /\ stream["console"] = "closed" => stream'["console"] = "closed"
  <2>1. CASE next["console"] = 0
    BY <1>3, <2>1 DEF Rests, Skipped, Behind, ConsoleInv, ConsoleEndsWithSession
  <2>2. CASE next["console"] # 0
    <3>1. Got("console")' = Got("console") /\ Got("console") \subseteq 1 .. Len(sent)
      BY <1>1, <1>3, <2>2, GotSteps
    <3>2. LoggedOut' => LoggedOut
      BY <3>1, SentGrows
    <3>3. \A e \in delivered'["console"] : e < next["console"] /\ e \in Nat
      BY <1>1, <1>3, <2>2 DEF ConsoleInv
    <3>4. next["console"] <= next'["console"]
      <4>1. Upcoming \in Nat /\ Capacity \in Nat
        BY EventsAssumption, LenProperties DEF EvTypeOK, Upcoming
      <4> QED
        BY <1>1, <1>3, <4>1 DEF Rests, Skipped, Behind
    <3>5. missed["console"] \subseteq missed'["console"] /\ since'["console"] = since["console"]
      BY <1>3 DEF Rests, Skipped
    <3>6. next'["console"] \in Nat /\ next["console"] <= Len(sent) + 1
      BY <1>1, <2>2, ReceiverSteps DEF PlaceInv
    <3>7. ConsoleEndsWithSession'
      <4> SUFFICES ASSUME NEW e \in delivered'["console"], NEW out \in 1 .. Len(sent'),
                          sent'[out] = "logout", since'["console"] <= out, out < e
                   PROVE  out \in missed'["console"]
        BY DEF ConsoleEndsWithSession
      <4>1. e \in delivered["console"] /\ out \in 1 .. Len(sent)
        <5>1. Len(sent) \in Nat /\ Len(sent') \in Nat
          BY SentGrows
        <5>2. e < next["console"] /\ e \in Nat /\ out \in Nat
          BY <3>3, <5>1
        <5> QED
          BY <1>1, <1>3, <3>6, <5>1, <5>2
      <4>2. sent[out] = "logout"
        BY <4>1, SentGrows
      <4> QED
        BY <3>5, <4>1, <4>2 DEF ConsoleInv, ConsoleEndsWithSession
    <3> QED
      BY <1>1, <1>3, <2>2, <3>2, <3>3, <3>4, <3>6, <3>7 DEF ConsoleInv
  <2> QED
    BY <2>1, <2>2
<1>4. CASE StreamEvent("console")
  <2> DEFINE e == next["console"]
  <2>1. Takes("console") /\ UNCHANGED sent /\ e # 0 /\ e \in Nat /\ stream["console"] # "closed"
    BY <1>1, <1>4 DEF StreamEvent, Advance, Takes, Ready, EvTypeOK
  <2>2. /\ Got("console")' = Got("console") \union {e}
        /\ Got("console") \subseteq 1 .. Len(sent)
        /\ \A d \in Got("console") : d < e
    BY <1>1, <2>1, GotSteps
  <2>3. ~LoggedOut
    BY <2>1 DEF ConsoleInv
  <2>4. delivered'["console"] \subseteq delivered["console"] \union {e}
    BY <1>1, <1>4 DEF StreamEvent
  <2>5. sent[e] = "logout" => stream'["console"] = "closed"
    BY <1>1, <1>4 DEF StreamEvent, Skips, Breaks
  <2>6. \A d \in delivered'["console"] : d < next'["console"]
    BY <1>1, <2>1, <2>4 DEF ConsoleInv, Takes
  <2>7. LoggedOut' => stream'["console"] = "closed"
    BY <2>1, <2>2, <2>3, <2>5
  <2>8. ConsoleEndsWithSession'
    <3> SUFFICES ASSUME NEW d \in delivered'["console"], NEW out \in 1 .. Len(sent),
                        sent[out] = "logout", since["console"] <= out, out < d
                 PROVE  out \in missed["console"]
      BY <2>1 DEF ConsoleEndsWithSession, Takes
    <3>1. CASE d \in delivered["console"]
      BY <3>1 DEF ConsoleInv, ConsoleEndsWithSession
    <3>2. CASE d = e
      <4>1. since["console"] \in Nat
        BY <1>1 DEF EvTypeOK
      <4>2. out \notin Got("console")
        BY <2>3
      <4> QED
        BY <1>1, <3>2, <4>1, <4>2 DEF Got
    <3> QED
      BY <2>4, <3>1, <3>2
  <2>9. next'["console"] # 0
    BY <2>1 DEF Takes
  <2> QED
    BY <2>6, <2>7, <2>8, <2>9 DEF ConsoleInv
<1> QED
  BY <1>2, <1>3, <1>4, ConsoleSteps

\* Before anything is sent there is nothing to get.
LEMMA InitOK == EvInit => IInv
<1> SUFFICES ASSUME EvInit PROVE IInv
  OBVIOUS
<1>1. EvTypeOK
  BY EmptySeq DEF EvTypeOK, EvInit, StreamStages
<1>2. PlaceInv /\ BufferInv /\ StoreInv /\ IdleInv
  BY DEF EvInit, PlaceInv, BufferInv, StoreInv, IdleInv, Receivers
<1>3. ConsoleInv
  BY DEF EvInit, ConsoleInv, ConsoleEndsWithSession, Receivers, Streams
<1> QED
  BY <1>1, <1>2, <1>3 DEF IInv

\* The parts together are inductive.
THEOREM Inductive == EvSpec => []IInv
<1>1. IInv /\ [EvNext]_evVars => IInv'
  BY TypeStep, PlaceStep, BufferStep, StoreStep, IdleStep, ConsoleStep DEF IInv
<1> QED
  BY InitOK, <1>1, PTL DEF EvSpec

\* The buffers and the event store hold what was sent, in order and once, but for
\* what their task fell behind, for any capacity and size (lib.rs:595,
\* db/write.rs:24, 44).
THEOREM HistoryInOrder == EvSpec => []HistoryIsComplete
<1>1. IInv => HistoryIsComplete
  BY DEF IInv, BufferInv, StoreInv, HistoryIsComplete
<1> QED
  BY Inductive, <1>1, PTL

\* No console stream delivers what was sent after the logout of its user, unless
\* it fell behind just then (handlers/events.rs:243-283).
THEOREM NothingAfterLogout == EvSpec => []ConsoleEndsWithSession
<1>1. IInv => ConsoleEndsWithSession
  BY DEF IInv, ConsoleInv
<1> QED
  BY Inductive, <1>1, PTL
====
