---- MODULE EventBroadcast ----
(***************************************************************************)
(* The event broadcaster (core/src/event_broadcaster.rs) and those who     *)
(* listen: the event and console buffers (core/src/lib.rs), the event      *)
(* store (core/src/db/write.rs), the two web socket streams of a user      *)
(* (core/src/handlers/events.rs) and a macro that waits for the next       *)
(* change of state of an instance.                                         *)
(*                                                                         *)
(* The channel keeps the last Capacity events (512).  A receiver that      *)
(* falls further behind is told so once and goes on with the oldest event  *)
(* there is.  Events are known by their place in what was sent.            *)
(***************************************************************************)
EXTENDS Naturals, Sequences, Functions

CONSTANTS
  Capacity,    \* of the channel
  BufferSize,  \* of the event buffer (512) and of a console buffer (1024)
  MaxEvents,   \* bound: how many events are sent
  Wanted       \* the kinds of events the query of the event stream admits

VARIABLES
  sent,       \* the kinds of the events sent so far
  next,       \* the event each receiver gets next; 0: it has not subscribed
  since,      \* the first event each receiver could get
  missed,     \* the events each receiver has fallen behind
  buffer,     \* events_buffer
  outputs,    \* console_out_buffer of the one instance
  store,      \* the rows of ClientEvents
  storing,    \* does the event store's task run?
  closing,    \* has Lodestone begun to shut down?
  session,    \* the streams' user: "in", "out" or "deleted"
  mayView,    \* may the user view the instance?
  stream,     \* where each stream is
  delivered,  \* the events each stream has delivered
  waiter,     \* the macro that waits: "idle", "waiting", "between", "panicked"
  asked,      \* the first event sent after the macro asked
  answer      \* the event it was given last

evVars == <<sent, next, since, missed, buffer, outputs, store, storing, closing, session,
            mayView, stream, delivered, waiter, asked, answer>>
recordVars == <<buffer, outputs, store, storing, closing>>
userVars   == <<session, mayView>>
streamVars == <<stream, delivered>>
waiterVars == <<waiter, asked, answer>>

\* Output of an instance, its changes of state, progress under way, its end, and
\* the logout of the streams' user.
EventKinds == {"console", "state", "update", "end", "logout"}

Streams   == {"events", "console"}
Receivers == {"buffer", "store", "waiter"} \union Streams

InstanceEvent(e) == sent[e] \in {"console", "state"}

ASSUME EventsAssumption ==
  /\ Capacity \in Nat \ {0}
  /\ BufferSize \in Nat \ {0}
  /\ MaxEvents \in Nat
  /\ Wanted \subseteq EventKinds

EvInit ==
  /\ sent = <<>>
  /\ next = [r \in Receivers |-> 0]
  /\ since = [r \in Receivers |-> 0]
  /\ missed = [r \in Receivers |-> {}]
  /\ buffer = <<>>
  /\ outputs = <<>>
  /\ store = <<>>
  /\ storing = FALSE
  /\ closing = FALSE
  /\ session = "in"
  /\ mayView = TRUE
  /\ stream = [s \in Streams |-> "closed"]
  /\ delivered = [s \in Streams |-> {}]
  /\ waiter = "idle"
  /\ asked = 0
  /\ answer = 0

-----------------------------------------------------------------------------
(* The channel *)

\* The place of the next event that is sent.
Upcoming == Len(sent) + 1

\* EventBroadcaster::send; user and session change with the events that say so.
Send(k) ==
  /\ Len(sent) < MaxEvents
  /\ k = "logout" => session = "in"
  /\ sent' = Append(sent, k)
  /\ session' = IF k = "logout" THEN "out" ELSE session
  /\ UNCHANGED <<next, since, missed, recordVars, mayView, streamVars, waiterVars>>

SubscribeTo(r) ==
  /\ next' = [next EXCEPT ![r] = Upcoming]
  /\ since' = [since EXCEPT ![r] = Upcoming]
  /\ missed' = [missed EXCEPT ![r] = {}]

Behind(r) == next[r] # 0 /\ next[r] + Capacity < Upcoming

Ready(r) == next[r] # 0 /\ next[r] < Upcoming /\ ~Behind(r)

Advance(r) == next' = [next EXCEPT ![r] = @ + 1]

Lag(r) ==
  /\ Behind(r)
  /\ next' = [next EXCEPT ![r] = Upcoming - Capacity]
  /\ missed' = [missed EXCEPT ![r] = @ \union (next[r] .. Upcoming - Capacity - 1)]

\* A ring buffer forgets the oldest element.
Push(ring, e) ==
  IF Len(ring) = BufferSize THEN Append(Tail(ring), e) ELSE Append(ring, e)

-----------------------------------------------------------------------------
(* Buffers and store *)

\* Start-up subscribes for the buffers, and then for the store, after instances
\* were restored and started.
SubscribeBuffer ==
  /\ next["buffer"] = 0
  /\ SubscribeTo("buffer")
  /\ UNCHANGED <<sent, recordVars, userVars, streamVars, waiterVars>>

SubscribeStore ==
  /\ next["buffer"] # 0
  /\ next["store"] = 0
  /\ SubscribeTo("store")
  /\ storing' = TRUE
  /\ UNCHANGED <<sent, buffer, outputs, store, closing, userVars, streamVars, waiterVars>>

\* Mutant: what lags behind starts again from an empty buffer.
BufferLagForgets ==
  /\ Lag("buffer")
  /\ buffer' = <<>>
  /\ UNCHANGED <<sent, since, outputs, store, storing, closing, userVars, streamVars, waiterVars>>

BufferLags ==
  /\ Lag("buffer")
  /\ UNCHANGED <<sent, since, recordVars, userVars, streamVars, waiterVars>>

BufferEvent ==
  LET e == next["buffer"] IN
  /\ Ready("buffer")
  /\ Advance("buffer")
  /\ IF sent[e] = "console"
     THEN outputs' = Push(outputs, e) /\ UNCHANGED buffer
     ELSE buffer' = Push(buffer, e) /\ UNCHANGED outputs
  /\ UNCHANGED <<sent, since, missed, store, storing, closing, userVars, streamVars, waiterVars>>

StoreLags ==
  /\ storing
  /\ Lag("store")
  /\ UNCHANGED <<sent, since, recordVars, userVars, streamVars, waiterVars>>

\* Updates of a progression are skipped.  An insertion that fails ends the task,
\* and lib.rs takes its end for a request to shut down.
StoreEvent ==
  LET e == next["store"] IN
  /\ storing
  /\ Ready("store")
  /\ Advance("store")
  /\ \/ /\ store' = IF sent[e] = "update" THEN store ELSE Append(store, e)
        /\ UNCHANGED <<storing, closing>>
     \/ /\ sent[e] # "update"
        /\ storing' = FALSE
        /\ closing' = TRUE
        /\ UNCHANGED store
  /\ UNCHANGED <<sent, since, missed, buffer, outputs, userVars, streamVars, waiterVars>>

-----------------------------------------------------------------------------
(* The streams of a user *)

\* The token is checked, and the receiver subscribes.
OpenStream(s) ==
  /\ stream[s] = "closed"
  /\ next[s] = 0
  /\ session = "in"
  /\ SubscribeTo(s)
  /\ stream' = [stream EXCEPT ![s] = "open"]
  /\ UNCHANGED <<sent, recordVars, userVars, delivered, waiterVars>>

\* An administrator changes what the user may view, or deletes the account.
ChangeView ==
  /\ mayView' = ~mayView
  /\ UNCHANGED <<sent, next, since, missed, recordVars, session, streamVars, waiterVars>>

DeleteViewer ==
  /\ session # "deleted"
  /\ session' = "deleted"
  /\ UNCHANGED <<sent, next, since, missed, recordVars, mayView, streamVars, waiterVars>>

\* can_view_event: a user who is no administrator sees no user events.
CanView(e) ==
  CASE InstanceEvent(e)    -> mayView
    [] sent[e] = "logout"  -> FALSE
    [] ~InstanceEvent(e) /\ sent[e] # "logout" -> TRUE

\* The event branch of the two loops: what is looked at, and in what order.
Skips(s, e) ==
  IF s = "events" THEN sent[e] = "console" ELSE sent[e] \in {"update", "end"}

\* Mutant: a console stream outlives its user's session.
BreaksOnDeletion(s, e) == sent[e] # "logout" /\ session = "deleted"

Breaks(s, e) ==
  \/ session = "deleted" /\ (s = "events" \/ sent[e] # "logout")
  \/ s = "console" /\ sent[e] = "logout"

Delivers(s, e) ==
  /\ CanView(e)
  /\ IF s = "events" THEN sent[e] \in Wanted ELSE sent[e] = "console"

\* The socket refuses the message when its client is gone.
StreamEvent(s) ==
  LET e == next[s] IN
  /\ stream[s] \in {"open", "left"}
  /\ Ready(s)
  /\ Advance(s)
  /\ IF Skips(s, e) THEN
       /\ stream' = [stream EXCEPT ![s] = "open"]
       /\ UNCHANGED delivered
     ELSE IF Breaks(s, e) THEN
       /\ stream' = [stream EXCEPT ![s] = "closed"]
       /\ UNCHANGED delivered
     ELSE IF Delivers(s, e) THEN
       \/ /\ stream[s] = "open"
          /\ delivered' = [delivered EXCEPT ![s] = @ \union {e}]
          /\ UNCHANGED stream
       \/ /\ stream' = [stream EXCEPT ![s] = "closed"]
          /\ UNCHANGED delivered
     ELSE
       /\ stream' = [stream EXCEPT ![s] = "open"]
       /\ UNCHANGED delivered
  /\ UNCHANGED <<sent, since, missed, recordVars, userVars, waiterVars>>

\* "Ok(event) = recv()" does not match Lagged, and select! goes on with the
\* other branch alone: the stream is deaf until its client says something.
\* When that branch is out as well, select! panics.
StreamLags(s) ==
  /\ stream[s] \in {"open", "left"}
  /\ Lag(s)
  /\ stream' = [stream EXCEPT ![s] = IF @ = "left" THEN "closed" ELSE "deaf"]
  /\ UNCHANGED <<sent, since, recordVars, userVars, delivered, waiterVars>>

\* A message of the client is sent back; or the socket is closed.
ClientMessage(s) ==
  /\ stream[s] \in {"open", "deaf"}
  /\ stream' \in {[stream EXCEPT ![s] = "open"], [stream EXCEPT ![s] = "closed"]}
  /\ UNCHANGED <<sent, next, since, missed, recordVars, userVars, delivered, waiterVars>>

\* The client's side of the socket ends: nothing notices before the next event.
ClientLeaves(s) ==
  /\ stream[s] \in {"open", "deaf"}
  /\ stream' = [stream EXCEPT ![s] = IF @ = "deaf" THEN "closed" ELSE "left"]
  /\ UNCHANGED <<sent, next, since, missed, recordVars, userVars, delivered, waiterVars>>

-----------------------------------------------------------------------------
(* next_instance_state_change *)

Call ==
  /\ waiter = "idle"
  /\ waiter' = "waiting"
  /\ SubscribeTo("waiter")
  /\ asked' = Upcoming
  /\ answer' = 0
  /\ UNCHANGED <<sent, recordVars, userVars, streamVars>>

\* next_instance_event skips what is not of the instance and returns the rest,
\* its receiver with all it has not read yet dropped.
WaiterEvent ==
  LET e == next["waiter"] IN
  /\ waiter = "waiting"
  /\ Ready("waiter")
  /\ IF ~InstanceEvent(e) THEN
       /\ Advance("waiter")
       /\ UNCHANGED <<waiter, answer>>
     ELSE
       /\ next' = [next EXCEPT !["waiter"] = 0]
       /\ waiter' = IF sent[e] = "state" THEN "idle" ELSE "between"
       /\ answer' = IF sent[e] = "state" THEN e ELSE answer
  /\ UNCHANGED <<sent, since, missed, recordVars, userVars, streamVars, asked>>

\* The loop of next_instance_state_change subscribes anew.
WaitAgain ==
  /\ waiter = "between"
  /\ waiter' = "waiting"
  /\ SubscribeTo("waiter")
  /\ UNCHANGED <<sent, recordVars, userVars, streamVars, asked, answer>>

\* recv().expect("Infallible")
WaiterPanics ==
  /\ waiter = "waiting"
  /\ Lag("waiter")
  /\ waiter' = "panicked"
  /\ UNCHANGED <<sent, since, recordVars, userVars, streamVars, asked, answer>>

EvNext ==
  \/ \E k \in EventKinds : Send(k)
  \/ SubscribeBuffer \/ SubscribeStore
  \/ BufferLags \/ BufferEvent \/ StoreLags \/ StoreEvent
  \/ ChangeView \/ DeleteViewer
  \/ \E s \in Streams : \/ OpenStream(s) \/ StreamEvent(s) \/ StreamLags(s)
                        \/ ClientMessage(s) \/ ClientLeaves(s)
  \/ Call \/ WaiterEvent \/ WaitAgain \/ WaiterPanics

EvSpec == EvInit /\ [][EvNext]_evVars

-----------------------------------------------------------------------------
(* Properties *)

Got(r) == {e \in since[r] .. next[r] - 1 : e \notin missed[r]}

Increases(seq) == \A i, j \in DOMAIN seq : i < j => seq[i] < seq[j]

\* The events in the order they were sent, none twice.
Lists(seq, events) == Increases(seq) /\ Range(seq) = events

\* The latest n of the events, or all if there are no more than n.
ListsLatest(seq, n, events) ==
  /\ Increases(seq)
  /\ Range(seq) \subseteq events
  /\ Len(seq) <= n
  /\ \A e \in events \ Range(seq) : Len(seq) = n /\ \A d \in Range(seq) : e < d

\* What the store must hold: an event whose insertion failed is the last it took.
Rows ==
  LET rows == {e \in Got("store") : sent[e] # "update"} IN
  IF storing THEN rows ELSE rows \ {next["store"] - 1}

\* The buffers hold the latest events, and the store all but updates, in the
\* order they were sent and none twice, but for those their task fell behind and
\* those sent before it subscribed; only an insertion that failed, the last one
\* tried, is missing from the store, and it shuts Lodestone down.
HistoryIsComplete ==
  /\ next["buffer"] # 0 =>
       /\ ListsLatest(buffer, BufferSize, {e \in Got("buffer") : sent[e] # "console"})
       /\ ListsLatest(outputs, BufferSize, {e \in Got("buffer") : sent[e] = "console"})
  /\ next["store"] # 0 => Lists(store, Rows)
  /\ storing \/ next["store"] = 0 \/ closing

\* A console stream delivers nothing that was sent after its user logged out,
\* unless it fell behind just then and never saw the logout.
ConsoleEndsWithSession ==
  \A e \in delivered["console"], out \in 1 .. Len(sent) :
    (sent[out] = "logout" /\ since["console"] <= out /\ out < e) => out \in missed["console"]

\* next_instance_state_change returns the next change of state, as its comment
\* says: none was sent between the call and the one returned.
ReturnsTheNext ==
  answer # 0 => \A e \in asked .. answer - 1 : sent[e] # "state"
====
