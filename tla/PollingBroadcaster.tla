------------------------- MODULE PollingBroadcaster -------------------------
(***************************************************************************)
(* internal/events: the broadcaster of a single instance.  File operations *)
(* call Record; every open event stream is a subscription with a buffered  *)
(* channel; database workers save events, and a poller, started with the   *)
(* first subscription and stopped with the last, reads them back.          *)
(*                                                                         *)
(* Sources: broadcaster.go (the base) and polling.go.  A step is what runs *)
(* under one lock, one channel operation or one statement of the database. *)
(* subMu protects the header of the subscribers slice; the array behind it *)
(* is shared with every broadcast that copied the header, and Unsubscribe  *)
(* shifts it in place, so arrays are modelled.  All subscriptions are      *)
(* those of one user.                                                      *)
(***************************************************************************)
EXTENDS Naturals, Sequences, FiniteSets

CONSTANTS
    Subs,               \* subscriptions, each used once
    Events,             \* ids of the events that are recorded
    ChannelSize,        \* make(chan models.Event, 100)
    DBBufferSize,       \* capacity of dbWorkerCh
    DeduplicationTTL,
    MaxTime             \* bound of the clock

ASSUME BroadcasterAssumption ==
    /\ IsFiniteSet(Subs)
    /\ {ChannelSize, DBBufferSize, DeduplicationTTL, MaxTime} \subseteq Nat

\* One poller goroutine per subscription at most is ever started.
Pollers == 1..Cardinality(Subs)

\* Who broadcasts: a poller, or the handler that records an event.
Agents == {<<"poll", i>> : i \in Pollers} \cup {<<"record", e>> : e \in Events}

VARIABLES
    now,
    pc,             \* where each subscription is
    arrays,         \* the arrays that subscriber slices were made from
    slice,          \* b.subscribers[userID]: array and length
    channel,        \* what is in the channel of a subscription
    closed,         \* subscriptions whose channel is closed
    polling, lastPollTime,
    poller,         \* where each poller goroutine is
    pollAt,         \* checkForNewEvents: the time it read first
    batch,          \* checkForNewEvents: events still to be looked at
    recorder,       \* where the Record call of each event is
    createdAt,      \* the time of createEvent
    walk,           \* broadcast: the copied header and the next index
    dbWorkerCh,
    db,             \* rows of teldrive.events
    recentEvents,   \* deduplication: event -> time
    cancelled,      \* the context is done
    polled,         \* polled[e]: how often a poller broadcast e (ghost)
    panicked        \* a send hit a closed channel (ghost)

subVars == <<pc, arrays, slice, closed>>
pollVars == <<polling, lastPollTime, poller, pollAt, batch>>
recordVars == <<recorder, createdAt, dbWorkerCh, db>>
sendVars == <<channel, walk, panicked>>
vars == <<now, subVars, pollVars, recordVars, sendVars, recentEvents,
          polled, cancelled>>

NilSlice == [array |-> 0, len |-> 0]
NoWalk == [evt |-> 0, array |-> 0, len |-> 0, next |-> 0]
Nobody == 0

\* What the subscribers slice holds.
Subscribed == {arrays[slice.array][i] : i \in 1..slice.len}

Init ==
    /\ now = 0
    /\ pc = [s \in Subs |-> "off"]
    /\ arrays = << >>
    /\ slice = NilSlice
    /\ channel = [s \in Subs |-> << >>]
    /\ closed = {}
    /\ polling = FALSE
    /\ lastPollTime = 0
    /\ poller = [i \in Pollers |-> "none"]
    /\ pollAt = [i \in Pollers |-> 0]
    /\ batch = [i \in Pollers |-> {}]
    /\ recorder = [e \in Events |-> "none"]
    /\ createdAt = [e \in Events |-> 0]
    /\ walk = [g \in Agents |-> NoWalk]
    /\ dbWorkerCh = << >>
    /\ db = {}
    /\ recentEvents = [e \in {} |-> 0]
    /\ cancelled = FALSE
    /\ polled = [e \in Events |-> 0]
    /\ panicked = FALSE

----------------------------------------------------------------------------
(* Subscribe.                                                              *)

\* append(b.subscribers[userID], ch): in place while the array has room,
\* otherwise into a new array of twice the size.
AppendSub(s) ==
    LET size == IF slice.array = 0 THEN 0 ELSE Len(arrays[slice.array])
        grown == [i \in 1..(IF size = 0 THEN 1 ELSE 2 * size) |->
                    IF i <= slice.len THEN arrays[slice.array][i]
                    ELSE IF i = slice.len + 1 THEN s ELSE Nobody] IN
    IF slice.len < size
    THEN /\ arrays' = [arrays EXCEPT ![slice.array][slice.len + 1] = s]
         /\ slice' = [slice EXCEPT !.len = @ + 1]
    ELSE /\ arrays' = Append(arrays, grown)
         /\ slice' = [array |-> Len(arrays) + 1, len |-> slice.len + 1]

\* Under subMu; the total decides whether polling is started afterwards.
Subscribe(s) ==
    /\ pc[s] = "off"
    /\ AppendSub(s)
    /\ pc' = [pc EXCEPT ![s] = IF slice.len + 1 = 1 THEN "start" ELSE "on"]
    /\ UNCHANGED <<now, closed, pollVars, recordVars, sendVars,
                   recentEvents, polled, cancelled>>

\* startPolling, under pollMu.
StartPolling(s) ==
    /\ pc[s] = "start"
    /\ pc' = [pc EXCEPT ![s] = "on"]
    /\ IF polling
       THEN UNCHANGED <<polling, lastPollTime, poller>>
       ELSE /\ polling' = TRUE
            /\ lastPollTime' = now
            /\ \E i \in Pollers :
                  /\ poller[i] = "none"
                  /\ \A j \in 1..(i - 1) : poller[j] # "none"
                  /\ poller' = [poller EXCEPT ![i] = "wait"]
    /\ UNCHANGED <<now, arrays, slice, closed, pollAt, batch, recordVars,
                   sendVars, recentEvents, polled, cancelled>>

----------------------------------------------------------------------------
(* Unsubscribe.                                                            *)

\* Fault: the last element goes, whichever was asked for.
RemoveSubLast(s) ==
    /\ arrays' = arrays
    /\ slice' = IF slice.len = 1 THEN NilSlice
                ELSE [slice EXCEPT !.len = @ - 1]

\* append(subs[:i], subs[i+1:]...): the elements behind i move one place
\* down in the same array, whose last place keeps what it had.
RemoveSub(s) ==
    LET old == arrays[slice.array]
        at == CHOOSE i \in 1..slice.len : old[i] = s IN
    /\ arrays' = [arrays EXCEPT ![slice.array] =
                    [i \in DOMAIN old |->
                        IF i \in at..(slice.len - 1) THEN old[i + 1]
                                                     ELSE old[i]]]
    /\ slice' = IF slice.len = 1 THEN NilSlice
                ELSE [slice EXCEPT !.len = @ - 1]

\* The stream's handler ends.
Unsubscribe(s) ==
    /\ pc[s] = "on"
    /\ RemoveSub(s)
    /\ pc' = [pc EXCEPT ![s] = IF slice.len - 1 = 0 THEN "stop" ELSE "drain"]
    /\ UNCHANGED <<now, closed, pollVars, recordVars, channel, walk,
                   panicked, recentEvents, polled, cancelled>>

\* Fault: the flag is left as it is.
StopPollingForgotten(s) ==
    /\ pc[s] = "stop"
    /\ pc' = [pc EXCEPT ![s] = "drain"]
    /\ UNCHANGED <<now, arrays, slice, closed, pollVars, recordVars,
                   sendVars, recentEvents, polled, cancelled>>

\* stopPolling, under pollMu.
StopPolling(s) ==
    /\ pc[s] = "stop"
    /\ pc' = [pc EXCEPT ![s] = "drain"]
    /\ polling' = FALSE
    /\ UNCHANGED <<now, arrays, slice, closed, lastPollTime, poller, pollAt,
                   batch, recordVars, sendVars, recentEvents, polled,
                   cancelled>>

\* The draining goroutine, until its timeout closes the channel.
CloseChannel(s) ==
    /\ pc[s] = "drain"
    /\ pc' = [pc EXCEPT ![s] = "closed"]
    /\ closed' = closed \cup {s}
    /\ UNCHANGED <<now, arrays, slice, pollVars, recordVars, sendVars,
                   recentEvents, polled, cancelled>>

\* The stream's handler, or the draining goroutine, takes an event.
Receive(s) ==
    /\ pc[s] \in {"on", "drain"}
    /\ channel[s] # << >>
    /\ channel' = [channel EXCEPT ![s] = Tail(@)]
    /\ UNCHANGED <<now, subVars, pollVars, recordVars, walk, panicked,
                   recentEvents, polled, cancelled>>

----------------------------------------------------------------------------
(* broadcast, for agent g.                                                 *)

\* The header is copied under subMu; afterwards the array is read without.
BeginBroadcast(g, e) ==
    /\ walk' = [walk EXCEPT ![g] = [evt |-> e, array |-> slice.array,
                                    len |-> slice.len, next |-> 1]]

Walking(g) == walk[g].next # 0 /\ walk[g].next <= walk[g].len

\* The channel that the loop has come to.
Target(g) == arrays[walk[g].array][walk[g].next]

\* The select of one loop iteration: the event is sent, or dropped because
\* the channel is full.
BroadcastSend(g) ==
    LET s == Target(g)
        e == walk[g].evt IN
    /\ Walking(g)
    /\ s \notin closed
    /\ walk' = [walk EXCEPT ![g].next = @ + 1]
    /\ IF Len(channel[s]) < ChannelSize
       THEN channel' = [channel EXCEPT ![s] = Append(@, e)]
       ELSE UNCHANGED channel
    /\ UNCHANGED <<now, subVars, pollVars, recordVars, panicked,
                   recentEvents, polled, cancelled>>

\* A send to a closed channel panics.  In a handler the HTTP server
\* recovers from it, and the event is not queued ...
RecordPanic(e) ==
    LET g == <<"record", e>> IN
    /\ Walking(g)
    /\ Target(g) \in closed
    /\ panicked' = TRUE
    /\ recorder' = [recorder EXCEPT ![e] = "done"]
    /\ walk' = [walk EXCEPT ![g] = NoWalk]
    /\ UNCHANGED <<now, subVars, pollVars, createdAt, dbWorkerCh, db,
                   channel, recentEvents, polled, cancelled>>

\* ... in a poller it ends the process, and everything with it.
PollPanic(i) ==
    /\ Walking(<<"poll", i>>)
    /\ Target(<<"poll", i>>) \in closed
    /\ panicked' = TRUE
    /\ pc' = [s \in Subs |-> "closed"]
    /\ slice' = NilSlice
    /\ poller' = [j \in Pollers |-> "ended"]
    /\ polling' = FALSE
    /\ recorder' = [e \in Events |-> "done"]
    /\ dbWorkerCh' = << >>
    /\ walk' = [g \in Agents |-> NoWalk]
    /\ cancelled' = TRUE
    /\ UNCHANGED <<now, arrays, closed, lastPollTime, pollAt, batch,
                   createdAt, db, channel, recentEvents,
                   polled>>

\* The loop is over.
EndBroadcast(g) ==
    /\ walk[g].next # 0
    /\ ~Walking(g)
    /\ walk' = [walk EXCEPT ![g] = NoWalk]

----------------------------------------------------------------------------
(* Record and the database workers.                                        *)

\* createEvent, and the call of broadcast.
Record(e) ==
    /\ recorder[e] = "none"
    /\ recorder' = [recorder EXCEPT ![e] = "broadcast"]
    /\ createdAt' = [createdAt EXCEPT ![e] = now]
    /\ BeginBroadcast(<<"record", e>>, e)
    /\ UNCHANGED <<now, subVars, pollVars, dbWorkerCh, db, channel,
                   panicked, recentEvents, polled, cancelled>>

\* broadcast has returned; the event is queued, or dropped if the queue is
\* full.
RecordQueue(e) ==
    /\ recorder[e] = "broadcast"
    /\ EndBroadcast(<<"record", e>>)
    /\ recorder' = [recorder EXCEPT ![e] = "done"]
    /\ dbWorkerCh' = IF Len(dbWorkerCh) < DBBufferSize
                     THEN Append(dbWorkerCh, e) ELSE dbWorkerCh
    /\ UNCHANGED <<now, subVars, pollVars, createdAt, db, channel,
                   panicked, recentEvents, polled, cancelled>>

\* dbWorker: db.Create, which may fail.
DBWorker(ok) ==
    /\ dbWorkerCh # << >>
    /\ ~cancelled
    /\ dbWorkerCh' = Tail(dbWorkerCh)
    /\ db' = IF ok THEN db \cup {Head(dbWorkerCh)} ELSE db
    /\ UNCHANGED <<now, subVars, pollVars, recorder, createdAt, sendVars,
                   recentEvents, polled, cancelled>>

----------------------------------------------------------------------------
(* poll and checkForNewEvents.                                             *)

\* A tick of the ticker: the goroutine ends, or it reads the time.
PollTick(i) ==
    /\ poller[i] = "wait"
    /\ IF polling
       THEN /\ poller' = [poller EXCEPT ![i] = "query"]
            /\ pollAt' = [pollAt EXCEPT ![i] = now]
       ELSE /\ poller' = [poller EXCEPT ![i] = "ended"]
            /\ UNCHANGED pollAt
    /\ UNCHANGED <<now, subVars, polling, lastPollTime, batch, recordVars,
                   sendVars, recentEvents, polled, cancelled>>

\* case <-b.ctx.Done()
PollCancelled(i) ==
    /\ poller[i] = "wait"
    /\ cancelled
    /\ poller' = [poller EXCEPT ![i] = "ended"]
    /\ UNCHANGED <<now, subVars, polling, lastPollTime, pollAt, batch,
                   recordVars, sendVars, recentEvents, polled, cancelled>>

\* The query and, when it succeeds, lastPollTime = now.
PollQuery(i, ok) ==
    /\ poller[i] = "query"
    /\ IF ok
       THEN /\ batch' = [batch EXCEPT ![i] =
                           {e \in db : createdAt[e] > lastPollTime}]
            /\ lastPollTime' = pollAt[i]
            /\ poller' = [poller EXCEPT ![i] = "events"]
       ELSE /\ poller' = [poller EXCEPT ![i] = "wait"]
            /\ UNCHANGED <<batch, lastPollTime>>
    /\ pollAt' = [pollAt EXCEPT ![i] = 0]
    /\ UNCHANGED <<now, subVars, polling, recordVars, sendVars,
                   recentEvents, polled, cancelled>>

Recent(e) ==
    e \in DOMAIN recentEvents /\ now - recentEvents[e] < DeduplicationTTL

\* Fault: an event is looked up but not entered.
ShouldProcessNoMark(e) == ~Recent(e) /\ UNCHANGED recentEvents

\* shouldProcess returned true and has marked the event.
ShouldProcess(e) ==
    /\ ~Recent(e)
    /\ recentEvents' = [x \in DOMAIN recentEvents \cup {e} |->
                          IF x = e THEN now ELSE recentEvents[x]]

\* The next event of the batch, in the order of created_at: broadcast, or
\* skipped as a duplicate.
PollEvent(i) ==
    /\ poller[i] = "events"
    /\ walk[<<"poll", i>>].next = 0
    /\ \E e \in batch[i] :
          /\ \A x \in batch[i] : createdAt[e] <= createdAt[x]
          /\ batch' = [batch EXCEPT ![i] = @ \ {e}]
          /\ \/ /\ ShouldProcess(e)
                /\ BeginBroadcast(<<"poll", i>>, e)
                /\ polled' = [polled EXCEPT ![e] = @ + 1]
             \/ /\ Recent(e)
                /\ UNCHANGED <<walk, recentEvents, polled>>
    /\ UNCHANGED <<now, subVars, polling, lastPollTime, poller, pollAt,
                   recordVars, channel, panicked, cancelled>>

PollEventDone(i) ==
    /\ EndBroadcast(<<"poll", i>>)
    /\ UNCHANGED <<now, subVars, pollVars, recordVars, channel,
                   panicked, recentEvents, polled, cancelled>>

PollBatchDone(i) ==
    /\ poller[i] = "events"
    /\ batch[i] = {}
    /\ walk[<<"poll", i>>].next = 0
    /\ poller' = [poller EXCEPT ![i] = "wait"]
    /\ UNCHANGED <<now, subVars, polling, lastPollTime, pollAt, batch,
                   recordVars, sendVars, recentEvents, polled, cancelled>>

----------------------------------------------------------------------------

\* Shutdown: stopPolling and cancel; it waits five seconds at most.
Shutdown ==
    /\ ~cancelled
    /\ cancelled' = TRUE
    /\ polling' = FALSE
    /\ UNCHANGED <<now, subVars, lastPollTime, poller, pollAt, batch,
                   recordVars, sendVars, recentEvents, polled>>

Tick ==
    /\ now < MaxTime
    /\ now' = now + 1
    /\ UNCHANGED <<subVars, pollVars, recordVars, sendVars, recentEvents,
                   polled, cancelled>>

SubStep(s) == StartPolling(s) \/ StopPolling(s) \/ CloseChannel(s) \/ Receive(s)

PollStep(i) ==
    \/ PollTick(i) \/ PollCancelled(i)
    \/ \E ok \in BOOLEAN : PollQuery(i, ok)
    \/ PollEvent(i) \/ PollEventDone(i) \/ PollBatchDone(i)
    \/ BroadcastSend(<<"poll", i>>) \/ PollPanic(i)

RecordStep(e) ==
    \/ BroadcastSend(<<"record", e>>) \/ RecordPanic(e)
    \/ RecordQueue(e)

Next ==
    \/ \E s \in Subs : Subscribe(s) \/ Unsubscribe(s) \/ SubStep(s)
    \/ \E e \in Events : Record(e) \/ RecordStep(e)
    \/ \E i \in Pollers : PollStep(i)
    \/ \E ok \in BOOLEAN : DBWorker(ok)
    \/ Shutdown
    \/ Tick

(* Goroutines and handlers run, and a select with two ready cases picks    *)
(* each of them sooner or later.  Streams come, stay and go as they like.  *)
Fairness ==
    /\ \A s \in Subs : WF_vars(SubStep(s))
    /\ \A e \in Events : WF_vars(RecordStep(e))
    /\ \A i \in Pollers : WF_vars(PollStep(i)) /\ SF_vars(PollCancelled(i))

Spec == Init /\ [][Next]_vars /\ Fairness

----------------------------------------------------------------------------
(* Properties.                                                             *)

TypeOK ==
    /\ now \in 0..MaxTime
    /\ pc \in [Subs -> {"off", "start", "on", "stop", "drain", "closed"}]
    /\ \A k \in DOMAIN arrays : arrays[k] \in Seq(Subs \cup {Nobody})
    /\ slice.array \in {0} \cup DOMAIN arrays
    /\ slice.array # 0 => slice.len \in 1..Len(arrays[slice.array])
    /\ \A s \in Subs : Len(channel[s]) <= ChannelSize
    /\ polling \in BOOLEAN
    /\ lastPollTime \in 0..now
    /\ poller \in [Pollers -> {"none", "wait", "query", "events", "ended"}]
    /\ batch \in [Pollers -> SUBSET Events]
    /\ recorder \in [Events -> {"none", "broadcast", "done"}]
    /\ Len(dbWorkerCh) <= DBBufferSize
    /\ db \subseteq Events
    /\ DOMAIN recentEvents \subseteq Events

\* The subscribers slice holds every stream that is open, once, and no
\* other, although Unsubscribe shifts and Subscribe reuses one array: no
\* stream is lost with the removal of another (Subscribe, Unsubscribe).
SubscribersExact ==
    /\ Subscribed = {s \in Subs : pc[s] \in {"start", "on"}}
    /\ slice.len = Cardinality(Subscribed)

\* Within the deduplication time the pollers broadcast an event once,
\* although a restarted poller runs beside the old one and either may set
\* lastPollTime back (checkForNewEvents, shouldProcess).
PolledOnce == \A e \in Events : polled[e] <= 1

\* When all streams have gone for good the polling ends, the goroutines and
\* the flag (Unsubscribe, stopPolling, poll); and after Shutdown every
\* poller ends, also one that a late Subscribe starts.
PollersEnd ==
    LET ended == \A i \in Pollers : poller[i] \in {"none", "ended"} IN
    /\ <>[](\A s \in Subs : pc[s] \in {"off", "closed"})
       => <>[](~polling /\ ended)
    /\ <>cancelled => <>[]ended

\* "Graceful drain - consume remaining events before closing" (Unsubscribe):
\* nobody sends to a channel after it was closed, which would panic.
NoSendAfterClose == ~panicked
=============================================================================
