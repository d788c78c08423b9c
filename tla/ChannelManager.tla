-------------------------- MODULE ChannelManager --------------------------
(***************************************************************************)
(* Which channel an upload goes to and which bots send it, for one user.   *)
(*                                                                         *)
(* The selected channel and the bots are rows of the database and are read *)
(* through cache.Fetch: a miss starts one flight per instance and key that *)
(* reads the rows and stores the answer without an expiry time.  Uploads   *)
(* create a new channel when there is none or the old one is full, under a *)
(* PostgreSQL advisory lock; the handlers of /users select and delete      *)
(* channels and add and remove bots, each with its own idea of what to do  *)
(* to the cache.  The lock belongs to a connection: statements take any    *)
(* connection of the instance's pool, so that it may be released on        *)
(* another one than it was taken on, which does nothing.                   *)
(*                                                                         *)
(* Sources: internal/tgc/channel_manager.go, internal/cache/cache.go,      *)
(* internal/tgc/bot_selector.go, pkg/services/user.go and the start of     *)
(* UploadsUpload.  With Redis, instances share the cache and the selector; *)
(* without it there is one instance.                                       *)
(***************************************************************************)
EXTENDS Naturals, FiniteSets

CONSTANTS
    Handlers,       \* requests being served
    Instances,      \* server processes
    First,          \* the instance that runs when there is no Redis
    ConnsOf,        \* ConnsOf[i]: the connections of the pool of instance i
    Bots,           \* bot tokens
    InitBots,       \* the bots a user may have at the start
    Ops,            \* the operations that requests ask for
    MaxRequests, MaxChannels, MaxCrashes    \* bounds

AllOps == {"upload", "stats", "create", "update", "delete", "addbots",
           "removebots"}

ASSUME ChannelAssumption ==
    /\ IsFiniteSet(Handlers) /\ IsFiniteSet(Bots)
    /\ First \in Instances
    /\ DOMAIN ConnsOf = Instances
    /\ \A i, j \in Instances : i # j => ConnsOf[i] \cap ConnsOf[j] = {}
    /\ Ops \subseteq AllOps
    /\ InitBots \subseteq SUBSET Bots
    /\ {MaxRequests, MaxCrashes} \subseteq Nat /\ MaxChannels \in Nat \ {0}

Channels == 1..MaxChannels
Keys == {"channel", "bots"}
Conns == UNION {ConnsOf[i] : i \in Instances}

VARIABLES
    redis,      \* whether Redis is configured (never changes)
    made,       \* how many Telegram channels have been made so far
    telegram,   \* the channels that exist in Telegram
    rows,       \* teldrive.channels: the ids
    selected,   \* teldrive.channels: the ids with selected = true
    recent,     \* rows that were inserted in the last 10 s
    bots,       \* teldrive.bots
    cache,      \* cache[k]: the cached value, as a set of at most one
    flight,     \* flight[i][k]: the call of fetchGroup, and who waits for it
    locks,      \* locks[c]: how often connection c holds the advisory lock
    currIdx,    \* the round-robin counter of the bot selector
    handler,    \* the requests
    requests,   \* requests so far (bounded)
    crashes,    \* crashes so far (bounded)
    history     \* what happened that the code does not guard against (ghost)

dbVars == <<rows, selected, recent, bots>>
tgVars == <<made, telegram>>
bounded == <<requests, crashes>>
vars == <<redis, tgVars, dbVars, cache, flight, locks, currIdx, handler,
          bounded, history>>

Up == IF redis THEN Instances ELSE {First}

Idle == [op |-> "none", inst |-> First, at |-> "idle", chan |-> 0,
         ok |-> TRUE, conn |-> {}, seen |-> {}]
NoFlight == [at |-> "none", val |-> {}, waiters |-> {}]

CreateSteps == {"recent", "make", "tokens", "addbots", "tx", "commit",
                "record", "invalidate", "unlock"}
Steps == CreateSteps \cup
         {"idle", "current", "limit", "lock", "pick", "next", "select",
          "unselect", "apply", "cacheset", "tgdelete", "rowdelete",
          "botrows", "dropbots"}

\* Inside CreateNewChannel, behind the lock.
Inside == {h \in Handlers : handler[h].at \in CreateSteps}

\* Between the first commit of a change of the selected channel and the
\* last write to the cache.
Selecting ==
    {h \in Handlers :
        handler[h].at \in {"commit", "invalidate", "unselect", "apply",
                           "cacheset"}}

\* The rows that an open transaction has updated.
Locked == UNION {handler[h].seen : h \in {g \in Handlers :
                                            handler[g].at = "commit"}}

\* The handlers that have changed what key k stands for and have yet to
\* write to the cache.
Pending(k) ==
    {h \in Handlers :
        handler[h].at \in IF k = "channel" THEN {"invalidate", "cacheset"}
                          ELSE {"dropbots"}}

\* The key that a request fetches at this step.
KeyOf(at) == IF at = "current" THEN "channel" ELSE "bots"

\* The values a query for key k may find: "selected = true" without an
\* order, or all bots of the user.
InDB(k) == IF k = "channel" THEN selected ELSE {bots}

\* What a request may be told by Fetch for key k.
Values(k) == IF k = "channel" THEN Channels ELSE SUBSET Bots
Flights(k) == [at : {"none", "recheck", "query", "store"},
               val : SUBSET Values(k), waiters : SUBSET Handlers]

\* Steps at which a request knows which channel it is about.
ChannelSteps ==
    (CreateSteps \ {"recent", "make", "unlock"}) \cup
    {"select", "unselect", "apply", "cacheset", "tgdelete", "rowdelete"}

DatabaseOK ==
    /\ made \in 0..MaxChannels
    /\ telegram \subseteq 1..made
    /\ rows \subseteq 1..made
    /\ selected \subseteq rows
    /\ recent \subseteq rows
    /\ bots \subseteq Bots

AtMostOne(S) == \A v, w \in S : v = w

CacheOK ==
    /\ cache \in [channel : SUBSET Channels, bots : SUBSET SUBSET Bots]
    /\ \A k \in Keys : AtMostOne(cache[k])

\* What one flight for key k may be.
FlightOK(f, k) ==
    /\ f \in Flights(k)
    /\ f.at = "none" => f = NoFlight
    /\ f.at # "store" => f.val = {}
    /\ AtMostOne(f.val)

FlightsOK ==
    /\ flight = [i \in Instances |-> [k \in Keys |-> flight[i][k]]]
    /\ \A i \in Instances, k \in Keys : FlightOK(flight[i][k], k)

\* Who waits for a flight is at a step that fetches its key.
WaitersOK ==
    \A i \in Instances, k \in Keys : \A h \in flight[i][k].waiters :
        /\ handler[h].inst = i
        /\ handler[h].at \in {"current", "tokens", "pick"}
        /\ KeyOf(handler[h].at) = k

Requests == [op : AllOps \cup {"none"}, inst : Instances, at : Steps,
             chan : 0..MaxChannels, ok : BOOLEAN, conn : SUBSET Conns,
             seen : SUBSET (Channels \cup Bots)]

\* Which fields a request has set at its step, with n channels made.
RequestOK(r, n) ==
    /\ r.at \in ChannelSteps => r.chan \in 1..n
    /\ r.at \in CreateSteps => \E c \in ConnsOf[r.inst] : r.conn = {c}
    /\ r.at = "next" => r.seen \subseteq Bots /\ r.seen # {}
    /\ r.at \in {"commit", "apply"} => r.seen \subseteq Channels
    /\ r.at = "apply" => r.chan \notin r.seen

HandlersOK ==
    /\ handler \in [Handlers -> Requests]
    /\ \A h \in Handlers : RequestOK(handler[h], made)

TypeOK ==
    /\ redis \in BOOLEAN
    /\ locks \in [Conns -> Nat]
    /\ currIdx \in Nat
    /\ {requests, crashes} \subseteq Nat
    /\ DatabaseOK /\ CacheOK /\ FlightsOK /\ WaitersOK /\ HandlersOK

\* A server that may have run before: with or without a channel, in the
\* database or only in Telegram, bots and cached values.  An index beyond the list means that bots were removed.
Init ==
    /\ redis \in BOOLEAN
    /\ made \in {0, 1}
    /\ telegram = 1..made
    /\ rows \in {{}, telegram}
    /\ selected = rows
    /\ recent = {}
    /\ bots \in InitBots
    /\ \/ cache = [channel |-> {}, bots |-> {}]
       \/ cache = [channel |-> selected, bots |-> {bots}]
    /\ flight = [i \in Instances |-> [k \in Keys |-> NoFlight]]
    /\ locks = [c \in Conns |-> 0]
    /\ currIdx \in 0..Cardinality(Bots) - 1
    /\ handler = [h \in Handlers |-> Idle]
    /\ requests = 0
    /\ crashes = 0
    /\ history = IF currIdx < Cardinality(bots) \/ currIdx = 0 THEN {}
                 ELSE {"shrunk"}

----------------------------------------------------------------------------
(* Requests come in.                                                       *)

\* Where each operation begins.
FirstStep(op) ==
    CASE op \in {"upload", "stats"} -> "current"
      [] op = "create" -> "lock"
      [] op = "update" -> "select"
      [] op = "delete" -> "tgdelete"
      [] op \in {"addbots", "removebots"} -> "botrows"

Start(h, op, i, c) ==
    /\ handler[h] = Idle
    /\ requests < MaxRequests
    /\ requests' = requests + 1
    /\ c \in IF op \in {"update", "delete"} THEN telegram ELSE {0}
    /\ handler' = [handler EXCEPT ![h] =
                     [Idle EXCEPT !.op = op, !.inst = i, !.chan = c,
                                  !.at = FirstStep(op)]]
    /\ UNCHANGED <<redis, tgVars, dbVars, cache, flight, locks, currIdx,
                   crashes, history>>

\* Handler h goes on at the given step, or is done.
Goto(r, at) == [r EXCEPT !.at = at]
GoOn(h, at) == handler' = [handler EXCEPT ![h] = Goto(@, at)]
Done(h) == handler' = [handler EXCEPT ![h] = Idle]

\* Fault: an error returns at once, past the unlock.
FailedAtOnce(r) == Idle

\* CreateNewChannel returns with an error; the deferred unlock comes first.
Failed(r) == [r EXCEPT !.at = "unlock", !.ok = FALSE, !.seen = {}]

----------------------------------------------------------------------------
(* cache.Fetch.                                                            *)

Fetching(h) ==
    /\ handler[h].at \in {"current", "tokens", "pick"}
    /\ h \notin flight[handler[h].inst][KeyOf(handler[h].at)].waiters

\* What a request does with the answer of Fetch: the empty set is an error
\* or, for the channel, ErrNoDefaultChannel (which an upload tells apart by
\* "none" = TRUE).
WithAnswer(r, answer, none) ==
    CASE r.at = "current" ->
            IF r.op = "stats" THEN Goto(r, "pick")
            ELSE IF none THEN Goto(r, "lock")
            ELSE IF answer = {} THEN Idle
            ELSE [r EXCEPT !.at = "limit", !.chan = CHOOSE c \in answer : TRUE]
      [] r.at = "tokens" ->
            IF answer \in {{}, {{}}} THEN Failed(r) ELSE Goto(r, "addbots")
      [] r.at = "pick" ->
            IF r.op = "stats" \/ answer \in {{}, {{}}} THEN Idle
            ELSE [r EXCEPT !.at = "next", !.seen = CHOOSE b \in answer : TRUE]

Hit(h) ==
    /\ Fetching(h)
    /\ cache[KeyOf(handler[h].at)] # {}
    /\ handler' = [handler EXCEPT ![h] =
                     WithAnswer(@, cache[KeyOf(@.at)], FALSE)]
    /\ UNCHANGED <<redis, tgVars, dbVars, cache, flight, locks, currIdx,
                   bounded, history>>

\* DoChan: start the flight of this instance for the key, or join it.
Miss(h) ==
    LET i == handler[h].inst
        k == KeyOf(handler[h].at)
    IN  /\ Fetching(h)
        /\ cache[k] = {}
        /\ flight' = [flight EXCEPT ![i][k].waiters = @ \cup {h},
                                    ![i][k].at = IF @ = "none" THEN "recheck"
                                                 ELSE @]
        /\ UNCHANGED <<redis, tgVars, dbVars, cache, locks, currIdx,
                       handler, bounded, history>>

\* The request's context ends: it leaves, the flight goes on without it.
\* CreateNewChannel then runs its deferred unlock.
Leave(h) ==
    LET i == handler[h].inst
        k == KeyOf(handler[h].at)
    IN  /\ handler[h].at \in {"current", "tokens", "pick"}
        /\ h \in flight[i][k].waiters
        /\ flight' = [flight EXCEPT ![i][k].waiters = @ \ {h}]
        /\ handler' = [handler EXCEPT ![h] = WithAnswer(@, {}, FALSE)]
        /\ UNCHANGED <<redis, tgVars, dbVars, cache, locks, currIdx,
                       bounded, history>>

\* The flight ends and everyone who waits gets its answer.
Land(i, k, answer, none) ==
    /\ flight' = [flight EXCEPT ![i][k] = NoFlight]
    /\ handler' = [h \in Handlers |->
                     IF h \in flight[i][k].waiters
                     THEN WithAnswer(handler[h], answer, none)
                     ELSE handler[h]]

FlightRecheck(i, k) ==
    /\ flight[i][k].at = "recheck"
    /\ IF cache[k] # {} THEN Land(i, k, cache[k], FALSE)
       ELSE /\ flight' = [flight EXCEPT ![i][k].at = "query"]
            /\ UNCHANGED handler
    /\ UNCHANGED <<redis, tgVars, dbVars, cache, locks, currIdx, bounded,
                   history>>

\* fn: the first of the rows found; none for the channel is an error, and
\* errors are not stored.
FlightQuery(i, k) ==
    /\ flight[i][k].at = "query"
    /\ \/ Land(i, k, {}, FALSE)
       \/ InDB(k) = {} /\ Land(i, k, {}, TRUE)
       \/ \E v \in InDB(k) :
             /\ flight' = [flight EXCEPT ![i][k].at = "store",
                                         ![i][k].val = {v}]
             /\ UNCHANGED handler
    /\ UNCHANGED <<redis, tgVars, dbVars, cache, locks, currIdx, bounded,
                   history>>

\* Set without an expiry.  A value that is no longer the one in the
\* database, stored after the last invalidation, stays for good.
FlightStore(i, k) ==
    /\ flight[i][k].at = "store"
    /\ cache' = [cache EXCEPT ![k] = flight[i][k].val]
    /\ Land(i, k, flight[i][k].val, FALSE)
    /\ history' = IF flight[i][k].val \subseteq InDB(k) \/ Pending(k) # {}
                  THEN history ELSE history \cup {"raced"}
    /\ UNCHANGED <<redis, tgVars, dbVars, locks, currIdx, bounded>>

----------------------------------------------------------------------------
(* UploadsUpload up to the choice of a client.                             *)

\* ChannelLimitReached counts parts; its errors mean "not reached".
Limit(h) ==
    /\ handler[h].at = "limit"
    /\ GoOn(h, "lock") \/ GoOn(h, "pick")
    /\ UNCHANGED <<redis, tgVars, dbVars, cache, flight, locks, currIdx,
                   bounded, history>>

\* Fault: the index is not wrapped.
NextIndexUnwrapped(n) == [index |-> currIdx, next |-> currIdx + 1]

\* MemoryBotSelector.Next returns the stored index and wraps the next one;
\* RedisBotSelector.Next wraps the counter when it is read.  The counter in
\* Redis only grows; here it counts modulo a common multiple of all lengths.
NextIndex(n) ==
    IF redis
    THEN [index |-> currIdx % n,
          next |-> (currIdx + 1) % (Cardinality(Bots) * Cardinality(Bots))]
    ELSE [index |-> currIdx, next |-> (currIdx + 1) % n]

\* botSelector.Next: bots[idx] beyond the end of the list panics, after the
\* counter has been moved on.
SelectorNext(h) ==
    LET n == Cardinality(handler[h].seen)
    IN  /\ handler[h].at = "next"
        /\ currIdx' = NextIndex(n).next
        /\ history' = IF NextIndex(n).index < n THEN history
                      ELSE history \cup {"panic"}
        /\ Done(h)
        /\ UNCHANGED <<redis, tgVars, dbVars, cache, flight, locks, bounded>>

----------------------------------------------------------------------------
(* CreateNewChannel.                                                       *)

\* pg_try_advisory_lock on connection c: granted if no other session holds
\* it; a session may hold it several times.
Acquire(h, c) ==
    /\ handler[h].at = "lock"
    /\ c \in ConnsOf[handler[h].inst]
    /\ \A d \in Conns \ {c} : locks[d] = 0
    /\ locks' = [locks EXCEPT ![c] = @ + 1]
    /\ handler' = [handler EXCEPT ![h] = [@ EXCEPT !.at = "recent",
                                                    !.conn = {c}]]
    /\ history' = IF \E g \in Inside : handler[g].inst = handler[h].inst
                  THEN history \cup {"together"} ELSE history
    /\ UNCHANGED <<redis, tgVars, dbVars, cache, flight, currIdx, bounded>>

\* The lock is held by another session, or the statement fails.
AcquireFails(h) ==
    /\ handler[h].at = "lock"
    /\ Done(h)
    /\ UNCHANGED <<redis, tgVars, dbVars, cache, flight, locks, currIdx,
                   bounded, history>>

\* Fault: the channels of the last seconds are not looked for.
RecentSkipped(h) ==
    /\ handler[h].at = "recent"
    /\ GoOn(h, "make")
    /\ UNCHANGED <<redis, tgVars, dbVars, cache, flight, locks, currIdx,
                   bounded, history>>

\* getChannelCreatedAfter: an error, a channel of the last 10 s to be used
\* instead, or none.  teldrive.channels has no column created_at in the
\* repository's migrations: there, the error is the only outcome.
Recent(h) ==
    /\ handler[h].at = "recent"
    /\ \/ handler' = [handler EXCEPT ![h] = Failed(@)]
       \/ \E c \in recent :
             handler' = [handler EXCEPT ![h] = [@ EXCEPT !.at = "unlock",
                                                         !.chan = c]]
       \/ recent = {} /\ GoOn(h, "make")
    /\ UNCHANGED <<redis, tgVars, dbVars, cache, flight, locks, currIdx,
                   bounded, history>>

\* ChannelsCreateChannel.
Make(h) ==
    /\ handler[h].at = "make"
    /\ made < MaxChannels
    /\ made' = made + 1
    /\ telegram' = telegram \cup {made + 1}
    /\ handler' = [handler EXCEPT ![h] = [@ EXCEPT !.at = "tokens",
                                                    !.chan = made + 1]]
    /\ UNCHANGED <<redis, dbVars, cache, flight, locks, currIdx, bounded,
                   history>>

\* A call of Telegram or of the database fails: no client, no channel, more
\* than two bots that could not be added, no record.
CreateFails(h) ==
    /\ handler[h].at \in {"make", "addbots", "commit", "record"}
    /\ handler' = [handler EXCEPT ![h] = Failed(@)]
    /\ UNCHANGED <<redis, tgVars, dbVars, cache, flight, locks, currIdx,
                   bounded, history>>

\* AddBotsToChannel with save = false changes Telegram only.
AddBotsToChannel(h) ==
    /\ handler[h].at = "addbots"
    /\ GoOn(h, IF handler[h].op = "upload" THEN "tx" ELSE "record")
    /\ UNCHANGED <<redis, tgVars, dbVars, cache, flight, locks, currIdx,
                   bounded, history>>

\* setDefault: the UPDATE takes its snapshot of the user's rows.
TxUpdate(h) ==
    /\ handler[h].at = "tx"
    /\ handler' = [handler EXCEPT ![h] = [@ EXCEPT !.at = "commit",
                                                    !.seen = rows]]
    /\ UNCHANGED <<redis, tgVars, dbVars, cache, flight, locks, currIdx,
                   bounded, history>>

\* Two changes of the selected channel at the same time.
Overlap(h) == IF Selecting \ {h} # {} THEN history \cup {"overlap"}
              ELSE history

\* Fault: the old channel stays selected.
TxCommitKeeps(h) ==
    /\ handler[h].at = "commit"
    /\ rows' = rows \cup {handler[h].chan}
    /\ selected' = selected \cup {handler[h].chan}
    /\ recent' = recent \cup {handler[h].chan}
    /\ handler' = [handler EXCEPT ![h] = [@ EXCEPT !.at = "invalidate",
                                                    !.seen = {}]]
    /\ history' = Overlap(h)
    /\ UNCHANGED <<redis, tgVars, bots, cache, flight, locks, currIdx,
                   bounded>>

\* INSERT and COMMIT: the rows of the snapshot are unselected, a row that
\* was committed since then is not.
TxCommit(h) ==
    /\ handler[h].at = "commit"
    /\ rows' = rows \cup {handler[h].chan}
    /\ selected' = (selected \ handler[h].seen) \cup {handler[h].chan}
    /\ recent' = recent \cup {handler[h].chan}
    /\ handler' = [handler EXCEPT ![h] = [@ EXCEPT !.at = "invalidate",
                                                    !.seen = {}]]
    /\ history' = Overlap(h)
    /\ UNCHANGED <<redis, tgVars, bots, cache, flight, locks, currIdx,
                   bounded>>

\* Fault: the cached channel is kept.
InvalidateNothing(h) ==
    /\ handler[h].at = "invalidate"
    /\ GoOn(h, "unlock")
    /\ UNCHANGED <<redis, tgVars, dbVars, cache, flight, locks, currIdx,
                   bounded, history>>

Invalidate(h) ==
    /\ handler[h].at = "invalidate"
    /\ cache' = [cache EXCEPT !.channel = {}]
    /\ GoOn(h, "unlock")
    /\ UNCHANGED <<redis, tgVars, dbVars, flight, locks, currIdx, bounded,
                   history>>

\* UsersCreateChannel: the record alone, not selected.
Record(h) ==
    /\ handler[h].at = "record"
    /\ rows' = rows \cup {handler[h].chan}
    /\ recent' = recent \cup {handler[h].chan}
    /\ GoOn(h, "unlock")
    /\ UNCHANGED <<redis, tgVars, selected, bots, cache, flight, locks,
                   currIdx, bounded, history>>

AfterUnlock(r) ==
    IF r.ok /\ r.op = "upload" THEN [r EXCEPT !.at = "pick", !.conn = {}]
    ELSE Idle

\* pg_advisory_unlock on connection c of the pool, which need not be the
\* one that holds the lock; then this does nothing.
Release(h, c) ==
    /\ handler[h].at = "unlock"
    /\ c \in ConnsOf[handler[h].inst]
    /\ locks' = [locks EXCEPT ![c] = IF @ > 0 THEN @ - 1 ELSE 0]
    /\ handler' = [handler EXCEPT ![h] = AfterUnlock(@)]
    /\ history' = IF handler[h].conn = {c} THEN history
                  ELSE history \cup {"misplaced"}
    /\ UNCHANGED <<redis, tgVars, dbVars, cache, flight, currIdx, bounded>>

----------------------------------------------------------------------------
(* The handlers of /users.                                                 *)

\* UsersUpdateChannel.  INSERT ... ON CONFLICT sets selected, waiting for a
\* transaction that has updated the row; an error ends the request.
Select(h) ==
    /\ handler[h].at = "select"
    /\ \/ /\ handler[h].chan \notin Locked
          /\ rows' = rows \cup {handler[h].chan}
          /\ selected' = selected \cup {handler[h].chan}
          /\ recent' = recent \cup ({handler[h].chan} \ rows)
          /\ history' = IF Inside # {} /\ handler[h].chan \notin rows
                        THEN Overlap(h) \cup {"together"} ELSE Overlap(h)
          /\ GoOn(h, "unselect")
       \/ /\ Done(h)
          /\ UNCHANGED <<rows, selected, recent, history>>
    /\ UNCHANGED <<redis, tgVars, bots, cache, flight, locks,
                   currIdx, bounded>>

\* The UPDATE of the other rows takes its snapshot.
Unselect(h) ==
    /\ handler[h].at = "unselect"
    /\ handler' = [handler EXCEPT ![h] =
                     [@ EXCEPT !.at = "apply",
                               !.seen = rows \ {handler[h].chan}]]
    /\ UNCHANGED <<redis, tgVars, dbVars, cache, flight, locks, currIdx,
                   bounded, history>>

\* It is carried out, or fails; the error is not looked at.
Apply(h) ==
    /\ handler[h].at = "apply"
    /\ \/ /\ handler[h].seen \cap Locked = {}
          /\ selected' = selected \ handler[h].seen
          /\ UNCHANGED history
       \/ /\ history' = history \cup {"ignored"}
          /\ UNCHANGED selected
    /\ handler' = [handler EXCEPT ![h] = [@ EXCEPT !.at = "cacheset",
                                                    !.seen = {}]]
    /\ UNCHANGED <<redis, tgVars, rows, recent, bots, cache, flight, locks,
                   currIdx, bounded>>

CacheSet(h) ==
    /\ handler[h].at = "cacheset"
    /\ cache' = [cache EXCEPT !.channel = {handler[h].chan}]
    /\ Done(h)
    /\ UNCHANGED <<redis, tgVars, dbVars, flight, locks, currIdx, bounded,
                   history>>

\* UsersDeleteChannel: Telegram first; an error ends the request.
TgDelete(h) ==
    /\ handler[h].at = "tgdelete"
    /\ \/ /\ handler[h].chan \in telegram
          /\ telegram' = telegram \ {handler[h].chan}
          /\ GoOn(h, "rowdelete")
       \/ Done(h) /\ UNCHANGED telegram
    /\ UNCHANGED <<redis, made, dbVars, cache, flight, locks, currIdx,
                   bounded, history>>

\* Then the row; an error of this is not looked at, and the cached channel
\* stays what it was.
RowDelete(h) ==
    LET c == handler[h].chan
    IN  /\ handler[h].at = "rowdelete"
        /\ c \notin Locked
        /\ \/ /\ rows' = rows \ {c}
              /\ selected' = selected \ {c}
              /\ recent' = recent \ {c}
              /\ history' =
                    history \cup
                    (IF c \in cache.channel THEN {"deleted"} ELSE {}) \cup
                    (IF \E g \in Selecting : handler[g].chan = c
                     THEN {"overlap"} ELSE {})
           \/ UNCHANGED <<rows, selected, recent, history>>
        /\ Done(h)
        /\ UNCHANGED <<redis, tgVars, bots, cache, flight, locks, currIdx,
                       bounded>>

\* A request is about to choose from another list of bots than now.
Outgrown(now) ==
    IF \E g \in Handlers : handler[g].at = "next" /\ handler[g].seen # now
    THEN history \cup {"outgrown"} ELSE history

\* UsersAddBots inserts the rows, lists the channels and adds the bots to
\* each, errors of which are ignored; an error of the list ends the request
\* before the cache is touched.  UsersRemoveBots deletes all rows.
BotRows(h) ==
    /\ handler[h].at = "botrows"
    /\ \/ /\ handler[h].op = "addbots"
          /\ \E b \in Bots : bots' = bots \cup {b}
          /\ \/ GoOn(h, "dropbots") /\ history' = Outgrown(bots')
             \/ /\ Done(h)
                /\ history' = IF cache.bots \in {{}, {bots'}}
                              THEN Outgrown(bots')
                              ELSE Outgrown(bots') \cup {"listfailed"}
       \/ /\ handler[h].op = "removebots"
          /\ bots' = {}
          /\ history' = history \cup {"shrunk"}
          /\ GoOn(h, "dropbots")
       \/ Done(h) /\ UNCHANGED <<bots, history>>
    /\ UNCHANGED <<redis, tgVars, rows, selected, recent, cache, flight,
                   locks, currIdx, bounded>>

DropBots(h) ==
    /\ handler[h].at = "dropbots"
    /\ cache' = [cache EXCEPT !.bots = {}]
    /\ Done(h)
    /\ history' = Outgrown(bots)
    /\ UNCHANGED <<redis, tgVars, dbVars, flight, locks, currIdx, bounded>>

----------------------------------------------------------------------------
(* The environment.                                                        *)

\* Ten seconds pass.
Elapse ==
    /\ recent # {}
    /\ recent' = {}
    /\ UNCHANGED <<redis, tgVars, rows, selected, bots, cache, flight,
                   locks, currIdx, handler, bounded, history>>

\* The pool closes a connection whose lifetime is over and opens another;
\* the lock goes with the session.
Recycle(c) ==
    /\ locks[c] > 0
    /\ locks' = [locks EXCEPT ![c] = 0]
    /\ history' = IF \E h \in Inside : handler[h].conn = {c}
                  THEN history \cup {"recycled"} ELSE history
    /\ UNCHANGED <<redis, tgVars, dbVars, cache, flight, currIdx, handler,
                   bounded>>

\* An instance stops and starts again.  A cache in memory is lost with it;
\* one in Redis keeps what a request had yet to invalidate.
Crash(i) ==
    /\ crashes < MaxCrashes
    /\ crashes' = crashes + 1
    /\ flight' = [flight EXCEPT ![i] = [k \in Keys |-> NoFlight]]
    /\ locks' = [c \in Conns |-> IF c \in ConnsOf[i] THEN 0 ELSE locks[c]]
    /\ handler' = [h \in Handlers |->
                     IF handler[h].inst = i THEN Idle ELSE handler[h]]
    /\ cache' = IF redis THEN cache ELSE [channel |-> {}, bots |-> {}]
    /\ currIdx' = IF redis THEN currIdx ELSE 0
    /\ history' = IF \E h \in Selecting \cup Pending("bots") :
                         handler[h].inst = i
                  THEN history \cup {"crash"} ELSE history
    /\ UNCHANGED <<redis, tgVars, dbVars, requests>>

\* One step of the request that handler h serves.
Serve(h) ==
    \/ Hit(h) \/ Miss(h)
    \/ Limit(h) \/ SelectorNext(h)
    \/ AcquireFails(h)
    \/ \E c \in Conns : Acquire(h, c) \/ Release(h, c)
    \/ Recent(h) \/ Make(h) \/ CreateFails(h) \/ AddBotsToChannel(h)
    \/ TxUpdate(h) \/ TxCommit(h) \/ Invalidate(h) \/ Record(h)
    \/ Select(h) \/ Unselect(h) \/ Apply(h) \/ CacheSet(h)
    \/ TgDelete(h) \/ RowDelete(h)
    \/ BotRows(h) \/ DropBots(h)

Fly(i, k) == FlightRecheck(i, k) \/ FlightQuery(i, k) \/ FlightStore(i, k)

Next ==
    \/ \E h \in Handlers, op \in Ops, i \in Up, c \in Channels \cup {0} :
          Start(h, op, i, c)
    \/ \E h \in Handlers : Serve(h) \/ Leave(h)
    \/ \E i \in Instances, k \in Keys : Fly(i, k)
    \/ Elapse
    \/ \E c \in Conns : Recycle(c)
    \/ \E i \in Up : Crash(i)

Spec == Init /\ [][Next]_vars

----------------------------------------------------------------------------
(* Properties.                                                             *)

\* The cached channel is one that is selected and the cached bots are the
\* bots, once nobody has an invalidation outstanding: whoever commits a
\* change also sees to the cache.  Excepted are the places where the code
\* does not: a flight that stores what it read before the change, a channel
\* deleted by UsersDeleteChannel, two selections at once, a crash before the
\* invalidation, an error of the list of channels in UsersAddBots.
CacheCoherent ==
    /\ Pending("channel") = {}
       /\ history \cap {"raced", "deleted", "overlap", "crash"} = {}
       => cache.channel \subseteq selected
    /\ Pending("bots") = {}
       /\ history \cap {"raced", "listfailed", "crash"} = {}
       => cache.bots \subseteq {bots}

\* There is one selected channel at most after every change of it, unless
\* two changes were made at once or UsersUpdateChannel got no further than
\* its first statement.
OneSelected ==
    Selecting = {} /\ history \cap {"overlap", "ignored", "crash"} = {}
    => Cardinality(selected) <= 1

\* The advisory lock keeps instances apart: requests inside CreateNewChannel
\* are all of one instance, unless a connection was closed under the request
\* that holds the lock.  And every way out gives it back: a connection holds
\* it as often as requests inside took it there, unless an unlock went to
\* another connection than the lock.
LockKept ==
    /\ "recycled" \notin history =>
          \A g, h \in Inside : handler[g].inst = handler[h].inst
    /\ history \cap {"misplaced", "recycled"} = {} =>
          \A c \in Conns :
              locks[c] = Cardinality({h \in Inside : handler[h].conn = {c}})

\* A channel is made only when none was recorded in the last ten seconds, so
\* that instances that run out of room at the same time do not make one
\* each; unless several requests of one instance were inside at once, as
\* they can be on one connection, or UsersUpdateChannel, which takes no
\* lock, recorded one meanwhile, or the lock went with its connection.
NoDoubleRollover ==
    [][made' > made =>
          recent = {} \/ history \cap {"together", "recycled"} # {}]_vars

\* The round-robin index is within the list of bots, unless bots have been
\* removed or the list grew while a request was about to choose from the
\* shorter one (then the memory selector panics once).
PanicOnlyAfterChange ==
    "panic" \in history => history \cap {"shrunk", "outgrown"} # {}
============================================================================
