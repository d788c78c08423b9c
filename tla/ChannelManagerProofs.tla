------------------------ MODULE ChannelManagerProofs ------------------------
(***************************************************************************)
(* Proofs about ChannelManager for every set of requests, instances,       *)
(* connections, bots and every bound.                                      *)
(***************************************************************************)
EXTENDS ChannelManager, FiniteSetTheorems, TLAPS

----------------------------------------------------------------------------
(* The invariants.                                                         *)

\* A request was handed the lock for each place inside, by the connection it
\* asked; the lock has one owner at most.
LockInv ==
    /\ \A c, d \in Conns : locks[c] > 0 /\ locks[d] > 0 => c = d
    /\ "recycled" \notin history =>
          \A h \in Inside : \A c \in Conns :
              handler[h].conn = {c} => locks[c] >= Cardinality(Inside)
    /\ history \cap {"misplaced", "recycled"} = {} =>
          \A c \in Conns :
              locks[c] = Cardinality({h \in Inside : handler[h].conn = {c}})

\* Without two requests of an instance inside, there is one inside at all,
\* and it looked for recent channels after the last one was recorded.
RolloverInv ==
    history \cap {"together", "recycled"} = {} =>
        /\ \A g, h \in Inside : g = h
        /\ \A h \in Handlers : handler[h].at = "make" => recent = {}

Changing(h) ==
    handler[h].at \in {"invalidate", "unselect", "apply", "cacheset"}

\* While selections are made one at a time: the snapshot of a transaction or
\* of the second statement of UsersUpdateChannel has all that is selected.
SelectInv ==
    /\ "overlap" \notin history =>
          \A g, h \in Handlers : Changing(g) /\ Changing(h) => g = h
    /\ history \cap {"overlap", "ignored", "crash"} = {} =>
          /\ \A h \in Handlers :
                /\ handler[h].at = "commit" => selected \subseteq handler[h].seen
                /\ handler[h].at = "apply" =>
                      selected \subseteq handler[h].seen \cup {handler[h].chan}
          /\ \/ AtMostOne(selected)
             \/ \E h \in Handlers : handler[h].at \in {"unselect", "apply"}

\* The channel that UsersUpdateChannel is going to cache is selected.
CacheInv ==
    /\ history \cap {"raced", "deleted", "overlap", "crash"} = {} =>
          \A h \in Handlers :
              handler[h].at \in {"unselect", "apply", "cacheset"}
              => handler[h].chan \in selected
    /\ CacheCoherent

\* Without Redis there is one instance, and it fetches the bots only while none
\* are cached.
Single ==
    ~redis =>
        /\ \A h \in Handlers : handler[h].inst = First
        /\ \A i \in Instances : i # First => flight[i]["bots"] = NoFlight
        /\ flight[First]["bots"].at # "none" => cache.bots = {}

\* The lists that requests are about to choose from are the cached one or the
\* bots, and the index is within every list that may be chosen from.
HoldsList(b, cached, now, fetched) ==
    /\ \A v \in cached \cup fetched : b = v
    /\ cached = {} => b = now
Within(v, now, index) == v \subseteq now /\ (index = 0 \/ index < Cardinality(v))
Fetched == flight[First]["bots"].val
ListsHeld ==
    /\ \A h \in Handlers : handler[h].at = "next" =>
          /\ HoldsList(handler[h].seen, cache.bots, bots, Fetched)
          /\ Within(handler[h].seen, bots, currIdx)
    /\ \A v \in cache.bots : Within(v, bots, currIdx)
    /\ Within(bots, bots, currIdx)
    /\ \A v \in Fetched : Within(v, bots, currIdx)

\* The lists that there are.
Lists ==
    cache.bots \cup {bots} \cup Fetched
    \cup {handler[h].seen : h \in {g \in Handlers : handler[g].at = "next"}}

Fit ==
    history \cap {"shrunk", "outgrown"} = {} =>
        "panic" \notin history /\ (~redis => ListsHeld)

----------------------------------------------------------------------------
(* Type correctness.                                                       *)

USE DEF tgVars, dbVars, bounded

LEMMA ConstantFacts ==
  /\ IsFiniteSet(Handlers) /\ IsFiniteSet(Bots) /\ First \in Instances
  /\ MaxChannels \in Nat /\ MaxChannels >= 1
  /\ \A i \in Instances : ConnsOf[i] \subseteq Conns
  /\ \A i, j \in Instances : i # j => ConnsOf[i] \cap ConnsOf[j] = {}
  BY ChannelAssumption DEF Conns

LEMMA IdleType == Idle \in Requests /\ \A n : RequestOK(Idle, n)
  BY ConstantFacts DEF Idle, Requests, RequestOK, Steps, CreateSteps, ChannelSteps, AllOps

LEMMA RequestFacts ==
  ASSUME TypeOK, NEW h \in Handlers
  PROVE  handler[h] \in Requests /\ RequestOK(handler[h], made)
  BY DEF TypeOK, HandlersOK

\* Who is not at a fetch, or is not waiting yet, is in no flight.
LEMMA NotWaiting ==
  ASSUME TypeOK, NEW h,
         handler[h].at \notin {"current", "tokens", "pick"} \/ Fetching(h)
  PROVE  \A i \in Instances, k \in Keys : h \notin flight[i][k].waiters
  BY DEF TypeOK, WaitersOK, Fetching

\* One request moves on, and nothing happens to the flights.
RequestBecomes(h, r) == handler' = [handler EXCEPT ![h] = r]

LEMMA RequestMoves ==
  ASSUME TypeOK, NEW h \in Handlers, NEW r \in Requests,
         made' \in Nat, made <= made', RequestOK(r, made'),
         RequestBecomes(h, r), flight' = flight,
         \A i \in Instances, k \in Keys : h \notin flight[i][k].waiters
  PROVE  HandlersOK' /\ FlightsOK' /\ WaitersOK'
  <1> USE DEF RequestBecomes
  <1>1. handler \in [Handlers -> Requests] /\ made \in Nat
    BY ConstantFacts DEF TypeOK, HandlersOK, DatabaseOK
  <1>2. handler' \in [Handlers -> Requests]
    BY <1>1
  <1>3. \A g \in Handlers : RequestOK(handler[g], made) => RequestOK(handler[g], made')
    BY <1>1 DEF RequestOK
  <1>4. \A g \in Handlers : handler'[g] = IF g = h THEN r ELSE handler[g]
    BY <1>1
  <1>5. HandlersOK'
    BY <1>2, <1>3, <1>4 DEF TypeOK, HandlersOK
  <1>6. FlightsOK'
    BY DEF TypeOK, FlightsOK
  <1>7. WaitersOK'
    <2>1. \A i \in Instances, k \in Keys : flight[i][k].waiters \subseteq Handlers
      BY DEF TypeOK, FlightsOK, FlightOK, Flights
    <2> QED
      BY <1>4, <2>1 DEF TypeOK, WaitersOK
  <1> QED
    BY <1>5, <1>6, <1>7

\* A request goes on at a step that asks nothing of it.
LEMMA StepTypes ==
  ASSUME NEW r \in Requests, NEW at \in Steps
  PROVE  /\ Goto(r, at) \in Requests
         /\ Goto(r, at).at = at
         /\ Goto(r, at).inst = r.inst /\ Goto(r, at).conn = r.conn
         /\ Goto(r, at).chan = r.chan /\ Goto(r, at).seen = r.seen
         /\ Goto(r, at).op = r.op /\ Goto(r, at).ok = r.ok
  BY DEF Goto, Requests

LEMMA FailedType ==
  ASSUME NEW r \in Requests
  PROVE  /\ Failed(r) \in Requests
         /\ Failed(r).at = "unlock" /\ Failed(r).inst = r.inst /\ Failed(r).conn = r.conn
  BY DEF Failed, Requests, Steps, CreateSteps

\* What a request does with the answer of Fetch.
Answered(r, q, answer) ==
    /\ r.at \in {"current", "tokens", "pick"}
    /\ q.inst = r.inst \/ q = Idle
    /\ r.at = "tokens" =>
          q.at \in {"unlock", "addbots"} /\ q.inst = r.inst /\ q.conn = r.conn
    /\ r.at # "tokens" => q.at \in {"pick", "lock", "idle", "limit", "next"}
    /\ q.at = "next" => r.at = "pick" /\ q.seen \in answer

LEMMA AnswerType ==
  ASSUME NEW r \in Requests, NEW n \in Nat, RequestOK(r, n),
         r.at \in {"current", "tokens", "pick"},
         NEW answer, answer \subseteq Values(KeyOf(r.at)), AtMostOne(answer), NEW none \in BOOLEAN,
         NEW q, q = WithAnswer(r, answer, none)
  PROVE  /\ q \in Requests /\ RequestOK(q, n)
         /\ Answered(r, q, answer)
  <1> USE DEF RequestOK, CreateSteps, ChannelSteps, Answered
  <1>1. CASE r.at = "tokens"
    <2>1. q = Failed(r) \/ q = Goto(r, "addbots")
      BY <1>1 DEF WithAnswer
    <2>2. "addbots" \in Steps
      BY DEF Steps
    <2>3. /\ q \in Requests /\ q.at \in {"unlock", "addbots"} /\ q.inst = r.inst /\ q.conn = r.conn
          /\ q.at = "addbots" => q.chan = r.chan
      BY <2>1, <2>2, FailedType, StepTypes
    <2> QED
      BY <1>1, <2>3
  <1>2. CASE r.at = "current"
    <2>1. \/ q \in {Goto(r, "pick"), Goto(r, "lock"), Idle}
          \/ answer # {} /\ q = [r EXCEPT !.at = "limit", !.chan = CHOOSE c \in answer : TRUE]
      BY <1>2 DEF WithAnswer
    <2>2. CASE q \in {Goto(r, "pick"), Goto(r, "lock")}
      <3>1. "pick" \in Steps /\ "lock" \in Steps
        BY DEF Steps
      <3>2. q \in Requests /\ q.at \in {"pick", "lock"} /\ q.inst = r.inst
        BY <2>2, <3>1, StepTypes
      <3> QED
        BY <1>2, <3>2
    <2>3. CASE q = Idle
      BY <1>2, <2>3, IdleType DEF Idle
    <2>4. CASE answer # {} /\ q = [r EXCEPT !.at = "limit", !.chan = CHOOSE c \in answer : TRUE]
      <3>1. PICK c : c = CHOOSE d \in answer : TRUE
        OBVIOUS
      <3>2. c \in 0..MaxChannels
        BY <1>2, <2>4, <3>1, ConstantFacts DEF Values, KeyOf, Channels
      <3>3. q \in Requests /\ q.at = "limit" /\ q.inst = r.inst
        BY <2>4, <3>1, <3>2 DEF Requests, Steps
      <3> QED
        BY <1>2, <3>3
    <2> QED
      BY <2>1, <2>2, <2>3, <2>4
  <1>3. CASE r.at = "pick"
    <2>1. \/ q = Idle
          \/ answer \notin {{}, {{}}} /\ q = [r EXCEPT !.at = "next", !.seen = CHOOSE b \in answer : TRUE]
      BY <1>3 DEF WithAnswer
    <2>2. CASE q = Idle
      BY <1>3, <2>2, IdleType DEF Idle
    <2>3. CASE answer \notin {{}, {{}}} /\ q = [r EXCEPT !.at = "next", !.seen = CHOOSE b \in answer : TRUE]
      <3>1. PICK b : b = CHOOSE d \in answer : TRUE
        OBVIOUS
      <3>2. b \in answer
        BY <2>3, <3>1
      <3>3. answer = {b}
        BY <3>2 DEF AtMostOne
      <3>4. b # {} /\ b \subseteq Bots
        BY <1>3, <2>3, <3>2, <3>3 DEF Values, KeyOf
      <3>5. q \in Requests /\ q.at = "next" /\ q.inst = r.inst /\ q.seen = b
        BY <2>3, <3>1, <3>4 DEF Requests, Steps
      <3>6. RequestOK(q, n)
        BY <3>4, <3>5
      <3> QED
        BY <1>3, <3>2, <3>5, <3>6
    <2> QED
      BY <2>1, <2>2, <2>3
  <1> QED
    BY <1>1, <1>2, <1>3

LEMMA FlightFacts ==
  ASSUME TypeOK, NEW i \in Instances, NEW k \in Keys
  PROVE  /\ FlightOK(flight[i][k], k)
         /\ flight[i][k].val \subseteq Values(k) /\ AtMostOne(flight[i][k].val)
         /\ flight[i][k].waiters \subseteq Handlers
         /\ cache[k] \subseteq Values(k) /\ AtMostOne(cache[k])
         /\ InDB(k) \subseteq Values(k)
  <1>1. FlightOK(flight[i][k], k)
    BY DEF TypeOK, FlightsOK
  <1>2. cache[k] \subseteq Values(k) /\ AtMostOne(cache[k])
    BY DEF TypeOK, CacheOK, Values, Keys
  <1>3. InDB(k) \subseteq Values(k)
    <2>1. selected \subseteq Channels
      BY ConstantFacts DEF TypeOK, DatabaseOK, Channels
    <2>2. bots \in SUBSET Bots
      BY DEF TypeOK, DatabaseOK
    <2> QED
      BY <2>1, <2>2 DEF InDB, Values
  <1> QED
    BY <1>1, <1>2, <1>3 DEF FlightOK, Flights

LEMMA NoFlightType == \A k : FlightOK(NoFlight, k)
  <1> TAKE k
  <1>1. NoFlight \in Flights(k)
    BY DEF Flights, NoFlight
  <1> QED
    BY <1>1 DEF FlightOK, NoFlight, AtMostOne

\* One flight is replaced.
FlightBecomes(i, k, f) == flight' = [flight EXCEPT ![i][k] = f]

LEMMA FlightSet ==
  ASSUME TypeOK, NEW i \in Instances, NEW k \in Keys, NEW f, FlightOK(f, k), FlightBecomes(i, k, f)
  PROVE  /\ FlightsOK'
         /\ flight'[i][k] = f
         /\ \A j \in Instances, l \in Keys : i # j \/ k # l => flight'[j][l] = flight[j][l]
  <1>1. flight = [j \in Instances |-> [l \in Keys |-> flight[j][l]]]
    BY DEF TypeOK, FlightsOK
  <1> USE DEF FlightBecomes
  <1>2. DOMAIN flight = Instances /\ \A j \in Instances : DOMAIN flight[j] = Keys
    BY <1>1
  <1>3. \A j \in Instances, l \in Keys :
           flight'[j][l] = IF j = i /\ l = k THEN f ELSE flight[j][l]
    BY <1>2
  <1>4. flight' = [j \in Instances |-> [l \in Keys |-> flight'[j][l]]]
    <2>1. \A j \in Instances : flight[j] = [l \in Keys |-> flight[j][l]]
      BY <1>1
    <2>2. flight' = [j \in Instances |-> IF j = i THEN [flight[i] EXCEPT ![k] = f]
                                         ELSE flight[j]]
      BY <1>1
    <2>3. [flight[i] EXCEPT ![k] = f] = [l \in Keys |-> IF l = k THEN f ELSE flight[i][l]]
      BY <1>2, <2>1
    <2>4. \A j \in Instances : flight'[j] = [l \in Keys |-> flight'[j][l]]
      BY <1>3, <2>1, <2>2, <2>3
    <2> QED
      BY <2>2, <2>4
  <1>5. FlightsOK'
    BY <1>3, <1>4 DEF TypeOK, FlightsOK
  <1> QED
    BY <1>3, <1>5

\* A flight lands: those who waited for it are answered.
LEMMA Landing ==
  ASSUME TypeOK, NEW i \in Instances, NEW k \in Keys, NEW none \in BOOLEAN,
         NEW answer, answer \subseteq Values(k), AtMostOne(answer),
         Land(i, k, answer, none), made' = made
  PROVE  /\ HandlersOK' /\ FlightsOK' /\ WaitersOK'
         /\ flight'[i][k] = NoFlight
         /\ \A j \in Instances, l \in Keys : i # j \/ k # l => flight'[j][l] = flight[j][l]
         /\ \A h \in Handlers :
               \/ h \notin flight[i][k].waiters /\ handler'[h] = handler[h]
               \/ /\ h \in flight[i][k].waiters /\ KeyOf(handler[h].at) = k
                  /\ Answered(handler[h], handler'[h], answer)
  <1>1. FlightBecomes(i, k, NoFlight)
    BY DEF Land, FlightBecomes
  <1>2. FlightOK(NoFlight, k)
    BY NoFlightType
  <1>3. /\ FlightsOK' /\ flight'[i][k] = NoFlight
        /\ \A j \in Instances, l \in Keys : i # j \/ k # l => flight'[j][l] = flight[j][l]
    BY <1>1, <1>2, FlightSet
  <1>4. made \in Nat
    BY ConstantFacts DEF TypeOK, DatabaseOK
  <1>5. ASSUME NEW h \in Handlers, h \in flight[i][k].waiters
        PROVE  /\ handler'[h] \in Requests /\ RequestOK(handler'[h], made)
               /\ Answered(handler[h], handler'[h], answer)
               /\ KeyOf(handler[h].at) = k
    <2>1. PICK r, q : r = handler[h] /\ q = WithAnswer(r, answer, none)
      OBVIOUS
    <2>2. handler'[h] = q
      BY <1>5, <2>1 DEF Land
    <2>3. r.at \in {"current", "tokens", "pick"} /\ KeyOf(r.at) = k
      BY <1>5, <2>1 DEF TypeOK, WaitersOK
    <2>4. r \in Requests /\ RequestOK(r, made)
      BY <2>1, RequestFacts
    <2>5. q \in Requests /\ RequestOK(q, made) /\ Answered(r, q, answer)
      BY <1>4, <2>1, <2>3, <2>4, AnswerType
    <2> QED
      BY <2>1, <2>2, <2>3, <2>5
  <1>6. \A h \in Handlers : h \notin flight[i][k].waiters => handler'[h] = handler[h]
    BY DEF Land
  <1>7. HandlersOK'
    <2>1. \A h \in Handlers : handler'[h] \in Requests /\ RequestOK(handler'[h], made)
      BY <1>5, <1>6, RequestFacts
    <2>2. handler' = [h \in Handlers |-> handler'[h]]
      BY DEF Land
    <2> QED
      BY <2>1, <2>2 DEF HandlersOK
  <1>8. WaitersOK'
    <2> SUFFICES ASSUME NEW j \in Instances, NEW l \in Keys, NEW h \in flight'[j][l].waiters
                 PROVE  /\ handler'[h].inst = j
                        /\ handler'[h].at \in {"current", "tokens", "pick"}
                        /\ KeyOf(handler'[h].at) = l
      BY DEF WaitersOK
    <2>1. i # j \/ k # l
      BY <1>3 DEF NoFlight
    <2>2. h \in flight[j][l].waiters
      BY <1>3, <2>1
    <2>3. /\ handler[h].inst = j /\ handler[h].at \in {"current", "tokens", "pick"}
          /\ KeyOf(handler[h].at) = l
      BY <2>2 DEF TypeOK, WaitersOK
    <2>4. h \notin flight[i][k].waiters
      BY <2>1, <2>3 DEF TypeOK, WaitersOK
    <2>5. h \in Handlers
      BY <2>2, FlightFacts
    <2> QED
      BY <1>6, <2>3, <2>4, <2>5
  <1> QED
    BY <1>3, <1>5, <1>6, <1>7, <1>8

\* The request stays inside CreateNewChannel, with its connection, or outside.
SamePlace(old, new) ==
    /\ old.at \in CreateSteps <=> new.at \in CreateSteps
    /\ new.at \in CreateSteps => new.inst = old.inst /\ new.conn = old.conn
    /\ new.inst \in {old.inst, First} \cup Up

\* What the steps of a request that fetches nothing do to it.
LEMMA CreateStep ==
  ASSUME TypeOK, NEW h \in Handlers,
         \/ Recent(h) \/ Make(h) \/ CreateFails(h) \/ AddBotsToChannel(h)
         \/ TxUpdate(h) \/ TxCommit(h) \/ Invalidate(h) \/ Record(h)
  PROVE  /\ \E r \in Requests : /\ RequestBecomes(h, r) /\ SamePlace(handler[h], r)
                                /\ RequestOK(r, made')
         /\ handler[h].at \notin {"current", "tokens", "pick"}
         /\ flight' = flight
  <1>0. PICK r0 : r0 = handler[h]
    OBVIOUS
  <1>1. r0 \in Requests /\ RequestOK(r0, made) /\ made \in 0..MaxChannels /\ made \in Nat
        /\ rows \subseteq Channels /\ recent \subseteq Channels
    BY <1>0, RequestFacts, ConstantFacts DEF TypeOK, DatabaseOK, Channels
  <1>2. flight' = flight /\ handler[h].at \in CreateSteps \ {"tokens"}
    BY DEF Recent, Make, CreateFails, AddBotsToChannel, TxUpdate, TxCommit, Invalidate, Record,
      CreateSteps
  <1>3. r0.at \in CreateSteps /\ \E c \in ConnsOf[r0.inst] : r0.conn = {c}
    BY <1>0, <1>1, <1>2 DEF RequestOK
  <1> USE DEF RequestBecomes, GoOn, SamePlace, RequestOK, CreateSteps, ChannelSteps
  <1>4. ASSUME NEW at \in Steps, at \in CreateSteps \ {"commit"}, r0.at \in ChannelSteps \/ at \in {"recent", "make", "unlock"},
               made' = made, GoOn(h, at)
        PROVE  \E r \in Requests : RequestBecomes(h, r) /\ SamePlace(handler[h], r) /\ RequestOK(r, made')
    <2>1. PICK r : r = Goto(r0, at)
      OBVIOUS
    <2>2. r \in Requests /\ r.at = at /\ r.inst = r0.inst /\ r.conn = r0.conn /\ r.chan = r0.chan
      BY <1>1, <2>1, StepTypes
    <2>3. RequestBecomes(h, r)
      BY <1>0, <1>4, <2>1
    <2>4. SamePlace(r0, r)
      BY <1>3, <1>4, <2>2
    <2>5. RequestOK(r, made')
      BY <1>1, <1>3, <1>4, <2>2
    <2> QED
      BY <1>0, <2>2, <2>3, <2>4, <2>5
  <1>5. ASSUME handler' = [handler EXCEPT ![h] = Failed(@)]
        PROVE  \E r \in Requests : RequestBecomes(h, r) /\ SamePlace(handler[h], r) /\ RequestOK(r, made')
    <2>1. PICK r : r = Failed(r0)
      OBVIOUS
    <2>2. r \in Requests /\ r.at = "unlock" /\ r.inst = r0.inst /\ r.conn = r0.conn
      BY <1>1, <2>1, FailedType
    <2>3. RequestBecomes(h, r)
      BY <1>0, <1>5, <2>1
    <2>4. SamePlace(r0, r) /\ RequestOK(r, made')
      BY <1>3, <2>2
    <2> QED
      BY <1>0, <2>2, <2>3, <2>4
  <1>6. CASE Recent(h)
    <2>1. CASE \E c \in recent : handler' = [handler EXCEPT ![h] = [@ EXCEPT !.at = "unlock", !.chan = c]]
      <3>1. PICK c \in recent : handler' = [handler EXCEPT ![h] = [@ EXCEPT !.at = "unlock", !.chan = c]]
        BY <2>1
      <3>2. PICK r : r = [r0 EXCEPT !.at = "unlock", !.chan = c]
        OBVIOUS
      <3>3. c \in 0..MaxChannels
        BY <1>1, ConstantFacts DEF Channels
      <3>4. r \in Requests /\ r.at = "unlock" /\ r.inst = r0.inst /\ r.conn = r0.conn
        BY <1>1, <3>2, <3>3 DEF Requests, Steps
      <3>5. RequestBecomes(h, r)
        BY <1>0, <3>1, <3>2
      <3>6. SamePlace(r0, r) /\ RequestOK(r, made')
        BY <1>3, <3>4
      <3> QED
        BY <1>0, <1>2, <3>4, <3>5, <3>6
    <2>2. CASE GoOn(h, "make")
      <3>1. "make" \in Steps /\ made' = made
        BY <1>6 DEF Recent, Steps
      <3> QED
        BY <1>2, <1>4, <2>2, <3>1
    <2> QED
      BY <1>2, <1>5, <1>6, <2>1, <2>2 DEF Recent
  <1>7. CASE Make(h)
    <2>1. PICK r : r = [r0 EXCEPT !.at = "tokens", !.chan = made + 1]
      OBVIOUS
    <2>2. made' = made + 1 /\ made + 1 \in 0..MaxChannels
      BY <1>1, <1>7, ConstantFacts DEF Make
    <2>3. r \in Requests /\ r.at = "tokens" /\ r.inst = r0.inst /\ r.conn = r0.conn /\ r.chan = made + 1
      BY <1>1, <2>1, <2>2 DEF Requests, Steps
    <2>4. RequestBecomes(h, r)
      BY <1>0, <1>7, <2>1 DEF Make
    <2>5. SamePlace(r0, r)
      BY <1>3, <2>3
    <2>6. RequestOK(r, made')
      BY <1>1, <1>3, <2>2, <2>3
    <2> QED
      BY <1>0, <1>2, <2>3, <2>4, <2>5, <2>6
  <1>8. CASE CreateFails(h)
    BY <1>2, <1>5, <1>8 DEF CreateFails
  <1>9. CASE AddBotsToChannel(h)
    <2>1. \E at \in {"tx", "record"} : GoOn(h, at)
      BY <1>9 DEF AddBotsToChannel
    <2>2. "tx" \in Steps /\ "record" \in Steps /\ made' = made /\ r0.at \in ChannelSteps
      BY <1>0, <1>9 DEF AddBotsToChannel, Steps
    <2> QED
      BY <1>2, <1>4, <2>1, <2>2
  <1>10. CASE TxUpdate(h)
    <2>1. PICK r : r = [r0 EXCEPT !.at = "commit", !.seen = rows]
      OBVIOUS
    <2>2. /\ r \in Requests /\ r.at = "commit" /\ r.inst = r0.inst /\ r.conn = r0.conn
          /\ r.chan = r0.chan /\ r.seen = rows
      BY <1>1, <2>1 DEF Requests, Steps
    <2>3. RequestBecomes(h, r) /\ made' = made /\ r0.at = "tx"
      BY <1>0, <1>10, <2>1 DEF TxUpdate
    <2>4. SamePlace(r0, r)
      BY <1>3, <2>2
    <2>5. RequestOK(r, made')
      BY <1>1, <1>3, <2>2, <2>3
    <2> QED
      BY <1>0, <1>2, <2>2, <2>3, <2>4, <2>5
  <1>11. CASE TxCommit(h)
    <2>1. PICK r : r = [r0 EXCEPT !.at = "invalidate", !.seen = {}]
      OBVIOUS
    <2>2. /\ r \in Requests /\ r.at = "invalidate" /\ r.inst = r0.inst /\ r.conn = r0.conn
          /\ r.chan = r0.chan
      BY <1>1, <2>1 DEF Requests, Steps
    <2>3. RequestBecomes(h, r) /\ made' = made /\ r0.at = "commit"
      BY <1>0, <1>11, <2>1 DEF TxCommit
    <2>4. SamePlace(r0, r)
      BY <1>3, <2>2
    <2>5. RequestOK(r, made')
      BY <1>1, <1>3, <2>2, <2>3
    <2> QED
      BY <1>0, <1>2, <2>2, <2>3, <2>4, <2>5
  <1>12. CASE Invalidate(h) \/ Record(h)
    <2>1. GoOn(h, "unlock") /\ made' = made /\ "unlock" \in Steps
      BY <1>12 DEF Invalidate, Record, Steps
    <2> QED
      BY <1>2, <1>4, <2>1
  <1> QED
    BY <1>6, <1>7, <1>8, <1>9, <1>10, <1>11, <1>12

\* And the steps outside CreateNewChannel that fetch nothing.
LEMMA OutsideStep ==
  ASSUME TypeOK, NEW h \in Handlers,
         \/ \E op \in Ops, i \in Up, c \in Channels \cup {0} : Start(h, op, i, c)
         \/ Limit(h) \/ SelectorNext(h) \/ AcquireFails(h)
         \/ Select(h) \/ Unselect(h) \/ Apply(h) \/ CacheSet(h)
         \/ TgDelete(h) \/ RowDelete(h) \/ BotRows(h) \/ DropBots(h)
  PROVE  /\ \E r \in Requests : /\ RequestBecomes(h, r) /\ SamePlace(handler[h], r)
                                /\ RequestOK(r, made') /\ r.at # "next"
         /\ handler[h].at \notin {"current", "tokens", "pick"} \cup CreateSteps
         /\ flight' = flight /\ made' = made /\ locks' = locks
  <1>0. PICK r0 : r0 = handler[h]
    OBVIOUS
  <1>1. r0 \in Requests /\ RequestOK(r0, made) /\ made \in 0..MaxChannels /\ made \in Nat
        /\ rows \subseteq Channels /\ telegram \subseteq 1..made
    BY <1>0, RequestFacts, ConstantFacts DEF TypeOK, DatabaseOK, Channels
  <1>2. /\ flight' = flight /\ made' = made /\ locks' = locks
        /\ handler[h].at \notin {"current", "tokens", "pick"} \cup CreateSteps
    <2> USE DEF CreateSteps
    <2>1. CASE \E op \in Ops, i \in Up, c \in Channels \cup {0} : Start(h, op, i, c)
      <3>1. handler[h] = Idle /\ flight' = flight /\ made' = made /\ locks' = locks
        BY <2>1 DEF Start
      <3>2. Idle.at = "idle"
        BY DEF Idle
      <3> QED
        BY <3>1, <3>2
    <2>2. CASE Limit(h) \/ SelectorNext(h) \/ AcquireFails(h) \/ Select(h)
      BY <2>2 DEF Limit, SelectorNext, AcquireFails, Select
    <2>3. CASE Unselect(h) \/ Apply(h) \/ CacheSet(h) \/ TgDelete(h)
      BY <2>3 DEF Unselect, Apply, CacheSet, TgDelete
    <2>4. CASE RowDelete(h) \/ BotRows(h) \/ DropBots(h)
      BY <2>4 DEF RowDelete, BotRows, DropBots
    <2> QED
      BY <2>1, <2>2, <2>3, <2>4
  <1>3. r0.at \notin CreateSteps
    BY <1>0, <1>2
  <1> USE DEF RequestBecomes, GoOn, SamePlace, RequestOK, CreateSteps, ChannelSteps
  <1>4. ASSUME NEW at \in Steps \ (CreateSteps \cup {"next", "apply"}),
               r0.at \in ChannelSteps \/ at \notin ChannelSteps, GoOn(h, at)
        PROVE  \E r \in Requests : RequestBecomes(h, r) /\ SamePlace(handler[h], r) /\ RequestOK(r, made')
                                   /\ r.at # "next"
    <2>1. PICK r : r = Goto(r0, at)
      OBVIOUS
    <2>2. r \in Requests /\ r.at = at /\ r.inst = r0.inst /\ r.chan = r0.chan
      BY <1>1, <2>1, StepTypes
    <2>3. RequestBecomes(h, r)
      BY <1>0, <1>4, <2>1
    <2>4. SamePlace(r0, r)
      BY <1>3, <2>2
    <2>5. RequestOK(r, made')
      BY <1>1, <1>2, <1>4, <2>2
    <2> QED
      BY <1>0, <1>4, <2>2, <2>3, <2>4, <2>5
  <1>5. ASSUME Done(h)
        PROVE  \E r \in Requests : RequestBecomes(h, r) /\ SamePlace(handler[h], r) /\ RequestOK(r, made')
                                   /\ r.at # "next"
    <2>1. RequestBecomes(h, Idle)
      BY <1>5 DEF Done
    <2>2. Idle.at \notin CreateSteps /\ Idle.inst = First /\ Idle.at # "next"
      BY DEF Idle
    <2>3. SamePlace(handler[h], Idle)
      BY <1>0, <1>3, <2>2
    <2> QED
      BY <2>1, <2>2, <2>3, IdleType
  <1>6. CASE \E op \in Ops, i \in Up, c \in Channels \cup {0} : Start(h, op, i, c)
    <2>1. PICK op \in Ops, i \in Up, c \in Channels \cup {0} : Start(h, op, i, c)
      BY <1>6
    <2>2. PICK r : r = [Idle EXCEPT !.op = op, !.inst = i, !.chan = c, !.at = FirstStep(op)]
      OBVIOUS
    <2>3. op \in AllOps /\ i \in Instances /\ c \in 0..MaxChannels
      BY ChannelAssumption, ConstantFacts DEF Up, Channels
    <2>4. /\ FirstStep(op) \in {"current", "lock", "select", "tgdelete", "botrows"}
          /\ FirstStep(op) \in {"select", "tgdelete"} => op \in {"update", "delete"}
      BY <2>3 DEF FirstStep, AllOps
    <2>5. /\ r \in Requests /\ r.at = FirstStep(op) /\ r.inst = i /\ r.chan = c
      BY <2>2, <2>3, <2>4, IdleType DEF Requests, Steps, Idle
    <2>6. op \in {"update", "delete"} => c \in 1..made
      BY <1>1, <2>1 DEF Start
    <2>7. RequestBecomes(h, r)
      BY <2>1, <2>2 DEF Start
    <2>8. SamePlace(r0, r)
      BY <1>3, <2>4, <2>5
    <2>9. RequestOK(r, made')
      BY <1>2, <2>4, <2>5, <2>6
    <2> QED
      BY <1>0, <1>2, <2>4, <2>5, <2>7, <2>8, <2>9
  <1>7. CASE Unselect(h)
    <2>1. PICK r : r = [r0 EXCEPT !.at = "apply", !.seen = rows \ {handler[h].chan}]
      OBVIOUS
    <2>2. /\ r \in Requests /\ r.at = "apply" /\ r.inst = r0.inst /\ r.chan = r0.chan
          /\ r.seen = rows \ {r0.chan}
      BY <1>0, <1>1, <2>1 DEF Requests, Steps
    <2>3. RequestBecomes(h, r) /\ r0.at = "unselect"
      BY <1>0, <1>7, <2>1 DEF Unselect
    <2>4. SamePlace(r0, r)
      BY <1>3, <2>2
    <2>5. RequestOK(r, made')
      BY <1>1, <1>2, <2>2, <2>3
    <2> QED
      BY <1>0, <1>2, <2>2, <2>3, <2>4, <2>5
  <1>8. CASE Apply(h)
    <2>1. PICK r : r = [r0 EXCEPT !.at = "cacheset", !.seen = {}]
      OBVIOUS
    <2>2. /\ r \in Requests /\ r.at = "cacheset" /\ r.inst = r0.inst /\ r.chan = r0.chan
      BY <1>1, <2>1 DEF Requests, Steps
    <2>3. RequestBecomes(h, r) /\ r0.at = "apply"
      BY <1>0, <1>8, <2>1 DEF Apply
    <2>4. SamePlace(r0, r)
      BY <1>3, <2>2
    <2>5. RequestOK(r, made')
      BY <1>1, <1>2, <2>2, <2>3
    <2> QED
      BY <1>0, <1>2, <2>2, <2>3, <2>4, <2>5
  <1>9. CASE SelectorNext(h) \/ AcquireFails(h) \/ CacheSet(h) \/ RowDelete(h) \/ DropBots(h)
    BY <1>2, <1>5, <1>9 DEF SelectorNext, AcquireFails, CacheSet, RowDelete, DropBots
  <1>10. CASE Limit(h) \/ BotRows(h)
    <2>1. Done(h) \/ \E at \in {"lock", "pick", "dropbots"} : GoOn(h, at)
      BY <1>10 DEF Limit, BotRows
    <2>2. {"lock", "pick", "dropbots"} \subseteq Steps \ (CreateSteps \cup {"next", "apply"} \cup ChannelSteps)
      BY DEF Steps
    <2> QED
      BY <1>2, <1>4, <1>5, <2>1, <2>2
  <1>11. CASE Select(h) \/ TgDelete(h)
    <2>1. Done(h) \/ \E at \in {"unselect", "rowdelete"} : GoOn(h, at)
      BY <1>11 DEF Select, TgDelete
    <2>2. {"unselect", "rowdelete"} \subseteq Steps \ (CreateSteps \cup {"next", "apply"})
      BY DEF Steps
    <2>3. r0.at \in ChannelSteps
      BY <1>0, <1>11 DEF Select, TgDelete
    <2> QED
      BY <1>2, <1>4, <1>5, <2>1, <2>2, <2>3
  <1> QED
    BY <1>6, <1>7, <1>8, <1>9, <1>10, <1>11

LEMMA AnsweredPlace ==
  ASSUME NEW r, NEW q, NEW answer, Answered(r, q, answer)
  PROVE  SamePlace(r, q)
  <1>1. Idle.inst = First
    BY DEF Idle
  <1> QED
    BY <1>1 DEF Answered, SamePlace, CreateSteps

\* The steps of Fetch.
LEMMA HitStep ==
  ASSUME TypeOK, NEW h \in Handlers, Hit(h)
  PROVE  \E r \in Requests : /\ RequestBecomes(h, r) /\ RequestOK(r, made)
                             /\ Answered(handler[h], r, cache[KeyOf(handler[h].at)])
  <1>1. PICK r0, answer, r : r0 = handler[h] /\ answer = cache[KeyOf(r0.at)] /\ r = WithAnswer(r0, answer, FALSE)
    OBVIOUS
  <1>2. r0 \in Requests /\ RequestOK(r0, made) /\ made \in Nat
    BY <1>1, RequestFacts, ConstantFacts DEF TypeOK, DatabaseOK
  <1>3. r0.at \in {"current", "tokens", "pick"} /\ KeyOf(r0.at) \in Keys
    BY <1>1 DEF Hit, Fetching, KeyOf, Keys
  <1>4. answer \subseteq Values(KeyOf(r0.at)) /\ AtMostOne(answer)
    BY <1>1, <1>3, ConstantFacts, FlightFacts
  <1>5. r \in Requests /\ RequestOK(r, made) /\ Answered(r0, r, answer)
    BY <1>1, <1>2, <1>3, <1>4, AnswerType
  <1>6. RequestBecomes(h, r)
    BY <1>1 DEF Hit, RequestBecomes
  <1> QED
    BY <1>1, <1>5, <1>6

LEMMA MissStep ==
  ASSUME TypeOK, NEW h \in Handlers, Miss(h)
  PROVE  /\ FlightsOK' /\ WaitersOK' /\ HandlersOK'
         /\ handler' = handler
         /\ \A j \in Instances, l \in Keys :
               /\ flight'[j][l].val = flight[j][l].val
               /\ \/ flight'[j][l] = flight[j][l]
                  \/ flight'[j][l].at # "none" /\ cache[l] = {} /\ j = handler[h].inst
  <1>1. PICK i, k : i = handler[h].inst /\ k = KeyOf(handler[h].at)
    OBVIOUS
  <1>2. i \in Instances /\ k \in Keys /\ handler[h].at \in {"current", "tokens", "pick"} /\ cache[k] = {}
    BY <1>1, RequestFacts DEF Miss, Fetching, KeyOf, Keys, Requests
  <1>3. PICK f0 : f0 = flight[i][k]
    OBVIOUS
  <1>4. FlightOK(f0, k)
    BY <1>2, <1>3, FlightFacts
  <1>5. PICK f : f = [f0 EXCEPT !.waiters = @ \cup {h}, !.at = IF @ = "none" THEN "recheck" ELSE @]
    OBVIOUS
  <1>6. f.val = f0.val /\ f.at # "none" /\ f.waiters = f0.waiters \cup {h}
        /\ f.at = IF f0.at = "none" THEN "recheck" ELSE f0.at
    BY <1>4, <1>5 DEF FlightOK, Flights
  <1>7. f \in Flights(k)
    BY <1>4, <1>5 DEF FlightOK, Flights
  <1>8. FlightOK(f, k)
    <2>1. f0.at # "store" => f0.val = {}
      BY <1>4 DEF FlightOK
    <2>2. f.at # "store" => f0.at # "store"
      BY <1>6
    <2>3. AtMostOne(f.val)
      BY <1>4, <1>6 DEF FlightOK
    <2> QED
      BY <1>6, <1>7, <2>1, <2>2, <2>3 DEF FlightOK
  <1>9. FlightBecomes(i, k, f)
    <2>1. flight = [j \in Instances |-> [l \in Keys |-> flight[j][l]]]
      BY DEF TypeOK, FlightsOK
    <2>2. i \in DOMAIN flight /\ k \in DOMAIN flight[i]
      BY <1>2, <2>1
    <2>3. flight' = [flight EXCEPT ![i][k].waiters = @ \cup {h}, ![i][k].at = IF @ = "none" THEN "recheck" ELSE @]
      BY <1>1 DEF Miss
    <2> QED
      BY <1>3, <1>5, <2>2, <2>3 DEF FlightBecomes
  <1>10. /\ FlightsOK' /\ flight'[i][k] = f
         /\ \A j \in Instances, l \in Keys : i # j \/ k # l => flight'[j][l] = flight[j][l]
    BY <1>2, <1>8, <1>9, FlightSet
  <1>11. handler' = handler /\ made' = made
    BY DEF Miss
  <1>12. WaitersOK'
    <2> SUFFICES ASSUME NEW j \in Instances, NEW l \in Keys, NEW g \in flight'[j][l].waiters
                 PROVE  /\ handler[g].inst = j
                        /\ handler[g].at \in {"current", "tokens", "pick"}
                        /\ KeyOf(handler[g].at) = l
      BY <1>11 DEF WaitersOK
    <2>1. CASE g \in flight[j][l].waiters
      BY <2>1 DEF TypeOK, WaitersOK
    <2>2. CASE g \notin flight[j][l].waiters
      <3>1. i = j /\ k = l /\ g = h
        BY <1>2, <1>3, <1>6, <1>10, <2>2
      <3> QED
        BY <1>1, <1>2, <3>1
    <2> QED
      BY <2>1, <2>2
  <1>13. HandlersOK'
    BY <1>11 DEF TypeOK, HandlersOK
  <1> QED
    BY <1>1, <1>2, <1>3, <1>6, <1>10, <1>11, <1>12, <1>13

LEMMA LeaveStep ==
  ASSUME TypeOK, NEW h \in Handlers, Leave(h)
  PROVE  /\ FlightsOK' /\ WaitersOK' /\ HandlersOK'
         /\ \E r \in Requests : RequestBecomes(h, r) /\ Answered(handler[h], r, {})
         /\ \A j \in Instances, l \in Keys :
               flight'[j][l].val = flight[j][l].val /\ flight'[j][l].at = flight[j][l].at
         /\ \A j \in Instances, l \in Keys : flight[j][l] = NoFlight => flight'[j][l] = NoFlight
  <1>1. PICK i, k, r0, r, f0, f :
           /\ i = handler[h].inst /\ k = KeyOf(handler[h].at)
           /\ r0 = handler[h] /\ r = WithAnswer(r0, {}, FALSE)
           /\ f0 = flight[i][k] /\ f = [f0 EXCEPT !.waiters = @ \ {h}]
    OBVIOUS
  <1>0. f0 = flight[i][k] /\ r0 = handler[h]
    BY <1>1
  <1>2. i \in Instances /\ k \in Keys /\ r0.at \in {"current", "tokens", "pick"} /\ h \in f0.waiters
    BY <1>1, RequestFacts DEF Leave, KeyOf, Keys, Requests
  <1>3. r0 \in Requests /\ RequestOK(r0, made) /\ made \in Nat
    BY <1>1, RequestFacts, ConstantFacts DEF TypeOK, DatabaseOK
  <1>4. r \in Requests /\ RequestOK(r, made) /\ Answered(r0, r, {})
    <2>1. {} \subseteq Values(KeyOf(r0.at)) /\ AtMostOne({})
      BY DEF AtMostOne
    <2> QED
      BY <1>1, <1>2, <1>3, <2>1, AnswerType
  <1>5. FlightOK(f0, k)
    BY <1>1, <1>2, FlightFacts
  <1>6. f \in Flights(k) /\ f.at = f0.at /\ f.val = f0.val /\ f.waiters = f0.waiters \ {h}
    BY <1>1, <1>5 DEF FlightOK, Flights
  <1>7. f0.at # "none"
    BY <1>2, <1>5 DEF FlightOK, NoFlight
  <1>8. FlightOK(f, k)
    BY <1>5, <1>6, <1>7 DEF FlightOK
  <1>9. FlightBecomes(i, k, f)
    <2>1. flight = [j \in Instances |-> [l \in Keys |-> flight[j][l]]]
      BY DEF TypeOK, FlightsOK
    <2>2. i \in DOMAIN flight /\ k \in DOMAIN flight[i]
      BY <1>2, <2>1
    <2>3. flight' = [flight EXCEPT ![i][k].waiters = @ \ {h}]
      BY <1>1 DEF Leave
    <2> QED
      BY <1>1, <2>2, <2>3 DEF FlightBecomes
  <1>10. /\ FlightsOK' /\ flight'[i][k] = f
         /\ \A j \in Instances, l \in Keys : i # j \/ k # l => flight'[j][l] = flight[j][l]
    BY <1>2, <1>8, <1>9, FlightSet
  <1>11. RequestBecomes(h, r) /\ made' = made
    BY <1>1 DEF Leave, RequestBecomes
  <1>12. handler \in [Handlers -> Requests]
    BY DEF TypeOK, HandlersOK
  <1>13. \A g \in Handlers : handler'[g] = IF g = h THEN r ELSE handler[g]
    BY <1>11, <1>12 DEF RequestBecomes
  <1>14. HandlersOK'
    <2>1. handler' \in [Handlers -> Requests]
      BY <1>4, <1>11, <1>12 DEF RequestBecomes
    <2>2. \A g \in Handlers : RequestOK(handler'[g], made')
      BY <1>4, <1>11, <1>13, RequestFacts
    <2> QED
      BY <2>1, <2>2 DEF HandlersOK
  <1>15. WaitersOK'
    <2> SUFFICES ASSUME NEW j \in Instances, NEW l \in Keys, NEW g \in flight'[j][l].waiters
                 PROVE  /\ handler'[g].inst = j
                        /\ handler'[g].at \in {"current", "tokens", "pick"}
                        /\ KeyOf(handler'[g].at) = l
      BY DEF WaitersOK
    <2>1. g \in flight[j][l].waiters
      BY <1>0, <1>6, <1>10
    <2>2. g # h
      <3>1. CASE i = j /\ k = l
        BY <1>6, <1>10, <3>1
      <3>2. CASE i # j \/ k # l
        BY <1>1, <2>1, <3>2 DEF TypeOK, WaitersOK
      <3> QED
        BY <3>1, <3>2
    <2>3. g \in Handlers
      BY <2>1, FlightFacts
    <2> QED
      BY <1>13, <2>1, <2>2, <2>3 DEF TypeOK, WaitersOK
  <1>16. f0 # NoFlight
    BY <1>7 DEF NoFlight
  <1>17. \A j \in Instances, l \in Keys :
            /\ flight'[j][l].val = flight[j][l].val /\ flight'[j][l].at = flight[j][l].at
            /\ flight[j][l] = NoFlight => flight'[j][l] = NoFlight
    <2> TAKE j \in Instances, l \in Keys
    <2>1. CASE i = j /\ k = l
      BY <1>0, <1>6, <1>10, <1>16, <2>1
    <2>2. CASE i # j \/ k # l
      BY <1>10, <2>2
    <2> QED
      BY <2>1, <2>2
  <1> QED
    BY <1>0, <1>4, <1>11, <1>14, <1>15, <1>10, <1>17

\* A request that is told the answer of Fetch, or one that nothing happens to.
Aside(old, new) ==
    \/ new = old
    \/ /\ old.at \in {"current", "tokens", "pick"}
       /\ new.at \in {"unlock", "addbots", "pick", "lock", "idle", "limit", "next"}
       /\ SamePlace(old, new)

LEMMA AnsweredAside ==
  ASSUME NEW r, NEW q, NEW answer, Answered(r, q, answer)
  PROVE  Aside(r, q)
  BY AnsweredPlace DEF Answered, Aside

LEMMA AsideSamePlace ==
  ASSUME NEW r, NEW q, Aside(r, q)
  PROVE  SamePlace(r, q)
  BY DEF Aside, SamePlace

\* The steps of a flight.
LEMMA FlightMoves ==
  ASSUME TypeOK, NEW i \in Instances, NEW k \in Keys, NEW f, FlightOK(f, k),
         f.waiters = flight[i][k].waiters, FlightBecomes(i, k, f), handler' = handler, made' = made
  PROVE  HandlersOK' /\ FlightsOK' /\ WaitersOK' 
  <1>1. /\ FlightsOK' /\ flight'[i][k] = f
        /\ \A j \in Instances, l \in Keys : i # j \/ k # l => flight'[j][l] = flight[j][l]
    BY FlightSet
  <1>2. \A j \in Instances, l \in Keys : flight'[j][l].waiters = flight[j][l].waiters
    BY <1>1
  <1>3. WaitersOK'
    BY <1>2 DEF TypeOK, WaitersOK
  <1>4. HandlersOK'
    BY DEF TypeOK, HandlersOK
  <1> QED
    BY <1>1, <1>3, <1>4

\* A flight that does not land only moves on.
MovesOn(i, k, v) ==
    \/ /\ v = {} /\ flight[i][k].at = "recheck"
       /\ flight' = [flight EXCEPT ![i][k].at = "query"]
    \/ /\ v \subseteq Values(k) /\ AtMostOne(v)
       /\ flight' = [flight EXCEPT ![i][k].at = "store", ![i][k].val = v]

LEMMA FlightOn ==
  ASSUME TypeOK, NEW i \in Instances, NEW k \in Keys, NEW v, MovesOn(i, k, v)
  PROVE  \E f : /\ FlightOK(f, k) /\ f.waiters = flight[i][k].waiters /\ FlightBecomes(i, k, f)
                /\ f.val = v /\ f.at # "none" 
  <1>1. PICK f0 : f0 = flight[i][k]
    OBVIOUS
  <1>2. FlightOK(f0, k)
    BY <1>1, FlightFacts
  <1>3. flight = [j \in Instances |-> [l \in Keys |-> flight[j][l]]]
    BY DEF TypeOK, FlightsOK
  <1>4. i \in DOMAIN flight /\ k \in DOMAIN flight[i]
    BY <1>3
  <1>5. CASE v = {} /\ f0.at = "recheck" /\ flight' = [flight EXCEPT ![i][k].at = "query"]
    <2>1. PICK f : f = [f0 EXCEPT !.at = "query"]
      OBVIOUS
    <2>2. f \in Flights(k) /\ f.at = "query" /\ f.val = {} /\ f.waiters = f0.waiters
      BY <1>2, <1>5, <2>1 DEF FlightOK, Flights
    <2>3. FlightBecomes(i, k, f)
      BY <1>1, <1>4, <1>5, <2>1 DEF FlightBecomes
    <2>4. FlightOK(f, k)
      BY <2>2 DEF FlightOK, AtMostOne
    <2> QED
      BY <1>1, <1>5, <2>2, <2>3, <2>4
  <1>6. CASE /\ v \subseteq Values(k) /\ AtMostOne(v)
             /\ flight' = [flight EXCEPT ![i][k].at = "store", ![i][k].val = v]
    <2>1. PICK f : f = [f0 EXCEPT !.at = "store", !.val = v]
      OBVIOUS
    <2>2. f \in Flights(k) /\ f.at = "store" /\ f.val = v /\ f.waiters = f0.waiters
      BY <1>2, <1>6, <2>1 DEF FlightOK, Flights
    <2>3. FlightBecomes(i, k, f)
      BY <1>1, <1>4, <1>6, <2>1 DEF FlightBecomes
    <2>4. FlightOK(f, k)
      BY <1>6, <2>2 DEF FlightOK
    <2> QED
      BY <1>1, <2>2, <2>3, <2>4
  <1> QED
    BY <1>1, <1>5, <1>6 DEF MovesOn

LandsWith(i, k, answer) == Land(i, k, answer, TRUE) \/ Land(i, k, answer, FALSE)

\* How a step of a flight ends: it lands with an answer, or moves on.
LEMMA FlyKinds ==
  ASSUME TypeOK, NEW i \in Instances, NEW k \in Keys, Fly(i, k)
  PROVE  \/ \E answer :
               /\ answer \subseteq Values(k) /\ AtMostOne(answer)
               /\ LandsWith(i, k, answer)
               /\ answer \in {{}, cache[k], flight[i][k].val}
               /\ cache'[k] # {} => answer \in {{}, cache'[k]}
         \/ /\ handler' = handler
            /\ \E f : /\ FlightOK(f, k) /\ f.waiters = flight[i][k].waiters /\ FlightBecomes(i, k, f)
                      /\ f.at # "none" /\ f.val \subseteq InDB(k)
                      /\ flight[i][k].at # "none" /\ cache' = cache
  <1>1. /\ flight[i][k].val \subseteq Values(k) /\ AtMostOne(flight[i][k].val)
        /\ cache[k] \subseteq Values(k) /\ AtMostOne(cache[k]) /\ InDB(k) \subseteq Values(k)
    BY FlightFacts
  <1>2. {} \subseteq Values(k) /\ AtMostOne({})
    BY DEF AtMostOne
  <1>3. CASE FlightRecheck(i, k)
    <2>1. CASE Land(i, k, cache[k], FALSE) /\ cache' = cache
      BY <1>1, <2>1 DEF LandsWith
    <2>2. CASE flight' = [flight EXCEPT ![i][k].at = "query"] /\ handler' = handler /\ cache' = cache
      <3>1. PICK v : v = {}
        OBVIOUS
      <3>2. \E f : /\ FlightOK(f, k) /\ f.waiters = flight[i][k].waiters /\ FlightBecomes(i, k, f)
                   /\ f.val = v /\ f.at # "none"
        <4>1. flight[i][k].at = "recheck"
          BY <1>3 DEF FlightRecheck
        <4>2. MovesOn(i, k, v)
          BY <2>2, <3>1, <4>1 DEF MovesOn
        <4> QED
          BY <4>2, FlightOn
      <3>3. flight[i][k].at # "none"
        BY <1>3 DEF FlightRecheck
      <3> QED
        BY <2>2, <3>1, <3>2, <3>3
    <2> QED
      BY <1>3, <2>1, <2>2 DEF FlightRecheck
  <1>4. CASE FlightQuery(i, k)
    <2>1. cache' = cache /\ flight[i][k].at # "none"
      BY <1>4 DEF FlightQuery
    <2>2. CASE LandsWith(i, k, {})
      BY <1>2, <2>2
    <2>3. CASE \E v \in InDB(k) : /\ flight' = [flight EXCEPT ![i][k].at = "store", ![i][k].val = {v}]
                                  /\ UNCHANGED handler
      <3>1. PICK v \in InDB(k) : /\ flight' = [flight EXCEPT ![i][k].at = "store", ![i][k].val = {v}]
                                 /\ UNCHANGED handler
        BY <2>3
      <3>2. PICK w : w = {v}
        OBVIOUS
      <3>3. w \subseteq Values(k) /\ AtMostOne(w)
        BY <1>1, <3>2 DEF AtMostOne
      <3>4. flight' = [flight EXCEPT ![i][k].at = "store", ![i][k].val = w]
        BY <3>1, <3>2
      <3>5. \E f : /\ FlightOK(f, k) /\ f.waiters = flight[i][k].waiters /\ FlightBecomes(i, k, f)
                   /\ f.val = w /\ f.at # "none"
        <4>1. MovesOn(i, k, w)
          BY <3>3, <3>4 DEF MovesOn
        <4> QED
          BY <4>1, FlightOn
      <3> QED
        BY <2>1, <3>1, <3>2, <3>5
    <2> QED
      BY <1>4, <2>2, <2>3 DEF FlightQuery, LandsWith
  <1>5. CASE FlightStore(i, k)
    <2>1. Land(i, k, flight[i][k].val, FALSE)
      BY <1>5 DEF FlightStore
    <2>2. cache'[k] = flight[i][k].val
      BY <1>5 DEF FlightStore, TypeOK, CacheOK, Keys
    <2> QED
      BY <1>1, <2>1, <2>2 DEF LandsWith
  <1> QED
    BY <1>3, <1>4, <1>5 DEF Fly

LEMMA FlyStep ==
  ASSUME TypeOK, NEW i \in Instances, NEW k \in Keys, Fly(i, k)
  PROVE  /\ HandlersOK' /\ FlightsOK' /\ WaitersOK'
         /\ \A h \in Handlers : Aside(handler[h], handler'[h])
  <1>1. made' = made
    BY DEF Fly, FlightRecheck, FlightQuery, FlightStore
  <1>2. CASE \E answer :
               /\ answer \subseteq Values(k) /\ AtMostOne(answer) /\ LandsWith(i, k, answer)
    <2>1. PICK answer :
               /\ answer \subseteq Values(k) /\ AtMostOne(answer) /\ LandsWith(i, k, answer)
      BY <1>2
    <2>2. /\ HandlersOK' /\ FlightsOK' /\ WaitersOK'
          /\ \A h \in Handlers : handler'[h] = handler[h] \/ Answered(handler[h], handler'[h], answer)
      BY <1>1, <2>1, Landing DEF LandsWith
    <2>3. \A h \in Handlers : Aside(handler[h], handler'[h])
      BY <2>2, AnsweredAside DEF Aside
    <2> QED
      BY <2>2, <2>3
  <1>3. CASE /\ handler' = handler
             /\ \E f : /\ FlightOK(f, k) /\ f.waiters = flight[i][k].waiters /\ FlightBecomes(i, k, f)
    BY <1>1, <1>3, FlightMoves DEF Aside
  <1> QED
    BY <1>2, <1>3, FlyKinds

\* Into CreateNewChannel and out of it.
LEMMA AcquireStep ==
  ASSUME TypeOK, NEW h \in Handlers, NEW c \in Conns, Acquire(h, c)
  PROVE  \E r \in Requests :
            /\ RequestBecomes(h, r) /\ RequestOK(r, made')
            /\ r.at = "recent" /\ r.inst = handler[h].inst /\ r.conn = {c}
  <1>1. PICK r0, r : r0 = handler[h] /\ r = [r0 EXCEPT !.at = "recent", !.conn = {c}]
    OBVIOUS
  <1>2. r0 \in Requests /\ c \in ConnsOf[r0.inst]
    BY <1>1, RequestFacts DEF Acquire
  <1>3. r \in Requests /\ r.at = "recent" /\ r.inst = r0.inst /\ r.conn = {c}
    BY <1>1, <1>2 DEF Requests, Steps, CreateSteps
  <1>4. RequestOK(r, made')
    BY <1>2, <1>3 DEF RequestOK, ChannelSteps
  <1>5. RequestBecomes(h, r)
    BY <1>1 DEF Acquire, RequestBecomes
  <1> QED
    BY <1>1, <1>3, <1>4, <1>5

LEMMA ReleaseStep ==
  ASSUME TypeOK, NEW h \in Handlers, NEW c \in Conns, Release(h, c)
  PROVE  \E r \in Requests :
            /\ RequestBecomes(h, r) /\ RequestOK(r, made')
            /\ r.at \in {"pick", "idle"} /\ r.inst \in {First, handler[h].inst}
  <1>1. PICK r0, r : r0 = handler[h] /\ r = AfterUnlock(r0)
    OBVIOUS
  <1>2. r0 \in Requests
    BY <1>1, RequestFacts
  <1>3. r \in Requests /\ r.at \in {"pick", "idle"} /\ r.inst \in {First, r0.inst}
    <2>1. CASE r = Idle
      BY <2>1, IdleType DEF Idle
    <2>2. CASE r = [r0 EXCEPT !.at = "pick", !.conn = {}]
      BY <1>2, <2>2 DEF Requests, Steps
    <2> QED
      BY <1>1, <2>1, <2>2 DEF AfterUnlock
  <1>4. RequestOK(r, made')
    BY <1>3 DEF RequestOK, ChannelSteps, CreateSteps
  <1>5. RequestBecomes(h, r)
    BY <1>1 DEF Release, RequestBecomes
  <1> QED
    BY <1>1, <1>3, <1>4, <1>5

LEMMA CrashStep ==
  ASSUME TypeOK, NEW i \in Instances, Crash(i)
  PROVE  /\ HandlersOK' /\ FlightsOK' /\ WaitersOK'
         /\ \A h \in Handlers : handler'[h] = IF handler[h].inst = i THEN Idle ELSE handler[h]
         /\ \A j \in Instances, k \in Keys :
               flight'[j][k] = IF j = i THEN NoFlight ELSE flight[j][k]
  <1>1. \A h \in Handlers : handler'[h] = IF handler[h].inst = i THEN Idle ELSE handler[h]
    BY DEF Crash
  <1>2. HandlersOK'
    <2>1. \A h \in Handlers : handler'[h] \in Requests /\ RequestOK(handler'[h], made)
      BY <1>1, IdleType, RequestFacts
    <2>2. handler' = [h \in Handlers |-> handler'[h]] /\ made' = made
      BY DEF Crash
    <2> QED
      BY <2>1, <2>2 DEF HandlersOK
  <1>3. flight = [j \in Instances |-> [l \in Keys |-> flight[j][l]]]
    BY DEF TypeOK, FlightsOK
  <1>4. PICK none : none = [k \in Keys |-> NoFlight]
    OBVIOUS
  <1>5. flight' = [flight EXCEPT ![i] = none]
    BY <1>4 DEF Crash
  <1>6. \A j \in Instances : flight'[j] = IF j = i THEN none ELSE flight[j]
    BY <1>3, <1>5
  <1>7. \A j \in Instances, k \in Keys : flight'[j][k] = IF j = i THEN NoFlight ELSE flight[j][k]
    BY <1>4, <1>6
  <1>8. FlightsOK'
    <2>1. \A k \in Keys : FlightOK(NoFlight, k)
      BY NoFlightType
    <2>2. \A j \in Instances, k \in Keys : FlightOK(flight'[j][k], k)
      BY <1>7, <2>1, FlightFacts
    <2>3. flight' = [j \in Instances |-> flight'[j]]
      BY <1>3, <1>5
    <2>4. \A j \in Instances : flight[j] = [k \in Keys |-> flight[j][k]]
      BY <1>3
    <2>5. none = [k \in Keys |-> none[k]]
      BY <1>4
    <2>6. \A j \in Instances : flight'[j] = [k \in Keys |-> flight'[j][k]]
      BY <1>6, <2>4, <2>5
    <2> QED
      BY <2>2, <2>3, <2>6 DEF FlightsOK
  <1>9. WaitersOK'
    <2> SUFFICES ASSUME NEW j \in Instances, NEW l \in Keys, NEW g \in flight'[j][l].waiters
                 PROVE  /\ handler'[g].inst = j
                        /\ handler'[g].at \in {"current", "tokens", "pick"}
                        /\ KeyOf(handler'[g].at) = l
      BY DEF WaitersOK
    <2>1. j # i /\ g \in flight[j][l].waiters
      BY <1>7 DEF NoFlight
    <2>2. g \in Handlers /\ handler[g].inst = j
      BY <2>1, FlightFacts DEF TypeOK, WaitersOK
    <2>3. handler'[g] = handler[g]
      BY <1>1, <2>1, <2>2
    <2> QED
      BY <2>1, <2>3 DEF TypeOK, WaitersOK
  <1> QED
    BY <1>1, <1>2, <1>7, <1>8, <1>9

LEMMA UpInstances == Up \subseteq Instances
  BY ConstantFacts DEF Up

\* Requests, flights and their waiters stay what they should be.
LEMMA RequestsKept ==
  ASSUME TypeOK, [Next]_vars
  PROVE  HandlersOK' /\ FlightsOK' /\ WaitersOK'
  <1>0. made \in Nat
    BY ConstantFacts DEF TypeOK, DatabaseOK
  <1>1. ASSUME handler' = handler, flight' = flight, made' = made
        PROVE  HandlersOK' /\ FlightsOK' /\ WaitersOK'
    BY <1>1 DEF TypeOK, HandlersOK, FlightsOK, WaitersOK
  <1>2. ASSUME NEW h \in Handlers,
               \E r \in Requests : RequestBecomes(h, r) /\ RequestOK(r, made'),
               handler[h].at \notin {"current", "tokens", "pick"} \/ Fetching(h),
               flight' = flight, made' \in {made, made + 1}
        PROVE  HandlersOK' /\ FlightsOK' /\ WaitersOK'
    <2>1. \A i \in Instances, k \in Keys : h \notin flight[i][k].waiters
      BY <1>2, NotWaiting
    <2>2. made' \in Nat /\ made <= made'
      BY <1>0, <1>2
    <2> QED
      BY <1>2, <2>1, <2>2, RequestMoves
  <1>3. CASE \E h \in Handlers, op \in Ops, i \in Up, c \in Channels \cup {0} : Start(h, op, i, c)
    BY <1>2, <1>3, OutsideStep
  <1>4. CASE \E h \in Handlers : Serve(h)
    <2>1. PICK h \in Handlers : Serve(h)
      BY <1>4
    <2>2. CASE Hit(h)
      <3>1. Fetching(h) /\ flight' = flight /\ made' = made
        BY <2>2 DEF Hit
      <3> QED
        BY <1>2, <2>2, <3>1, HitStep
    <2>3. CASE Miss(h)
      BY <2>3, MissStep
    <2>4. CASE Limit(h) \/ SelectorNext(h) \/ AcquireFails(h) \/ Select(h) \/ Unselect(h) \/ Apply(h)
               \/ CacheSet(h) \/ TgDelete(h) \/ RowDelete(h) \/ BotRows(h) \/ DropBots(h)
      BY <1>2, <2>4, OutsideStep
    <2>5. CASE Recent(h) \/ Make(h) \/ CreateFails(h) \/ AddBotsToChannel(h)
               \/ TxUpdate(h) \/ TxCommit(h) \/ Invalidate(h) \/ Record(h)
      <3>1. made' \in {made, made + 1}
        BY <2>5 DEF Recent, Make, CreateFails, AddBotsToChannel, TxUpdate, TxCommit, Invalidate, Record
      <3> QED
        BY <1>2, <2>5, <3>1, CreateStep
    <2>6. CASE \E c \in Conns : Acquire(h, c)
      <3>1. handler[h].at \notin {"current", "tokens", "pick"} /\ flight' = flight /\ made' = made
        BY <2>6 DEF Acquire
      <3> QED
        BY <1>2, <2>6, <3>1, AcquireStep
    <2>7. CASE \E c \in Conns : Release(h, c)
      <3>1. handler[h].at \notin {"current", "tokens", "pick"} /\ flight' = flight /\ made' = made
        BY <2>7 DEF Release
      <3> QED
        BY <1>2, <2>7, <3>1, ReleaseStep
    <2> QED
      BY <2>1, <2>2, <2>3, <2>4, <2>5, <2>6, <2>7 DEF Serve
  <1>5. CASE \E h \in Handlers : Leave(h)
    BY <1>5, LeaveStep
  <1>6. CASE \E i \in Instances, k \in Keys : Fly(i, k)
    BY <1>6, FlyStep
  <1>7. CASE \E i \in Up : Crash(i)
    BY <1>7, CrashStep, UpInstances
  <1>8. CASE Elapse \/ (\E c \in Conns : Recycle(c)) \/ UNCHANGED vars
    BY <1>1, <1>8 DEF Elapse, Recycle, vars
  <1> QED
    BY <1>3, <1>4, <1>5, <1>6, <1>7, <1>8 DEF Next

LEMMA DatabaseKept ==
  ASSUME TypeOK, [Next]_vars
  PROVE  DatabaseOK'
  <1>1. DatabaseOK /\ made \in Nat /\ MaxChannels \in Nat
    BY ConstantFacts DEF TypeOK, DatabaseOK
  <1>2. \A h \in Handlers : handler[h].at \in ChannelSteps => handler[h].chan \in 1..made
    BY RequestFacts DEF RequestOK
  <1>3. ASSUME UNCHANGED dbVars, UNCHANGED tgVars
        PROVE  DatabaseOK'
    BY <1>1, <1>3 DEF DatabaseOK
  <1>4. CASE \E h \in Handlers : Serve(h)
    <2>1. PICK h \in Handlers : Serve(h)
      BY <1>4
    <2>2. CASE Make(h)
      <3>1. made' = made + 1 /\ made' \in 0..MaxChannels /\ UNCHANGED dbVars
            /\ telegram' = telegram \cup {made + 1}
        BY <1>1, <2>2 DEF Make
      <3> QED
        BY <1>1, <3>1 DEF DatabaseOK
    <2>3. CASE TxCommit(h) \/ Record(h) \/ Select(h)
      <3>1. handler[h].chan \in 1..made
        BY <1>2, <2>3 DEF TxCommit, Record, Select, ChannelSteps, CreateSteps
      <3> QED
        BY <1>1, <2>3, <3>1 DEF DatabaseOK, TxCommit, Record, Select
    <2>4. CASE Apply(h)
      BY <1>1, <2>4 DEF DatabaseOK, Apply
    <2>5. CASE TgDelete(h)
      BY <1>1, <2>5 DEF DatabaseOK, TgDelete
    <2>6. CASE RowDelete(h)
      BY <1>1, <2>6 DEF DatabaseOK, RowDelete
    <2>7. CASE BotRows(h)
      BY <1>1, <2>7 DEF DatabaseOK, BotRows
    <2>8. CASE Hit(h) \/ Miss(h) \/ Limit(h) \/ SelectorNext(h) \/ AcquireFails(h)
      BY <1>3, <2>8 DEF Hit, Miss, Limit, SelectorNext, AcquireFails
    <2>9. CASE Recent(h) \/ CreateFails(h) \/ AddBotsToChannel(h) \/ TxUpdate(h) \/ Invalidate(h)
      BY <1>3, <2>9 DEF Recent, CreateFails, AddBotsToChannel, TxUpdate, Invalidate
    <2>10. CASE Unselect(h) \/ CacheSet(h) \/ DropBots(h) \/ \E c \in Conns : Acquire(h, c) \/ Release(h, c)
      BY <1>3, <2>10 DEF Unselect, CacheSet, DropBots, Acquire, Release
    <2> QED
      BY <2>1, <2>2, <2>3, <2>4, <2>5, <2>6, <2>7, <2>8, <2>9, <2>10 DEF Serve
  <1>5. CASE Elapse
    BY <1>1, <1>5 DEF DatabaseOK, Elapse
  <1>6. CASE \/ \E h \in Handlers, op \in Ops, i \in Up, c \in Channels \cup {0} : Start(h, op, i, c)
             \/ \E h \in Handlers : Leave(h)
    BY <1>3, <1>6 DEF Start, Leave
  <1>7. CASE \E i \in Instances, k \in Keys : Fly(i, k)
    BY <1>3, <1>7 DEF Fly, FlightRecheck, FlightQuery, FlightStore
  <1>8. CASE (\E c \in Conns : Recycle(c)) \/ (\E i \in Up : Crash(i)) \/ UNCHANGED vars
    BY <1>3, <1>8 DEF Recycle, Crash, vars
  <1> QED
    BY <1>4, <1>5, <1>6, <1>7, <1>8 DEF Next

LEMMA CacheKept ==
  ASSUME TypeOK, [Next]_vars
  PROVE  CacheOK'
  <1>1. /\ CacheOK
        /\ cache.channel \subseteq Channels /\ cache.bots \subseteq SUBSET Bots
        /\ cache = [channel |-> cache.channel, bots |-> cache.bots]
        /\ AtMostOne(cache.channel) /\ AtMostOne(cache.bots)
    BY DEF TypeOK, CacheOK, Keys
  <1>2. ASSUME NEW a, a \subseteq Channels, NEW b, b \subseteq SUBSET Bots, AtMostOne(a), AtMostOne(b),
               cache' = [channel |-> a, bots |-> b]
        PROVE  CacheOK'
    BY <1>2 DEF CacheOK, Keys
  <1>3. ASSUME UNCHANGED cache
        PROVE  CacheOK'
    BY <1>1, <1>3 DEF CacheOK
  <1>4. AtMostOne({}) /\ \A v : AtMostOne({v})
    BY DEF AtMostOne
  <1>5. CASE \E h \in Handlers : Serve(h)
    <2>1. PICK h \in Handlers : Serve(h)
      BY <1>5
    <2>2. CASE CacheSet(h)
      <3>1. handler[h].chan \in Channels
        <4>1. handler[h].chan \in 1..made
          BY <2>2, RequestFacts DEF RequestOK, CacheSet, ChannelSteps
        <4> QED
          BY <4>1, ConstantFacts DEF TypeOK, DatabaseOK, Channels
      <3>2. PICK c : c = {handler[h].chan}
        OBVIOUS
      <3>3. cache' = [channel |-> c, bots |-> cache.bots]
        BY <1>1, <2>2, <3>2 DEF CacheSet
      <3> QED
        BY <1>1, <1>2, <1>4, <3>1, <3>2, <3>3
    <2>3. CASE Invalidate(h)
      <3>1. cache' = [channel |-> {}, bots |-> cache.bots]
        BY <1>1, <2>3 DEF Invalidate
      <3> QED
        BY <1>1, <1>2, <1>4, <3>1
    <2>4. CASE DropBots(h)
      <3>1. cache' = [channel |-> cache.channel, bots |-> {}]
        BY <1>1, <2>4 DEF DropBots
      <3> QED
        BY <1>1, <1>2, <1>4, <3>1
    <2>5. CASE Hit(h) \/ Miss(h) \/ Limit(h) \/ SelectorNext(h) \/ AcquireFails(h)
      BY <1>3, <2>5 DEF Hit, Miss, Limit, SelectorNext, AcquireFails
    <2>6. CASE Recent(h) \/ Make(h) \/ CreateFails(h) \/ AddBotsToChannel(h) \/ TxUpdate(h) \/ TxCommit(h) \/ Record(h)
      BY <1>3, <2>6 DEF Recent, Make, CreateFails, AddBotsToChannel, TxUpdate, TxCommit, Record
    <2>7. CASE Select(h) \/ Unselect(h) \/ Apply(h) \/ TgDelete(h) \/ RowDelete(h) \/ BotRows(h)
               \/ \E c \in Conns : Acquire(h, c) \/ Release(h, c)
      BY <1>3, <2>7 DEF Select, Unselect, Apply, TgDelete, RowDelete, BotRows, Acquire, Release
    <2> QED
      BY <2>1, <2>2, <2>3, <2>4, <2>5, <2>6, <2>7 DEF Serve
  <1>6. CASE \E i \in Instances, k \in Keys : FlightStore(i, k)
    <2>1. PICK i \in Instances, k \in Keys : FlightStore(i, k)
      BY <1>6
    <2>2. PICK v : v = flight[i][k].val
      OBVIOUS
    <2>3. v \subseteq Values(k) /\ AtMostOne(v)
      BY <2>2, FlightFacts
    <2>4. cache' = [cache EXCEPT ![k] = v]
      BY <2>1, <2>2 DEF FlightStore
    <2>5. CASE k = "channel"
      <3>1. cache' = [channel |-> v, bots |-> cache.bots]
        BY <1>1, <2>4, <2>5
      <3> QED
        BY <1>1, <1>2, <2>3, <2>5, <3>1 DEF Values
    <2>6. CASE k = "bots"
      <3>1. cache' = [channel |-> cache.channel, bots |-> v]
        BY <1>1, <2>4, <2>6
      <3> QED
        BY <1>1, <1>2, <2>3, <2>6, <3>1 DEF Values
    <2> QED
      BY <2>5, <2>6 DEF Keys
  <1>7. CASE \E i \in Instances, k \in Keys : FlightRecheck(i, k) \/ FlightQuery(i, k)
    BY <1>3, <1>7 DEF FlightRecheck, FlightQuery
  <1>8. CASE \E i \in Up : Crash(i)
    <2>1. cache' = cache \/ cache' = [channel |-> {}, bots |-> {}]
      BY <1>8 DEF Crash
    <2> QED
      BY <1>2, <1>3, <1>4, <2>1
  <1>9. CASE \/ \E h \in Handlers, op \in Ops, i \in Up, c \in Channels \cup {0} : Start(h, op, i, c)
             \/ \E h \in Handlers : Leave(h)
             \/ Elapse \/ (\E c \in Conns : Recycle(c)) \/ UNCHANGED vars
    BY <1>3, <1>9 DEF Start, Leave, Elapse, Recycle, vars
  <1> QED
    BY <1>5, <1>6, <1>7, <1>8, <1>9 DEF Next, Fly

\* The counter of the selector stays a number.
LEMMA IndexKept ==
  ASSUME TypeOK, NEW h \in Handlers, SelectorNext(h)
  PROVE  /\ currIdx' \in Nat
         /\ Cardinality(handler[h].seen) \in Nat \ {0}
         /\ ~redis => currIdx' = (currIdx + 1) % Cardinality(handler[h].seen)
  <1>1. PICK n : n = Cardinality(handler[h].seen)
    OBVIOUS
  <1>2. handler[h].seen \subseteq Bots /\ handler[h].seen # {}
    BY RequestFacts DEF RequestOK, SelectorNext
  <1>3. n \in Nat /\ n # 0 /\ n <= Cardinality(Bots) /\ Cardinality(Bots) \in Nat
    BY <1>1, <1>2, ConstantFacts, FS_Subset, FS_EmptySet, FS_CardinalityType
  <1>4. PICK m : m = Cardinality(Bots) * Cardinality(Bots)
    OBVIOUS
  <1>5. m \in Nat /\ m > 0
    BY <1>3, <1>4
  <1>6. currIdx' = IF redis THEN (currIdx + 1) % m ELSE (currIdx + 1) % n
    BY <1>1, <1>4 DEF SelectorNext, NextIndex
  <1>7. currIdx + 1 \in Nat
    BY DEF TypeOK
  <1>8. (currIdx + 1) % m \in Nat /\ (currIdx + 1) % n \in Nat
    BY <1>3, <1>5, <1>7
  <1> QED
    BY <1>1, <1>3, <1>6, <1>8

LEMMA ScalarsKept ==
  ASSUME TypeOK, [Next]_vars
  PROVE  redis' = redis /\ locks' \in [Conns -> Nat] /\ currIdx' \in Nat /\ {requests, crashes}' \subseteq Nat
  <1>1. redis \in BOOLEAN /\ locks \in [Conns -> Nat] /\ currIdx \in Nat /\ requests \in Nat /\ crashes \in Nat
    BY DEF TypeOK
  <1>2. CASE \E h \in Handlers : Serve(h)
    <2>1. PICK h \in Handlers : Serve(h)
      BY <1>2
    <2>2. CASE \E c \in Conns : Acquire(h, c) \/ Release(h, c)
      <3>1. \E c \in Conns, n \in Nat : locks' = [locks EXCEPT ![c] = n]
        <4>1. PICK c \in Conns : Acquire(h, c) \/ Release(h, c)
          BY <2>2
        <4>2. PICK n : n = locks[c]
          OBVIOUS
        <4>3. n \in Nat
          BY <1>1, <4>2
        <4>4. locks' = [locks EXCEPT ![c] = n + 1] \/ locks' = [locks EXCEPT ![c] = IF n > 0 THEN n - 1 ELSE 0]
          BY <4>1, <4>2 DEF Acquire, Release
        <4>5. n + 1 \in Nat /\ (IF n > 0 THEN n - 1 ELSE 0) \in Nat
          BY <4>3
        <4> QED
          BY <4>4, <4>5
      <3>2. redis' = redis /\ UNCHANGED <<currIdx, requests, crashes>>
        BY <2>2 DEF Acquire, Release
      <3> QED
        BY <1>1, <3>1, <3>2
    <2>3. CASE SelectorNext(h)
      <3>1. redis' = redis /\ UNCHANGED <<locks, requests, crashes>>
        BY <2>3 DEF SelectorNext
      <3> QED
        BY <1>1, <2>3, <3>1, IndexKept
    <2>4. CASE Hit(h) \/ Miss(h) \/ Limit(h) \/ AcquireFails(h)
      BY <1>1, <2>4 DEF Hit, Miss, Limit, AcquireFails
    <2>5. CASE Recent(h) \/ Make(h) \/ CreateFails(h) \/ AddBotsToChannel(h)
      BY <1>1, <2>5 DEF Recent, Make, CreateFails, AddBotsToChannel
    <2>6. CASE TxUpdate(h) \/ TxCommit(h) \/ Invalidate(h) \/ Record(h)
      BY <1>1, <2>6 DEF TxUpdate, TxCommit, Invalidate, Record
    <2>7. CASE Select(h) \/ Unselect(h) \/ Apply(h) \/ CacheSet(h)
      BY <1>1, <2>7 DEF Select, Unselect, Apply, CacheSet
    <2>8. CASE TgDelete(h) \/ RowDelete(h) \/ BotRows(h) \/ DropBots(h)
      BY <1>1, <2>8 DEF TgDelete, RowDelete, BotRows, DropBots
    <2> QED
      BY <2>1, <2>2, <2>3, <2>4, <2>5, <2>6, <2>7, <2>8 DEF Serve
  <1>3. CASE \/ \E h \in Handlers, op \in Ops, i \in Up, c \in Channels \cup {0} : Start(h, op, i, c)
             \/ \E h \in Handlers : Leave(h)
    <2>1. UNCHANGED <<redis, locks, currIdx, crashes>> /\ (requests' = requests + 1 \/ requests' = requests)
      BY <1>3 DEF Start, Leave
    <2> QED
      BY <1>1, <2>1
  <1>4. CASE \E i \in Instances, k \in Keys : Fly(i, k)
    BY <1>1, <1>4 DEF Fly, FlightRecheck, FlightQuery, FlightStore
  <1>5. CASE Elapse \/ UNCHANGED vars
    BY <1>1, <1>5 DEF Elapse, vars
  <1>6. CASE \E c \in Conns : Recycle(c)
    BY <1>1, <1>6 DEF Recycle
  <1>7. CASE \E i \in Up : Crash(i)
    <2>1. \A i : [c \in Conns |-> IF c \in ConnsOf[i] THEN 0 ELSE locks[c]] \in [Conns -> Nat]
      BY <1>1
    <2>2. locks' \in [Conns -> Nat]
      BY <1>7, <2>1 DEF Crash
    <2>3. redis' = redis /\ currIdx' \in {currIdx, 0} /\ requests' = requests /\ crashes' = crashes + 1
      BY <1>7 DEF Crash
    <2> QED
      BY <1>1, <2>2, <2>3
  <1> QED
    BY <1>2, <1>3, <1>4, <1>5, <1>6, <1>7 DEF Next

LEMMA InitType == Init => TypeOK
  <1> SUFFICES ASSUME Init
               PROVE  TypeOK
    OBVIOUS
  <1>1. /\ redis \in BOOLEAN /\ locks \in [Conns -> Nat] /\ {requests, crashes} \subseteq Nat
    BY DEF Init
  <1>2. currIdx \in Nat
    <2>1. Cardinality(Bots) \in Nat
      BY ConstantFacts, FS_CardinalityType
    <2> QED
      BY <2>1 DEF Init
  <1>3. DatabaseOK
    <2>1. bots \subseteq Bots
      BY ChannelAssumption DEF Init
    <2> QED
      BY <2>1, ConstantFacts DEF Init, DatabaseOK
  <1>4. CacheOK
    <2>1. selected \subseteq Channels /\ AtMostOne(selected)
      <3>1. selected \subseteq 1..made /\ made \in {0, 1}
        BY DEF Init
      <3>2. \A x \in 1..made : x = 1
        BY <3>1
      <3>3. AtMostOne(selected)
        BY <3>1, <3>2 DEF AtMostOne
      <3> QED
        BY <3>1, <3>3, ConstantFacts DEF Channels
    <2>2. {bots} \subseteq SUBSET Bots /\ AtMostOne({bots}) /\ AtMostOne({})
      BY <1>3 DEF DatabaseOK, AtMostOne
    <2>3. \E a, b : cache = [channel |-> a, bots |-> b] /\ a \subseteq Channels /\ b \subseteq SUBSET Bots
                    /\ AtMostOne(a) /\ AtMostOne(b)
      BY <2>1, <2>2 DEF Init
    <2> QED
      BY <2>3 DEF CacheOK, Keys
  <1>5. FlightsOK /\ WaitersOK
    <2>1. \A i \in Instances, k \in Keys : flight[i][k] = NoFlight
      BY DEF Init
    <2>2. flight = [i \in Instances |-> [k \in Keys |-> flight[i][k]]]
      BY <2>1 DEF Init
    <2>3. \A k \in Keys : FlightOK(NoFlight, k)
      BY NoFlightType
    <2>4. NoFlight.waiters = {}
      BY DEF NoFlight
    <2>5. FlightsOK
      BY <2>1, <2>2, <2>3 DEF FlightsOK
    <2> QED
      BY <2>1, <2>4, <2>5 DEF WaitersOK
  <1>6. HandlersOK
    BY IdleType DEF Init, HandlersOK
  <1> QED
    BY <1>1, <1>2, <1>3, <1>4, <1>5, <1>6 DEF TypeOK

\* Every reachable state has the types of TypeOK, and each request has set what
\* the step it is at needs: a channel that was made, the connection it took the
\* lock on, a list of bots to choose from (channel_manager.go, user.go).
THEOREM ChannelTypeCorrect == Spec => []TypeOK
  <1>1. TypeOK /\ [Next]_vars => TypeOK'
    <2> SUFFICES ASSUME TypeOK, [Next]_vars
                 PROVE  TypeOK'
      OBVIOUS
    <2>1. HandlersOK' /\ FlightsOK' /\ WaitersOK'
      BY RequestsKept
    <2>2. DatabaseOK' /\ CacheOK'
      BY DatabaseKept, CacheKept
    <2>3. redis' \in BOOLEAN /\ locks' \in [Conns -> Nat] /\ currIdx' \in Nat /\ {requests, crashes}' \subseteq Nat
      BY ScalarsKept DEF TypeOK
    <2> QED
      BY <2>1, <2>2, <2>3 DEF TypeOK
  <1> QED
    BY <1>1, InitType, PTL DEF Spec

----------------------------------------------------------------------------
(* The advisory lock.                                                      *)

LEMMA HistoryGrows ==
  ASSUME [Next]_vars
  PROVE  history \subseteq history'
  <1>1. CASE \E h \in Handlers : Serve(h)
    <2>1. PICK h \in Handlers : Serve(h)
      BY <1>1
    <2>2. CASE Hit(h) \/ Miss(h) \/ Limit(h) \/ SelectorNext(h) \/ AcquireFails(h)
               \/ \E c \in Conns : Acquire(h, c) \/ Release(h, c)
      BY <2>2 DEF Hit, Miss, Limit, SelectorNext, AcquireFails, Acquire, Release
    <2>3. CASE Recent(h) \/ Make(h) \/ CreateFails(h) \/ AddBotsToChannel(h)
               \/ TxUpdate(h) \/ TxCommit(h) \/ Invalidate(h) \/ Record(h)
      BY <2>3 DEF Recent, Make, CreateFails, AddBotsToChannel, TxUpdate, TxCommit, Invalidate, Record, Overlap
    <2>4. CASE Select(h) \/ Unselect(h) \/ Apply(h) \/ CacheSet(h) \/ TgDelete(h) \/ RowDelete(h)
      BY <2>4 DEF Select, Unselect, Apply, CacheSet, TgDelete, RowDelete, Overlap
    <2>5. CASE BotRows(h)
      <3>1. \A S : history \subseteq Outgrown(S)
        BY DEF Outgrown
      <3> QED
        BY <2>5, <3>1 DEF BotRows
    <2>6. CASE DropBots(h)
      BY <2>6 DEF DropBots, Outgrown
    <2> QED
      BY <2>1, <2>2, <2>3, <2>4, <2>5, <2>6 DEF Serve
  <1>2. CASE \/ \E h \in Handlers, op \in Ops, i \in Up, c \in Channels \cup {0} : Start(h, op, i, c)
             \/ \E h \in Handlers : Leave(h)
             \/ Elapse \/ (\E c \in Conns : Recycle(c)) \/ UNCHANGED vars
    BY <1>2 DEF Start, Leave, Elapse, Recycle, vars
  <1>3. CASE (\E i \in Instances, k \in Keys : Fly(i, k)) \/ (\E i \in Up : Crash(i))
    BY <1>3 DEF Fly, FlightRecheck, FlightQuery, FlightStore, Crash
  <1> QED
    BY <1>1, <1>2, <1>3 DEF Next

\* Nobody enters CreateNewChannel or leaves it.
Stays == locks' = locks /\ \A g \in Handlers : SamePlace(handler[g], handler'[g])

\* The steps that do not move a request into CreateNewChannel or out of it.
LEMMA Placed ==
  ASSUME TypeOK, NEW h \in Handlers, NEW r \in Requests, RequestBecomes(h, r),
         SamePlace(handler[h], r)
  PROVE  \A g \in Handlers : SamePlace(handler[g], handler'[g])
  <1>1. handler \in [Handlers -> Requests]
    BY DEF TypeOK, HandlersOK
  <1>2. \A g \in Handlers : handler'[g] = IF g = h THEN r ELSE handler[g]
    BY <1>1 DEF RequestBecomes
  <1>3. \A g \in Handlers : SamePlace(handler[g], handler[g])
    BY DEF SamePlace
  <1> QED
    BY <1>2, <1>3

LEMMA WhoMoves ==
  ASSUME TypeOK, [Next]_vars
  PROVE  \/ Stays
         \/ \E h \in Handlers, c \in Conns : Acquire(h, c) \/ Release(h, c)
         \/ \E c \in Conns : Recycle(c)
         \/ \E i \in Up : Crash(i)
  <1>1. ASSUME handler' = handler, locks' = locks
        PROVE  Stays
    <2>1. \A g \in Handlers : SamePlace(handler[g], handler[g])
      BY DEF SamePlace
    <2> QED
      BY <1>1, <2>1 DEF Stays
  <1>2. ASSUME NEW h \in Handlers, NEW r \in Requests, RequestBecomes(h, r), SamePlace(handler[h], r),
               locks' = locks
        PROVE  Stays
    BY <1>2, Placed DEF Stays
  <1>3. CASE \E h \in Handlers, op \in Ops, i \in Up, c \in Channels \cup {0} : Start(h, op, i, c)
    BY <1>2, <1>3, OutsideStep
  <1>4. CASE \E h \in Handlers : Serve(h)
    <2>1. PICK h \in Handlers : Serve(h)
      BY <1>4
    <2>2. CASE Hit(h)
      <3>1. locks' = locks
        BY <2>2 DEF Hit
      <3> QED
        BY <1>2, <2>2, <3>1, HitStep, AnsweredPlace
    <2>3. CASE Miss(h)
      BY <1>1, <2>3 DEF Miss
    <2>4. CASE Limit(h) \/ SelectorNext(h) \/ AcquireFails(h) \/ Select(h) \/ Unselect(h) \/ Apply(h)
               \/ CacheSet(h) \/ TgDelete(h) \/ RowDelete(h) \/ BotRows(h) \/ DropBots(h)
      BY <1>2, <2>4, OutsideStep
    <2>5. CASE Recent(h) \/ Make(h) \/ CreateFails(h) \/ AddBotsToChannel(h)
               \/ TxUpdate(h) \/ TxCommit(h) \/ Invalidate(h) \/ Record(h)
      <3>1. locks' = locks
        BY <2>5 DEF Recent, Make, CreateFails, AddBotsToChannel, TxUpdate, TxCommit, Invalidate, Record
      <3> QED
        BY <1>2, <2>5, <3>1, CreateStep
    <2> QED
      BY <2>1, <2>2, <2>3, <2>4, <2>5 DEF Serve
  <1>5. CASE \E h \in Handlers : Leave(h)
    <2>1. locks' = locks
      BY <1>5 DEF Leave
    <2> QED
      BY <1>2, <1>5, <2>1, LeaveStep, AnsweredPlace
  <1>6. CASE \E i \in Instances, k \in Keys : Fly(i, k)
    <2>1. locks' = locks
      BY <1>6 DEF Fly, FlightRecheck, FlightQuery, FlightStore
    <2>2. \A h \in Handlers : Aside(handler[h], handler'[h])
      BY <1>6, FlyStep
    <2> QED
      BY <2>1, <2>2, AsideSamePlace DEF Stays
  <1>7. CASE Elapse \/ UNCHANGED vars
    BY <1>1, <1>7 DEF Elapse, vars
  <1> QED
    BY <1>3, <1>4, <1>5, <1>6, <1>7 DEF Next

\* The requests inside that took the lock on connection c.
Holders(c) == {h \in Inside : handler[h].conn = {c}}

LEMMA InsideFacts ==
  ASSUME TypeOK
  PROVE  /\ IsFiniteSet(Inside) /\ Cardinality(Inside) \in Nat
         /\ \A c : IsFiniteSet(Holders(c)) /\ Cardinality(Holders(c)) \in Nat
         /\ \A h \in Inside : /\ handler[h].inst \in Instances
                              /\ \E c \in ConnsOf[handler[h].inst] : c \in Conns /\ handler[h].conn = {c}
  <1>1. Inside \subseteq Handlers /\ \A c : Holders(c) \subseteq Inside
    BY DEF Inside, Holders
  <1>2. IsFiniteSet(Inside) /\ Cardinality(Inside) \in Nat
    BY <1>1, ConstantFacts, FS_Subset, FS_CardinalityType
  <1>3. \A c : IsFiniteSet(Holders(c)) /\ Cardinality(Holders(c)) \in Nat
    BY <1>1, <1>2, FS_Subset, FS_CardinalityType
  <1>4. \A h \in Inside : /\ handler[h].inst \in Instances
                          /\ \E c \in ConnsOf[handler[h].inst] : handler[h].conn = {c}
    BY <1>1, RequestFacts DEF Inside, RequestOK, Requests
  <1> QED
    BY <1>2, <1>3, <1>4, ConstantFacts

LEMMA StaysInside ==
  ASSUME TypeOK, Stays
  PROVE  /\ Inside' = Inside
         /\ \A h \in Inside : handler'[h].conn = handler[h].conn /\ handler'[h].inst = handler[h].inst
         /\ \A c : Holders(c)' = Holders(c)
  <1>1. Inside' = Inside
    BY DEF Stays, SamePlace, Inside
  <1>2. \A h \in Inside : handler'[h].conn = handler[h].conn /\ handler'[h].inst = handler[h].inst
    BY DEF Stays, SamePlace, Inside
  <1> QED
    BY <1>1, <1>2 DEF Holders

\* Restated with Holders.
LEMMA LockInvHolders ==
  LockInv <=> /\ \A c, d \in Conns : locks[c] > 0 /\ locks[d] > 0 => c = d
              /\ "recycled" \notin history =>
                    \A h \in Inside : \A c \in Conns :
                        handler[h].conn = {c} => locks[c] >= Cardinality(Inside)
              /\ history \cap {"misplaced", "recycled"} = {} =>
                    \A c \in Conns : locks[c] = Cardinality(Holders(c))
  BY DEF LockInv, Holders

LEMMA AcquireLock ==
  ASSUME TypeOK, LockInv, NEW h \in Handlers, NEW c \in Conns, Acquire(h, c), history \subseteq history'
  PROVE  LockInv'
  <1>1. PICK r \in Requests : RequestBecomes(h, r) /\ r.at = "recent" /\ r.conn = {c}
    BY AcquireStep
  <1>2. handler \in [Handlers -> Requests] /\ locks \in [Conns -> Nat]
    BY DEF TypeOK, HandlersOK
  <1>3. \A g \in Handlers : handler'[g] = IF g = h THEN r ELSE handler[g]
    BY <1>1, <1>2 DEF RequestBecomes
  <1>4. Inside' = Inside \cup {h} /\ h \notin Inside
    BY <1>1, <1>3 DEF Inside, Acquire, CreateSteps
  <1>5. Cardinality(Inside') = Cardinality(Inside) + 1
    BY <1>4, InsideFacts, FS_AddElement
  <1>6. \A d \in Conns : locks'[d] = IF d = c THEN locks[c] + 1 ELSE 0
    BY <1>2 DEF Acquire
  <1>7. \A d \in Conns : d # c => locks[d] = 0
    BY DEF Acquire
  <1>8. Holders(c)' = Holders(c) \cup {h} /\ h \notin Holders(c)
    BY <1>1, <1>3, <1>4 DEF Holders, Inside
  <1>9. \A d \in Conns : d # c => Holders(d)' = Holders(d)
    BY <1>1, <1>3, <1>4 DEF Holders, Inside
  <1>10. Cardinality(Holders(c)') = Cardinality(Holders(c)) + 1
    BY <1>8, InsideFacts, FS_AddElement
  <1>11. \A d, e \in Conns : locks'[d] > 0 /\ locks'[e] > 0 => d = e
    BY <1>6
  <1>12. ASSUME "recycled" \notin history', NEW g \in Inside', NEW d \in Conns, handler'[g].conn = {d}
         PROVE  locks'[d] >= Cardinality(Inside')
    <2>1. "recycled" \notin history
      BY <1>12
    <2>2. ASSUME NEW f \in Inside, NEW e \in Conns, handler[f].conn = {e}
          PROVE  e = c /\ locks[c] >= Cardinality(Inside)
      <3>1. locks[e] >= Cardinality(Inside)
        BY <2>1, <2>2, LockInvHolders
      <3>2. Cardinality(Inside) > 0
        <4>1. Inside # {}
          BY <2>2
        <4> QED
          BY <4>1, InsideFacts, FS_EmptySet
      <3>3. locks[e] > 0
        BY <1>2, <3>1, <3>2, InsideFacts
      <3> QED
        BY <1>7, <3>1, <3>3
    <2>3. d = c
      <3>1. CASE g = h
        BY <1>1, <1>3, <1>12, <3>1
      <3>2. CASE g # h
        <4>1. g \in Inside /\ handler[g].conn = {d}
          BY <1>3, <1>4, <1>12, <3>2 DEF Inside
        <4> QED
          BY <2>2, <4>1
      <3> QED
        BY <3>1, <3>2
    <2>4. locks[c] >= Cardinality(Inside)
      <3>1. CASE Inside = {}
        <4>1. Cardinality(Inside) = 0
          BY <3>1, FS_EmptySet
        <4> QED
          BY <1>2, <4>1
      <3>2. CASE Inside # {}
        <4>1. PICK f \in Inside : TRUE
          BY <3>2
        <4>2. PICK e \in Conns : handler[f].conn = {e}
          BY <4>1, InsideFacts
        <4> QED
          BY <2>2, <4>2
      <3> QED
        BY <3>1, <3>2
    <2> QED
      BY <1>2, <1>5, <1>6, <2>3, <2>4, InsideFacts
  <1>13. ASSUME history' \cap {"misplaced", "recycled"} = {}, NEW d \in Conns
         PROVE  locks'[d] = Cardinality(Holders(d)')
    <2>1. locks[d] = Cardinality(Holders(d)) /\ locks[c] = Cardinality(Holders(c))
      BY <1>13, LockInvHolders
    <2>2. CASE d = c
      BY <1>6, <1>10, <2>1, <2>2
    <2>3. CASE d # c
      BY <1>6, <1>7, <1>9, <2>1, <2>3
    <2> QED
      BY <2>2, <2>3
  <1> QED
    BY <1>11, <1>12, <1>13 DEF LockInv, Holders

LEMMA ReleaseLock ==
  ASSUME TypeOK, LockInv, NEW h \in Handlers, NEW c \in Conns, Release(h, c), history \subseteq history'
  PROVE  LockInv'
  <1>1. PICK r \in Requests : RequestBecomes(h, r) /\ r.at \in {"pick", "idle"}
    BY ReleaseStep
  <1>2. handler \in [Handlers -> Requests] /\ locks \in [Conns -> Nat]
    BY DEF TypeOK, HandlersOK
  <1>3. \A g \in Handlers : handler'[g] = IF g = h THEN r ELSE handler[g]
    BY <1>1, <1>2 DEF RequestBecomes
  <1>4. Inside' = Inside \ {h} /\ h \in Inside
    BY <1>1, <1>3 DEF Inside, Release, CreateSteps
  <1>5. Cardinality(Inside') = Cardinality(Inside) - 1
    BY <1>4, InsideFacts, FS_RemoveElement
  <1>6. \A d \in Conns : locks'[d] = IF d = c THEN IF locks[c] > 0 THEN locks[c] - 1 ELSE 0 ELSE locks[d]
    BY <1>2 DEF Release
  <1>7. \A d, e \in Conns : locks'[d] > 0 /\ locks'[e] > 0 => d = e
    <2>1. \A d \in Conns : locks'[d] > 0 => locks[d] > 0
      BY <1>2, <1>6
    <2> QED
      BY <2>1 DEF LockInv
  <1>8. ASSUME "recycled" \notin history', NEW g \in Inside', NEW d \in Conns, handler'[g].conn = {d}
        PROVE  locks'[d] >= Cardinality(Inside')
    <2>1. g \in Inside /\ handler[g].conn = {d} /\ "recycled" \notin history
      BY <1>3, <1>4, <1>8 DEF Inside
    <2>2. locks[d] >= Cardinality(Inside)
      BY <2>1 DEF LockInv
    <2>3. locks[c] \in Nat /\ locks[d] \in Nat /\ Cardinality(Inside) \in Nat
      BY <1>2, InsideFacts
    <2> QED
      BY <1>5, <1>6, <2>2, <2>3
  <1>9. ASSUME history' \cap {"misplaced", "recycled"} = {}, NEW d \in Conns
        PROVE  locks'[d] = Cardinality(Holders(d)')
    <2>1. locks[d] = Cardinality(Holders(d)) /\ handler[h].conn = {c}
      BY <1>9, LockInvHolders DEF Release
    <2>2. CASE d = c
      <3>1. Holders(c)' = Holders(c) \ {h} /\ h \in Holders(c)
        BY <1>3, <1>4, <2>1 DEF Holders, Inside
      <3>2. Cardinality(Holders(c)') = Cardinality(Holders(c)) - 1
        BY <3>1, InsideFacts, FS_RemoveElement
      <3>3. Cardinality(Holders(c)) # 0 /\ Cardinality(Holders(c)) \in Nat
        BY <3>1, InsideFacts, FS_EmptySet
      <3> QED
        BY <1>2, <1>6, <2>1, <2>2, <3>2, <3>3
    <2>3. CASE d # c
      <3>1. Holders(d)' = Holders(d)
        BY <1>3, <1>4, <2>1, <2>3 DEF Holders, Inside
      <3> QED
        BY <1>6, <2>1, <2>3, <3>1
    <2> QED
      BY <2>2, <2>3
  <1> QED
    BY <1>7, <1>8, <1>9 DEF LockInv, Holders

LEMMA RecycleLock ==
  ASSUME TypeOK, LockInv, NEW c \in Conns, Recycle(c), history \subseteq history'
  PROVE  LockInv'
  <1>1. locks \in [Conns -> Nat]
    BY DEF TypeOK
  <1>2. \A d \in Conns : locks'[d] = IF d = c THEN 0 ELSE locks[d]
    BY <1>1 DEF Recycle
  <1>3. Inside' = Inside /\ handler' = handler /\ \A d : Holders(d)' = Holders(d)
    BY DEF Recycle, Inside, Holders
  <1>4. \A d, e \in Conns : locks'[d] > 0 /\ locks'[e] > 0 => d = e
    BY <1>1, <1>2 DEF LockInv
  <1>5. ASSUME "recycled" \notin history'
        PROVE  Holders(c) = {} /\ "recycled" \notin history
    BY <1>5 DEF Recycle, Holders
  <1>6. ASSUME "recycled" \notin history', NEW g \in Inside', NEW d \in Conns, handler'[g].conn = {d}
        PROVE  locks'[d] >= Cardinality(Inside')
    <2>1. g \in Inside /\ handler[g].conn = {d}
      BY <1>3, <1>6
    <2>2. d # c
      BY <1>5, <1>6, <2>1 DEF Holders
    <2> QED
      BY <1>2, <1>3, <1>5, <1>6, <2>1, <2>2 DEF LockInv
  <1>7. ASSUME history' \cap {"misplaced", "recycled"} = {}, NEW d \in Conns
        PROVE  locks'[d] = Cardinality(Holders(d)')
    <2>1. locks[d] = Cardinality(Holders(d)) /\ Holders(c) = {}
      BY <1>5, <1>7, LockInvHolders
    <2>2. Cardinality({}) = 0
      BY FS_EmptySet
    <2> QED
      BY <1>2, <1>3, <2>1, <2>2
  <1> QED
    BY <1>4, <1>6, <1>7 DEF LockInv, Holders

LEMMA CrashLock ==
  ASSUME TypeOK, LockInv, NEW i \in Instances, Crash(i), history \subseteq history'
  PROVE  LockInv'
  <1>1. locks \in [Conns -> Nat]
    BY DEF TypeOK
  <1>2. \A d \in Conns : locks'[d] = IF d \in ConnsOf[i] THEN 0 ELSE locks[d]
    BY DEF Crash
  <1>3. \A h \in Handlers : handler'[h] = IF handler[h].inst = i THEN Idle ELSE handler[h]
    BY CrashStep
  <1>4. /\ Inside' \subseteq Inside
        /\ \A h \in Inside' : handler'[h] = handler[h] /\ handler[h].inst # i
        /\ \A h \in Inside : handler[h].inst # i => h \in Inside'
    <2>1. Idle.at \notin CreateSteps
      BY DEF Idle, CreateSteps
    <2> QED
      BY <1>3, <2>1 DEF Inside
  <1>5. Cardinality(Inside') <= Cardinality(Inside)
    BY <1>4, InsideFacts, FS_Subset
  <1>6. Cardinality(Inside') \in Nat
    BY <1>4, InsideFacts, FS_Subset, FS_CardinalityType
  <1>7. \A d, e \in Conns : locks'[d] > 0 /\ locks'[e] > 0 => d = e
    BY <1>1, <1>2 DEF LockInv
  <1>8. ASSUME NEW h \in Inside, NEW d \in Conns, handler[h].conn = {d}
        PROVE  d \in ConnsOf[i] <=> handler[h].inst = i
    <2>1. handler[h].inst \in Instances /\ d \in ConnsOf[handler[h].inst]
      BY <1>8, InsideFacts
    <2> QED
      BY <2>1, ConstantFacts
  <1>9. ASSUME "recycled" \notin history', NEW g \in Inside', NEW d \in Conns, handler'[g].conn = {d}
        PROVE  locks'[d] >= Cardinality(Inside')
    <2>1. g \in Inside /\ handler[g].conn = {d} /\ handler[g].inst # i /\ "recycled" \notin history
      BY <1>4, <1>9
    <2>2. locks[d] >= Cardinality(Inside) /\ locks'[d] = locks[d]
      BY <1>2, <1>8, <2>1 DEF LockInv
    <2> QED
      BY <1>1, <1>5, <1>6, <2>2, InsideFacts
  <1>10. ASSUME history' \cap {"misplaced", "recycled"} = {}, NEW d \in Conns
         PROVE  locks'[d] = Cardinality(Holders(d)')
    <2>1. locks[d] = Cardinality(Holders(d))
      BY <1>10, LockInvHolders
    <2>2. CASE d \in ConnsOf[i]
      <3>1. Holders(d)' = {}
        BY <1>4, <1>8, <2>2 DEF Holders
      <3> QED
        BY <1>2, <2>2, <3>1, FS_EmptySet
    <2>3. CASE d \notin ConnsOf[i]
      <3>1. Holders(d)' = Holders(d)
        BY <1>4, <1>8, <2>3 DEF Holders
      <3> QED
        BY <1>2, <2>1, <2>3, <3>1
    <2> QED
      BY <2>2, <2>3
  <1> QED
    BY <1>7, <1>9, <1>10 DEF LockInv, Holders

LEMMA LockStep ==
  ASSUME TypeOK, LockInv, [Next]_vars
  PROVE  LockInv'
  <1>1. history \subseteq history'
    BY HistoryGrows
  <1>2. CASE Stays
    <2>1. /\ Inside' = Inside /\ locks' = locks
          /\ \A h \in Inside : handler'[h].conn = handler[h].conn
          /\ \A c : Holders(c)' = Holders(c)
      BY <1>2, StaysInside DEF Stays
    <2>2. \A c, d \in Conns : locks'[c] > 0 /\ locks'[d] > 0 => c = d
      BY <2>1 DEF LockInv
    <2>3. "recycled" \notin history' =>
             \A h \in Inside' : \A c \in Conns :
                 handler'[h].conn = {c} => locks'[c] >= Cardinality(Inside')
      BY <1>1, <2>1 DEF LockInv
    <2>4. history' \cap {"misplaced", "recycled"} = {} =>
             \A c \in Conns : locks'[c] = Cardinality(Holders(c)')
      BY <1>1, <2>1, LockInvHolders
    <2> QED
      BY <2>2, <2>3, <2>4 DEF LockInv, Holders
  <1> QED
    BY <1>1, <1>2, WhoMoves, AcquireLock, ReleaseLock, RecycleLock, CrashLock, UpInstances

LEMMA InitLock == Init => LockInv
  <1> SUFFICES ASSUME Init
               PROVE  LockInv
    OBVIOUS
  <1>1. Inside = {}
    <2>1. \A h \in Handlers : handler[h] = Idle
      BY DEF Init
    <2>2. Idle.at \notin CreateSteps
      BY DEF Idle, CreateSteps
    <2> QED
      BY <2>1, <2>2 DEF Inside
  <1>2. \A c \in Conns : locks[c] = 0
    BY DEF Init
  <1>3. \A c : {h \in Inside : handler[h].conn = {c}} = {}
    BY <1>1
  <1>4. Cardinality({}) = 0
    BY FS_EmptySet
  <1> QED
    BY <1>1, <1>2, <1>3, <1>4 DEF LockInv

LEMMA LockInvInvariant == Spec => [](TypeOK /\ LockInv)
  <1>1. Init => TypeOK /\ LockInv
    BY InitType, InitLock
  <1>2. TypeOK /\ LockInv /\ [Next]_vars => LockInv'
    BY LockStep
  <1> QED
    BY <1>1, <1>2, ChannelTypeCorrect, PTL DEF Spec

\* The requests inside CreateNewChannel are of one instance, and a connection
\* holds the advisory lock exactly as often as requests inside took it there,
\* whatever the number of requests, instances and connections; excepted are
\* unlocks that reach another connection and connections that are closed under
\* a request (acquireUserLock and releaseUserLock of channel_manager.go).
THEOREM LockIsKept == Spec => []LockKept
  <1>1. TypeOK /\ LockInv => LockKept
    <2> SUFFICES ASSUME TypeOK, LockInv
                 PROVE  LockKept
      OBVIOUS
    <2>1. ASSUME "recycled" \notin history, NEW g \in Inside, NEW h \in Inside
          PROVE  handler[g].inst = handler[h].inst
      <3>1. /\ handler[g].inst \in Instances /\ handler[h].inst \in Instances
            /\ \E c \in ConnsOf[handler[g].inst] : c \in Conns /\ handler[g].conn = {c}
            /\ \E d \in ConnsOf[handler[h].inst] : d \in Conns /\ handler[h].conn = {d}
        BY InsideFacts
      <3>2. PICK c \in Conns : c \in ConnsOf[handler[g].inst] /\ handler[g].conn = {c}
        BY <3>1
      <3>3. PICK d \in Conns : d \in ConnsOf[handler[h].inst] /\ handler[h].conn = {d}
        BY <3>1
      <3>4. Cardinality(Inside) > 0
        BY InsideFacts, FS_EmptySet
      <3>5. locks[c] >= Cardinality(Inside) /\ locks[d] >= Cardinality(Inside)
        BY <2>1, <3>2, <3>3 DEF LockInv
      <3>6. locks[c] > 0 /\ locks[d] > 0
        <4>1. locks[c] \in Nat /\ locks[d] \in Nat
          BY DEF TypeOK
        <4> QED
          BY <3>4, <3>5, <4>1, InsideFacts
      <3>7. c = d
        BY <3>6 DEF LockInv
      <3> QED
        BY <3>1, <3>2, <3>3, <3>7, ConstantFacts
    <2> QED
      BY <2>1 DEF LockInv, LockKept
  <1> QED
    BY <1>1, LockInvInvariant, PTL

----------------------------------------------------------------------------
(* Steps that matter to the rollover, the selected channel and the cache.   *)

Critical == {"make", "commit", "invalidate", "unselect", "apply", "cacheset", "dropbots"}

\* Nobody enters or leaves a critical step, and neither rows nor cache change.
Unmoved ==
    \A g \in Handlers : \/ handler'[g] = handler[g]
                        \/ handler[g].at \notin Critical /\ handler'[g].at \notin Critical
Quiet ==
    /\ Unmoved
    /\ UNCHANGED dbVars /\ cache' = cache

\* Request h is then at another step, with a channel and a snapshot.
Moves(h, at, chan, seen) ==
    /\ handler'[h].at = at /\ handler'[h].chan = chan /\ handler'[h].seen = seen
    /\ \A g \in Handlers \ {h} : handler'[g] = handler[g]

LEMMA BecomesMoves ==
  ASSUME TypeOK, NEW h \in Handlers, NEW r, RequestBecomes(h, r)
  PROVE  Moves(h, r.at, r.chan, r.seen)
  BY DEF TypeOK, HandlersOK, RequestBecomes, Moves

LEMMA GoOnMoves ==
  ASSUME TypeOK, NEW h \in Handlers, NEW at \in Steps, GoOn(h, at)
  PROVE  Moves(h, at, handler[h].chan, handler[h].seen)
  <1>1. PICK r : r = Goto(handler[h], at)
    OBVIOUS
  <1>2. r.at = at /\ r.chan = handler[h].chan /\ r.seen = handler[h].seen
    BY <1>1, RequestFacts, StepTypes
  <1>3. RequestBecomes(h, r)
    BY <1>1 DEF GoOn, RequestBecomes
  <1> QED
    BY <1>2, <1>3, BecomesMoves

LEMMA DoneMoves ==
  ASSUME TypeOK, NEW h \in Handlers, Done(h)
  PROVE  Moves(h, "idle", 0, {})
  <1>1. RequestBecomes(h, Idle) /\ Idle.at = "idle" /\ Idle.chan = 0 /\ Idle.seen = {}
    BY DEF Done, RequestBecomes, Idle
  <1> QED
    BY <1>1, BecomesMoves

\* The critical steps of CreateNewChannel and of UsersUpdateChannel.
LEMMA CriticalMoves ==
  ASSUME TypeOK, NEW h \in Handlers
  PROVE  /\ Recent(h) => \/ recent = {} /\ Moves(h, "make", handler[h].chan, handler[h].seen)
                         \/ \E r : RequestBecomes(h, r) /\ r.at = "unlock"
         /\ Make(h) => \E r : RequestBecomes(h, r) /\ r.at = "tokens"
         /\ CreateFails(h) => \E r : RequestBecomes(h, r) /\ r.at = "unlock"
         /\ TxUpdate(h) => Moves(h, "commit", handler[h].chan, rows)
         /\ TxCommit(h) => Moves(h, "invalidate", handler[h].chan, {})
         /\ Unselect(h) => Moves(h, "apply", handler[h].chan, rows \ {handler[h].chan})
         /\ Apply(h) => Moves(h, "cacheset", handler[h].chan, {})
  <1>1. PICK r0 : r0 = handler[h]
    OBVIOUS
  <1>2. r0 \in Requests
    BY <1>1, RequestFacts
  <1> USE DEF RequestBecomes
  <1>3. Recent(h) => \/ recent = {} /\ Moves(h, "make", r0.chan, r0.seen)
                     \/ \E r : RequestBecomes(h, r) /\ r.at = "unlock"
    <2> SUFFICES ASSUME Recent(h)
                 PROVE  \/ recent = {} /\ Moves(h, "make", r0.chan, r0.seen)
                        \/ \E r : RequestBecomes(h, r) /\ r.at = "unlock"
      OBVIOUS
    <2>1. "make" \in Steps
      BY DEF Steps, CreateSteps
    <2>2. CASE recent = {} /\ GoOn(h, "make")
      BY <1>1, <2>1, <2>2, GoOnMoves
    <2>3. CASE handler' = [handler EXCEPT ![h] = Failed(@)]
      BY <1>1, <1>2, <2>3, FailedType
    <2>4. CASE \E c \in recent : handler' = [handler EXCEPT ![h] = [@ EXCEPT !.at = "unlock", !.chan = c]]
      <3>1. PICK c \in recent : handler' = [handler EXCEPT ![h] = [@ EXCEPT !.at = "unlock", !.chan = c]]
        BY <2>4
      <3>2. PICK r : r = [r0 EXCEPT !.at = "unlock", !.chan = c]
        OBVIOUS
      <3>3. r.at = "unlock"
        BY <1>2, <3>2 DEF Requests
      <3> QED
        BY <1>1, <3>1, <3>2, <3>3
    <2> QED
      BY <2>2, <2>3, <2>4 DEF Recent
  <1>4. Make(h) => \E r : RequestBecomes(h, r) /\ r.at = "tokens"
    <2>1. PICK r : r = [r0 EXCEPT !.at = "tokens", !.chan = made + 1]
      OBVIOUS
    <2>2. r.at = "tokens"
      BY <1>2, <2>1 DEF Requests
    <2> QED
      BY <1>1, <2>1, <2>2 DEF Make
  <1>5. CreateFails(h) => \E r : RequestBecomes(h, r) /\ r.at = "unlock"
    BY <1>1, <1>2, FailedType DEF CreateFails
  <1>6. TxUpdate(h) => Moves(h, "commit", r0.chan, rows)
    <2>1. PICK r : r = [r0 EXCEPT !.at = "commit", !.seen = rows]
      OBVIOUS
    <2>2. r.at = "commit" /\ r.chan = r0.chan /\ r.seen = rows
      BY <1>2, <2>1 DEF Requests
    <2>3. TxUpdate(h) => RequestBecomes(h, r)
      BY <1>1, <2>1 DEF TxUpdate
    <2> QED
      BY <2>2, <2>3, BecomesMoves
  <1>7. TxCommit(h) => Moves(h, "invalidate", r0.chan, {})
    <2>1. PICK r : r = [r0 EXCEPT !.at = "invalidate", !.seen = {}]
      OBVIOUS
    <2>2. r.at = "invalidate" /\ r.chan = r0.chan /\ r.seen = {}
      BY <1>2, <2>1 DEF Requests
    <2>3. TxCommit(h) => RequestBecomes(h, r)
      BY <1>1, <2>1 DEF TxCommit
    <2> QED
      BY <2>2, <2>3, BecomesMoves
  <1>8. Unselect(h) => Moves(h, "apply", r0.chan, rows \ {r0.chan})
    <2>1. PICK r : r = [r0 EXCEPT !.at = "apply", !.seen = rows \ {r0.chan}]
      OBVIOUS
    <2>2. r.at = "apply" /\ r.chan = r0.chan /\ r.seen = rows \ {r0.chan}
      BY <1>2, <2>1 DEF Requests
    <2>3. Unselect(h) => RequestBecomes(h, r)
      BY <1>1, <2>1 DEF Unselect
    <2> QED
      BY <2>2, <2>3, BecomesMoves
  <1>9. Apply(h) => Moves(h, "cacheset", r0.chan, {})
    <2>1. PICK r : r = [r0 EXCEPT !.at = "cacheset", !.seen = {}]
      OBVIOUS
    <2>2. r.at = "cacheset" /\ r.chan = r0.chan /\ r.seen = {}
      BY <1>2, <2>1 DEF Requests
    <2>3. Apply(h) => RequestBecomes(h, r)
      BY <1>1, <2>1 DEF Apply
    <2> QED
      BY <2>2, <2>3, BecomesMoves
  <1> QED
    BY <1>1, <1>3, <1>4, <1>5, <1>6, <1>7, <1>8, <1>9

\* The other critical steps go on or are done.
LEMMA PlainMoves ==
  ASSUME TypeOK, NEW h \in Handlers
  PROVE  /\ Invalidate(h) => Moves(h, "unlock", handler[h].chan, handler[h].seen)
         /\ Record(h) => Moves(h, "unlock", handler[h].chan, handler[h].seen)
         /\ CacheSet(h) => Moves(h, "idle", 0, {})
         /\ RowDelete(h) => Moves(h, "idle", 0, {})
         /\ DropBots(h) => Moves(h, "idle", 0, {})
         /\ Select(h) => \/ Moves(h, "unselect", handler[h].chan, handler[h].seen)
                         \/ Moves(h, "idle", 0, {})
         /\ BotRows(h) => \/ Moves(h, "dropbots", handler[h].chan, handler[h].seen)
                          \/ Moves(h, "idle", 0, {})
  <1>1. {"unlock", "unselect", "dropbots"} \subseteq Steps
    BY DEF Steps, CreateSteps
  <1>2. Invalidate(h) \/ Record(h) => GoOn(h, "unlock")
    BY DEF Invalidate, Record
  <1>3. CacheSet(h) \/ RowDelete(h) \/ DropBots(h) => Done(h)
    BY DEF CacheSet, RowDelete, DropBots
  <1>4. (Select(h) => GoOn(h, "unselect") \/ Done(h)) /\ (BotRows(h) => GoOn(h, "dropbots") \/ Done(h))
    BY DEF Select, BotRows
  <1> QED
    BY <1>1, <1>2, <1>3, <1>4, GoOnMoves, DoneMoves

CriticalStep(h) ==
    \/ Recent(h) \/ Make(h) \/ CreateFails(h)
    \/ TxUpdate(h) \/ TxCommit(h) \/ Invalidate(h) \/ Record(h)
    \/ Select(h) \/ Unselect(h) \/ Apply(h) \/ CacheSet(h)
    \/ RowDelete(h) \/ BotRows(h) \/ DropBots(h)

\* Requests that are told the answer of Fetch are at no critical step.
LEMMA AsideQuiet ==
  ASSUME NEW r, NEW q, Aside(r, q)
  PROVE  q = r \/ (r.at \notin Critical /\ q.at \notin Critical)
  BY DEF Aside, Critical

LEMMA QuietSteps ==
  ASSUME TypeOK, [Next]_vars
  PROVE  \/ Quiet
         \/ \E h \in Handlers : CriticalStep(h)
         \/ \E i \in Instances, k \in Keys : FlightStore(i, k)
         \/ Elapse
         \/ \E i \in Up : Crash(i)
  <1>1. ASSUME NEW h \in Handlers, NEW r, RequestBecomes(h, r),
               r = handler[h] \/ (handler[h].at \notin Critical /\ r.at \notin Critical),
               UNCHANGED dbVars, cache' = cache
        PROVE  Quiet
    <2>1. \A g \in Handlers : handler'[g] = IF g = h THEN r ELSE handler[g]
      BY <1>1 DEF TypeOK, HandlersOK, RequestBecomes
    <2> QED
      BY <1>1, <2>1 DEF Quiet, Unmoved
  <1>2. ASSUME NEW h \in Handlers, NEW at, NEW chan, NEW seen, Moves(h, at, chan, seen),
               handler[h].at \notin Critical, at \notin Critical,
               UNCHANGED dbVars, cache' = cache
        PROVE  Quiet
    BY <1>2 DEF Quiet, Unmoved, Moves
  <1>3. ASSUME handler' = handler, UNCHANGED dbVars, cache' = cache
        PROVE  Quiet
    BY <1>3 DEF Quiet, Unmoved
  <1>4. CASE \E h \in Handlers, op \in Ops, i \in Up, c \in Channels \cup {0} : Start(h, op, i, c)
    <2>1. PICK h \in Handlers, op \in Ops, i \in Up, c \in Channels \cup {0} : Start(h, op, i, c)
      BY <1>4
    <2>2. PICK r : r = [Idle EXCEPT !.op = op, !.inst = i, !.chan = c, !.at = FirstStep(op)]
      OBVIOUS
    <2>3. r.at = FirstStep(op) /\ Idle.at = "idle"
      BY <2>2 DEF Idle
    <2>4. op \in AllOps
      BY ChannelAssumption
    <2>5. r.at \notin Critical /\ Idle.at \notin Critical
      BY <2>3, <2>4 DEF FirstStep, AllOps, Critical
    <2>6. RequestBecomes(h, r) /\ handler[h] = Idle /\ UNCHANGED dbVars /\ cache' = cache
      BY <2>1, <2>2 DEF Start, RequestBecomes
    <2> QED
      BY <1>1, <2>5, <2>6
  <1>5. CASE \E h \in Handlers : Serve(h)
    <2>1. PICK h \in Handlers : Serve(h)
      BY <1>5
    <2>2. CASE Hit(h)
      <3>1. UNCHANGED dbVars /\ cache' = cache
        BY <2>2 DEF Hit
      <3> QED
        BY <1>1, <2>2, <3>1, HitStep, AnsweredAside, AsideQuiet
    <2>3. CASE Miss(h)
      BY <1>3, <2>3 DEF Miss
    <2>4. CASE Limit(h)
      <3>1. GoOn(h, "lock") \/ GoOn(h, "pick")
        BY <2>4 DEF Limit
      <3>2. "lock" \in Steps /\ "pick" \in Steps
        BY DEF Steps
      <3>3. /\ UNCHANGED dbVars /\ cache' = cache /\ handler[h].at \notin Critical
            /\ "lock" \notin Critical /\ "pick" \notin Critical
        BY <2>4 DEF Limit, Critical
      <3> QED
        BY <1>2, <3>1, <3>2, <3>3, GoOnMoves
    <2>5. CASE AddBotsToChannel(h)
      <3>1. GoOn(h, "tx") \/ GoOn(h, "record")
        BY <2>5 DEF AddBotsToChannel
      <3>2. "tx" \in Steps /\ "record" \in Steps
        BY DEF Steps, CreateSteps
      <3>3. /\ UNCHANGED dbVars /\ cache' = cache /\ handler[h].at \notin Critical
            /\ "tx" \notin Critical /\ "record" \notin Critical
        BY <2>5 DEF AddBotsToChannel, Critical
      <3> QED
        BY <1>2, <3>1, <3>2, <3>3, GoOnMoves
    <2>6. CASE SelectorNext(h) \/ AcquireFails(h)
      <3>1. Done(h) /\ UNCHANGED dbVars /\ cache' = cache /\ handler[h].at \notin Critical /\ "idle" \notin Critical
        BY <2>6 DEF SelectorNext, AcquireFails, Critical
      <3> QED
        BY <1>2, <3>1, DoneMoves
    <2>7. CASE TgDelete(h)
      <3>1. GoOn(h, "rowdelete") \/ Done(h)
        BY <2>7 DEF TgDelete
      <3>2. "rowdelete" \in Steps
        BY DEF Steps
      <3>3. /\ UNCHANGED dbVars /\ cache' = cache /\ handler[h].at \notin Critical
            /\ "rowdelete" \notin Critical /\ "idle" \notin Critical
        BY <2>7 DEF TgDelete, Critical
      <3> QED
        BY <1>2, <3>1, <3>2, <3>3, GoOnMoves, DoneMoves
    <2>8. CASE \E c \in Conns : Acquire(h, c)
      <3>1. UNCHANGED dbVars /\ cache' = cache /\ handler[h].at \notin Critical /\ "recent" \notin Critical
        BY <2>8 DEF Acquire, Critical
      <3> QED
        BY <1>1, <2>8, <3>1, AcquireStep
    <2>9. CASE \E c \in Conns : Release(h, c)
      <3>1. /\ UNCHANGED dbVars /\ cache' = cache /\ handler[h].at \notin Critical
            /\ "pick" \notin Critical /\ "idle" \notin Critical
        BY <2>9 DEF Release, Critical
      <3> QED
        BY <1>1, <2>9, <3>1, ReleaseStep
    <2> QED
      BY <2>1, <2>2, <2>3, <2>4, <2>5, <2>6, <2>7, <2>8, <2>9 DEF Serve, CriticalStep
  <1>6. CASE \E h \in Handlers : Leave(h)
    <2>1. UNCHANGED dbVars /\ cache' = cache
      BY <1>6 DEF Leave
    <2> QED
      BY <1>1, <1>6, <2>1, LeaveStep, AnsweredAside, AsideQuiet
  <1>7. CASE \E i \in Instances, k \in Keys : FlightRecheck(i, k) \/ FlightQuery(i, k)
    <2>1. PICK i \in Instances, k \in Keys : FlightRecheck(i, k) \/ FlightQuery(i, k)
      BY <1>7
    <2>2. Fly(i, k)
      BY <2>1 DEF Fly
    <2>3. \A h \in Handlers : Aside(handler[h], handler'[h])
      BY <2>2, FlyStep
    <2>4. UNCHANGED dbVars /\ cache' = cache
      BY <2>1 DEF FlightRecheck, FlightQuery
    <2> QED
      BY <2>3, <2>4, AsideQuiet DEF Quiet, Unmoved
  <1>8. CASE UNCHANGED vars \/ \E c \in Conns : Recycle(c)
    BY <1>3, <1>8 DEF Recycle, vars
  <1> QED
    BY <1>4, <1>5, <1>6, <1>7, <1>8 DEF Next, Fly

----------------------------------------------------------------------------
(* One channel at a time.                                                  *)

\* Who is inside is alone there, unless requests of an instance met.
LEMMA AloneKept ==
  ASSUME TypeOK, LockInv, RolloverInv, [Next]_vars, history' \cap {"together", "recycled"} = {}
  PROVE  \A g, h \in Inside' : g = h
  <1>1. /\ history \cap {"together", "recycled"} = {}
        /\ \A g, h \in Inside : g = h
    BY HistoryGrows DEF RolloverInv
  <1>2. CASE Stays
    BY <1>1, <1>2, StaysInside
  <1>3. CASE \E h \in Handlers, c \in Conns : Acquire(h, c)
    <2>1. PICK h \in Handlers, c \in Conns : Acquire(h, c)
      BY <1>3
    <2>2. Inside = {}
      <3> SUFFICES ASSUME NEW g \in Inside
                   PROVE  FALSE
        OBVIOUS
      <3>1. PICK d \in Conns : d \in ConnsOf[handler[g].inst] /\ handler[g].conn = {d} /\ handler[g].inst \in Instances
        BY InsideFacts
      <3>2. locks[d] >= Cardinality(Inside)
        BY <1>1, <3>1 DEF LockInv
      <3>3. Cardinality(Inside) > 0
        BY InsideFacts, FS_EmptySet
      <3>4. locks[d] > 0 /\ locks[d] # 0
        BY <3>2, <3>3, InsideFacts DEF TypeOK
      <3>5. d = c /\ c \in ConnsOf[handler[h].inst]
        BY <2>1, <3>4 DEF Acquire
      <3>6. handler[h].inst \in Instances
        BY RequestFacts DEF Requests
      <3>7. handler[g].inst = handler[h].inst
        BY <3>1, <3>5, <3>6, ConstantFacts
      <3>8. "together" \in history'
        BY <2>1, <3>7 DEF Acquire
      <3> QED
        BY <3>8
    <2>3. \A g \in Handlers \ {h} : handler'[g] = handler[g]
      <3>1. PICK r \in Requests : RequestBecomes(h, r)
        BY <2>1, AcquireStep
      <3> QED
        BY <3>1, BecomesMoves DEF Moves
    <2>4. Inside' \subseteq {h}
      BY <2>2, <2>3 DEF Inside
    <2> QED
      BY <2>4
  <1>4. CASE \E h \in Handlers, c \in Conns : Release(h, c)
    <2>1. PICK h \in Handlers, c \in Conns : Release(h, c)
      BY <1>4
    <2>2. PICK r \in Requests : RequestBecomes(h, r) /\ r.at \in {"pick", "idle"}
      BY <2>1, ReleaseStep
    <2>3. Moves(h, r.at, r.chan, r.seen)
      BY <2>2, BecomesMoves
    <2>4. Inside' \subseteq Inside
      BY <2>2, <2>3 DEF Inside, Moves, CreateSteps
    <2> QED
      BY <1>1, <2>4
  <1>5. CASE \E c \in Conns : Recycle(c)
    BY <1>1, <1>5 DEF Recycle, Inside
  <1>6. CASE \E i \in Up : Crash(i)
    <2>1. \A h \in Handlers : handler'[h] = Idle \/ handler'[h] = handler[h]
      BY <1>6, CrashStep, UpInstances
    <2>2. Idle.at \notin CreateSteps
      BY DEF Idle, CreateSteps
    <2>3. Inside' \subseteq Inside
      BY <2>1, <2>2 DEF Inside
    <2> QED
      BY <1>1, <2>3
  <1> QED
    BY <1>2, <1>3, <1>4, <1>5, <1>6, WhoMoves

\* Who is about to make a channel saw none that was recorded lately.
LEMMA SawNoneKept ==
  ASSUME TypeOK, RolloverInv, [Next]_vars, history' \cap {"together", "recycled"} = {},
         NEW h \in Handlers, handler'[h].at = "make"
  PROVE  recent' = {}
  <1>1. /\ history \cap {"together", "recycled"} = {}
        /\ \A f, g \in Inside : f = g
        /\ handler[h].at = "make" => recent = {}
    BY HistoryGrows DEF RolloverInv
  <1>2. handler[h].at = "make" => h \in Inside
    BY DEF Inside, CreateSteps
  <1>3. CASE Quiet
    <2>1. handler[h].at = "make"
      BY <1>3 DEF Quiet, Unmoved, Critical
    <2> QED
      BY <1>1, <1>3, <2>1 DEF Quiet, Unmoved
  <1>4. CASE \E i \in Instances, k \in Keys : FlightStore(i, k)
    <2>1. PICK i \in Instances, k \in Keys : FlightStore(i, k)
      BY <1>4
    <2>2. Fly(i, k) /\ recent' = recent
      BY <2>1 DEF Fly, FlightStore
    <2>3. handler[h].at = "make"
      BY <2>2, FlyStep DEF Aside
    <2> QED
      BY <1>1, <2>2, <2>3
  <1>5. CASE Elapse
    BY <1>5 DEF Elapse
  <1>6. CASE \E i \in Up : Crash(i)
    <2>1. handler'[h] = Idle \/ handler'[h] = handler[h]
      BY <1>6, CrashStep, UpInstances
    <2>2. Idle.at # "make"
      BY DEF Idle
    <2> QED
      BY <1>1, <1>6, <2>1, <2>2 DEF Crash
  <1>7. ASSUME NEW f \in Handlers, CriticalStep(f)
        PROVE  recent' = {}
    <2>1. CASE Recent(f)
      <3>1. recent' = recent
        BY <2>1 DEF Recent
      <3>2. CASE recent = {}
        BY <3>1, <3>2
      <3>3. CASE recent # {}
        <4>1. PICK r : RequestBecomes(f, r) /\ r.at = "unlock"
          BY <2>1, <3>3, CriticalMoves
        <4>2. Moves(f, r.at, r.chan, r.seen)
          BY <4>1, BecomesMoves
        <4>3. handler[h].at = "make"
          BY <4>1, <4>2 DEF Moves
        <4> QED
          BY <1>1, <3>1, <4>3
      <3> QED
        BY <3>2, <3>3
    <2>2. CASE Make(f) \/ CreateFails(f)
      <3>1. recent' = recent
        BY <2>2 DEF Make, CreateFails
      <3>2. PICK r : RequestBecomes(f, r) /\ r.at \in {"unlock", "tokens"}
        BY <2>2, CriticalMoves
      <3>3. Moves(f, r.at, r.chan, r.seen)
        BY <3>2, BecomesMoves
      <3>4. handler[h].at = "make"
        BY <3>2, <3>3 DEF Moves
      <3> QED
        BY <1>1, <3>1, <3>4
    <2>3. ASSUME NEW at, NEW chan, NEW seen, Moves(f, at, chan, seen), at # "make"
          PROVE  handler[h].at = "make" /\ f # h
      BY <2>3 DEF Moves
    <2>4. CASE TxUpdate(f) \/ Invalidate(f) \/ Unselect(f) \/ Apply(f) \/ CacheSet(f) \/ BotRows(f) \/ DropBots(f)
      <3>1. recent' = recent
        BY <2>4 DEF TxUpdate, Invalidate, Unselect, Apply, CacheSet, BotRows, DropBots
      <3>2. handler[h].at = "make"
        BY <2>3, <2>4, CriticalMoves, PlainMoves
      <3> QED
        BY <1>1, <3>1, <3>2
    <2>5. CASE TxCommit(f) \/ Record(f)
      <3>1. handler[h].at = "make" /\ f # h
        BY <2>3, <2>5, CriticalMoves, PlainMoves
      <3>2. f \in Inside
        BY <2>5 DEF Inside, CreateSteps, TxCommit, Record
      <3> QED
        BY <1>1, <1>2, <3>1, <3>2
    <2>6. CASE Select(f)
      <3>1. handler[h].at = "make"
        BY <2>3, <2>6, PlainMoves
      <3>2. Inside # {} /\ "together" \notin history'
        BY <1>2, <3>1
      <3>3. recent' = recent
        BY <2>6, <3>2 DEF Select
      <3> QED
        BY <1>1, <3>1, <3>3
    <2>7. CASE RowDelete(f)
      <3>1. handler[h].at = "make"
        BY <2>3, <2>7, PlainMoves
      <3>2. recent' \subseteq recent
        BY <2>7 DEF RowDelete
      <3> QED
        BY <1>1, <3>1, <3>2
    <2> QED
      BY <1>7, <2>1, <2>2, <2>4, <2>5, <2>6, <2>7 DEF CriticalStep
  <1> QED
    BY <1>3, <1>4, <1>5, <1>6, <1>7, QuietSteps

LEMMA IdleAtFirst ==
  ASSUME Init, NEW h \in Handlers
  PROVE  handler[h].at = "idle" /\ handler[h].inst = First
  <1>1. handler[h] = Idle
    BY DEF Init
  <1> QED
    BY <1>1 DEF Idle

LEMMA RolloverInvariant == Spec => [](TypeOK /\ RolloverInv)
  <1>1. Init => RolloverInv
    BY IdleAtFirst DEF RolloverInv, Inside, CreateSteps
  <1>2. TypeOK /\ LockInv /\ RolloverInv /\ [Next]_vars => RolloverInv'
    BY AloneKept, SawNoneKept DEF RolloverInv
  <1> QED
    BY <1>1, <1>2, LockInvInvariant, PTL DEF Spec

\* Only Make makes a channel.
LEMMA OnlyMake ==
  ASSUME TypeOK, [Next]_vars, made' > made
  PROVE  \E h \in Handlers : Make(h)
  <1>0. made' # made
    BY ConstantFacts DEF TypeOK, DatabaseOK
  <1>1. CASE \E h \in Handlers : Serve(h)
    <2>1. PICK h \in Handlers : Serve(h)
      BY <1>1
    <2>2. CASE Hit(h) \/ Miss(h) \/ \E c \in Conns : Acquire(h, c) \/ Release(h, c)
      BY <1>0, <2>2 DEF Hit, Miss, Acquire, Release
    <2>3. CASE Limit(h) \/ SelectorNext(h) \/ AcquireFails(h) \/ Select(h) \/ Unselect(h) \/ Apply(h)
               \/ CacheSet(h) \/ TgDelete(h) \/ RowDelete(h) \/ BotRows(h) \/ DropBots(h)
      BY <1>0, <2>3, OutsideStep
    <2>4. CASE Recent(h) \/ CreateFails(h) \/ AddBotsToChannel(h)
               \/ TxUpdate(h) \/ TxCommit(h) \/ Invalidate(h) \/ Record(h)
      BY <1>0, <2>4 DEF Recent, CreateFails, AddBotsToChannel, TxUpdate, TxCommit, Invalidate, Record
    <2> QED
      BY <2>1, <2>2, <2>3, <2>4 DEF Serve
  <1>2. CASE \/ \E h \in Handlers, op \in Ops, i \in Up, c \in Channels \cup {0} : Start(h, op, i, c)
             \/ \E h \in Handlers : Leave(h)
             \/ Elapse \/ (\E c \in Conns : Recycle(c)) \/ UNCHANGED vars
    BY <1>0, <1>2 DEF Start, Leave, Elapse, Recycle, vars
  <1>3. CASE (\E i \in Instances, k \in Keys : Fly(i, k)) \/ (\E i \in Up : Crash(i))
    BY <1>0, <1>3 DEF Fly, FlightRecheck, FlightQuery, FlightStore, Crash
  <1> QED
    BY <1>1, <1>2, <1>3 DEF Next

\* CreateNewChannel makes a channel only when none was recorded in the last ten
\* seconds, however many requests and instances run out of room together;
\* excepted are requests of one instance that share the connection with the
\* lock, rows that UsersUpdateChannel records meanwhile, and a lost connection.
THEOREM NoRolloverTwice == Spec => NoDoubleRollover
  <1>1. TypeOK /\ RolloverInv /\ [Next]_vars
        => [made' > made => recent = {} \/ history \cap {"together", "recycled"} # {}]_vars
    <2> SUFFICES ASSUME TypeOK, RolloverInv, [Next]_vars, made' > made
                 PROVE  recent = {} \/ history \cap {"together", "recycled"} # {}
      OBVIOUS
    <2>1. PICK h \in Handlers : Make(h)
      BY OnlyMake
    <2> QED
      BY <2>1 DEF Make, RolloverInv
  <1> QED
    BY <1>1, RolloverInvariant, PTL DEF Spec, NoDoubleRollover

----------------------------------------------------------------------------
(* One selected channel.                                                   *)

SelectSteps == {"commit", "invalidate", "unselect", "apply", "cacheset"}

\* Nobody begins a change of the selected channel, and nobody drops one half
\* way through without a trace.
Calm ==
    /\ selected' \subseteq selected
    /\ \A g \in Handlers : handler'[g] = handler[g] \/ handler'[g].at \notin SelectSteps
    /\ \A g \in Handlers : handler[g].at \in {"unselect", "apply"} =>
          handler'[g] = handler[g] \/ "crash" \in history'

LEMMA CalmSelect ==
  ASSUME SelectInv, Calm, history \subseteq history'
  PROVE  SelectInv'
  <1>1. "overlap" \notin history' => \A g, h \in Handlers : Changing(g)' /\ Changing(h)' => g = h
    BY DEF SelectInv, Calm, Changing, SelectSteps
  <1>2. ASSUME history' \cap {"overlap", "ignored", "crash"} = {}
        PROVE  /\ \A h \in Handlers :
                     /\ handler'[h].at = "commit" => selected' \subseteq handler'[h].seen
                     /\ handler'[h].at = "apply" =>
                           selected' \subseteq handler'[h].seen \cup {handler'[h].chan}
               /\ \/ AtMostOne(selected')
                  \/ \E h \in Handlers : handler'[h].at \in {"unselect", "apply"}
    <2>1. history \cap {"overlap", "ignored", "crash"} = {} /\ "crash" \notin history'
      BY <1>2
    <2>2. ASSUME NEW h \in Handlers
          PROVE  /\ handler'[h].at = "commit" => selected' \subseteq handler'[h].seen
                 /\ handler'[h].at = "apply" =>
                       selected' \subseteq handler'[h].seen \cup {handler'[h].chan}
      <3>1. handler'[h] = handler[h] \/ handler'[h].at \notin SelectSteps
        BY DEF Calm
      <3> QED
        BY <2>1, <3>1 DEF SelectInv, Calm, SelectSteps
    <2>3. CASE AtMostOne(selected)
      BY <2>2, <2>3 DEF AtMostOne, Calm
    <2>4. CASE \E h \in Handlers : handler[h].at \in {"unselect", "apply"}
      BY <2>1, <2>2, <2>4 DEF Calm
    <2> QED
      BY <2>1, <2>2, <2>3, <2>4 DEF SelectInv
  <1> QED
    BY <1>1, <1>2 DEF SelectInv

\* A request that is not in the second half of UsersUpdateChannel moves on.
LEMMA MoveCalm ==
  ASSUME NEW h \in Handlers, NEW at, NEW chan, NEW seen, Moves(h, at, chan, seen),
         at \notin SelectSteps, handler[h].at \notin {"unselect", "apply"}, selected' \subseteq selected
  PROVE  Calm
  BY DEF Moves, Calm

LEMMA BecomesCalm ==
  ASSUME TypeOK, NEW h \in Handlers, NEW r, RequestBecomes(h, r),
         r.at \notin SelectSteps, handler[h].at \notin {"unselect", "apply"}, selected' \subseteq selected
  PROVE  Calm
  <1>1. Moves(h, r.at, r.chan, r.seen)
    BY BecomesMoves
  <1> QED
    BY <1>1, MoveCalm

\* The only request that changes the selected channel, or overlap is recorded.
LEMMA Alone ==
  ASSUME NEW h \in Handlers, "overlap" \notin Overlap(h)
  PROVE  \A g \in Handlers \ {h} : handler[g].at \notin SelectSteps
  BY DEF Overlap, Selecting, SelectSteps

LEMMA CommitSelect ==
  ASSUME TypeOK, SelectInv, NEW h \in Handlers, TxCommit(h), history \subseteq history'
  PROVE  SelectInv'
  <1>1. Moves(h, "invalidate", handler[h].chan, {})
    BY CriticalMoves
  <1>2. "overlap" \notin history' => \A g \in Handlers \ {h} : handler[g].at \notin SelectSteps
    BY Alone DEF TxCommit
  <1>3. "overlap" \notin history' => \A g \in Handlers : handler'[g].at \in SelectSteps => g = h
    BY <1>1, <1>2 DEF Moves
  <1>4. "overlap" \notin history' => \A f, g \in Handlers : Changing(f)' /\ Changing(g)' => f = g
    BY <1>3 DEF Changing, SelectSteps
  <1>5. ASSUME history' \cap {"overlap", "ignored", "crash"} = {}
        PROVE  /\ \A g \in Handlers : handler'[g].at \notin {"commit", "apply"}
               /\ AtMostOne(selected')
    <2>1. selected \subseteq handler[h].seen
      BY <1>5 DEF SelectInv, TxCommit
    <2>2. selected' = {handler[h].chan}
      BY <2>1 DEF TxCommit
    <2>3. \A g \in Handlers : handler'[g].at \notin {"commit", "apply"}
      BY <1>1, <1>3, <1>5 DEF Moves, SelectSteps
    <2> QED
      BY <2>2, <2>3 DEF AtMostOne
  <1> QED
    BY <1>4, <1>5 DEF SelectInv

LEMMA SelectSelect ==
  ASSUME TypeOK, SelectInv, NEW h \in Handlers, Select(h), history \subseteq history'
  PROVE  SelectInv'
  <1>1. CASE Done(h) /\ selected' = selected
    <2>1. Moves(h, "idle", 0, {})
      BY <1>1, DoneMoves
    <2>2. "idle" \notin SelectSteps /\ handler[h].at \notin {"unselect", "apply"}
      BY DEF Select, SelectSteps
    <2> QED
      BY <1>1, <2>1, <2>2, MoveCalm, CalmSelect
  <1>2. CASE GoOn(h, "unselect") /\ Overlap(h) \subseteq history'
    <2>1. "unselect" \in Steps
      BY DEF Steps
    <2>2. Moves(h, "unselect", handler[h].chan, handler[h].seen)
      BY <1>2, <2>1, GoOnMoves
    <2>3. "overlap" \notin history' => \A g \in Handlers \ {h} : handler[g].at \notin SelectSteps
      BY <1>2, Alone
    <2>4. "overlap" \notin history' => \A g \in Handlers : handler'[g].at \in SelectSteps => g = h
      BY <2>2, <2>3 DEF Moves
    <2>5. "overlap" \notin history' => \A f, g \in Handlers : Changing(f)' /\ Changing(g)' => f = g
      BY <2>4 DEF Changing, SelectSteps
    <2>6. "overlap" \notin history' => \A g \in Handlers : handler'[g].at \notin {"commit", "apply"}
      BY <2>2, <2>4 DEF Moves, SelectSteps
    <2>7. handler'[h].at = "unselect"
      BY <2>2 DEF Moves
    <2> QED
      BY <2>5, <2>6, <2>7 DEF SelectInv
  <1> QED
    BY <1>1, <1>2 DEF Select

\* The two steps of UsersUpdateChannel that follow.
LEMMA UnselectSelect ==
  ASSUME TypeOK, SelectInv, NEW h \in Handlers, Unselect(h) \/ Apply(h), history \subseteq history'
  PROVE  SelectInv'
  <1>1. \/ Moves(h, "apply", handler[h].chan, rows \ {handler[h].chan}) /\ Unselect(h)
        \/ Moves(h, "cacheset", handler[h].chan, {}) /\ Apply(h)
    BY CriticalMoves
  <1>2. \A g \in Handlers : Changing(g)' => Changing(g)
    BY <1>1 DEF Moves, Changing, Unselect, Apply
  <1>3. "overlap" \notin history' => \A f, g \in Handlers : Changing(f)' /\ Changing(g)' => f = g
    BY <1>2 DEF SelectInv
  <1>4. selected \subseteq rows /\ selected' \subseteq selected
    BY DEF TypeOK, DatabaseOK, Unselect, Apply
  <1>5. ASSUME history' \cap {"overlap", "ignored", "crash"} = {}, NEW g \in Handlers \ {h}
        PROVE  /\ handler'[g].at = "commit" => selected' \subseteq handler'[g].seen
               /\ handler'[g].at = "apply" =>
                     selected' \subseteq handler'[g].seen \cup {handler'[g].chan}
    <2>1. handler'[g] = handler[g]
      BY <1>1 DEF Moves
    <2> QED
      BY <1>4, <1>5, <2>1 DEF SelectInv
  <1>6. ASSUME history' \cap {"overlap", "ignored", "crash"} = {}, Apply(h)
        PROVE  AtMostOne(selected')
    <2>1. selected \subseteq handler[h].seen \cup {handler[h].chan}
      BY <1>6 DEF SelectInv, Apply
    <2>2. selected' \subseteq {handler[h].chan}
      BY <1>6, <2>1 DEF Apply
    <2> QED
      BY <2>2 DEF AtMostOne
  <1>7. Unselect(h) => /\ handler'[h].at = "apply" /\ handler'[h].seen = rows \ {handler[h].chan}
                       /\ handler'[h].chan = handler[h].chan
    BY CriticalMoves DEF Moves
  <1>8. Apply(h) => handler'[h].at = "cacheset"
    BY CriticalMoves DEF Moves
  <1>9. CASE Unselect(h)
    BY <1>3, <1>4, <1>5, <1>7, <1>9 DEF SelectInv
  <1>10. CASE Apply(h)
    BY <1>3, <1>5, <1>6, <1>8, <1>10 DEF SelectInv
  <1> QED
    BY <1>9, <1>10

LEMMA UpdateSelect ==
  ASSUME TypeOK, SelectInv, NEW h \in Handlers, TxUpdate(h), history \subseteq history'
  PROVE  SelectInv'
  <1>1. Moves(h, "commit", handler[h].chan, rows) /\ selected' = selected /\ selected \subseteq rows
        /\ handler[h].at = "tx"
    BY CriticalMoves DEF TxUpdate, TypeOK, DatabaseOK
  <1>2. \A g \in Handlers : Changing(g)' => Changing(g)
    BY <1>1 DEF Moves, Changing
  <1>3. "overlap" \notin history' => \A f, g \in Handlers : Changing(f)' /\ Changing(g)' => f = g
    BY <1>2 DEF SelectInv
  <1>4. handler'[h].at = "commit" /\ handler'[h].seen = rows
    BY <1>1 DEF Moves
  <1>5. \A g \in Handlers : g = h \/ handler'[g] = handler[g]
    BY <1>1 DEF Moves
  <1> QED
    BY <1>1, <1>3, <1>4, <1>5 DEF SelectInv

LEMMA SelectKept ==
  ASSUME TypeOK, SelectInv, [Next]_vars
  PROVE  SelectInv'
  <1>0. history \subseteq history'
    BY HistoryGrows
  <1>1. CASE Quiet
    <2>1. Calm
      BY <1>1 DEF Quiet, Unmoved, Calm, Critical, SelectSteps
    <2> QED
      BY <1>0, <2>1, CalmSelect
  <1>2. CASE \E i \in Instances, k \in Keys : FlightStore(i, k)
    <2>1. PICK i \in Instances, k \in Keys : FlightStore(i, k)
      BY <1>2
    <2>2. Fly(i, k) /\ selected' = selected
      BY <2>1 DEF Fly, FlightStore
    <2>3. Calm
      BY <2>2, FlyStep DEF Aside, Calm, SelectSteps
    <2> QED
      BY <1>0, <2>3, CalmSelect
  <1>3. CASE Elapse
    BY <1>0, <1>3, CalmSelect DEF Elapse, Calm
  <1>4. CASE \E i \in Up : Crash(i)
    <2>1. PICK i \in Up : Crash(i)
      BY <1>4
    <2>2. \A h \in Handlers : handler'[h] = IF handler[h].inst = i THEN Idle ELSE handler[h]
      BY <2>1, CrashStep, UpInstances
    <2>3. Idle.at \notin SelectSteps
      BY DEF Idle, SelectSteps
    <2>4. \A h \in Handlers : handler[h].at \in {"unselect", "apply"} =>
             handler'[h] = handler[h] \/ "crash" \in history'
      BY <2>1, <2>2 DEF Crash, Selecting
    <2>5. selected' = selected
      BY <2>1 DEF Crash
    <2>6. Calm
      BY <2>2, <2>3, <2>4, <2>5 DEF Calm
    <2> QED
      BY <1>0, <2>6, CalmSelect
  <1>5. ASSUME NEW h \in Handlers, CriticalStep(h)
        PROVE  SelectInv'
    <2>1. CASE TxUpdate(h) \/ TxCommit(h) \/ Select(h) \/ Unselect(h) \/ Apply(h)
      BY <1>0, <2>1, UpdateSelect, CommitSelect, SelectSelect, UnselectSelect
    <2>2. CASE Recent(h) \/ Make(h) \/ CreateFails(h)
      <3>1. handler[h].at \notin {"unselect", "apply"} /\ selected' \subseteq selected
        BY <2>2 DEF Recent, Make, CreateFails
      <3>2. {"make", "unlock", "tokens"} \cap SelectSteps = {}
        BY DEF SelectSteps
      <3>3. Calm
        BY <2>2, <3>1, <3>2, CriticalMoves, MoveCalm, BecomesCalm
      <3> QED
        BY <1>0, <3>3, CalmSelect
    <2>3. CASE Invalidate(h) \/ Record(h) \/ CacheSet(h) \/ RowDelete(h) \/ BotRows(h) \/ DropBots(h)
      <3>1. handler[h].at \notin {"unselect", "apply"} /\ selected' \subseteq selected
        BY <2>3 DEF Invalidate, Record, CacheSet, RowDelete, BotRows, DropBots
      <3>2. {"unlock", "idle", "dropbots"} \cap SelectSteps = {}
        BY DEF SelectSteps
      <3>3. \E at, chan, seen : at \in {"unlock", "idle", "dropbots"} /\ Moves(h, at, chan, seen)
        BY <2>3, PlainMoves
      <3>4. Calm
        BY <3>1, <3>2, <3>3, MoveCalm
      <3> QED
        BY <1>0, <3>4, CalmSelect
    <2> QED
      BY <1>5, <2>1, <2>2, <2>3 DEF CriticalStep
  <1> QED
    BY <1>1, <1>2, <1>3, <1>4, <1>5, QuietSteps

LEMMA SelectInvariant == Spec => [](TypeOK /\ SelectInv)
  <1>1. Init => SelectInv
    <2> SUFFICES ASSUME Init
                 PROVE  SelectInv
      OBVIOUS
    <2>1. \A x \in 1..made : x = 1
      BY DEF Init
    <2>2. AtMostOne(selected)
      BY <2>1 DEF Init, AtMostOne
    <2> QED
      BY <2>2, IdleAtFirst DEF SelectInv, Changing
  <1>2. TypeOK /\ SelectInv /\ [Next]_vars => SelectInv'
    BY SelectKept
  <1> QED
    BY <1>1, <1>2, ChannelTypeCorrect, PTL DEF Spec

\* At most one channel is selected whenever no change of it is under way: what
\* the transaction of setDefault and the two statements of UsersUpdateChannel
\* achieve together, for any number of requests, as long as two changes do not
\* overlap, the second statement does not fail and no instance crashes half way.
THEOREM OneIsSelected == Spec => []OneSelected
  <1>1. TypeOK /\ SelectInv => OneSelected
    <2> SUFFICES ASSUME TypeOK, SelectInv, Selecting = {}, history \cap {"overlap", "ignored", "crash"} = {}
                 PROVE  Cardinality(selected) <= 1
      BY DEF OneSelected
    <2>1. AtMostOne(selected)
      BY DEF SelectInv, Selecting
    <2>2. CASE selected = {}
      BY <2>2, FS_EmptySet
    <2>3. CASE selected # {}
      <3>1. PICK c : c \in selected
        BY <2>3
      <3>2. selected = {c}
        BY <2>1, <3>1 DEF AtMostOne
      <3>3. Cardinality({c}) = 1
        BY FS_Singleton
      <3> QED
        BY <3>2, <3>3
    <2> QED
      BY <2>2, <2>3
  <1> QED
    BY <1>1, SelectInvariant, PTL

----------------------------------------------------------------------------
(* The cache.                                                              *)

\* The three parts of CacheInv.
ChosenOK ==
    history \cap {"raced", "deleted", "overlap", "crash"} = {} =>
        \A h \in Handlers : handler[h].at \in {"unselect", "apply", "cacheset"}
                            => handler[h].chan \in selected
ChannelCached ==
    Pending("channel") = {} /\ history \cap {"raced", "deleted", "overlap", "crash"} = {}
    => cache.channel \subseteq selected
BotsCached ==
    Pending("bots") = {} /\ history \cap {"raced", "listfailed", "crash"} = {}
    => cache.bots \subseteq {bots}

LEMMA CacheInvParts ==
  /\ CacheInv <=> ChosenOK /\ ChannelCached /\ BotsCached
  /\ CacheInv' <=> ChosenOK' /\ ChannelCached' /\ BotsCached'
  BY DEF CacheInv, CacheCoherent, ChosenOK, ChannelCached, BotsCached

LEMMA PendingFacts ==
  /\ \A h \in Handlers : h \in Pending("channel") <=> handler[h].at \in {"invalidate", "cacheset"}
  /\ \A h \in Handlers : h \in Pending("bots") <=> handler[h].at = "dropbots"
  /\ Pending("channel") \subseteq Handlers /\ Pending("bots") \subseteq Handlers
  BY DEF Pending

\* What leaves each of them alone.
ChosenFrame ==
    /\ selected \subseteq selected'
    /\ \A g \in Handlers : handler'[g].at \in {"unselect", "apply", "cacheset"} =>
          /\ handler[g].at \in {"unselect", "apply", "cacheset"}
          /\ handler'[g].chan = handler[g].chan
ChannelFrame ==
    /\ selected \subseteq selected' /\ cache'.channel = cache.channel
    /\ \A g \in Handlers : handler[g].at \in {"invalidate", "cacheset"} =>
          \/ handler'[g].at \in {"invalidate", "cacheset"}
          \/ "crash" \in history'
BotsFrame ==
    /\ bots' = bots /\ cache'.bots = cache.bots
    /\ \A g \in Handlers : handler[g].at = "dropbots" => handler'[g].at = "dropbots" \/ "crash" \in history'

LEMMA Frames ==
  ASSUME CacheInv, history \subseteq history'
  PROVE  /\ ChosenFrame => ChosenOK'
         /\ ChannelFrame => ChannelCached'
         /\ BotsFrame => BotsCached'
  <1>0. ChosenOK /\ ChannelCached /\ BotsCached
    BY CacheInvParts
  <1>1. ChosenFrame => ChosenOK'
    BY <1>0 DEF ChosenOK, ChosenFrame
  <1>2. ASSUME ChannelFrame
        PROVE  ChannelCached'
    <2> SUFFICES ASSUME Pending("channel")' = {}, history' \cap {"raced", "deleted", "overlap", "crash"} = {}
                 PROVE  cache'.channel \subseteq selected'
      BY DEF ChannelCached
    <2>1. \A g \in Handlers : handler'[g].at \notin {"invalidate", "cacheset"}
      BY DEF Pending
    <2>2. \A g \in Handlers : handler[g].at \notin {"invalidate", "cacheset"}
      BY <1>2, <2>1 DEF ChannelFrame
    <2>3. Pending("channel") = {}
      BY <2>2 DEF Pending
    <2> QED
      BY <1>0, <1>2, <2>3 DEF ChannelCached, ChannelFrame
  <1>3. ASSUME BotsFrame
        PROVE  BotsCached'
    <2> SUFFICES ASSUME Pending("bots")' = {}, history' \cap {"raced", "listfailed", "crash"} = {}
                 PROVE  cache'.bots \subseteq {bots'}
      BY DEF BotsCached
    <2>1. \A g \in Handlers : handler'[g].at # "dropbots"
      BY DEF Pending
    <2>2. \A g \in Handlers : handler[g].at # "dropbots"
      BY <1>3, <2>1 DEF BotsFrame
    <2>3. Pending("bots") = {}
      BY <2>2 DEF Pending
    <2> QED
      BY <1>0, <1>3, <2>3 DEF BotsCached, BotsFrame
  <1> QED
    BY <1>1, <1>2, <1>3

\* Request h moves on from a step: which parts it cannot disturb.
LEMMA MoveFrames ==
  ASSUME NEW h \in Handlers, NEW at, NEW chan, NEW seen, Moves(h, at, chan, seen)
  PROVE  /\ /\ selected \subseteq selected'
            /\ at \in {"unselect", "apply", "cacheset"} =>
                  handler[h].at \in {"unselect", "apply", "cacheset"} /\ chan = handler[h].chan
            => ChosenFrame
         /\ /\ selected \subseteq selected' /\ cache'.channel = cache.channel
            /\ handler[h].at \notin {"invalidate", "cacheset"}
            => ChannelFrame
         /\ /\ bots' = bots /\ cache'.bots = cache.bots /\ handler[h].at # "dropbots"
            => BotsFrame
  <1>1. \A g \in Handlers : g # h => handler'[g] = handler[g]
    BY DEF Moves
  <1>2. handler'[h].at = at /\ handler'[h].chan = chan
    BY DEF Moves
  <1> QED
    BY <1>1, <1>2 DEF ChosenFrame, ChannelFrame, BotsFrame

LEMMA AsideFrames ==
  ASSUME Unmoved
  PROVE  /\ selected \subseteq selected' => ChosenFrame
         /\ selected \subseteq selected' /\ cache'.channel = cache.channel => ChannelFrame
         /\ bots' = bots /\ cache'.bots = cache.bots => BotsFrame
  BY DEF Unmoved, ChosenFrame, ChannelFrame, BotsFrame, Critical

LEMMA CacheSteps ==
  ASSUME TypeOK, CacheInv, [Next]_vars, history \subseteq history'
  PROVE  \/ CacheInv' \/ \E h \in Handlers : CriticalStep(h)
  <1>1. CASE Quiet
    <2>1. ChosenFrame /\ ChannelFrame /\ BotsFrame
      BY <1>1, AsideFrames DEF Quiet
    <2> QED
      BY <2>1, Frames, CacheInvParts
  <1>2. CASE \E i \in Instances, k \in Keys : FlightStore(i, k)
    <2>1. PICK i \in Instances, k \in Keys : FlightStore(i, k)
      BY <1>2
    <2>2. /\ Fly(i, k) /\ UNCHANGED <<selected, bots>>
          /\ cache' = [cache EXCEPT ![k] = flight[i][k].val]
          /\ history' = IF flight[i][k].val \subseteq InDB(k) \/ Pending(k) # {}
                        THEN history ELSE history \cup {"raced"}
      BY <2>1 DEF Fly, FlightStore
    <2>3. Unmoved
      BY <2>2, FlyStep, AsideQuiet DEF Unmoved
    <2>4. \A l \in Keys : Pending(l)' = Pending(l)
      BY <2>3 DEF Pending, Critical, Keys, Unmoved
    <2>5. /\ \A l \in Keys : cache'[l] = IF l = k THEN flight[i][k].val ELSE cache[l]
          /\ DOMAIN cache = Keys
      BY <2>2 DEF TypeOK, CacheOK, Keys
    <2>6. ChosenFrame
      BY <2>2, <2>3, AsideFrames
    <2>7. ChannelCached'
      <3>1. CASE k = "channel"
        <4> SUFFICES ASSUME Pending("channel")' = {}, history' \cap {"raced", "deleted", "overlap", "crash"} = {}
                     PROVE  cache'.channel \subseteq selected'
          BY DEF ChannelCached
        <4>1. Pending("channel") = {} /\ cache'.channel = flight[i][k].val
          BY <2>4, <2>5, <3>1 DEF Keys
        <4> QED
          BY <2>2, <3>1, <4>1 DEF InDB
      <3>2. CASE k # "channel"
        <4>1. ChannelFrame
          BY <2>2, <2>3, <2>5, <3>2, AsideFrames DEF Keys
        <4> QED
          BY <4>1, Frames
      <3> QED
        BY <3>1, <3>2
    <2>8. BotsCached'
      <3>1. CASE k = "bots"
        <4> SUFFICES ASSUME Pending("bots")' = {}, history' \cap {"raced", "listfailed", "crash"} = {}
                     PROVE  cache'.bots \subseteq {bots'}
          BY DEF BotsCached
        <4>1. Pending("bots") = {} /\ cache'.bots = flight[i][k].val
          BY <2>4, <2>5, <3>1 DEF Keys
        <4> QED
          BY <2>2, <3>1, <4>1 DEF InDB
      <3>2. CASE k # "bots"
        <4>1. BotsFrame
          BY <2>2, <2>3, <2>5, <3>2, AsideFrames DEF Keys
        <4> QED
          BY <4>1, Frames
      <3> QED
        BY <3>1, <3>2
    <2> QED
      BY <2>6, <2>7, <2>8, Frames, CacheInvParts
  <1>3. CASE Elapse
    <2>1. ChosenFrame /\ ChannelFrame /\ BotsFrame
      BY <1>3 DEF Elapse, ChosenFrame, ChannelFrame, BotsFrame
    <2> QED
      BY <2>1, Frames, CacheInvParts
  <1>4. CASE \E i \in Up : Crash(i)
    <2>1. PICK i \in Up : Crash(i)
      BY <1>4
    <2>2. \A h \in Handlers : handler'[h] = IF handler[h].inst = i THEN Idle ELSE handler[h]
      BY <2>1, CrashStep, UpInstances
    <2>3. Idle.at = "idle"
      BY DEF Idle
    <2>4. selected' = selected /\ bots' = bots
      BY <2>1 DEF Crash
    <2>5. ChosenFrame
      BY <2>2, <2>3, <2>4 DEF ChosenFrame
    <2>6. \A h \in Handlers : handler[h].at \in {"invalidate", "cacheset", "dropbots"} =>
             handler'[h] = handler[h] \/ "crash" \in history'
      BY <2>1, <2>2 DEF Crash, Selecting, Pending
    <2>7. CASE cache' = cache
      <3>1. ChannelFrame /\ BotsFrame
        BY <2>4, <2>6, <2>7 DEF ChannelFrame, BotsFrame
      <3> QED
        BY <2>5, <3>1, Frames, CacheInvParts
    <2>8. CASE cache' = [channel |-> {}, bots |-> {}]
      <3>1. ChannelCached' /\ BotsCached'
        BY <2>8 DEF ChannelCached, BotsCached
      <3> QED
        BY <2>5, <3>1, Frames, CacheInvParts
    <2> QED
      BY <2>1, <2>7, <2>8 DEF Crash
  <1> QED
    BY <1>1, <1>2, <1>3, <1>4, QuietSteps

LEMMA CriticalCache ==
  ASSUME TypeOK, SelectInv, CacheInv, NEW h \in Handlers, CriticalStep(h), history \subseteq history'
  PROVE  CacheInv'
  <1>0. cache \in [channel : SUBSET Channels, bots : SUBSET SUBSET Bots]
    BY DEF TypeOK, CacheOK
  <1>1. CASE Recent(h) \/ Make(h) \/ CreateFails(h) \/ TxUpdate(h) \/ Record(h)
    <2>1. /\ UNCHANGED <<selected, bots, cache>>
          /\ handler[h].at \notin {"invalidate", "cacheset", "dropbots"}
      BY <1>1 DEF Recent, Make, CreateFails, TxUpdate, Record
    <2>2. \E at, chan, seen : at \in {"make", "unlock", "tokens", "commit"} /\ Moves(h, at, chan, seen)
      <3>1. CASE TxUpdate(h)
        <4>1. Moves(h, "commit", handler[h].chan, rows)
          BY <3>1, CriticalMoves
        <4> QED
          BY <4>1
      <3>2. CASE Record(h)
        <4>1. Moves(h, "unlock", handler[h].chan, handler[h].seen)
          BY <3>2, PlainMoves
        <4> QED
          BY <4>1
      <3>3. ASSUME NEW r, RequestBecomes(h, r), r.at \in {"unlock", "tokens"}
            PROVE  \E at, chan, seen : at \in {"make", "unlock", "tokens", "commit"} /\ Moves(h, at, chan, seen)
        BY <3>3, BecomesMoves
      <3>4. CASE Recent(h)
        <4>1. \/ Moves(h, "make", handler[h].chan, handler[h].seen)
              \/ \E r : RequestBecomes(h, r) /\ r.at = "unlock"
          BY <3>4, CriticalMoves
        <4> QED
          BY <3>3, <4>1
      <3>5. CASE Make(h) \/ CreateFails(h)
        <4>1. \E r : RequestBecomes(h, r) /\ r.at \in {"unlock", "tokens"}
          BY <3>5, CriticalMoves
        <4> QED
          BY <3>3, <4>1
      <3> QED
        BY <1>1, <3>1, <3>2, <3>4, <3>5
    <2>3. ChosenFrame /\ ChannelFrame /\ BotsFrame
      BY <2>1, <2>2, MoveFrames
    <2> QED
      BY <2>3, Frames, CacheInvParts
  <1>2. CASE Invalidate(h)
    <2>1. /\ UNCHANGED <<selected, bots>> /\ cache'.channel = {} /\ cache'.bots = cache.bots
          /\ handler[h].at = "invalidate"
      BY <1>0, <1>2 DEF Invalidate
    <2>2. Moves(h, "unlock", handler[h].chan, handler[h].seen)
      BY <1>2, PlainMoves
    <2>3. ChosenFrame /\ BotsFrame
      BY <2>1, <2>2, MoveFrames
    <2>4. ChannelCached'
      BY <2>1 DEF ChannelCached
    <2> QED
      BY <2>3, <2>4, Frames, CacheInvParts
  <1>3. CASE TxCommit(h)
    <2>1. UNCHANGED <<bots, cache>> /\ handler[h].at = "commit"
      BY <1>3 DEF TxCommit
    <2>2. Moves(h, "invalidate", handler[h].chan, {})
      BY <1>3, CriticalMoves
    <2>3. BotsFrame
      BY <2>1, <2>2, MoveFrames
    <2>4. handler'[h].at = "invalidate" /\ \A g \in Handlers \ {h} : handler'[g] = handler[g]
      BY <2>2 DEF Moves
    <2>5. ChannelCached'
      <3>1. h \in Pending("channel")'
        BY <2>4 DEF Pending
      <3> QED
        BY <3>1 DEF ChannelCached
    <2>6. ChosenOK'
      <3>1. "overlap" \notin history' => \A g \in Handlers \ {h} : handler[g].at \notin SelectSteps
        BY <1>3, Alone DEF TxCommit
      <3> QED
        BY <2>4, <3>1 DEF ChosenOK, SelectSteps
    <2> QED
      BY <2>3, <2>5, <2>6, Frames, CacheInvParts
  <1>4. CASE Select(h)
    <2>1. UNCHANGED <<bots, cache>> /\ selected \subseteq selected' /\ handler[h].at = "select"
      BY <1>4 DEF Select
    <2>2. \/ Moves(h, "unselect", handler[h].chan, handler[h].seen)
          \/ Moves(h, "idle", 0, {})
      BY <1>4, PlainMoves
    <2>3. ChannelFrame /\ BotsFrame
      BY <2>1, <2>2, MoveFrames
    <2>4. ChosenOK'
      <3>1. CASE Moves(h, "idle", 0, {})
        BY <2>1, <3>1, MoveFrames, Frames
      <3>2. CASE Moves(h, "unselect", handler[h].chan, handler[h].seen)
        <4>1. /\ \A g \in Handlers \ {h} : handler'[g] = handler[g]
              /\ handler'[h].at = "unselect" /\ handler'[h].chan = handler[h].chan
          BY <3>2 DEF Moves
        <4>2. handler[h].chan \in selected'
          <5>1. ~ Done(h)
            BY <4>1, DoneMoves DEF Moves
          <5> QED
            BY <1>4, <5>1 DEF Select
        <4>3. ChosenOK
          BY CacheInvParts
        <4> QED
          BY <2>1, <4>1, <4>2, <4>3 DEF ChosenOK
      <3> QED
        BY <2>2, <3>1, <3>2
    <2> QED
      BY <2>3, <2>4, Frames, CacheInvParts
  <1>5. CASE Unselect(h)
    <2>1. UNCHANGED <<selected, bots, cache>> /\ handler[h].at = "unselect"
      BY <1>5 DEF Unselect
    <2>2. Moves(h, "apply", handler[h].chan, rows \ {handler[h].chan})
      BY <1>5, CriticalMoves
    <2>3. ChosenFrame /\ ChannelFrame /\ BotsFrame
      BY <2>1, <2>2, MoveFrames
    <2> QED
      BY <2>3, Frames, CacheInvParts
  <1>6. CASE Apply(h)
    <2>1. UNCHANGED <<bots, cache>> /\ handler[h].at = "apply" /\ selected \ handler[h].seen \subseteq selected'
      BY <1>6 DEF Apply
    <2>2. Moves(h, "cacheset", handler[h].chan, {})
      BY <1>6, CriticalMoves
    <2>3. BotsFrame
      BY <2>1, <2>2, MoveFrames
    <2>4. /\ handler'[h].at = "cacheset" /\ handler'[h].chan = handler[h].chan
          /\ \A g \in Handlers \ {h} : handler'[g] = handler[g]
      BY <2>2 DEF Moves
    <2>5. ChannelCached'
      <3>1. h \in Pending("channel")'
        BY <2>4 DEF Pending
      <3> QED
        BY <3>1 DEF ChannelCached
    <2>6. ChosenOK'
      <3> SUFFICES ASSUME history' \cap {"raced", "deleted", "overlap", "crash"} = {}, NEW g \in Handlers,
                          handler'[g].at \in {"unselect", "apply", "cacheset"}
                   PROVE  handler'[g].chan \in selected'
        BY DEF ChosenOK
      <3>1. g = h
        <4>1. g # h => Changing(g) /\ Changing(h)
          BY <2>1, <2>4 DEF Changing
        <4> QED
          BY <4>1 DEF SelectInv
      <3>2. handler[h].chan \in selected
        BY <2>1, CacheInvParts DEF ChosenOK
      <3>3. handler[h].chan \notin handler[h].seen
        BY <2>1, RequestFacts DEF RequestOK
      <3> QED
        BY <2>1, <2>4, <3>1, <3>2, <3>3
    <2> QED
      BY <2>3, <2>5, <2>6, Frames, CacheInvParts
  <1>7. CASE CacheSet(h)
    <2>1. /\ UNCHANGED <<selected, bots, history>> /\ handler[h].at = "cacheset" /\ cache'.bots = cache.bots
          /\ cache'.channel = {handler[h].chan}
      BY <1>0, <1>7 DEF CacheSet
    <2>2. Moves(h, "idle", 0, {})
      BY <1>7, PlainMoves
    <2>3. ChosenFrame /\ BotsFrame
      BY <2>1, <2>2, MoveFrames
    <2>4. ChannelCached'
      <3>1. ChosenOK
        BY CacheInvParts
      <3> QED
        BY <2>1, <3>1 DEF ChannelCached, ChosenOK
    <2> QED
      BY <2>3, <2>4, Frames, CacheInvParts
  <1>8. CASE RowDelete(h)
    <2>1. UNCHANGED <<bots, cache>> /\ handler[h].at = "rowdelete"
      BY <1>8 DEF RowDelete
    <2>2. Moves(h, "idle", 0, {})
      BY <1>8, PlainMoves
    <2>3. BotsFrame
      BY <2>1, <2>2, MoveFrames
    <2>4. CASE selected' = selected
      <3>1. ChosenFrame /\ ChannelFrame
        BY <2>1, <2>2, <2>4, MoveFrames
      <3> QED
        BY <2>3, <3>1, Frames, CacheInvParts
    <2>5. CASE /\ selected' = selected \ {handler[h].chan}
               /\ handler[h].chan \in cache.channel => "deleted" \in history'
               /\ (\E g \in Selecting : handler[g].chan = handler[h].chan) => "overlap" \in history'
      <3>1. \A g \in Handlers : g = h \/ handler'[g] = handler[g]
        BY <2>2 DEF Moves
      <3>2. handler'[h].at = "idle"
        BY <2>2 DEF Moves
      <3>3. ChosenOK'
        <4> SUFFICES ASSUME history' \cap {"raced", "deleted", "overlap", "crash"} = {}, NEW g \in Handlers,
                            handler'[g].at \in {"unselect", "apply", "cacheset"}
                     PROVE  handler'[g].chan \in selected'
          BY DEF ChosenOK
        <4>1. handler'[g] = handler[g] /\ g \in Selecting
          BY <3>1, <3>2 DEF Selecting
        <4>2. handler[g].chan \in selected
          BY <4>1, CacheInvParts DEF ChosenOK
        <4> QED
          BY <2>5, <4>1, <4>2
      <3>4. ChannelCached'
        <4> SUFFICES ASSUME Pending("channel")' = {}, history' \cap {"raced", "deleted", "overlap", "crash"} = {}
                     PROVE  cache'.channel \subseteq selected'
          BY DEF ChannelCached
        <4>1. Pending("channel") = {}
          BY <2>1, <3>1 DEF Pending
        <4>2. cache.channel \subseteq selected
          BY <4>1, CacheInvParts DEF ChannelCached
        <4> QED
          BY <2>1, <2>5, <4>2
      <3> QED
        BY <2>3, <3>3, <3>4, Frames, CacheInvParts
    <2> QED
      BY <1>8, <2>4, <2>5 DEF RowDelete
  <1>9. CASE BotRows(h)
    <2>1. UNCHANGED <<selected, cache>> /\ handler[h].at = "botrows"
      BY <1>9 DEF BotRows
    <2>2. \/ Moves(h, "dropbots", handler[h].chan, handler[h].seen)
          \/ Moves(h, "idle", 0, {})
      BY <1>9, PlainMoves
    <2>3. ChosenFrame /\ ChannelFrame
      BY <2>1, <2>2, MoveFrames
    <2>4. BotsCached'
      <3>1. CASE Moves(h, "dropbots", handler[h].chan, handler[h].seen)
        <4>1. h \in Pending("bots")'
          BY <3>1 DEF Pending, Moves
        <4> QED
          BY <4>1 DEF BotsCached
      <3>2. CASE Moves(h, "idle", 0, {}) /\ bots' = bots
        BY <2>1, <3>2, MoveFrames, Frames
      <3>3. CASE Moves(h, "idle", 0, {}) /\ bots' # bots
        <4>1. ~ GoOn(h, "dropbots")
          <5>1. "dropbots" \in Steps
            BY DEF Steps
          <5> QED
            BY <3>3, <5>1, GoOnMoves DEF Moves
        <4>2. cache.bots \in {{}, {bots'}} \/ "listfailed" \in history'
          BY <1>9, <3>3, <4>1 DEF BotRows
        <4> QED
          BY <2>1, <4>2 DEF BotsCached
      <3> QED
        BY <2>2, <3>1, <3>2, <3>3
    <2> QED
      BY <2>3, <2>4, Frames, CacheInvParts
  <1>10. CASE DropBots(h)
    <2>1. /\ UNCHANGED <<selected, bots>> /\ handler[h].at = "dropbots" /\ cache'.channel = cache.channel
          /\ cache'.bots = {}
      BY <1>0, <1>10 DEF DropBots
    <2>2. Moves(h, "idle", 0, {})
      BY <1>10, PlainMoves
    <2>3. ChosenFrame /\ ChannelFrame
      BY <2>1, <2>2, MoveFrames
    <2>4. BotsCached'
      BY <2>1 DEF BotsCached
    <2> QED
      BY <2>3, <2>4, Frames, CacheInvParts
  <1> QED
    BY <1>1, <1>2, <1>3, <1>4, <1>5, <1>6, <1>7, <1>8, <1>9, <1>10 DEF CriticalStep

\* Once nobody has an invalidation outstanding, the cached channel is one that is
\* selected and the cached bots are the user's bots, for any number of requests
\* and instances; excepted are the gaps that the code leaves: a flight that
\* stores what it read before a change, UsersDeleteChannel, two selections at
\* once, a crash before the invalidation, a failing list in UsersAddBots.
THEOREM CacheIsCoherent == Spec => []CacheCoherent
  <1>1. Init => CacheInv
    <2> SUFFICES ASSUME Init
                 PROVE  CacheInv
      OBVIOUS
    <2>1. cache.channel \subseteq selected /\ cache.bots \subseteq {bots}
      BY DEF Init
    <2> QED
      BY <2>1, IdleAtFirst DEF CacheInv, CacheCoherent
  <1>2. TypeOK /\ SelectInv /\ CacheInv /\ [Next]_vars => CacheInv'
    BY HistoryGrows, CacheSteps, CriticalCache
  <1>3. CacheInv => CacheCoherent
    BY DEF CacheInv
  <1> QED
    BY <1>1, <1>2, <1>3, SelectInvariant, PTL DEF Spec

----------------------------------------------------------------------------
(* The bot selector.                                                       *)

\* Only the selector panics.
LEMMA OnlySelectorPanics ==
  ASSUME [Next]_vars, "panic" \in history', "panic" \notin history
  PROVE  \E h \in Handlers : SelectorNext(h)
  <1>1. CASE \E h \in Handlers : Serve(h)
    <2>1. PICK h \in Handlers : Serve(h)
      BY <1>1
    <2>2. CASE Hit(h) \/ Miss(h) \/ Limit(h) \/ AcquireFails(h)
               \/ \E c \in Conns : Acquire(h, c) \/ Release(h, c)
      <3>1. history' \in {history, history \cup {"together"}, history \cup {"misplaced"}}
        BY <2>2 DEF Hit, Miss, Limit, AcquireFails, Acquire, Release
      <3> QED
        BY <3>1
    <2>3. CASE Recent(h) \/ Make(h) \/ CreateFails(h) \/ AddBotsToChannel(h)
               \/ TxUpdate(h) \/ TxCommit(h) \/ Invalidate(h) \/ Record(h)
      <3>1. history' \in {history, history \cup {"overlap"}}
        BY <2>3 DEF Recent, Make, CreateFails, AddBotsToChannel, TxUpdate, TxCommit, Invalidate, Record, Overlap
      <3> QED
        BY <3>1
    <2>4. CASE Select(h) \/ Unselect(h) \/ Apply(h) \/ CacheSet(h) \/ TgDelete(h) \/ RowDelete(h)
      BY <2>4 DEF Select, Unselect, Apply, CacheSet, TgDelete, RowDelete, Overlap
    <2>5. CASE BotRows(h)
      <3>1. \A S : "panic" \notin Outgrown(S)
        BY DEF Outgrown
      <3> QED
        BY <2>5, <3>1 DEF BotRows
    <2>6. CASE DropBots(h)
      BY <2>6 DEF DropBots, Outgrown
    <2> QED
      BY <2>1, <2>2, <2>3, <2>4, <2>5, <2>6 DEF Serve
  <1>2. CASE \/ \E h \in Handlers, op \in Ops, i \in Up, c \in Channels \cup {0} : Start(h, op, i, c)
             \/ \E h \in Handlers : Leave(h)
             \/ Elapse \/ (\E c \in Conns : Recycle(c)) \/ UNCHANGED vars
    <2>1. history' \in {history, history \cup {"recycled"}}
      BY <1>2 DEF Start, Leave, Elapse, Recycle, vars
    <2> QED
      BY <2>1
  <1>3. CASE (\E i \in Instances, k \in Keys : Fly(i, k)) \/ (\E i \in Up : Crash(i))
    <2>1. history' \in {history, history \cup {"raced"}, history \cup {"crash"}}
      BY <1>3 DEF Fly, FlightRecheck, FlightQuery, FlightStore, Crash
    <2> QED
      BY <2>1
  <1> QED
    BY <1>1, <1>2, <1>3 DEF Next

\* Requests stay on their instance, or begin on one that is up.
LEMMA InstKept ==
  ASSUME TypeOK, [Next]_vars, NEW g \in Handlers
  PROVE  handler'[g].inst \in {handler[g].inst, First} \cup Up
  <1>1. CASE Stays
    BY <1>1 DEF Stays, SamePlace
  <1>2. CASE \E h \in Handlers, c \in Conns : Acquire(h, c) \/ Release(h, c)
    <2>1. PICK h \in Handlers, r \in Requests : RequestBecomes(h, r) /\ r.inst \in {First, handler[h].inst}
      BY <1>2, AcquireStep, ReleaseStep
    <2>2. handler'[g] = IF g = h THEN r ELSE handler[g]
      BY <2>1 DEF TypeOK, HandlersOK, RequestBecomes
    <2> QED
      BY <2>1, <2>2
  <1>3. CASE \E c \in Conns : Recycle(c)
    BY <1>3 DEF Recycle
  <1>4. CASE \E i \in Up : Crash(i)
    <2>1. handler'[g] = Idle \/ handler'[g] = handler[g]
      BY <1>4, CrashStep, UpInstances
    <2>2. Idle.inst = First
      BY DEF Idle
    <2> QED
      BY <2>1, <2>2
  <1> QED
    BY <1>1, <1>2, <1>3, <1>4, WhoMoves

\* Nobody gets a list to choose from, and lists and index stay.
NoNewList ==
    \A g \in Handlers : handler'[g].at = "next" => handler'[g] = handler[g]
Steady ==
    /\ NoNewList
    /\ bots' = bots /\ cache'.bots = cache.bots /\ currIdx' = currIdx
    /\ flight'[First]["bots"].val = flight[First]["bots"].val

LEMMA SteadySteps ==
  ASSUME TypeOK, [Next]_vars
  PROVE  \/ Steady
         \/ \E h \in Handlers : Hit(h) \/ SelectorNext(h) \/ BotRows(h) \/ DropBots(h)
         \/ \E i \in Instances, k \in Keys : Fly(i, k)
         \/ \E i \in Up : Crash(i)
  <1>0. /\ cache \in [channel : SUBSET Channels, bots : SUBSET SUBSET Bots]
        /\ First \in Instances /\ "bots" \in Keys
    BY ConstantFacts DEF TypeOK, CacheOK, Keys
  <1>1. ASSUME NEW h \in Handlers, NEW r, RequestBecomes(h, r), r.at # "next"
        PROVE  NoNewList
    <2>1. \A g \in Handlers : handler'[g] = IF g = h THEN r ELSE handler[g]
      BY <1>1 DEF TypeOK, HandlersOK, RequestBecomes
    <2> QED
      BY <1>1, <2>1 DEF NoNewList
  <1>3. CASE \E h \in Handlers, op \in Ops, i \in Up, c \in Channels \cup {0} : Start(h, op, i, c)
    <2>1. NoNewList
      BY <1>1, <1>3, OutsideStep
    <2> QED
      BY <1>3, <2>1 DEF Steady, Start
  <1>4. CASE \E h \in Handlers : Serve(h)
    <2>1. PICK h \in Handlers : Serve(h)
      BY <1>4
    <2>2. CASE Miss(h)
      BY <1>0, <2>2, MissStep DEF Steady, NoNewList, Miss
    <2>3. CASE Limit(h) \/ AcquireFails(h) \/ Select(h) \/ Unselect(h) \/ Apply(h)
               \/ TgDelete(h) \/ RowDelete(h)
      <3>1. NoNewList
        BY <1>1, <2>3, OutsideStep
      <3>2. UNCHANGED <<bots, cache, currIdx, flight>>
        BY <2>3 DEF Limit, AcquireFails, Select, Unselect, Apply, TgDelete, RowDelete
      <3> QED
        BY <3>1, <3>2 DEF Steady
    <2>4. CASE CacheSet(h)
      <3>1. NoNewList
        BY <1>1, <2>4, OutsideStep
      <3>2. UNCHANGED <<bots, currIdx, flight>> /\ cache'.bots = cache.bots
        BY <1>0, <2>4 DEF CacheSet
      <3> QED
        BY <3>1, <3>2 DEF Steady
    <2>5. CASE Recent(h) \/ Make(h) \/ CreateFails(h) \/ AddBotsToChannel(h)
               \/ TxUpdate(h) \/ TxCommit(h) \/ Invalidate(h) \/ Record(h)
      <3>1. handler[h].at \in CreateSteps
        BY <2>5 DEF Recent, Make, CreateFails, AddBotsToChannel, TxUpdate, TxCommit, Invalidate, Record, CreateSteps
      <3>2. PICK r \in Requests : RequestBecomes(h, r) /\ SamePlace(handler[h], r)
        BY <2>5, CreateStep
      <3>3. r.at # "next"
        BY <3>1, <3>2 DEF SamePlace, CreateSteps
      <3>4. UNCHANGED <<bots, currIdx, flight>> /\ cache'.bots = cache.bots
        BY <1>0, <2>5 DEF Recent, Make, CreateFails, AddBotsToChannel, TxUpdate, TxCommit, Invalidate, Record
      <3>5. NoNewList
        BY <1>1, <3>2, <3>3
      <3> QED
        BY <3>4, <3>5 DEF Steady
    <2>6. CASE \E c \in Conns : Acquire(h, c) \/ Release(h, c)
      <3>1. PICK r \in Requests : RequestBecomes(h, r) /\ r.at \in {"recent", "pick", "idle"}
        BY <2>6, AcquireStep, ReleaseStep
      <3>2. NoNewList
        BY <1>1, <3>1
      <3>3. UNCHANGED <<bots, cache, currIdx, flight>>
        BY <2>6 DEF Acquire, Release
      <3> QED
        BY <3>2, <3>3 DEF Steady
    <2> QED
      BY <2>1, <2>2, <2>3, <2>4, <2>5, <2>6 DEF Serve
  <1>5. CASE \E h \in Handlers : Leave(h)
    <2>1. PICK h \in Handlers : Leave(h)
      BY <1>5
    <2>2. PICK r \in Requests : RequestBecomes(h, r) /\ Answered(handler[h], r, {})
      BY <2>1, LeaveStep
    <2>3. r.at # "next"
      BY <2>2 DEF Answered
    <2>4. NoNewList
      BY <1>1, <2>2, <2>3
    <2>5. UNCHANGED <<bots, cache, currIdx>>
      BY <2>1 DEF Leave
    <2>6. flight'[First]["bots"].val = flight[First]["bots"].val
      BY <1>0, <2>1, LeaveStep
    <2> QED
      BY <2>4, <2>5, <2>6 DEF Steady
  <1>6. CASE Elapse \/ (\E c \in Conns : Recycle(c)) \/ UNCHANGED vars
    BY <1>6 DEF Elapse, Recycle, vars, Steady, NoNewList
  <1> QED
    BY <1>3, <1>4, <1>5, <1>6 DEF Next

\* A step that is none of a flight fills no cached list of bots.
LEMMA FlightsApart ==
  ASSUME TypeOK, [Next]_vars
  PROVE  \/ flight' = flight /\ cache'.bots \in {cache.bots, {}}
         \/ \E h \in Handlers : Miss(h) \/ Leave(h)
         \/ \E i \in Instances, k \in Keys : Fly(i, k)
         \/ \E i \in Up : Crash(i)
  <1>0. cache \in [channel : SUBSET Channels, bots : SUBSET SUBSET Bots]
    BY DEF TypeOK, CacheOK
  <1>1. CASE \E h \in Handlers : Serve(h)
    <2>1. PICK h \in Handlers : Serve(h)
      BY <1>1
    <2>2. CASE Hit(h) \/ Limit(h) \/ SelectorNext(h) \/ AcquireFails(h)
               \/ \E c \in Conns : Acquire(h, c) \/ Release(h, c)
      BY <2>2 DEF Hit, Limit, SelectorNext, AcquireFails, Acquire, Release
    <2>3. CASE Recent(h) \/ Make(h) \/ CreateFails(h) \/ AddBotsToChannel(h)
               \/ TxUpdate(h) \/ TxCommit(h) \/ Record(h)
      BY <2>3 DEF Recent, Make, CreateFails, AddBotsToChannel, TxUpdate, TxCommit, Record
    <2>4. CASE Select(h) \/ Unselect(h) \/ Apply(h) \/ TgDelete(h) \/ RowDelete(h) \/ BotRows(h)
      BY <2>4 DEF Select, Unselect, Apply, TgDelete, RowDelete, BotRows
    <2>5. CASE CacheSet(h) \/ DropBots(h) \/ Invalidate(h)
      BY <1>0, <2>5 DEF CacheSet, DropBots, Invalidate
    <2> QED
      BY <2>1, <2>2, <2>3, <2>4, <2>5 DEF Serve
  <1>2. CASE \/ \E h \in Handlers, op \in Ops, i \in Up, c \in Channels \cup {0} : Start(h, op, i, c)
             \/ Elapse \/ (\E c \in Conns : Recycle(c)) \/ UNCHANGED vars
    BY <1>2 DEF Start, Elapse, Recycle, vars
  <1> QED
    BY <1>1, <1>2 DEF Next

LEMMA SingleKept ==
  ASSUME TypeOK, Single, [Next]_vars
  PROVE  Single'
  <1> SUFFICES ASSUME ~redis
               PROVE  /\ \A h \in Handlers : handler'[h].inst = First
                      /\ \A i \in Instances : i # First => flight'[i]["bots"] = NoFlight
                      /\ flight'[First]["bots"].at # "none" => cache'.bots = {}
    BY ScalarsKept DEF Single
  <1>1. /\ \A h \in Handlers : handler[h].inst = First
        /\ \A i \in Instances : i # First => flight[i]["bots"] = NoFlight
        /\ flight[First]["bots"].at # "none" => cache.bots = {}
        /\ Up = {First} /\ First \in Instances /\ "bots" \in Keys
    BY ConstantFacts DEF Single, Up, Keys
  <1>2. \A h \in Handlers : handler'[h].inst = First
    BY <1>1, InstKept
  <1>3. NoFlight.at = "none"
    BY DEF NoFlight
  <1>4. CASE flight' = flight /\ cache'.bots \in {cache.bots, {}}
    BY <1>1, <1>2, <1>4
  <1>5. CASE \E h \in Handlers : Miss(h)
    <2>1. PICK h \in Handlers : Miss(h)
      BY <1>5
    <2>2. \A j \in Instances : \/ flight'[j]["bots"] = flight[j]["bots"]
                               \/ cache["bots"] = {} /\ j = handler[h].inst
      BY <1>1, <2>1, MissStep
    <2>3. cache' = cache
      BY <2>1 DEF Miss
    <2> QED
      BY <1>1, <1>2, <2>2, <2>3
  <1>6. CASE \E h \in Handlers : Leave(h)
    <2>1. PICK h \in Handlers : Leave(h)
      BY <1>6
    <2>2. \A j \in Instances : /\ flight'[j]["bots"].at = flight[j]["bots"].at
                               /\ flight[j]["bots"] = NoFlight => flight'[j]["bots"] = NoFlight
      BY <1>1, <2>1, LeaveStep
    <2>3. cache' = cache
      BY <2>1 DEF Leave
    <2> QED
      BY <1>1, <1>2, <2>2, <2>3
  <1>7. CASE \E i \in Instances, k \in Keys : Fly(i, k)
    <2>1. PICK i \in Instances, k \in Keys : Fly(i, k)
      BY <1>7
    <2>2. made' = made /\ flight[i][k].at # "none"
      BY <2>1 DEF Fly, FlightRecheck, FlightQuery, FlightStore
    <2>3. \/ /\ flight'[i][k] = NoFlight
             /\ \A j \in Instances, l \in Keys : i # j \/ k # l => flight'[j][l] = flight[j][l]
          \/ /\ \A j \in Instances, l \in Keys : i # j \/ k # l => flight'[j][l] = flight[j][l]
             /\ cache' = cache
      <3>1. CASE \E answer : /\ answer \subseteq Values(k) /\ AtMostOne(answer)
                             /\ LandsWith(i, k, answer)
        BY <2>2, <3>1, Landing DEF LandsWith
      <3>2. CASE \E f : FlightOK(f, k) /\ FlightBecomes(i, k, f) /\ cache' = cache
        BY <3>2, FlightSet
      <3> QED
        BY <2>1, <3>1, <3>2, FlyKinds
    <2>4. CASE k = "bots"
      <3>1. i = First
        BY <1>1, <1>3, <2>2, <2>4
      <3> QED
        BY <1>1, <1>2, <1>3, <2>2, <2>3, <2>4, <3>1
    <2>5. CASE k # "bots"
      <3>1. cache'.bots = cache.bots
        BY <2>1, <2>5 DEF Fly, FlightRecheck, FlightQuery, FlightStore, TypeOK, CacheOK
      <3> QED
        BY <1>1, <1>2, <2>3, <2>5, <3>1
    <2> QED
      BY <2>4, <2>5
  <1>8. CASE \E i \in Up : Crash(i)
    <2>1. Crash(First)
      BY <1>1, <1>8
    <2>2. \A j \in Instances : flight'[j]["bots"] = IF j = First THEN NoFlight ELSE flight[j]["bots"]
      BY <1>1, <2>1, CrashStep
    <2> QED
      BY <1>1, <1>2, <1>3, <2>2
  <1> QED
    BY <1>4, <1>5, <1>6, <1>7, <1>8, FlightsApart

----------------------------------------------------------------------------
\* Nothing is in flight while a list is cached.
LEMMA CachedAlone ==
  ASSUME TypeOK, Single, ~redis, cache.bots # {}
  PROVE  flight[First]["bots"].val = {} /\ \E v : cache.bots = {v}
  <1>1. FlightOK(flight[First]["bots"], "bots") /\ AtMostOne(cache["bots"])
    BY ConstantFacts, FlightFacts DEF Keys
  <1>2. flight[First]["bots"].at = "none"
    BY DEF Single
  <1> QED
    BY <1>1, <1>2 DEF FlightOK, AtMostOne

\* The list of a request that is about to choose is the shortest of all.
LEMMA Shortest ==
  ASSUME TypeOK, Single, ~redis, ListsHeld, NEW h \in Handlers, handler[h].at = "next", NEW v, v \in Lists
  PROVE  handler[h].seen \subseteq v
  <1>1. HoldsList(handler[h].seen, cache.bots, bots, Fetched) /\ handler[h].seen \subseteq bots
    BY DEF ListsHeld, Within
  <1>2. \/ v \in cache.bots \/ v = bots \/ v \in Fetched
        \/ \E g \in Handlers : handler[g].at = "next" /\ v = handler[g].seen
    BY DEF Lists, Fetched
  <1>3. CASE \E g \in Handlers : handler[g].at = "next" /\ v = handler[g].seen
    <2>1. HoldsList(v, cache.bots, bots, Fetched)
      BY <1>3 DEF ListsHeld
    <2> QED
      BY <1>1, <2>1 DEF HoldsList
  <1> QED
    BY <1>1, <1>2, <1>3 DEF HoldsList

LEMMA FiniteLists ==
  ASSUME TypeOK, NEW v, v \subseteq bots
  PROVE  IsFiniteSet(v) /\ Cardinality(v) \in Nat
  <1>1. v \subseteq Bots
    BY DEF TypeOK, DatabaseOK
  <1> QED
    BY <1>1, ConstantFacts, FS_Subset, FS_CardinalityType

\* A request chooses a bot: the index is within its list, and afterwards within
\* every other.
LEMMA SelectorFits ==
  ASSUME TypeOK, Single, Fit, NEW h \in Handlers, SelectorNext(h)
  PROVE  Fit'
  <1> SUFFICES ASSUME history' \cap {"shrunk", "outgrown"} = {}
               PROVE  "panic" \notin history' /\ (~redis => ListsHeld')
    BY DEF Fit, SelectorNext
  <1>1. PICK n : n = Cardinality(handler[h].seen)
    OBVIOUS
  <1>2. n \in Nat \ {0} /\ (~redis => currIdx' = (currIdx + 1) % n) /\ currIdx \in Nat
    BY <1>1, IndexKept DEF TypeOK
  <1>3. history \cap {"shrunk", "outgrown"} = {}
    BY DEF SelectorNext
  <1>4. "panic" \notin history /\ (~redis => ListsHeld)
    BY <1>3 DEF Fit
  <1>5. handler[h].at = "next" /\ UNCHANGED <<bots, cache, flight>>
    BY DEF SelectorNext
  <1>6. NextIndex(n).index < n
    <2>1. CASE redis
      BY <1>2, <2>1 DEF NextIndex
    <2>2. CASE ~redis
      <3>1. Within(handler[h].seen, bots, currIdx)
        BY <1>4, <1>5, <2>2 DEF ListsHeld
      <3> QED
        BY <1>1, <1>2, <2>2, <3>1 DEF NextIndex, Within
    <2> QED
      BY <2>1, <2>2
  <1>7. history' = history
    BY <1>1, <1>6 DEF SelectorNext
  <1>8. ASSUME ~redis
        PROVE  ListsHeld'
    <2>1. currIdx' \in Nat /\ currIdx' < n
      BY <1>2, <1>8
    <2>2. ASSUME NEW v, v \in Lists, Within(v, bots, currIdx)
          PROVE  Within(v, bots', currIdx')
      <3>1. handler[h].seen \subseteq v
        BY <1>4, <1>5, <1>8, <2>2, Shortest
      <3>2. IsFiniteSet(v) /\ Cardinality(v) \in Nat
        BY <2>2, FiniteLists DEF Within
      <3>3. n <= Cardinality(v)
        BY <1>1, <3>1, <3>2, FS_Subset
      <3> QED
        BY <1>2, <1>5, <2>1, <2>2, <3>2, <3>3 DEF Within
    <2>3. Moves(h, "idle", 0, {})
      BY DoneMoves DEF SelectorNext
    <2>4. \A g \in Handlers : handler'[g].at = "next" => handler'[g] = handler[g]
      BY <2>3 DEF Moves
    <2>5. /\ \A g \in Handlers : handler[g].at = "next" => handler[g].seen \in Lists
          /\ \A v \in cache.bots : v \in Lists
          /\ bots \in Lists
          /\ \A v \in Fetched : v \in Lists
      BY DEF Lists, Fetched
    <2>6. Fetched' = Fetched
      BY <1>5 DEF Fetched
    <2>7. \A g \in Handlers : handler'[g].at = "next" =>
             /\ HoldsList(handler'[g].seen, cache'.bots, bots', Fetched')
             /\ Within(handler'[g].seen, bots', currIdx')
      BY <1>4, <1>5, <1>8, <2>2, <2>4, <2>5, <2>6 DEF ListsHeld
    <2> QED
      BY <1>4, <1>5, <1>8, <2>2, <2>5, <2>6, <2>7 DEF ListsHeld
  <1> QED
    BY <1>4, <1>7, <1>8

LEMMA SteadyHeld ==
  ASSUME ListsHeld, Steady
  PROVE  ListsHeld'
  <1>1. UNCHANGED <<bots, currIdx, Fetched>> /\ cache'.bots = cache.bots
    BY DEF Steady, Fetched
  <1>2. \A g \in Handlers : handler'[g].at = "next" => handler'[g] = handler[g]
    BY DEF Steady, NoNewList
  <1> QED
    BY <1>1, <1>2 DEF ListsHeld

\* A request gets the cached list.
LEMMA HitHeld ==
  ASSUME TypeOK, Single, ~redis, ListsHeld, NEW h \in Handlers, Hit(h)
  PROVE  ListsHeld'
  <1>1. PICK r \in Requests : RequestBecomes(h, r) /\ Answered(handler[h], r, cache[KeyOf(handler[h].at)])
    BY HitStep
  <1>2. UNCHANGED <<bots, cache, currIdx, flight>>
    BY DEF Hit
  <1>3. Fetched' = Fetched
    BY <1>2 DEF Fetched
  <1>4. \A g \in Handlers : handler'[g] = IF g = h THEN r ELSE handler[g]
    BY <1>1 DEF TypeOK, HandlersOK, RequestBecomes
  <1>5. r.at = "next" => r.seen \in cache.bots
    BY <1>1 DEF Answered, KeyOf
  <1>6. r.at = "next" => HoldsList(r.seen, cache.bots, bots, Fetched) /\ Within(r.seen, bots, currIdx)
    <2> SUFFICES ASSUME r.at = "next"
                 PROVE  HoldsList(r.seen, cache.bots, bots, Fetched) /\ Within(r.seen, bots, currIdx)
      OBVIOUS
    <2>1. Within(r.seen, bots, currIdx)
      BY <1>5 DEF ListsHeld
    <2>2. Fetched = {} /\ \E v : cache.bots = {v}
      BY <1>5, CachedAlone DEF Fetched
    <2> QED
      BY <1>5, <2>1, <2>2 DEF HoldsList
  <1>7. \A g \in Handlers : handler'[g].at = "next" =>
           HoldsList(handler'[g].seen, cache.bots, bots, Fetched) /\ Within(handler'[g].seen, bots, currIdx)
    BY <1>4, <1>6 DEF ListsHeld
  <1> QED
    BY <1>2, <1>3, <1>7 DEF ListsHeld

\* The bots change, or the cached list is dropped: requests that hold another
\* list are recorded.
LEMMA OutgrownHeld ==
  ASSUME NEW now, Outgrown(now) \subseteq history', "outgrown" \notin history', NEW g \in Handlers,
         handler[g].at = "next"
  PROVE  handler[g].seen = now
  BY DEF Outgrown

LEMMA BotsHeld ==
  ASSUME TypeOK, ListsHeld, NEW h \in Handlers, BotRows(h) \/ DropBots(h),
         history' \cap {"shrunk", "outgrown"} = {}
  PROVE  ListsHeld'
  <1>1. UNCHANGED <<currIdx, flight>>
    BY DEF BotRows, DropBots
  <1>2. Fetched' = Fetched
    BY <1>1 DEF Fetched
  <1>3. \E at, chan, seen : Moves(h, at, chan, seen) /\ at # "next"
    <2>1. \/ Moves(h, "dropbots", handler[h].chan, handler[h].seen)
          \/ Moves(h, "idle", 0, {})
      BY PlainMoves
    <2> QED
      BY <2>1
  <1>4. \A g \in Handlers : handler'[g].at = "next" => handler'[g] = handler[g]
    BY <1>3 DEF Moves
  <1>5. CASE bots' = bots /\ cache' = cache
    BY <1>1, <1>2, <1>4, <1>5 DEF ListsHeld
  <1>6. CASE bots' = bots /\ cache'.bots = {} /\ Outgrown(bots) \subseteq history'
    <2>1. \A g \in Handlers : handler[g].at = "next" => handler[g].seen = bots
      BY <1>6, OutgrownHeld
    <2>2. ASSUME NEW g \in Handlers, handler'[g].at = "next"
          PROVE  HoldsList(handler'[g].seen, {}, bots, Fetched) /\ Within(handler'[g].seen, bots, currIdx)
      BY <1>4, <2>1, <2>2 DEF ListsHeld, HoldsList
    <2> QED
      BY <1>1, <1>2, <1>6, <2>2 DEF ListsHeld
  <1>7. CASE cache' = cache /\ bots \subseteq bots' /\ bots' \subseteq Bots /\ Outgrown(bots') \subseteq history'
    <2>1. \A g \in Handlers : handler[g].at = "next" => handler[g].seen = bots'
      BY <1>7, OutgrownHeld
    <2>2. \A v : Within(v, bots, currIdx) => Within(v, bots', currIdx)
      BY <1>7 DEF Within
    <2>3. Within(bots', bots', currIdx)
      <3>1. Within(bots, bots, currIdx)
        BY DEF ListsHeld
      <3>2. Cardinality(bots) <= Cardinality(bots') /\ Cardinality(bots) \in Nat /\ Cardinality(bots') \in Nat
        BY <1>7, ConstantFacts, FS_Subset, FS_CardinalityType
      <3> QED
        BY <3>1, <3>2 DEF Within, TypeOK
    <2>4. ASSUME NEW g \in Handlers, handler'[g].at = "next"
          PROVE  HoldsList(handler'[g].seen, cache.bots, bots', Fetched) /\ Within(handler'[g].seen, bots', currIdx)
      <3>1. HoldsList(handler[g].seen, cache.bots, bots, Fetched) /\ Within(handler[g].seen, bots', currIdx)
        BY <1>4, <2>2, <2>4 DEF ListsHeld
      <3> QED
        BY <1>4, <2>1, <2>4, <3>1 DEF HoldsList
    <2> QED
      BY <1>1, <1>2, <1>7, <2>2, <2>3, <2>4 DEF ListsHeld
  <1>8. CASE DropBots(h)
    <2>1. cache \in [channel : SUBSET Channels, bots : SUBSET SUBSET Bots]
      BY DEF TypeOK, CacheOK
    <2>2. bots' = bots /\ cache'.bots = {} /\ history' = Outgrown(bots)
      BY <1>8, <2>1 DEF DropBots
    <2> QED
      BY <1>6, <2>2
  <1>9. CASE BotRows(h)
    <2>1. cache' = cache /\ bots \subseteq Bots
      BY <1>9 DEF BotRows, TypeOK, DatabaseOK
    <2>2. \/ bots' = bots
          \/ bots \subseteq bots' /\ bots' \subseteq Bots /\ Outgrown(bots') \subseteq history'
      BY <1>9, <2>1 DEF BotRows
    <2> QED
      BY <1>5, <1>7, <2>1, <2>2
  <1> QED
    BY <1>8, <1>9

LEMMA Landed ==
  ASSUME TypeOK, NEW i \in Instances, NEW k \in Keys,
         NEW answer, answer \subseteq Values(k), AtMostOne(answer),
         LandsWith(i, k, answer), made' = made
  PROVE  /\ flight'[i][k] = NoFlight
         /\ \A j \in Instances, l \in Keys : i # j \/ k # l => flight'[j][l] = flight[j][l]
         /\ \A h \in Handlers :
               \/ handler'[h] = handler[h]
               \/ KeyOf(handler[h].at) = k /\ Answered(handler[h], handler'[h], answer)
  <1>1. PICK none \in BOOLEAN : Land(i, k, answer, none)
    BY Zenon DEF LandsWith
  <1>2. /\ flight'[i][k] = NoFlight
        /\ \A j \in Instances, l \in Keys : i # j \/ k # l => flight'[j][l] = flight[j][l]
        /\ \A h \in Handlers :
              \/ h \notin flight[i][k].waiters /\ handler'[h] = handler[h]
              \/ /\ h \in flight[i][k].waiters /\ KeyOf(handler[h].at) = k
                 /\ Answered(handler[h], handler'[h], answer)
    BY <1>1, Landing
  <1> QED
    BY <1>2

\* A flight for another key, or one that tells nobody of a list.
LEMMA LandHeld ==
  ASSUME TypeOK, Single, ~redis, ListsHeld, NEW i \in Instances, NEW k \in Keys, NEW answer,
         answer \subseteq Values(k), AtMostOne(answer), LandsWith(i, k, answer), made' = made,
         UNCHANGED <<bots, currIdx>>, i = First \/ k # "bots", cache.bots = {} \/ k # "bots",
         IF k = "bots" THEN cache'.bots = answer /\ answer \subseteq Fetched
                       ELSE cache'.bots = cache.bots
  PROVE  ListsHeld'
  <1>1. /\ flight'[i][k] = NoFlight
        /\ \A j \in Instances, l \in Keys : i # j \/ k # l => flight'[j][l] = flight[j][l]
        /\ \A h \in Handlers :
              \/ handler'[h] = handler[h]
              \/ KeyOf(handler[h].at) = k /\ Answered(handler[h], handler'[h], answer)
    BY Landed
  <1>2. First \in Instances /\ "bots" \in Keys
    BY ConstantFacts DEF Keys
  <1>3. CASE k # "bots"
    <2>1. Fetched' = Fetched
      BY <1>1, <1>2, <1>3 DEF Fetched
    <2>2. \A h \in Handlers : handler'[h].at = "next" => handler'[h] = handler[h]
      BY <1>1, <1>3 DEF Answered, KeyOf
    <2>3. Steady
      BY <1>3, <2>1, <2>2 DEF Steady, NoNewList, Fetched
    <2> QED
      BY <2>3, SteadyHeld
  <1>4. CASE k = "bots"
    <2>1. Fetched' = {}
      BY <1>1, <1>4 DEF Fetched, NoFlight
    <2>2. cache'.bots = answer /\ answer \subseteq Fetched /\ cache.bots = {}
      BY <1>4
    <2>3. ASSUME NEW h \in Handlers, handler'[h].at = "next"
          PROVE  HoldsList(handler'[h].seen, answer, bots, {}) /\ Within(handler'[h].seen, bots, currIdx)
      <3>1. CASE handler'[h] = handler[h]
        BY <2>2, <2>3, <3>1 DEF ListsHeld, HoldsList
      <3>2. CASE Answered(handler[h], handler'[h], answer)
        <4>1. handler'[h].seen \in answer
          BY <2>3, <3>2 DEF Answered
        <4> QED
          BY <2>2, <4>1 DEF ListsHeld, HoldsList, AtMostOne
      <3> QED
        BY <1>1, <3>1, <3>2
    <2> QED
      BY <2>1, <2>2, <2>3 DEF ListsHeld
  <1> QED
    BY <1>3, <1>4

LEMMA FlyHeld ==
  ASSUME TypeOK, Single, ~redis, ListsHeld, NEW i \in Instances, NEW k \in Keys, Fly(i, k)
  PROVE  ListsHeld'
  <1>1. /\ UNCHANGED <<bots, currIdx>> /\ made' = made /\ flight[i][k].at # "none"
    BY DEF Fly, FlightRecheck, FlightQuery, FlightStore
  <1>2. k = "bots" => i = First /\ cache.bots = {}
    <2>1. NoFlight.at = "none"
      BY DEF NoFlight
    <2> QED
      BY <1>1, <2>1 DEF Single
  <1>3. First \in Instances /\ "bots" \in Keys
    BY ConstantFacts DEF Keys
  <1>4. /\ \A l \in Keys : cache[l] \subseteq Values(l) /\ AtMostOne(cache[l])
        /\ flight[i][k].val \subseteq Values(k) /\ AtMostOne(flight[i][k].val)
        /\ AtMostOne({})
    BY FlightFacts DEF AtMostOne
  <1>5. ASSUME NEW f, FlightOK(f, k), FlightBecomes(i, k, f), f.val \subseteq InDB(k), handler' = handler, cache' = cache
        PROVE  ListsHeld'
    <2>1. /\ flight'[i][k] = f
          /\ \A j \in Instances, l \in Keys : i # j \/ k # l => flight'[j][l] = flight[j][l]
      BY <1>5, FlightSet
    <2>2. CASE k # "bots"
      <3>1. Fetched' = Fetched
        BY <1>3, <2>1, <2>2 DEF Fetched
      <3>2. Steady
        BY <1>1, <1>5, <3>1 DEF Steady, NoNewList, Fetched
      <3> QED
        BY <3>2, SteadyHeld
    <2>3. CASE k = "bots"
      <3>1. Fetched' = f.val /\ f.val \subseteq {bots}
        BY <1>2, <1>5, <2>1, <2>3 DEF Fetched, InDB
      <3>2. ASSUME NEW h \in Handlers, handler[h].at = "next"
            PROVE  HoldsList(handler[h].seen, cache.bots, bots, f.val) /\ Within(handler[h].seen, bots, currIdx)
        BY <1>2, <2>3, <3>1, <3>2 DEF ListsHeld, HoldsList
      <3> QED
        BY <1>1, <1>5, <3>1, <3>2 DEF ListsHeld
    <2> QED
      BY <2>2, <2>3
  <1>6. ASSUME NEW answer, answer \subseteq Values(k), AtMostOne(answer), LandsWith(i, k, answer),
               k = "bots" => cache'.bots = answer /\ answer \subseteq Fetched,
               k # "bots" => cache'.bots = cache.bots
        PROVE  ListsHeld'
    BY <1>1, <1>2, <1>6, LandHeld
  <1>7. CASE FlightRecheck(i, k)
    <2>1. CASE cache[k] # {}
      <3>1. k # "bots" /\ LandsWith(i, k, cache[k]) /\ cache' = cache
        BY <1>2, <1>7, <2>1 DEF FlightRecheck, LandsWith
      <3> QED
        BY <1>4, <1>6, <3>1
    <2>2. CASE cache[k] = {}
      <3>1. handler' = handler /\ cache' = cache /\ flight' = [flight EXCEPT ![i][k].at = "query"]
            /\ flight[i][k].at = "recheck"
        BY <1>7, <2>2 DEF FlightRecheck
      <3>2. MovesOn(i, k, {})
        BY <3>1 DEF MovesOn
      <3>3. PICK f : FlightOK(f, k) /\ FlightBecomes(i, k, f) /\ f.val = {}
        BY <3>2, FlightOn
      <3> QED
        BY <1>5, <3>1, <3>3
    <2> QED
      BY <2>1, <2>2
  <1>8. CASE FlightQuery(i, k)
    <2>1. cache' = cache
      BY <1>8 DEF FlightQuery
    <2>2. CASE LandsWith(i, k, {})
      BY <1>2, <1>4, <1>6, <2>1, <2>2
    <2>3. CASE \E v \in InDB(k) : /\ flight' = [flight EXCEPT ![i][k].at = "store", ![i][k].val = {v}]
                                  /\ UNCHANGED handler
      <3>1. PICK v \in InDB(k) : /\ flight' = [flight EXCEPT ![i][k].at = "store", ![i][k].val = {v}]
                                 /\ UNCHANGED handler
        BY <2>3
      <3>2. PICK w : w = {v}
        OBVIOUS
      <3>3. w \subseteq Values(k) /\ AtMostOne(w) /\ w \subseteq InDB(k)
        BY <3>2, FlightFacts DEF AtMostOne
      <3>4. MovesOn(i, k, w)
        BY <3>1, <3>2, <3>3 DEF MovesOn
      <3>5. PICK f : FlightOK(f, k) /\ FlightBecomes(i, k, f) /\ f.val = w
        BY <3>4, FlightOn
      <3> QED
        BY <1>5, <2>1, <3>1, <3>3, <3>5
    <2> QED
      BY <1>8, <2>2, <2>3 DEF FlightQuery, LandsWith
  <1>9. CASE FlightStore(i, k)
    <2>1. LandsWith(i, k, flight[i][k].val) /\ cache' = [cache EXCEPT ![k] = flight[i][k].val]
      BY <1>9 DEF FlightStore, LandsWith
    <2>2. cache \in [channel : SUBSET Channels, bots : SUBSET SUBSET Bots]
      BY DEF TypeOK, CacheOK
    <2>3. CASE k = "bots"
      <3>1. cache'.bots = flight[i][k].val /\ flight[i][k].val = Fetched
        BY <1>2, <2>1, <2>2, <2>3 DEF Fetched
      <3> QED
        BY <1>4, <1>6, <2>1, <2>3, <3>1
    <2>4. CASE k # "bots"
      <3>1. cache'.bots = cache.bots
        BY <2>1, <2>2, <2>4
      <3> QED
        BY <1>4, <1>6, <2>1, <2>4, <3>1
    <2> QED
      BY <2>3, <2>4
  <1> QED
    BY <1>7, <1>8, <1>9 DEF Fly

\* The only instance starts again: index and cache with it.
LEMMA CrashHeld ==
  ASSUME TypeOK, Single, ~redis, ListsHeld, Crash(First)
  PROVE  ListsHeld'
  <1>1. First \in Instances /\ "bots" \in Keys
    BY ConstantFacts DEF Keys
  <1>2. flight'[First]["bots"] = NoFlight /\ \A h \in Handlers : handler'[h] = Idle
    BY <1>1, CrashStep DEF Single
  <1>3. Idle.at # "next" /\ NoFlight.val = {}
    BY DEF Idle, NoFlight
  <1>4. cache'.bots = {} /\ currIdx' = 0 /\ bots' = bots
    BY DEF Crash
  <1>5. Fetched' = {}
    BY <1>2, <1>3 DEF Fetched
  <1> QED
    BY <1>2, <1>3, <1>4, <1>5 DEF ListsHeld, Within

LEMMA FitKept ==
  ASSUME TypeOK, Single, Fit, [Next]_vars
  PROVE  Fit'
  <1>1. CASE \E h \in Handlers : SelectorNext(h)
    BY <1>1, SelectorFits
  <1>2. CASE ~ \E h \in Handlers : SelectorNext(h)
    <2> SUFFICES ASSUME history' \cap {"shrunk", "outgrown"} = {}
                 PROVE  "panic" \notin history' /\ (~redis' => ListsHeld')
      BY DEF Fit
    <2>1. history \cap {"shrunk", "outgrown"} = {} /\ redis' = redis
      BY HistoryGrows, ScalarsKept
    <2>2. "panic" \notin history /\ (~redis => ListsHeld)
      BY <2>1 DEF Fit
    <2>3. "panic" \notin history'
      BY <1>2, <2>2, OnlySelectorPanics
    <2>4. ASSUME ~redis
          PROVE  ListsHeld'
      <3>1. Up = {First}
        BY <2>4 DEF Up
      <3>2. ListsHeld
        BY <2>2, <2>4
      <3> QED
        BY <1>2, <2>4, <3>1, <3>2, SteadySteps, SteadyHeld, HitHeld, BotsHeld, FlyHeld, CrashHeld
    <2> QED
      BY <2>1, <2>3, <2>4
  <1> QED
    BY <1>1, <1>2

LEMMA InitFit == Init => Single /\ Fit
  <1> SUFFICES ASSUME Init
               PROVE  Single /\ Fit
    OBVIOUS
  <1>1. \A i \in Instances, k \in Keys : flight[i][k] = NoFlight
    BY DEF Init
  <1>2. First \in Instances /\ "bots" \in Keys /\ NoFlight.at = "none" /\ NoFlight.val = {}
    BY ConstantFacts DEF Keys, NoFlight
  <1>3. Single
    BY <1>1, <1>2, IdleAtFirst DEF Single
  <1>4. cache.bots \subseteq {bots} /\ Fetched = {}
    BY <1>1, <1>2 DEF Init, Fetched
  <1>5. \A h \in Handlers : handler[h].at # "next"
    BY IdleAtFirst
  <1>6. "panic" \notin history
    BY DEF Init
  <1>7. history \cap {"shrunk", "outgrown"} = {} => Within(bots, bots, currIdx)
    BY DEF Init, Within
  <1> QED
    BY <1>3, <1>4, <1>5, <1>6, <1>7 DEF Fit, ListsHeld

\* The index of the memory selector is within the list of bots it is applied to,
\* so that botSelector.Next panics only after bots were removed or the list grew
\* while a request was about to choose from a shorter one; for any number of
\* requests and bots (bot_selector.go).
THEOREM PanicsOnlyAfterChange == Spec => []PanicOnlyAfterChange
  <1>1. TypeOK /\ Single /\ Fit /\ [Next]_vars => Single' /\ Fit'
    BY SingleKept, FitKept
  <1>2. Fit => PanicOnlyAfterChange
    BY DEF Fit, PanicOnlyAfterChange
  <1> QED
    BY <1>1, <1>2, InitFit, ChannelTypeCorrect, PTL DEF Spec
=============================================================================
