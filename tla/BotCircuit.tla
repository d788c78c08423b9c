----------------------------- MODULE BotCircuit -----------------------------
(***************************************************************************)
(* The circuit breaker of the client pool: a bot that fails Threshold      *)
(* times in a row is not handed out until its cool-down has passed.        *)
(*                                                                         *)
(* GetBotClient asks for every candidate whether its circuit is open; the  *)
(* failure of a creation or of a stream and the success of a stream are    *)
(* recorded, the failure of a stream by a goroutine of the reader that the *)
(* request does not wait for.  The state of a bot is two atomic words and  *)
(* no lock: a step is one operation on one of them.                        *)
(*                                                                         *)
(* Sources: internal/tgc/client_pool.go and streamWithTGReader of          *)
(* pkg/services/file.go, on top of ClientPool.  The statistics counters    *)
(* are left out.                                                           *)
(***************************************************************************)
EXTENDS ClientPool

CONSTANTS
    Threshold,      \* botCircuitFailureThreshold
    Cooldown,       \* botCircuitCooldown
    MaxTime         \* bound

ASSUME CircuitAssumption ==
    /\ {Threshold, Cooldown} \subseteq Nat \ {0}
    /\ MaxTime \in Nat

BotKeys == Range(Bots)

VARIABLES
    now,        \* the clock
    circuit,    \* p.botCircuit: consecutiveFailures and openUntilUnixNano
    look,       \* look[h]: GetBotClient's loop over the candidates
    failing,    \* failing[h]: RecordBotFailure
    passing,    \* passing[h]: RecordBotSuccess
    told        \* told[h]: what the stream has recorded (markFailure)

circuitVars == <<now, circuit, look, failing, passing, told>>
allVars == <<vars, circuitVars>>

Fresh == [failures |-> 0, openUntil |-> 0]
NoLook == [at |-> "none", time |-> 0, bot |-> 1, seen |-> 0, avail |-> {}]
NoRecord == [at |-> "none", key |-> UserKey, seen |-> 0]

CircuitInit ==
    /\ Init
    /\ now = 0
    /\ circuit = [k \in BotKeys |-> Fresh]
    /\ look = [h \in Calls |-> NoLook]
    /\ failing = [h \in Calls |-> NoRecord]
    /\ passing = [h \in Calls |-> NoRecord]
    /\ told = [h \in Calls |-> {}]

\* Fault: the word is written whatever it is by now.
StoreClosed(k, seen) ==
    circuit' = [circuit EXCEPT ![k].openUntil = 0]

\* CompareAndSwapInt64(&state.openUntilUnixNano, seen, 0)
SwapClosed(k, seen) ==
    circuit' = IF circuit[k].openUntil = seen
               THEN [circuit EXCEPT ![k].openUntil = 0] ELSE circuit

\* StoreInt64(&state.consecutiveFailures, 0)
StoreNoFailures(k) == circuit' = [circuit EXCEPT ![k].failures = 0]

----------------------------------------------------------------------------
(* isBotClientAvailable, for one candidate after the other.                *)

\* now := time.Now(), once for all of them.
LookStart(h) ==
    /\ call[h].at = "gather"
    /\ DOMAIN call[h].cands = DOMAIN Bots
    /\ look[h].at = "none"
    /\ look' = [look EXCEPT ![h].at = "load", ![h].time = now]
    /\ UNCHANGED <<vars, now, circuit, failing, passing, told>>

LookLoad(h) ==
    LET l == look[h]
        k == Bots[l.bot]
        openUntil == circuit[k].openUntil
    IN
    /\ l.at = "load"
    /\ l.bot <= Len(Bots)
    /\ look' = [look EXCEPT ![h] =
                  CASE openUntil = 0 ->
                         [l EXCEPT !.bot = @ + 1, !.avail = @ \cup {l.bot}]
                    [] openUntil # 0 /\ l.time >= openUntil ->
                         [l EXCEPT !.at = "swap", !.seen = openUntil]
                    [] OTHER -> [l EXCEPT !.bot = @ + 1]]
    /\ UNCHANGED <<vars, now, circuit, failing, passing, told>>

\* The candidate is available, whether the word was still the same or not.
LookSwap(h) ==
    LET l == look[h]
        k == Bots[l.bot]
        next == [l EXCEPT !.at = "load", !.seen = 0, !.bot = @ + 1,
                          !.avail = @ \cup {l.bot}]
    IN
    /\ l.at = "swap"
    /\ SwapClosed(k, l.seen)
    /\ look' = [look EXCEPT ![h] = IF circuit[k].openUntil = l.seen
                                   THEN [l EXCEPT !.at = "reset"] ELSE next]
    /\ UNCHANGED <<vars, now, failing, passing, told>>

LookReset(h) ==
    LET l == look[h]
        k == Bots[l.bot]
    IN
    /\ l.at = "reset"
    /\ StoreNoFailures(k)
    /\ look' = [look EXCEPT ![h] = [l EXCEPT !.at = "load", !.seen = 0,
                                             !.bot = @ + 1,
                                             !.avail = @ \cup {l.bot}]]
    /\ UNCHANGED <<vars, now, failing, passing, told>>

\* availableClients
LookEnd(h) ==
    /\ look[h].at = "load"
    /\ look[h].bot > Len(Bots)
    /\ BotAvailable(h)
    /\ DOMAIN call'[h].cands = look[h].avail
    /\ look' = [look EXCEPT ![h] = NoLook]
    /\ UNCHANGED <<now, circuit, failing, passing, told>>

----------------------------------------------------------------------------
(* RecordBotFailure.                                                       *)

\* createBotClientFn has failed; the call goes on after the recording.
CreateFailsRecorded(h) ==
    /\ CreateFails(h)
    /\ failing' = IF call[h].op = "user" THEN failing
                  ELSE [failing EXCEPT ![h].at = "count",
                                       ![h].key = call[h].key]
    /\ UNCHANGED <<now, circuit, look, passing, told>>

\* A chunk or the list of parts failed, and not because the request ended:
\* recorded once (sync.Once), by whatever goroutine met it.
StreamFails(h) ==
    /\ call[h].at = "use"
    /\ call[h].key \in BotKeys
    /\ "failure" \notin told[h]
    /\ told' = [told EXCEPT ![h] = @ \cup {"failure"}]
    /\ failing' = [failing EXCEPT ![h].at = "count", ![h].key = call[h].key]
    /\ UNCHANGED <<vars, now, circuit, look, passing>>

\* failures := AddInt64(&state.consecutiveFailures, 1)
CountFailure(h) ==
    LET k == failing[h].key IN
    /\ failing[h].at = "count"
    /\ circuit' = [circuit EXCEPT ![k].failures = @ + 1]
    /\ failing' = [failing EXCEPT
                     ![h] = IF circuit'[k].failures < Threshold
                            THEN NoRecord ELSE [@ EXCEPT !.at = "trip"]]
    /\ UNCHANGED <<vars, now, look, passing, told>>

\* The clock is read and the word is stored: the time in between is short
\* compared with the cool-down.
Trip(h) ==
    /\ failing[h].at = "trip"
    /\ circuit' = [circuit EXCEPT ![failing[h].key].openUntil = now + Cooldown]
    /\ failing' = [failing EXCEPT ![h].at = "reset"]
    /\ UNCHANGED <<vars, now, look, passing, told>>

TripEnd(h) ==
    /\ failing[h].at = "reset"
    /\ StoreNoFailures(failing[h].key)
    /\ failing' = [failing EXCEPT ![h] = NoRecord]
    /\ UNCHANGED <<vars, now, look, passing, told>>

----------------------------------------------------------------------------
(* RecordBotSuccess.                                                       *)

\* io.CopyN has copied everything.
StreamSucceeds(h) ==
    /\ call[h].at = "use"
    /\ call[h].key \in BotKeys
    /\ "success" \notin told[h]
    /\ told' = [told EXCEPT ![h] = @ \cup {"success"}]
    /\ passing' = [passing EXCEPT ![h].at = "load", ![h].key = call[h].key]
    /\ UNCHANGED <<vars, now, circuit, look, failing>>

PassLoad(h) ==
    LET openUntil == circuit[passing[h].key].openUntil IN
    /\ passing[h].at = "load"
    /\ passing' = [passing EXCEPT
                     ![h] = CASE openUntil = 0 -> [@ EXCEPT !.at = "reset"]
                              [] openUntil > now -> NoRecord
                              [] OTHER -> [@ EXCEPT !.at = "swap",
                                                    !.seen = openUntil]]
    /\ UNCHANGED <<vars, now, circuit, look, failing, told>>

PassSwap(h) ==
    LET p == passing[h] IN
    /\ p.at = "swap"
    /\ SwapClosed(p.key, p.seen)
    /\ passing' = [passing EXCEPT
                     ![h].at = IF circuit[p.key].openUntil = p.seen
                               THEN "reset" ELSE "load",
                     ![h].seen = 0]
    /\ UNCHANGED <<vars, now, look, failing, told>>

PassReset(h) ==
    /\ passing[h].at = "reset"
    /\ StoreNoFailures(passing[h].key)
    /\ passing' = [passing EXCEPT ![h] = NoRecord]
    /\ UNCHANGED <<vars, now, look, failing, told>>

\* The handler returns: its deferred Release.
StreamEnds(h) ==
    /\ passing[h].at = "none"
    /\ Release(h)
    /\ told' = [told EXCEPT ![h] = {}]
    /\ UNCHANGED <<now, circuit, look, failing, passing>>

----------------------------------------------------------------------------

\* The clock matters while a circuit is open.
Tick ==
    /\ now < MaxTime
    /\ \E k \in BotKeys : circuit[k].openUntil > now
    /\ now' = now + 1
    /\ UNCHANGED <<vars, circuit, look, failing, passing, told>>

\* p.botCircuit.Delete(key), by the idle checker or Close; who is recording
\* goes on with the old words, which nobody reads any more.
Forget(keys) ==
    LET rest(r) == IF r.key \in keys THEN NoRecord ELSE r IN
    /\ circuit' = [k \in BotKeys |-> IF k \in keys THEN Fresh ELSE circuit[k]]
    /\ failing' = [h \in Calls |-> rest(failing[h])]
    /\ passing' = [h \in Calls |-> rest(passing[h])]
    /\ UNCHANGED <<now, look, told>>

EvictForgets ==
    /\ Evict
    /\ Forget({checker.key})

CloseForgets ==
    /\ Close
    /\ Forget({k \in Keys : clients[k] # 0})

\* The rest of a call.  It goes on selecting when the failure is recorded.
CallStep(h) ==
    /\ failing[h].at # "none" => call[h].at # "select"
    /\ \/ UserLoad(h) \/ UserStore(h) \/ UserRecheck(h)
       \/ BotGather(h) \/ BotSelect(h) \/ BotNone(h) \/ BotRecheck(h)
       \/ Claim(h) \/ Wait(h)
       \/ StartClient(h) \/ PublishClient(h)
       \/ CountClient(h) \/ ExposeClient(h)
       \/ AcquireClient(h) \/ ReadClient(h)
    /\ UNCHANGED circuitVars

LookStep(h) ==
    \/ LookStart(h) \/ LookLoad(h) \/ LookSwap(h) \/ LookReset(h) \/ LookEnd(h)

FailStep(h) == CountFailure(h) \/ Trip(h) \/ TripEnd(h)
PassStep(h) == PassLoad(h) \/ PassSwap(h) \/ PassReset(h)

\* Other steps of the pool, which the circuits have no part in.
PoolStep ==
    /\ \/ \E h \in Calls : GetUserClient(h) \/ GetBotClient(h)
       \/ \E k \in Keys : Age(k)
       \/ \E k \in Keys : CheckIdle(k)
    /\ UNCHANGED circuitVars

CircuitNext ==
    \/ \E h \in Calls : CallStep(h)
    \/ \E h \in Calls : LookStep(h)
    \/ \E h \in Calls : CreateFailsRecorded(h)
    \/ \E h \in Calls : StreamFails(h)
    \/ \E h \in Calls : FailStep(h)
    \/ \E h \in Calls : StreamSucceeds(h)
    \/ \E h \in Calls : PassStep(h)
    \/ \E h \in Calls : StreamEnds(h)
    \/ PoolStep
    \/ EvictForgets
    \/ CloseForgets
    \/ Tick

\* While a call or the checker can go on, one of them does.
CircuitFairness ==
    WF_allVars(\/ \E h \in Calls : \/ CallStep(h) \/ LookStep(h)
                                   \/ CreateFailsRecorded(h) \/ FailStep(h)
               \/ EvictForgets)

CircuitSpec == CircuitInit /\ [][CircuitNext]_allVars /\ CircuitFairness

----------------------------------------------------------------------------
(* Properties.                                                             *)

CircuitTypeOK ==
    /\ TypeOK
    /\ now \in 0..MaxTime
    /\ \A k \in BotKeys : /\ circuit[k].failures \in 0..(Cardinality(Calls) + Threshold)
                          /\ circuit[k].openUntil \in 0..(MaxTime + Cooldown)
    /\ \A h \in Calls :
          /\ look[h].at \in {"none", "load", "swap", "reset"}
          /\ failing[h].at \in {"none", "count", "trip", "reset"}
          /\ passing[h].at \in {"none", "load", "swap", "reset"}
          /\ failing[h].at # "none" => failing[h].key \in BotKeys
          /\ passing[h].at # "none" => passing[h].key \in BotKeys
          /\ told[h] \subseteq {"failure", "success"}

\* An open circuit is kept open for its cool-down: neither a late success
\* nor a request that saw an earlier cool-down end closes it, and another
\* failure does not shorten it, as long as the pool keeps the bot.
CooldownKept ==
    [][\A k \in BotKeys :
          clients'[k] # 0 /\ circuit[k].openUntil > now
          => circuit'[k].openUntil >= circuit[k].openUntil]_allVars

=============================================================================
