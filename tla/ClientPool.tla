----------------------------- MODULE ClientPool -----------------------------
(***************************************************************************)
(* internal/tgc/client_pool.go: the pool of Telegram clients from which a  *)
(* streaming request takes one.  FilesStream (pkg/services/file.go) calls  *)
(* GetUserClient or GetBotClient, streams, and releases what it got.       *)
(*                                                                         *)
(* The pool is a sync.Map from keys to slots (PooledClient).  A request    *)
(* finds or makes the slot of a key, claims its creation by a compare and  *)
(* swap, and starts the client; others wait for the claim to be dropped.   *)
(* The idle checker stops and removes a slot that has no connections and   *)
(* was not used for a while.  A step is one operation on the map or one    *)
(* atomic operation on a slot, with the plain writes next to it.           *)
(*                                                                         *)
(* Which bots the circuit breaker lets through is left open: BotCircuit    *)
(* adds it.                                                                *)
(***************************************************************************)
EXTENDS Naturals, Integers, Sequences, FiniteSets, SequencesExt

CONSTANTS
    Calls,          \* streaming requests
    UserKey,        \* "user:<id>", for a user without bots
    Bots,           \* the keys "user:<id>:bot:<token>" of a user with bots
    Strategy,       \* "round_robin" or "least_connections"
    Races,          \* whether the checker may meet a call, see below
    MaxSlots,       \* bound: slots that exist at a time
    MaxClients      \* bound: clients of a key that exist at a time

ASSUME PoolAssumption ==
    /\ IsFiniteSet(Calls)
    /\ Bots \in Seq(Range(Bots)) /\ Len(Bots) > 0
    /\ UserKey \notin Range(Bots)
    /\ Strategy \in {"round_robin", "least_connections"}
    /\ Races \in BOOLEAN
    /\ {MaxSlots, MaxClients} \subseteq Nat \ {0}

Keys == {UserKey} \cup Range(Bots)
SlotIds == 1..MaxSlots
Clients == Keys \X (1..MaxClients)
NoClient == << >>

VARIABLES
    clients,        \* p.clients: the slot of a key, 0 for none
    slots,          \* the PooledClient objects
    totalConns,
    currentIdx,     \* p.currentIdx by the number of candidates
    running,        \* Telegram clients that run in the background
    call,           \* where each request is, and its local variables
    checker,        \* idleChecker: the key and slot it has decided to remove
    open            \* Close was not called

poolVars == <<clients, slots, totalConns>>
vars == <<poolVars, currentIdx, running, call, checker, open>>

\* A slot as LoadOrStore enters it.  "old" is time.Since(LastUsed) > timeout.
NewSlot(k) == [key |-> k, conns |-> 0, creating |-> FALSE, ready |-> FALSE,
               tg |-> NoClient, stop |-> NoClient, old |-> FALSE]

\* cands: the candidates, by their place in the list of bots; selected: the
\* slot that was claimed; pc: the slot whose client is returned; made, into:
\* startClient's client and slot; claimed: GetUserClient's deferred reset;
\* client: what was returned.
NewCall == [at |-> "new", op |-> "none", key |-> UserKey, cands |-> << >>,
            selected |-> 0, pc |-> 0, made |-> NoClient, into |-> 0,
            claimed |-> FALSE, client |-> NoClient]

\* NewClientPool
Init ==
    /\ clients = [k \in Keys |-> 0]
    /\ slots = [s \in SlotIds |-> NewSlot(UserKey)]
    /\ totalConns = 0
    /\ currentIdx = [n \in 1..Len(Bots) |-> 0]
    /\ running = {}
    /\ call = [h \in Calls |-> NewCall]
    /\ checker = [key |-> UserKey, slot |-> 0]
    /\ open = TRUE

\* The slots that call h has in its hands.
HeldSlots(h) ==
    Range(call[h].cands) \cup {call[h].selected, call[h].pc, call[h].into}

InHand(s) == \E h \in Calls : s \in HeldSlots(h)

UsedSlots ==
    Range(clients) \cup {checker.slot} \cup UNION {HeldSlots(h) : h \in Calls}

UsedClients ==
    running \cup {slots[s].tg : s \in UsedSlots \ {0}}
            \cup {call[h].made : h \in Calls}
            \cup {call[h].client : h \in Calls}

\* The local variables of call h, or slot s, are c afterwards.
Continue(h, c) == call' = [call EXCEPT ![h] = c]
SetSlot(s, c) == slots' = [slots EXCEPT ![s] = c]
SetCreating(s, b) == SetSlot(s, [slots[s] EXCEPT !.creating = b])

\* A call that returned an error, or has released its client.
EndCall(h) == Continue(h, [NewCall EXCEPT !.at = "done"])

\* A call returns client c; the handler keeps it and the key, no slot.
Return(h, c) ==
    Continue(h, [NewCall EXCEPT !.at = "use", !.client = c,
                                !.key = call[h].key])

(* Without Races the checker never meets a call that has the slot in its   *)
(* hands, and no call picks up a slot that the checker is removing.  A     *)
(* request that streams has no slot in its hands.                          *)
Quiet(s) == Races \/ ~InHand(s)
Undisturbed(k) == Races \/ checker.slot = 0 \/ checker.key # k

----------------------------------------------------------------------------
(* The map and the connection counts.                                      *)

\* p.clients.LoadOrStore(key, newPC): s is the slot of k afterwards.
LoadOrStore(k, s) ==
    \/ /\ clients[k] = s /\ s # 0
       /\ UNCHANGED <<clients, slots>>
    \/ /\ clients[k] = 0
       /\ s \in SlotIds \ UsedSlots
       /\ \A t \in SlotIds \ UsedSlots : s <= t
       /\ clients' = [clients EXCEPT ![k] = s]
       /\ SetSlot(s, NewSlot(k))

\* Acquire(key) with n = 1 and Release(key) with n = -1: whatever slot the
\* key has now is counted.
AddConns(k, n) ==
    LET s == clients[k] IN
    IF s = 0 THEN UNCHANGED <<slots, totalConns>>
    ELSE /\ SetSlot(s, [slots[s] EXCEPT !.conns = @ + n, !.old = FALSE])
         /\ totalConns' = totalConns + n

----------------------------------------------------------------------------
(* GetUserClient.                                                          *)

GetUserClient(h) ==
    /\ open
    /\ call[h].at = "new"
    /\ Continue(h, [call[h] EXCEPT !.at = "load", !.op = "user"])
    /\ UNCHANGED <<poolVars, currentIdx, running, checker, open>>

\* The slot is there and ready: use it.
UserLoad(h) ==
    LET s == clients[UserKey] IN
    /\ call[h].at = "load"
    /\ Undisturbed(UserKey)
    /\ IF s # 0 /\ slots[s].ready
       THEN Continue(h, [call[h] EXCEPT !.at = "acquire", !.pc = s])
       ELSE Continue(h, [call[h] EXCEPT !.at = "store"])
    /\ UNCHANGED <<poolVars, currentIdx, running, checker, open>>

UserStore(h) ==
    /\ call[h].at = "store"
    /\ Undisturbed(UserKey)
    /\ \E s \in SlotIds :
          /\ LoadOrStore(UserKey, s)
          /\ Continue(h, [call[h] EXCEPT
                !.at = IF clients[UserKey] = s /\ slots[s].ready
                       THEN "acquire" ELSE "claim",
                !.pc = s, !.selected = s])
    /\ UNCHANGED <<totalConns, currentIdx, running, checker, open>>

\* "Double check after claiming"; the claim is dropped by a deferred call.
UserRecheck(h) ==
    /\ call[h].at = "recheck"
    /\ call[h].op = "user"
    /\ Continue(h, [call[h] EXCEPT
          !.at = IF slots[call[h].pc].ready THEN "acquire" ELSE "create",
          !.claimed = TRUE])
    /\ UNCHANGED <<poolVars, currentIdx, running, checker, open>>

----------------------------------------------------------------------------
(* GetBotClient.                                                           *)

GetBotClient(h) ==
    /\ open
    /\ call[h].at = "new"
    /\ Continue(h, [call[h] EXCEPT !.at = "gather", !.op = "bot"])
    /\ UNCHANGED <<poolVars, currentIdx, running, checker, open>>

\* The slot of the next bot is found or made.
BotGather(h) ==
    /\ call[h].at = "gather"
    /\ \E n \in DOMAIN Bots, s \in SlotIds :
          /\ DOMAIN call[h].cands = 1..(n - 1)
          /\ Undisturbed(Bots[n])
          /\ LoadOrStore(Bots[n], s)
          /\ Continue(h, [call[h] EXCEPT
                !.cands = [i \in 1..n |-> IF i = n THEN s ELSE @[i]]])
    /\ UNCHANGED <<totalConns, currentIdx, running, checker, open>>

\* isBotClientAvailable for each: any of them may have an open circuit.
BotAvailable(h) ==
    /\ call[h].at = "gather"
    /\ DOMAIN call[h].cands = DOMAIN Bots
    /\ \E avail \in SUBSET DOMAIN Bots :
          Continue(h, [call[h] EXCEPT !.at = "select",
                                      !.cands = Restrict(@, avail)])
    /\ UNCHANGED <<poolVars, currentIdx, running, checker, open>>

\* selectClient takes candidate i: the first with the fewest connections, or
\* the next one in turn among lists of this length.
SelectClient(list, i) ==
    LET conns(j) == slots[list[j]].conns IN
    IF Strategy = "round_robin"
    THEN Cardinality({j \in DOMAIN list : j < i})
         = currentIdx[Cardinality(DOMAIN list)]
    ELSE \A j \in DOMAIN list :
            \/ conns(i) < conns(j)
            \/ conns(i) = conns(j) /\ i <= j

NextIndex(n) ==
    IF Strategy = "round_robin"
    THEN [currentIdx EXCEPT ![n] = (@ + 1) % n]
    ELSE currentIdx

BotSelect(h) ==
    /\ call[h].at = "select"
    /\ \E i \in DOMAIN call[h].cands :
          LET s == call[h].cands[i] IN
          /\ SelectClient(call[h].cands, i)
          /\ Continue(h, [call[h] EXCEPT
                !.at = IF slots[s].ready THEN "acquire" ELSE "claim",
                !.key = slots[s].key, !.selected = s, !.pc = s])
    /\ currentIdx' = NextIndex(Cardinality(DOMAIN call[h].cands))
    /\ UNCHANGED <<poolVars, running, checker, open>>

\* No candidate is left: an error is returned.
BotNone(h) ==
    /\ call[h].at = "select"
    /\ DOMAIN call[h].cands = {}
    /\ EndCall(h)
    /\ UNCHANGED <<poolVars, currentIdx, running, checker, open>>

\* removeBotCandidate, and the next turn of the loop.
RemoveCandidate(h) ==
    LET list == call[h].cands IN
    Continue(h, [call[h] EXCEPT
        !.at = "select",
        !.cands = Restrict(list, {i \in DOMAIN list :
                                    slots[list[i]].key # call[h].key}),
        !.selected = 0, !.pc = 0])

\* "Double check after claiming": the slot that the key has now, which may
\* be another one than the one that was claimed, is looked at.
BotRecheck(h) ==
    LET s == clients[call[h].key] IN
    /\ call[h].at = "recheck"
    /\ call[h].op = "bot"
    /\ IF s = 0
       THEN /\ SetCreating(call[h].selected, FALSE)
            /\ RemoveCandidate(h)
       ELSE IF slots[s].ready
       THEN /\ SetCreating(s, FALSE)
            /\ Continue(h, [call[h] EXCEPT !.at = "acquire", !.pc = s])
       ELSE /\ slots' = slots
            /\ Continue(h, [call[h] EXCEPT !.at = "create", !.pc = s])
    /\ UNCHANGED <<clients, totalConns, currentIdx, running, checker, open>>

----------------------------------------------------------------------------
(* The claim, for both.                                                    *)

\* Fault: the result of the compare and swap is not looked at.
ClaimIgnored(h) ==
    /\ call[h].at = "claim"
    /\ SetCreating(call[h].selected, TRUE)
    /\ Continue(h, [call[h] EXCEPT !.at = "recheck"])
    /\ UNCHANGED <<clients, totalConns, currentIdx, running, checker, open>>

\* CompareAndSwapInt32(&selected.Creating, 0, 1)
Claim(h) ==
    LET s == call[h].selected IN
    /\ call[h].at = "claim"
    /\ IF slots[s].creating
       THEN /\ slots' = slots
            /\ Continue(h, [call[h] EXCEPT !.at = "wait"])
       ELSE /\ SetCreating(s, TRUE)
            /\ Continue(h, [call[h] EXCEPT !.at = "recheck"])
    /\ UNCHANGED <<clients, totalConns, currentIdx, running, checker, open>>

\* The wait ends when the claim is dropped; the call starts over.
Wait(h) ==
    /\ call[h].at = "wait"
    /\ ~slots[call[h].selected].creating
    /\ Continue(h, [call[h] EXCEPT
          !.at = IF call[h].op = "user" THEN "load" ELSE "select",
          !.selected = 0, !.pc = 0])
    /\ UNCHANGED <<poolVars, currentIdx, running, checker, open>>

----------------------------------------------------------------------------
(* createUserClient, createBotClient and startClient.                      *)

\* Fault: an error leaves the claim in place.
CreateFailsClaimed(h) ==
    /\ call[h].at = "create"
    /\ IF call[h].op = "user" THEN EndCall(h) ELSE RemoveCandidate(h)
    /\ UNCHANGED <<poolVars, currentIdx, running, checker, open>>

\* The client cannot be made, is not ready within 30 seconds, or fails to
\* authenticate, and is stopped again.
CreateFails(h) ==
    /\ call[h].at = "create"
    /\ SetCreating(call[h].pc, FALSE)
    /\ IF call[h].op = "user" THEN EndCall(h) ELSE RemoveCandidate(h)
    /\ UNCHANGED <<clients, totalConns, currentIdx, running, checker, open>>

\* RunBackground and Auth succeed.
StartClient(h) ==
    /\ call[h].at = "create"
    /\ \E n \in 1..MaxClients :
          /\ <<call[h].key, n>> \notin UsedClients
          /\ \A m \in 1..(n - 1) : <<call[h].key, m>> \in UsedClients
          /\ running' = running \cup {<<call[h].key, n>>}
          /\ Continue(h, [call[h] EXCEPT !.at = "publish",
                                         !.made = <<call[h].key, n>>])
    /\ UNCHANGED <<poolVars, currentIdx, checker, open>>

\* The slot is loaded once more, and IsReady is set before TgClient is.  If
\* the slot is gone, actual.(*PooledClient) panics, and only GetUserClient
\* has deferred the end of its claim.
PublishClient(h) ==
    LET s == clients[call[h].key] IN
    /\ call[h].at = "publish"
    /\ IF s # 0
       THEN /\ SetSlot(s, [slots[s] EXCEPT !.stop = call[h].made,
                                         !.old = FALSE, !.ready = TRUE])
            /\ Continue(h, [call[h] EXCEPT !.at = "count", !.into = s])
       ELSE /\ SetCreating(call[h].pc, slots[call[h].pc].creating
                                    /\ ~call[h].claimed)
            /\ EndCall(h)
    /\ UNCHANGED <<clients, totalConns, currentIdx, running, checker, open>>

\* startClient's Acquire
CountClient(h) ==
    /\ call[h].at = "count"
    /\ AddConns(call[h].key, 1)
    /\ Continue(h, [call[h] EXCEPT !.at = "expose"])
    /\ UNCHANGED <<clients, currentIdx, running, checker, open>>

\* pc.TgClient = client.API(); the claim is dropped and the call returns.
ExposeClient(h) ==
    LET c == call[h] IN
    /\ c.at = "expose"
    /\ slots' = [slots EXCEPT ![c.into].tg = c.made, ![c.pc].creating = FALSE]
    /\ Return(h, slots'[c.pc].tg)
    /\ UNCHANGED <<clients, totalConns, currentIdx, running, checker, open>>

----------------------------------------------------------------------------
(* A client that was ready.                                                *)

AcquireClient(h) ==
    /\ call[h].at = "acquire"
    /\ AddConns(call[h].key, 1)
    /\ Continue(h, [call[h] EXCEPT !.at = "read"])
    /\ UNCHANGED <<clients, currentIdx, running, checker, open>>

\* return pc.TgClient, pc.Key, nil
ReadClient(h) ==
    LET c == call[h] IN
    /\ c.at = "read"
    /\ SetCreating(c.pc, slots[c.pc].creating /\ ~c.claimed)
    /\ Return(h, slots[c.pc].tg)
    /\ UNCHANGED <<clients, totalConns, currentIdx, running, checker, open>>

\* Fault: the slot's client keeps its connection.
ReleaseForgotten(h) ==
    /\ call[h].at = "use"
    /\ EndCall(h)
    /\ UNCHANGED <<poolVars, currentIdx, running, checker, open>>

\* The stream has ended: the deferred Release(key).
Release(h) ==
    /\ call[h].at = "use"
    /\ AddConns(call[h].key, -1)
    /\ EndCall(h)
    /\ UNCHANGED <<clients, currentIdx, running, checker, open>>

----------------------------------------------------------------------------
(* The idle checker and Close.                                             *)

\* LastUsed is longer ago than the time-out.
Age(k) ==
    LET s == clients[k] IN
    /\ s # 0
    /\ ~slots[s].old
    /\ Quiet(s)
    /\ SetSlot(s, [slots[s] EXCEPT !.old = TRUE])
    /\ UNCHANGED <<clients, totalConns, currentIdx, running, call, checker,
                   open>>

\* Fault: connections are not looked at.
CheckIdleOld(k) ==
    LET s == clients[k] IN
    /\ open
    /\ checker.slot = 0
    /\ s # 0
    /\ slots[s].old
    /\ Quiet(s)
    /\ checker' = [key |-> k, slot |-> s]
    /\ UNCHANGED <<poolVars, currentIdx, running, call, open>>

\* The conditions, Connections == 0 among them, are read ...
CheckIdle(k) ==
    LET s == clients[k] IN
    /\ open
    /\ checker.slot = 0
    /\ s # 0
    /\ slots[s].conns = 0
    /\ slots[s].old
    /\ Quiet(s)
    /\ checker' = [key |-> k, slot |-> s]
    /\ UNCHANGED <<poolVars, currentIdx, running, call, open>>

\* Fault: the slot is removed and its client is not stopped.
EvictOnly ==
    /\ checker.slot # 0
    /\ Quiet(checker.slot)
    /\ clients' = [clients EXCEPT ![checker.key] = 0]
    /\ checker' = [key |-> UserKey, slot |-> 0]
    /\ UNCHANGED <<slots, totalConns, currentIdx, running, call, open>>

\* ... and then the client is stopped and the key is deleted.  A slot that
\* no call has in its hands is garbage then.
Evict ==
    /\ checker.slot # 0
    /\ Quiet(checker.slot)
    /\ running' = running \ {slots[checker.slot].stop}
    /\ clients' = [clients EXCEPT ![checker.key] = 0]
    /\ slots' = IF InHand(checker.slot) THEN slots
                ELSE [slots EXCEPT ![checker.slot] = NewSlot(UserKey)]
    /\ checker' = [key |-> UserKey, slot |-> 0]
    /\ UNCHANGED <<totalConns, currentIdx, call, open>>

\* Close, at the end of the process, after the HTTP server has shut down.
Close ==
    /\ open
    /\ checker.slot = 0
    /\ Races \/ \A h \in Calls : call[h].at \in {"new", "done"}
    /\ open' = FALSE
    /\ running' = running \ {slots[clients[k]].stop :
                               k \in {x \in Keys : clients[x] # 0}}
    /\ clients' = [k \in Keys |-> 0]
    /\ UNCHANGED <<slots, totalConns, currentIdx, call, checker>>

----------------------------------------------------------------------------

Step(h) ==
    \/ UserLoad(h) \/ UserStore(h) \/ UserRecheck(h)
    \/ BotGather(h) \/ BotAvailable(h) \/ BotSelect(h) \/ BotNone(h)
    \/ BotRecheck(h)
    \/ Claim(h) \/ Wait(h)
    \/ CreateFails(h) \/ StartClient(h) \/ PublishClient(h)
    \/ CountClient(h) \/ ExposeClient(h)
    \/ AcquireClient(h) \/ ReadClient(h)

Next ==
    \/ \E h \in Calls : GetUserClient(h) \/ GetBotClient(h)
    \/ \E h \in Calls : Step(h)
    \/ \E h \in Calls : Release(h)
    \/ \E k \in Keys : Age(k)
    \/ \E k \in Keys : CheckIdle(k)
    \/ Evict
    \/ Close

(* Handlers run; starting a client ends within 30 seconds one way or the   *)
(* other.  A stream may last for ever.                                     *)
Fairness ==
    /\ \A h \in Calls : WF_vars(Step(h))
    /\ WF_vars(Evict)

Spec == Init /\ [][Next]_vars /\ Fairness

----------------------------------------------------------------------------
(* Properties.                                                             *)

Places == {"new", "load", "store", "gather", "select", "claim", "wait",
           "recheck", "create", "publish", "count", "expose", "acquire",
           "read", "use", "done"}

MaybeSlot == {0} \cup SlotIds
MaybeClient == {NoClient} \cup Clients
Candidates == UNION {[places -> SlotIds] : places \in SUBSET DOMAIN Bots}

SlotRecord ==
    [key : Keys, conns : Int, creating : BOOLEAN, ready : BOOLEAN,
     tg : MaybeClient, stop : MaybeClient, old : BOOLEAN]

CallRecord ==
    [at : Places, op : {"none", "user", "bot"}, key : Keys,
     cands : Candidates, selected : MaybeSlot, pc : MaybeSlot,
     made : MaybeClient, into : MaybeSlot, claimed : BOOLEAN,
     client : MaybeClient]

TypeOK ==
    /\ clients \in [Keys -> MaybeSlot]
    /\ slots \in [SlotIds -> SlotRecord]
    /\ totalConns \in Int
    /\ currentIdx \in [1..Len(Bots) -> Nat]
    /\ running \subseteq Clients
    /\ call \in [Calls -> CallRecord]
    /\ checker \in [key : Keys, slot : MaybeSlot]
    /\ open \in BOOLEAN

\* The calls that have been counted for a client of key k.
Counted(k) == {h \in Calls : call[h].at \in {"expose", "read", "use"}
                             /\ call[h].key = k}

\* Connections is the number of requests that use the client of the key,
\* and totalConns their sum, whoever created the client and however many
\* tried to at once (Acquire, Release, startClient).
ConnsExact ==
    /\ \A k \in Keys :
          clients[k] # 0 => slots[clients[k]].conns = Cardinality(Counted(k))
    /\ totalConns = Cardinality(UNION {Counted(k) : k \in Keys})

\* However many requests find no client at once, only one is started: no
\* two clients run with the same session (the claim on Creating).
OneClientPerKey ==
    \A c, d \in running : c[1] = d[1] => c = d

\* No client is left running out of the pool's sight: it is the one that
\* the slot of its key would stop, or is about to become it, so that the
\* idle checker and Close end every client that was started.
ClientsReachable ==
    \A c \in running :
        \/ clients[c[1]] # 0 /\ slots[clients[c[1]]].stop = c
        \/ \E h \in Calls : call[h].at = "publish" /\ call[h].made = c

\* The client that a request streams from is not stopped under it, neither
\* by the idle checker nor by Close, however long the stream lasts.
InUseRunning ==
    \A h \in Calls :
        call[h].at = "use" /\ call[h].client # NoClient
        => call[h].client \in running

\* GetUserClient and GetBotClient return, with a client or an error: nobody
\* waits for a claim that is never dropped.
GetReturns ==
    \A h \in Calls :
        (call[h].at = "wait") ~> (call[h].at \in {"use", "done"})
=============================================================================
