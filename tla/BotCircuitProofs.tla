-------------------------- MODULE BotCircuitProofs --------------------------
(***************************************************************************)
(* Proofs about the client pool and its circuit breaker, for every set of  *)
(* requests, list of bots, strategy, threshold, cool-down and bound.       *)
(***************************************************************************)
EXTENDS BotCircuit, FiniteSetTheorems, TLAPS

----------------------------------------------------------------------------
(* The inductive invariant of the pool.                                    *)

\* The places of a call that has chosen a slot; of these, where the claim is
\* made or waited for and where a call with a claim has come to.
Chosen == {"claim", "wait", "recheck", "create", "publish", "count",
           "expose", "acquire", "read"}
Starting == {"recheck", "create", "publish", "count", "expose"}

\* What the local variables of a call can be at its places.
Shape(h) ==
    LET c == call[h] IN
    /\ c.at \in {"new", "use", "done"} => c.op = "none"
    /\ c.at \in {"load", "store"} => c.op = "user"
    /\ c.at \in {"gather", "select"} => c.op = "bot"
    /\ c.at \in Chosen => c.op \in {"user", "bot"} /\ c.pc # 0
    /\ c.at \notin Chosen => c.pc = 0 /\ c.selected = 0
    /\ c.at \in Starting \cup {"claim", "wait"} => c.selected = c.pc
    /\ c.selected \in {0, c.pc}
    /\ c.into = IF c.at \in {"count", "expose"} THEN c.pc ELSE 0
    /\ c.op = "user" \/ c.at = "new" => c.key = UserKey
    /\ c.op # "bot" => DOMAIN c.cands = {}
    /\ c.claimed => c.op = "user" /\ c.at \in (Starting \ {"recheck"}) \cup {"acquire", "read"}
    /\ c.at \in {"publish", "count", "expose"}
       => c.made \in Clients /\ c.made[1] = c.key
    /\ c.at # "use" => c.client = NoClient

\* The slots that a call has in its hands are the slots of their keys, and a
\* stream's key has a slot.
Linked(h) ==
    LET c == call[h] IN
    /\ \A i \in DOMAIN c.cands : clients[Bots[i]] = c.cands[i]
    /\ c.pc # 0 => clients[c.key] = c.pc
    /\ c.at = "use" => clients[c.key] # 0

\* A call that has claimed the creation of the client of its slot.
Owns(h) ==
    \/ call[h].at \in Starting
    \/ call[h].at \in {"acquire", "read"} /\ call[h].claimed

\* How far a call is with the client of its slot.
Progress(h) ==
    LET c == call[h] IN
    /\ Owns(h) => slots[c.pc].creating
    /\ c.at \in {"create", "publish"} => ~slots[c.pc].ready
    /\ c.at = "publish" => c.made \in running
    /\ c.at \in {"count", "expose"}
       => slots[c.pc].ready /\ slots[c.pc].stop = c.made
    /\ c.at = "use" => c.client \in {NoClient, slots[clients[c.key]].stop}

\* Two calls never have the claim of one slot.
OwnersApart ==
    \A g, h \in Calls :
        Owns(g) /\ Owns(h) /\ call[g].pc = call[h].pc => g = h

\* The slot of a key has its client, running, or none.
SlotFits(k) ==
    LET t == slots[clients[k]] IN
    clients[k] # 0 =>
        /\ t.key = k
        /\ t.ready => t.stop \in running /\ t.stop[1] = k
        /\ ~t.ready => t.stop = NoClient
        /\ t.tg \in {NoClient, t.stop}

\* The checker removes the slot of a key that nobody uses or is about to.
CheckerFits ==
    checker.slot # 0 =>
        /\ clients[checker.key] = checker.slot
        /\ slots[checker.slot].conns = 0
        /\ ~InHand(checker.slot)

PoolInv ==
    /\ TypeOK
    /\ \A h \in Calls : Shape(h) /\ Linked(h) /\ Progress(h)
    /\ OwnersApart
    /\ \A k \in Keys : SlotFits(k)
    /\ CheckerFits
    /\ ConnsExact
    /\ ClientsReachable

----------------------------------------------------------------------------
(* The constants and the records.                                          *)

LEMMA BotsFacts ==
    /\ DOMAIN Bots = 1..Len(Bots)
    /\ Len(Bots) \in Nat
    /\ \A i \in DOMAIN Bots : Bots[i] \in Keys
    /\ UserKey \in Keys
    /\ 0 \notin SlotIds
    /\ MaxSlots \in Nat
<1>1. Bots \in Seq(Range(Bots)) /\ {MaxSlots, MaxClients} \subseteq Nat \ {0}
  BY PoolAssumption DEF PoolAssumption
<1>2. DOMAIN Bots = 1..Len(Bots) /\ Len(Bots) \in Nat
  BY <1>1
<1>3. \A i \in DOMAIN Bots : Bots[i] \in Range(Bots)
  BY DEF Range
<1> QED BY <1>1, <1>2, <1>3 DEF Keys, SlotIds

\* A client has a key, and NoClient is none.
LEMMA ClientFacts ==
    /\ NoClient \notin Clients
    /\ \A c \in Clients : c[1] \in Keys
    /\ \A k \in Keys, n \in 1..MaxClients :
          <<k, n>> \in Clients /\ <<k, n>>[1] = k
BY DEF NoClient, Clients

LEMMA CandsAre ==
    ASSUME NEW f \in Candidates
    PROVE  /\ DOMAIN f \subseteq DOMAIN Bots
           /\ \A i \in DOMAIN f : f[i] \in SlotIds
           /\ f \in [DOMAIN f -> SlotIds]
<1>1. PICK places \in SUBSET DOMAIN Bots : f \in [places -> SlotIds]
  BY DEF Candidates
<1> QED BY <1>1

LEMMA CandsMade ==
    ASSUME NEW places, places \subseteq DOMAIN Bots,
           NEW f \in [places -> SlotIds]
    PROVE  f \in Candidates
BY DEF Candidates

\* restricting the candidates
LEMMA CandsRestricted ==
    ASSUME NEW f \in Candidates, NEW places, places \subseteq DOMAIN f
    PROVE  /\ Restrict(f, places) \in Candidates
           /\ DOMAIN Restrict(f, places) = places
           /\ \A i \in places : Restrict(f, places)[i] = f[i]
<1>1. /\ Restrict(f, places) \in [places -> SlotIds]
      /\ DOMAIN Restrict(f, places) = places
      /\ \A i \in places : Restrict(f, places)[i] = f[i]
  BY CandsAre DEF Restrict
<1>2. places \subseteq DOMAIN Bots
  BY CandsAre
<1> QED BY <1>1, <1>2, CandsMade

LEMMA NoCands ==
    /\ << >> \in Candidates
    /\ DOMAIN << >> = {}
<1>1. << >> \in [{} -> SlotIds] /\ DOMAIN << >> = {}
  OBVIOUS
<1> QED BY <1>1, CandsMade

LEMMA CallNew ==
    /\ NewCall \in CallRecord
    /\ \A c : c \in MaybeClient => \A k \in Keys :
          [NewCall EXCEPT !.at = "use", !.client = c, !.key = k] \in CallRecord
    /\ [NewCall EXCEPT !.at = "done"] \in CallRecord
<1>1. /\ NoClient \in MaybeClient
      /\ 0 \in MaybeSlot
  BY DEF MaybeClient, MaybeSlot
<1>2. UserKey \in Keys
  BY BotsFacts
<1> QED BY <1>1, <1>2, NoCands DEF NewCall, CallRecord, Places

LEMMA SlotNew ==
    ASSUME NEW k \in Keys
    PROVE  NewSlot(k) \in SlotRecord
BY DEF NewSlot, SlotRecord, MaybeClient

----------------------------------------------------------------------------
(* Type correctness.                                                       *)

LEMMA SlotTyped ==
    ASSUME TypeOK, NEW s, NEW c \in SlotRecord, SetSlot(s, c)
    PROVE  slots' \in [SlotIds -> SlotRecord]
BY DEF TypeOK, SetSlot

LEMMA StoreTyped ==
    ASSUME TypeOK, NEW k \in Keys, NEW s \in SlotIds, LoadOrStore(k, s)
    PROVE  /\ clients' \in [Keys -> MaybeSlot]
           /\ slots' \in [SlotIds -> SlotRecord]
<1>1. NewSlot(k) \in SlotRecord
  BY SlotNew
<1>2. slots' \in [SlotIds -> SlotRecord]
  BY <1>1, SlotTyped DEF TypeOK, LoadOrStore
<1> QED BY <1>2 DEF TypeOK, LoadOrStore, MaybeSlot

LEMMA AddTyped ==
    ASSUME TypeOK, NEW k \in Keys, NEW n \in Int, AddConns(k, n)
    PROVE  slots' \in [SlotIds -> SlotRecord] /\ totalConns' \in Int
<1>1. CASE clients[k] = 0
  BY <1>1 DEF TypeOK, AddConns
<1>2. CASE clients[k] # 0
  <2>1. PICK s \in SlotIds : s = clients[k]
    BY <1>2 DEF TypeOK, MaybeSlot
  <2>0. slots[s] \in SlotRecord
    BY DEF TypeOK
  <2>3. PICK m \in Int : m = slots[s].conns + n
    BY <2>0 DEF SlotRecord
  <2>4. [slots[s] EXCEPT !.conns = m, !.old = FALSE] \in SlotRecord
    BY <2>0 DEF SlotRecord
  <2>2. [slots[s] EXCEPT !.conns = @ + n, !.old = FALSE] \in SlotRecord
    BY <2>3, <2>4
  <2> QED BY <1>2, <2>1, <2>2, SlotTyped DEF TypeOK, AddConns
<1> QED BY <1>1, <1>2

LEMMA GoTyped ==
    ASSUME TypeOK, NEW h \in Calls, NEW c \in CallRecord, Continue(h, c)
    PROVE  call' \in [Calls -> CallRecord]
BY DEF TypeOK, Continue

LEMMA EndTyped ==
    ASSUME TypeOK, NEW h \in Calls, EndCall(h)
    PROVE  call' \in [Calls -> CallRecord]
BY CallNew, GoTyped DEF EndCall

LEMMA ReturnTyped ==
    ASSUME TypeOK, NEW h \in Calls, NEW c \in MaybeClient, Return(h, c)
    PROVE  call' \in [Calls -> CallRecord]
<1>1. call[h].key \in Keys
  BY DEF TypeOK, CallRecord
<1> QED BY <1>1, CallNew, GoTyped DEF Return

LEMMA RemoveTyped ==
    ASSUME TypeOK, NEW h \in Calls, RemoveCandidate(h)
    PROVE  call' \in [Calls -> CallRecord]
<1> DEFINE left == {i \in DOMAIN call[h].cands :
                      slots[call[h].cands[i]].key # call[h].key}
           list == Restrict(call[h].cands, left)
<1>1. list \in Candidates
  BY CandsRestricted DEF TypeOK, CallRecord
<1>2. Continue(h, [call[h] EXCEPT !.at = "select", !.cands = list,
                                  !.selected = 0, !.pc = 0])
  BY DEF RemoveCandidate
<1> HIDE DEF list
<1>0. call[h] \in CallRecord
  BY DEF TypeOK
<1>3. [call[h] EXCEPT !.at = "select", !.cands = list,
                      !.selected = 0, !.pc = 0] \in CallRecord
  BY <1>0, <1>1 DEF CallRecord, MaybeSlot, Places
<1> QED BY <1>2, <1>3, GoTyped

\* A slot whose creating flag is set or cleared.
LEMMA FlagTyped ==
    ASSUME TypeOK, NEW s \in SlotIds, NEW b \in BOOLEAN, SetCreating(s, b)
    PROVE  slots' \in [SlotIds -> SlotRecord]
<1>1. [slots[s] EXCEPT !.creating = b] \in SlotRecord
  BY DEF TypeOK, SlotRecord
<1> QED BY <1>1, SlotTyped DEF SetCreating

LEMMA CallTyped ==
    ASSUME TypeOK, NEW h \in Calls, Shape(h), Step(h)
    PROVE  TypeOK'
<1> USE DEF poolVars
<1>0. /\ slots \in [SlotIds -> SlotRecord] /\ call \in [Calls -> CallRecord]
      /\ clients \in [Keys -> MaybeSlot] /\ call[h] \in CallRecord
      /\ call[h].key \in Keys /\ UserKey \in Keys
      /\ call[h].cands \in Candidates
      /\ call[h].at \in Chosen => call[h].pc \in SlotIds
      /\ call[h].at = "claim" => call[h].selected \in SlotIds
      /\ call[h].at = "recheck" => call[h].selected \in SlotIds
  BY BotsFacts DEF TypeOK, CallRecord, Shape, MaybeSlot, Chosen, Starting
<1>1. CASE UserLoad(h)
  <2>1. PICK c \in CallRecord : Continue(h, c)
    BY <1>1, <1>0 DEF UserLoad, CallRecord, Places
  <2> QED BY <2>1, <1>1, GoTyped DEF UserLoad, TypeOK
<1>2. CASE UserStore(h)
  <2>1. PICK s \in SlotIds :
          /\ LoadOrStore(UserKey, s)
          /\ Continue(h, [call[h] EXCEPT
                !.at = IF clients[UserKey] = s /\ slots[s].ready
                       THEN "acquire" ELSE "claim",
                !.pc = s, !.selected = s])
    BY <1>2 DEF UserStore
  <2>2. PICK c \in CallRecord : Continue(h, c)
    BY <2>1, <1>0 DEF CallRecord, Places, MaybeSlot
  <2> QED BY <2>1, <2>2, <1>0, <1>2, GoTyped, StoreTyped DEF UserStore, TypeOK
<1>3. CASE UserRecheck(h)
  <2>1. PICK c \in CallRecord : Continue(h, c)
    BY <1>3, <1>0 DEF UserRecheck, CallRecord, Places
  <2> QED BY <2>1, <1>3, GoTyped DEF UserRecheck, TypeOK
<1>4. CASE BotGather(h)
  <2>1. PICK n \in DOMAIN Bots, s \in SlotIds :
          /\ DOMAIN call[h].cands = 1..(n - 1)
          /\ LoadOrStore(Bots[n], s)
          /\ Continue(h, [call[h] EXCEPT
                !.cands = [i \in 1..n |-> IF i = n THEN s ELSE @[i]]])
    BY <1>4 DEF BotGather
  <2> DEFINE more == [i \in 1..n |-> IF i = n THEN s ELSE call[h].cands[i]]
  <2>2. 1..n \subseteq DOMAIN Bots /\ n \in Nat /\ Bots[n] \in Keys
    BY BotsFacts
  <2>3. more \in [1..n -> SlotIds]
    BY <2>1, <2>2, <1>0, CandsAre
  <2>4. more \in Candidates
    BY <2>2, <2>3, CandsMade
  <2>5. Continue(h, [call[h] EXCEPT !.cands = more])
    BY <2>1
  <2> HIDE DEF more
  <2>6. [call[h] EXCEPT !.cands = more] \in CallRecord
    BY <2>4, <1>0 DEF CallRecord
  <2>7. call' \in [Calls -> CallRecord]
    BY <2>5, <2>6, GoTyped
  <2> QED BY <2>1, <2>2, <2>7, <1>0, <1>4, StoreTyped DEF BotGather, TypeOK
<1>5. CASE BotAvailable(h)
  <2>1. PICK avail \in SUBSET DOMAIN Bots :
          Continue(h, [call[h] EXCEPT !.at = "select",
                                      !.cands = Restrict(@, avail)])
    BY <1>5 DEF BotAvailable
  <2>2. Restrict(call[h].cands, avail) \in Candidates
    BY <1>5, <1>0, CandsRestricted DEF BotAvailable
  <2>3. PICK c \in CallRecord : Continue(h, c)
    BY <2>1, <2>2, <1>0 DEF CallRecord, Places
  <2> QED BY <2>3, <1>0, <1>5, GoTyped DEF BotAvailable, TypeOK
<1>6. CASE BotSelect(h)
  <2>1. PICK i \in DOMAIN call[h].cands :
          LET s == call[h].cands[i] IN
          Continue(h, [call[h] EXCEPT
                !.at = IF slots[s].ready THEN "acquire" ELSE "claim",
                !.key = slots[s].key, !.selected = s, !.pc = s])
    BY <1>6 DEF BotSelect
  <2>3. call[h].cands[i] \in SlotIds
    BY <1>0, CandsAre
  <2>4. slots[call[h].cands[i]].key \in Keys
    BY <1>0, <2>3 DEF SlotRecord
  <2>5. PICK c \in CallRecord : Continue(h, c)
    BY <2>1, <2>3, <2>4, <1>0 DEF CallRecord, Places, MaybeSlot
  <2>6. currentIdx' \in [1..Len(Bots) -> Nat]
    <3> DEFINE n == Cardinality(DOMAIN call[h].cands)
    <3>1. currentIdx' = NextIndex(n) /\ currentIdx \in [1..Len(Bots) -> Nat]
      BY <1>6 DEF BotSelect, TypeOK
    <3> HIDE DEF n
    <3>2. CASE n \in 1..Len(Bots)
      <4>1. (currentIdx[n] + 1) % n \in Nat
        BY <3>1, <3>2, BotsFacts
      <4> QED BY <3>1, <4>1 DEF NextIndex
    <3>3. CASE n \notin 1..Len(Bots)
      BY <3>1, <3>3 DEF NextIndex
    <3> QED BY <3>2, <3>3
  <2> QED BY <2>5, <2>6, <1>0, <1>6, GoTyped DEF BotSelect, TypeOK
<1>7. CASE BotNone(h)
  BY <1>7, EndTyped DEF BotNone, TypeOK
<1>8. CASE BotRecheck(h)
  <2>1. slots' \in [SlotIds -> SlotRecord]
    BY <1>8, <1>0, FlagTyped DEF BotRecheck, MaybeSlot
  <2>2. call' \in [Calls -> CallRecord]
    <3>1. CASE RemoveCandidate(h)
      BY <3>1, RemoveTyped
    <3>2. CASE ~RemoveCandidate(h)
      <4>1. PICK c \in CallRecord : Continue(h, c)
        BY <1>8, <3>2, <1>0 DEF BotRecheck, CallRecord, Places
      <4> QED BY <4>1, GoTyped
    <3> QED BY <3>1, <3>2
  <2> QED BY <2>1, <2>2, <1>8 DEF BotRecheck, TypeOK
<1>9. CASE Claim(h)
  <2>1. slots' \in [SlotIds -> SlotRecord]
    BY <1>9, <1>0, FlagTyped DEF Claim
  <2>2. PICK c \in CallRecord : Continue(h, c)
    BY <1>9, <1>0 DEF Claim, CallRecord, Places
  <2> QED BY <2>1, <2>2, <1>9, GoTyped DEF Claim, TypeOK
<1>10. CASE Wait(h)
  <2>1. PICK c \in CallRecord : Continue(h, c)
    BY <1>10, <1>0 DEF Wait, CallRecord, Places, MaybeSlot
  <2> QED BY <2>1, <1>10, GoTyped DEF Wait, TypeOK
<1>11. CASE CreateFails(h)
  <2>1. slots' \in [SlotIds -> SlotRecord]
    BY <1>11, <1>0, FlagTyped DEF CreateFails, Chosen
  <2>2. call' \in [Calls -> CallRecord]
    BY <1>11, EndTyped, RemoveTyped DEF CreateFails
  <2> QED BY <2>1, <2>2, <1>11 DEF CreateFails, TypeOK
<1>12. CASE StartClient(h)
  <2>1. PICK n \in 1..MaxClients :
          /\ running' = running \cup {<<call[h].key, n>>}
          /\ Continue(h, [call[h] EXCEPT !.at = "publish",
                                         !.made = <<call[h].key, n>>])
    BY <1>12 DEF StartClient
  <2>2. PICK c \in Clients :
          /\ running' = running \cup {c}
          /\ Continue(h, [call[h] EXCEPT !.at = "publish", !.made = c])
    BY <2>1, <1>0, ClientFacts
  <2>3. running' \subseteq Clients
    BY <2>2 DEF TypeOK
  <2>4. PICK r \in CallRecord : Continue(h, r)
    BY <2>2, <1>0 DEF CallRecord, Places, MaybeClient
  <2> QED BY <2>3, <2>4, <1>12, GoTyped DEF StartClient, TypeOK
<1>13. CASE PublishClient(h)
  <2>1. CASE clients[call[h].key] # 0
    <3>1. PICK s \in SlotIds : s = clients[call[h].key]
      BY <2>1, <1>0 DEF MaybeSlot
    <3>2. PICK c \in MaybeClient : c = call[h].made
      BY <1>0 DEF CallRecord
    <3>3. /\ SetSlot(s, [slots[s] EXCEPT !.stop = c, !.old = FALSE,
                                         !.ready = TRUE])
          /\ Continue(h, [call[h] EXCEPT !.at = "count", !.into = s])
      BY <3>1, <3>2, <2>1, <1>13 DEF PublishClient
    <3>4. PICK t \in SlotRecord : SetSlot(s, t)
      BY <3>3, <1>0 DEF SlotRecord
    <3>5. PICK r \in CallRecord : Continue(h, r)
      BY <3>3, <1>0 DEF CallRecord, Places, MaybeSlot
    <3> QED BY <3>4, <3>5, <1>13, GoTyped, SlotTyped DEF PublishClient, TypeOK
  <2>2. CASE clients[call[h].key] = 0
    <3>1. call[h].pc \in SlotIds
      BY <1>0, <1>13 DEF PublishClient, Chosen
    <3>2. PICK b \in BOOLEAN : SetCreating(call[h].pc, b)
      BY <2>2, <3>1, <1>0, <1>13 DEF PublishClient, SlotRecord, CallRecord
    <3>3. slots' \in [SlotIds -> SlotRecord]
      BY <3>1, <3>2, FlagTyped
    <3> QED BY <3>3, <2>2, <1>13, EndTyped DEF PublishClient, TypeOK
  <2> QED BY <2>1, <2>2
<1>14. CASE CountClient(h)
  <2>1. PICK r \in CallRecord : Continue(h, r)
    BY <1>14, <1>0 DEF CountClient, CallRecord, Places
  <2> QED BY <2>1, <1>14, <1>0, AddTyped, GoTyped DEF CountClient, TypeOK
<1>15. CASE ExposeClient(h)
  <2>1. PICK s \in SlotIds : s = call[h].pc /\ s = call[h].into
    BY <1>0, <1>15 DEF Shape, ExposeClient, Chosen, CallRecord, MaybeSlot
  <2>2. PICK c \in MaybeClient : c = call[h].made
    BY <1>0 DEF CallRecord
  <2>3. slots' = [slots EXCEPT ![s].tg = c, ![s].creating = FALSE]
    BY <2>1, <2>2, <1>15 DEF ExposeClient
  <2>4. slots' \in [SlotIds -> SlotRecord]
    BY <2>3, <1>0 DEF SlotRecord
  <2>5. slots'[s].tg \in MaybeClient
    BY <2>4 DEF SlotRecord
  <2>6. call' \in [Calls -> CallRecord]
    BY <2>5, <2>1, <1>15, ReturnTyped DEF ExposeClient
  <2> QED BY <2>4, <2>6, <1>15 DEF ExposeClient, TypeOK
<1>16. CASE AcquireClient(h)
  <2>1. PICK r \in CallRecord : Continue(h, r)
    BY <1>16, <1>0 DEF AcquireClient, CallRecord, Places
  <2> QED BY <2>1, <1>16, <1>0, AddTyped, GoTyped DEF AcquireClient, TypeOK
<1>17. CASE ReadClient(h)
  <2>1. PICK s \in SlotIds : s = call[h].pc
    BY <1>0, <1>17 DEF ReadClient, Chosen
  <2>2. slots[s].tg \in MaybeClient /\ slots[s].creating \in BOOLEAN
    BY <1>0 DEF SlotRecord
  <2>3. PICK b \in BOOLEAN : SetCreating(s, b)
    BY <2>1, <2>2, <1>0, <1>17 DEF ReadClient, SlotRecord, CallRecord
  <2>4. slots' \in [SlotIds -> SlotRecord]
    BY <2>3, FlagTyped
  <2>5. call' \in [Calls -> CallRecord]
    BY <2>1, <2>2, <1>17, ReturnTyped DEF ReadClient
  <2> QED BY <2>4, <2>5, <1>17 DEF ReadClient, TypeOK
<1> QED BY <1>1, <1>2, <1>3, <1>4, <1>5, <1>6, <1>7, <1>8, <1>9, <1>10,
           <1>11, <1>12, <1>13, <1>14, <1>15, <1>16, <1>17 DEF Step

LEMMA RestTyped ==
    ASSUME TypeOK,
           \/ \E h \in Calls : GetUserClient(h) \/ GetBotClient(h) \/ Release(h)
           \/ \E k \in Keys : Age(k) \/ CheckIdle(k)
           \/ Evict \/ Close
    PROVE  TypeOK'
<1> USE DEF poolVars
<1>0. /\ slots \in [SlotIds -> SlotRecord] /\ call \in [Calls -> CallRecord]
      /\ clients \in [Keys -> MaybeSlot] /\ UserKey \in Keys /\ checker.key \in Keys
      /\ \A h \in Calls : call[h] \in CallRecord /\ call[h].key \in Keys
  BY BotsFacts DEF TypeOK, CallRecord
<1>1. ASSUME NEW h \in Calls, GetUserClient(h) \/ GetBotClient(h)
      PROVE  TypeOK'
  <2>1. PICK c \in CallRecord : Continue(h, c)
    BY <1>1, <1>0 DEF GetUserClient, GetBotClient, CallRecord, Places
  <2> QED BY <2>1, <1>1, GoTyped DEF GetUserClient, GetBotClient, TypeOK
<1>2. ASSUME NEW h \in Calls, Release(h)
      PROVE  TypeOK'
  BY <1>2, <1>0, AddTyped, EndTyped DEF Release, TypeOK
<1>3. ASSUME NEW k \in Keys, Age(k)
      PROVE  TypeOK'
  <2>1. PICK s \in SlotIds :
          s = clients[k] /\ SetSlot(s, [slots[s] EXCEPT !.old = TRUE])
    BY <1>3, <1>0 DEF Age, MaybeSlot
  <2>2. PICK t \in SlotRecord : SetSlot(s, t)
    BY <2>1, <1>0 DEF SlotRecord
  <2> QED BY <2>2, <1>3, SlotTyped DEF Age, TypeOK
<1>4. ASSUME NEW k \in Keys, CheckIdle(k)
      PROVE  TypeOK'
  BY <1>4, <1>0 DEF CheckIdle, TypeOK
<1>5. CASE Evict
  <2>1. NewSlot(UserKey) \in SlotRecord
    BY <1>0, SlotNew
  <2>2. slots' \in [SlotIds -> SlotRecord]
    BY <2>1, <1>0, <1>5 DEF Evict
  <2> QED BY <2>2, <1>0, <1>5 DEF Evict, TypeOK, MaybeSlot
<1>6. CASE Close
  BY <1>6, <1>0 DEF Close, TypeOK, MaybeSlot
<1> QED BY <1>1, <1>2, <1>3, <1>4, <1>5, <1>6

----------------------------------------------------------------------------
(* What a step leaves alone.                                               *)

Others(h) == \A g \in Calls : g # h => call'[g] = call[g]
Grown == \A k \in Keys : clients[k] # 0 => clients'[k] = clients[k]

SameStop(s) ==
    /\ slots'[s].key = slots[s].key
    /\ slots'[s].ready = slots[s].ready
    /\ slots'[s].stop = slots[s].stop
SameClient(s) == SameStop(s) /\ slots'[s].tg = slots[s].tg

StopsSteady == \A k \in Keys : clients[k] # 0 => SameStop(clients[k])
ClientsSteady == \A k \in Keys : clients[k] # 0 => SameClient(clients[k])
ClaimsSteady(h) ==
    \A g \in Calls : g # h /\ Owns(g) => slots'[call[g].pc].creating
ConnsSteady ==
    \A k \in Keys : clients[k] # 0
                    => slots'[clients[k]].conns = slots[clients[k]].conns

Busy(h) == call[h].at \in {"expose", "read", "use"}

LEMMA Went ==
    ASSUME TypeOK, NEW h \in Calls, NEW c, Continue(h, c)
    PROVE  call'[h] = c /\ Others(h)
BY DEF TypeOK, Continue, Others

\* A slot set to c is c, and the others are as they were.
LEMMA Put ==
    ASSUME TypeOK, NEW s \in SlotIds, NEW c, SetSlot(s, c)
    PROVE  /\ slots'[s] = c
           /\ \A t \in SlotIds : t # s => slots'[t] = slots[t]
BY DEF TypeOK, SetSlot

LEMMA HandTypes ==
    ASSUME TypeOK, NEW h \in Calls
    PROVE  /\ call[h] \in CallRecord
           /\ call[h].key \in Keys
           /\ clients[call[h].key] \in MaybeSlot
           /\ \A i \in DOMAIN call[h].cands :
                /\ Bots[i] \in Keys
                /\ call[h].cands[i] \in SlotIds /\ call[h].cands[i] # 0
           /\ call[h].pc # 0 => call[h].pc \in SlotIds
<1>1. call[h] \in CallRecord /\ clients \in [Keys -> MaybeSlot]
  BY DEF TypeOK
<1>2. call[h].cands \in Candidates /\ call[h].key \in Keys /\ call[h].pc \in MaybeSlot
  BY <1>1 DEF CallRecord
<1>3. clients[call[h].key] \in MaybeSlot
  BY <1>1, <1>2
<1> QED BY <1>1, <1>2, <1>3, BotsFacts, CandsAre DEF MaybeSlot

LEMMA ShapeOthers ==
    ASSUME NEW h \in Calls, Others(h), NEW g \in Calls, g # h, Shape(g)
    PROVE  Shape(g)'
BY DEF Shape, Others

LEMMA LinkedOthers ==
    ASSUME TypeOK, NEW h \in Calls, Others(h), Grown,
           NEW g \in Calls, g # h, Linked(g)
    PROVE  Linked(g)'
<1>1. call'[g] = call[g]
  BY DEF Others
<1>2. \A i \in DOMAIN call[g].cands : clients'[Bots[i]] = call[g].cands[i]
  BY HandTypes DEF Linked, Grown
<1>3. call[g].pc # 0 => clients'[call[g].key] = call[g].pc
  BY HandTypes DEF Linked, Grown
<1>4. call[g].at = "use" => clients'[call[g].key] # 0
  BY HandTypes DEF Linked, Grown
<1> QED BY <1>1, <1>2, <1>3, <1>4 DEF Linked

LEMMA ProgressOthers ==
    ASSUME TypeOK, NEW h \in Calls, Others(h), Grown, StopsSteady,
           ClaimsSteady(h), running \subseteq running',
           NEW g \in Calls, g # h, Shape(g), Linked(g), Progress(g)
    PROVE  Progress(g)'
<1>1. call'[g] = call[g]
  BY DEF Others
<1>2. Owns(g)' => slots'[call[g].pc].creating
  BY <1>1 DEF ClaimsSteady, Owns
<1>3. clients[call[g].key] # 0 =>
        /\ clients'[call[g].key] = clients[call[g].key]
        /\ SameStop(clients[call[g].key])
  BY HandTypes DEF Grown, StopsSteady
<1>4. call[g].at \in Chosen => clients[call[g].key] # 0 /\ clients[call[g].key] = call[g].pc
  BY DEF Linked, Shape
<1>5. call[g].at = "use" => clients[call[g].key] # 0
  BY DEF Linked
<1> QED BY <1>1, <1>2, <1>3, <1>4, <1>5 DEF Progress, SameStop, Chosen

LEMMA OwnersKept ==
    ASSUME NEW h \in Calls, Others(h), OwnersApart,
           Owns(h)' => Owns(h) /\ call'[h].pc = call[h].pc
    PROVE  OwnersApart'
<1>1. \A g \in Calls : g # h => call'[g] = call[g] /\ (Owns(g)' <=> Owns(g))
  BY DEF Others, Owns
<1>2. \A g \in Calls : Owns(g)' => Owns(g) /\ call'[g].pc = call[g].pc
  BY <1>1
<1> QED BY <1>2 DEF OwnersApart

LEMMA SlotKept ==
    ASSUME TypeOK, ClientsSteady, running \subseteq running',
           NEW k \in Keys, SlotFits(k), clients'[k] \in {0, clients[k]}
    PROVE  SlotFits(k)'
BY DEF SlotFits, ClientsSteady, SameClient, SameStop

LEMMA ReachKept ==
    ASSUME TypeOK, NEW h \in Calls, Others(h), Grown, StopsSteady,
           running' = running, ClientsReachable, call[h].at # "publish"
    PROVE  ClientsReachable'
<1> SUFFICES ASSUME NEW c \in running'
             PROVE  (\/ clients[c[1]] # 0 /\ slots[clients[c[1]]].stop = c
                     \/ \E g \in Calls : call[g].at = "publish" /\ call[g].made = c)'
  BY DEF ClientsReachable
<1>1. c \in running /\ c[1] \in Keys
  BY ClientFacts DEF TypeOK
<1>2. CASE clients[c[1]] # 0 /\ slots[clients[c[1]]].stop = c
  <2>1. clients'[c[1]] = clients[c[1]] /\ SameStop(clients[c[1]])
    BY <1>1, <1>2 DEF Grown, StopsSteady
  <2> QED BY <2>1, <1>2 DEF SameStop
<1>3. CASE \E g \in Calls : call[g].at = "publish" /\ call[g].made = c
  <2>1. PICK g \in Calls : call[g].at = "publish" /\ call[g].made = c
    BY <1>3
  <2>2. call'[g] = call[g]
    BY <2>1 DEF Others
  <2> QED BY <2>1, <2>2
<1> QED BY <1>1, <1>2, <1>3 DEF ClientsReachable

LEMMA CheckerKept ==
    ASSUME TypeOK, NEW h \in Calls, Others(h), Grown,
           checker' = checker, CheckerFits,
           checker.slot # 0 => slots'[checker.slot].conns = slots[checker.slot].conns,
           checker.slot # 0 => checker.slot \notin HeldSlots(h)'
    PROVE  CheckerFits'
<1> SUFFICES ASSUME checker.slot # 0
             PROVE  /\ clients'[checker.key] = checker.slot
                    /\ slots'[checker.slot].conns = 0
                    /\ ~InHand(checker.slot)'
  BY DEF CheckerFits
<1>1. /\ clients[checker.key] = checker.slot /\ slots[checker.slot].conns = 0
      /\ ~InHand(checker.slot) /\ checker.key \in Keys
  BY DEF CheckerFits, TypeOK
<1>2. clients'[checker.key] = checker.slot /\ slots'[checker.slot].conns = 0
  BY <1>1 DEF Grown
<1>3. ASSUME NEW g \in Calls PROVE checker.slot \notin HeldSlots(g)'
  <2>1. CASE g = h
    BY <2>1
  <2>2. CASE g # h
    BY <2>2, <1>1 DEF HeldSlots, InHand, Others
  <2> QED BY <2>1, <2>2
<1> QED BY <1>2, <1>3 DEF InHand

\* The calls that are counted, by key and all.
LEMMA CountedFacts ==
    ASSUME TypeOK
    PROVE  /\ UNION {Counted(k) : k \in Keys} = {h \in Calls : Busy(h)}
           /\ \A k \in Keys : Counted(k) = {h \in Calls : Busy(h) /\ call[h].key = k}
           /\ IsFiniteSet({h \in Calls : Busy(h)})
           /\ \A k \in Keys : IsFiniteSet(Counted(k))
<1>1. \A h \in Calls : call[h].key \in Keys
  BY HandTypes
<1>2. \A k \in Keys : Counted(k) = {h \in Calls : Busy(h) /\ call[h].key = k}
  BY DEF Counted, Busy
<1>3. UNION {Counted(k) : k \in Keys} = {h \in Calls : Busy(h)}
  BY <1>1, <1>2
<1>4. IsFiniteSet({h \in Calls : Busy(h)}) /\ \A k \in Keys : IsFiniteSet(Counted(k))
  BY <1>2, PoolAssumption, FS_Subset DEF PoolAssumption
<1> QED BY <1>2, <1>3, <1>4

\* A key whose slot is missing is used by nobody.
LEMMA NobodyCounted ==
    ASSUME TypeOK, \A h \in Calls : Shape(h) /\ Linked(h),
           NEW k \in Keys, clients[k] = 0
    PROVE  Counted(k) = {} /\ Cardinality(Counted(k)) = 0
<1>1. \A h \in Calls : Busy(h) => clients[call[h].key] # 0
  BY DEF Busy, Shape, Linked, Chosen
<1>2. Counted(k) = {}
  BY <1>1, CountedFacts
<1> QED BY <1>2, FS_EmptySet

LEMMA ConnsKept ==
    ASSUME TypeOK, TypeOK', NEW h \in Calls, Others(h), ConnsSteady, ConnsExact,
           Busy(h)' <=> Busy(h), Busy(h) => call'[h].key = call[h].key,
           totalConns' = totalConns,
           \A k \in Keys : \/ clients'[k] = clients[k]
                           \/ clients[k] = 0 /\ Counted(k) = {}
                              /\ slots'[clients'[k]].conns = 0
    PROVE  ConnsExact'
<1>1. \A g \in Calls : g # h => call'[g] = call[g] /\ (Busy(g)' <=> Busy(g))
  BY DEF Others, Busy
<1>2. \A k \in Keys : Counted(k)' = Counted(k)
  BY <1>1, CountedFacts DEF Counted, Busy
<1>3. ASSUME NEW k \in Keys, clients'[k] # 0
      PROVE  slots'[clients'[k]].conns = Cardinality(Counted(k)')
  <2>1. CASE clients'[k] = clients[k]
    <3>1. slots[clients[k]].conns = Cardinality(Counted(k))
      BY <2>1, <1>3 DEF ConnsExact
    <3> QED BY <3>1, <2>1, <1>2, <1>3 DEF ConnsSteady
  <2>2. CASE clients'[k] # clients[k]
    BY <2>2, <1>2, FS_EmptySet
  <2> QED BY <2>1, <2>2
<1>4. UNION {Counted(k)' : k \in Keys} = UNION {Counted(k) : k \in Keys}
  BY <1>2
<1>5. totalConns' = Cardinality(UNION {Counted(k)' : k \in Keys})
  BY <1>4 DEF ConnsExact
<1> QED BY <1>3, <1>5 DEF ConnsExact

\* A slot belongs to one key.
LEMMA OneKey ==
    ASSUME \A k \in Keys : SlotFits(k), NEW j \in Keys, NEW k \in Keys,
           clients[j] = clients[k], clients[k] # 0
    PROVE  j = k
<1>1. slots[clients[j]].key = j /\ slots[clients[k]].key = k
  BY DEF SlotFits
<1> QED BY <1>1

\* Acquire and Release change the counter of the slot only.
LEMMA Added ==
    ASSUME TypeOK, NEW k \in Keys, clients[k] # 0, NEW n \in Int, AddConns(k, n)
    PROVE  /\ clients[k] \in SlotIds
           /\ \A s \in SlotIds : s # clients[k] => slots'[s] = slots[s]
           /\ slots'[clients[k]].conns = slots[clients[k]].conns + n
           /\ slots'[clients[k]].creating = slots[clients[k]].creating
           /\ SameClient(clients[k])
           /\ totalConns' = totalConns + n
<1>1. PICK s \in SlotIds : s = clients[k]
  BY DEF TypeOK, MaybeSlot
<1>2. slots[s] \in SlotRecord
  BY DEF TypeOK
<1>3. /\ SetSlot(s, [slots[s] EXCEPT !.conns = @ + n, !.old = FALSE])
      /\ totalConns' = totalConns + n
  BY <1>1 DEF AddConns
<1>4. /\ slots'[s] = [slots[s] EXCEPT !.conns = @ + n, !.old = FALSE]
      /\ \A t \in SlotIds : t # s => slots'[t] = slots[t]
  BY <1>3, Put
<1> QED BY <1>1, <1>2, <1>3, <1>4 DEF SlotRecord, SameClient, SameStop

LEMMA ConnsAdded ==
    ASSUME TypeOK, TypeOK', \A k \in Keys : SlotFits(k), ConnsExact,
           NEW h \in Calls, NEW k \in Keys, k = call[h].key, clients[k] # 0,
           Others(h), clients' = clients, Busy(h)' => call'[h].key = k,
           \/ ~Busy(h) /\ Busy(h)' /\ AddConns(k, 1)
           \/ Busy(h) /\ ~Busy(h)' /\ AddConns(k, -1)
    PROVE  ConnsExact'
<1> DEFINE n == IF Busy(h) THEN -1 ELSE 1
<1>0. n \in Int /\ AddConns(k, n)
  OBVIOUS
<1> HIDE DEF n
<1>1. \A g \in Calls : g # h => call'[g] = call[g] /\ (Busy(g)' <=> Busy(g))
  BY DEF Others, Busy
<1>2. \A j \in Keys : j # k => Counted(j)' = Counted(j)
  BY <1>1, CountedFacts DEF Counted, Busy
<1> DEFINE all == {g \in Calls : Busy(g)}
           some == Counted(k)
<1>3. ASSUME Busy(h)
      PROVE  /\ Cardinality(all') = Cardinality(all) + n
             /\ Cardinality(some') = Cardinality(some) + n
  <2>1. n = -1 /\ ~Busy(h)'
    BY <1>3 DEF n
  <2>2. h \in all /\ all' = all \ {h} /\ h \in some /\ some' = some \ {h}
    BY <1>1, <1>3, <2>1, CountedFacts DEF Counted, Busy
  <2>3. IsFiniteSet(all) /\ IsFiniteSet(some)
    BY CountedFacts
  <2>4. /\ Cardinality(all') = Cardinality(all) - 1
        /\ Cardinality(some') = Cardinality(some) - 1
    <3> HIDE DEF all, some
    <3> QED BY <2>2, <2>3, FS_RemoveElement
  <2>5. Cardinality(all) \in Nat /\ Cardinality(some) \in Nat
    BY <2>3, FS_CardinalityType
  <2> HIDE DEF all, some
  <2> QED BY <2>1, <2>4, <2>5
<1>4. ASSUME ~Busy(h)
      PROVE  /\ Cardinality(all') = Cardinality(all) + n
             /\ Cardinality(some') = Cardinality(some) + n
  <2>1. n = 1 /\ Busy(h)'
    BY <1>4 DEF n
  <2>2. h \notin all /\ all' = all \cup {h} /\ h \notin some /\ some' = some \cup {h}
    BY <1>1, <1>4, <2>1, CountedFacts DEF Counted, Busy
  <2>3. IsFiniteSet(all) /\ IsFiniteSet(some)
    BY CountedFacts
  <2>4. /\ Cardinality(all') = Cardinality(all) + 1
        /\ Cardinality(some') = Cardinality(some) + 1
    <3> HIDE DEF all, some
    <3> QED BY <2>2, <2>3, FS_AddElement
  <2> HIDE DEF all, some
  <2> QED BY <2>1, <2>4
<1>5. /\ Cardinality(all') = Cardinality(all) + n
      /\ Cardinality(Counted(k)') = Cardinality(Counted(k)) + n
  BY <1>3, <1>4
<1>6. all = UNION {Counted(j) : j \in Keys} /\ all' = UNION {Counted(j)' : j \in Keys}
  <2>1. \A g \in Calls : call'[g].key \in Keys
    BY DEF TypeOK, CallRecord
  <2>2. all' = UNION {Counted(j)' : j \in Keys}
    BY <2>1 DEF Counted, Busy
  <2> QED BY <2>2, CountedFacts
<1> HIDE DEF all
<1>7. totalConns' = Cardinality(UNION {Counted(j)' : j \in Keys})
  BY <1>0, <1>5, <1>6, Added DEF ConnsExact
<1>8. ASSUME NEW j \in Keys, clients'[j] # 0
      PROVE  slots'[clients'[j]].conns = Cardinality(Counted(j)')
  <2>1. slots[clients[j]].conns = Cardinality(Counted(j)) /\ clients[j] \in SlotIds
    BY <1>8 DEF ConnsExact, TypeOK, MaybeSlot
  <2>2. CASE j = k
    BY <2>1, <2>2, <1>0, <1>5, Added
  <2>3. CASE j # k
    <3>1. clients[j] # clients[k]
      BY <2>3, OneKey
    <3> QED BY <3>1, <2>1, <2>3, <1>0, <1>2, Added
  <2> QED BY <2>2, <2>3
<1> QED BY <1>7, <1>8 DEF ConnsExact

----------------------------------------------------------------------------
(* The steps of a call that change no client of a slot.                    *)

\* The checker has none of the slots that a call has in its hands.
LEMMA NotChecked ==
    ASSUME CheckerFits, checker.slot # 0, NEW h \in Calls, NEW s \in HeldSlots(h)
    PROVE  s # checker.slot
BY DEF CheckerFits, InHand

LEMMA MoveStep ==
    ASSUME PoolInv, TypeOK', NEW h \in Calls, Others(h),
           clients' = clients, ClientsSteady, ClaimsSteady(h), ConnsSteady,
           totalConns' = totalConns, running' = running, checker' = checker,
           Shape(h)', Linked(h)', Progress(h)', OwnersApart',
           call[h].at # "publish",
           Busy(h)' <=> Busy(h), Busy(h) => call'[h].key = call[h].key,
           checker.slot # 0 => checker.slot \notin HeldSlots(h)'
    PROVE  PoolInv'
<1>0. Grown /\ StopsSteady
  BY DEF Grown, StopsSteady, ClientsSteady, SameClient
<1>1. \A g \in Calls : (Shape(g) /\ Linked(g) /\ Progress(g))'
  <2>1. ASSUME NEW g \in Calls, g # h PROVE (Shape(g) /\ Linked(g) /\ Progress(g))'
    BY <2>1, <1>0, ShapeOthers, LinkedOthers, ProgressOthers DEF PoolInv
  <2> QED BY <2>1
<1>2. \A k \in Keys : SlotFits(k)'
  BY SlotKept DEF PoolInv
<1>3. checker.slot # 0 => slots'[checker.slot].conns = slots[checker.slot].conns
  BY DEF ConnsSteady, PoolInv, CheckerFits, TypeOK
<1>4. CheckerFits'
  BY <1>0, <1>3, CheckerKept DEF PoolInv
<1>5. ConnsExact'
  BY ConnsKept DEF PoolInv
<1>6. ClientsReachable'
  BY <1>0, ReachKept DEF PoolInv
<1> QED BY <1>1, <1>2, <1>4, <1>5, <1>6 DEF PoolInv

\* A step that leaves the slots alone.
LEMMA QuietStep ==
    ASSUME PoolInv, TypeOK', NEW h \in Calls, Others(h),
           clients' = clients, slots' = slots,
           totalConns' = totalConns, running' = running, checker' = checker,
           Shape(h)', Linked(h)', Progress(h)',
           Owns(h)' => Owns(h) /\ call'[h].pc = call[h].pc,
           call[h].at # "publish", ~Busy(h), ~Busy(h)',
           checker.slot # 0 => checker.slot \notin HeldSlots(h)'
    PROVE  PoolInv'
<1>1. ClientsSteady /\ ConnsSteady
  BY DEF ClientsSteady, ConnsSteady, SameClient, SameStop
<1>2. ClaimsSteady(h)
  BY DEF ClaimsSteady, PoolInv, Progress
<1>3. OwnersApart'
  BY OwnersKept DEF PoolInv
<1> QED BY <1>1, <1>2, <1>3, MoveStep

LEMMA GetInv ==
    ASSUME PoolInv, NEW h \in Calls, GetUserClient(h) \/ GetBotClient(h)
    PROVE  PoolInv'
<1> USE DEF poolVars
<1>1. TypeOK /\ TypeOK' /\ call[h] \in CallRecord /\ Shape(h) /\ Linked(h)
  BY RestTyped, BotsFacts DEF PoolInv, TypeOK
<1>2. PICK o \in {"user", "bot"} :
        Continue(h, [call[h] EXCEPT !.at = IF o = "user" THEN "load" ELSE "gather",
                                    !.op = o])
  BY DEF GetUserClient, GetBotClient
<1>3. /\ call'[h] = [call[h] EXCEPT
             !.at = IF o = "user" THEN "load" ELSE "gather", !.op = o]
      /\ Others(h)
  BY <1>1, <1>2, Went
<1>4. /\ call[h].at = "new" /\ clients' = clients /\ slots' = slots
      /\ totalConns' = totalConns /\ running' = running /\ checker' = checker
  BY DEF GetUserClient, GetBotClient
<1>5. Shape(h)'
  BY <1>1, <1>3, <1>4 DEF Shape, Chosen, Starting, CallRecord
<1>6. Linked(h)'
  BY <1>1, <1>3, <1>4 DEF Linked, Shape, Chosen, CallRecord
<1>7. Progress(h)' /\ ~Owns(h)' /\ ~Busy(h) /\ ~Busy(h)'
  BY <1>1, <1>3, <1>4 DEF Progress, Owns, Starting, CallRecord, Busy
<1>8. HeldSlots(h)' = HeldSlots(h)
  BY <1>1, <1>3 DEF HeldSlots, CallRecord
<1>9. checker.slot # 0 => checker.slot \notin HeldSlots(h)'
  BY <1>8, NotChecked DEF PoolInv
<1> QED BY <1>1, <1>3, <1>4, <1>5, <1>6, <1>7, <1>9, QuietStep

LEMMA UserLoadInv ==
    ASSUME PoolInv, ~Races, NEW h \in Calls, UserLoad(h)
    PROVE  PoolInv'
<1> USE DEF poolVars
<1>1. TypeOK /\ TypeOK' /\ call[h] \in CallRecord /\ Shape(h) /\ Linked(h)
  BY CallTyped DEF PoolInv, TypeOK, Step
<1>2. /\ call[h].at = "load" /\ clients' = clients /\ slots' = slots
      /\ totalConns' = totalConns /\ running' = running /\ checker' = checker
      /\ Undisturbed(UserKey)
  BY DEF UserLoad
<1>3. call[h].op = "user" /\ call[h].key = UserKey /\ UserKey \in Keys
      /\ call[h].pc = 0 /\ call[h].selected = 0 /\ ~call[h].claimed
  BY <1>1, <1>2, BotsFacts DEF Shape, Chosen, Starting
<1>4. CASE Continue(h, [call[h] EXCEPT !.at = "store"])
  <2>1. call'[h] = [call[h] EXCEPT !.at = "store"] /\ Others(h)
    BY <1>1, <1>4, Went
  <2>2. Shape(h)'
    BY <1>1, <1>2, <2>1 DEF Shape, Chosen, Starting, CallRecord
  <2>3. Linked(h)'
    BY <1>1, <1>2, <1>3, <2>1 DEF Linked, CallRecord
  <2>4. Progress(h)' /\ ~Owns(h)' /\ ~Busy(h) /\ ~Busy(h)'
    BY <1>1, <1>2, <2>1 DEF Progress, Owns, Starting, CallRecord, Busy
  <2>5. HeldSlots(h)' = HeldSlots(h)
    BY <1>1, <2>1 DEF HeldSlots, CallRecord
  <2>6. checker.slot # 0 => checker.slot \notin HeldSlots(h)'
    BY <2>5, NotChecked DEF PoolInv
  <2> QED BY <1>1, <1>2, <2>1, <2>2, <2>3, <2>4, <2>6, QuietStep
<1>5. CASE ~Continue(h, [call[h] EXCEPT !.at = "store"])
  <2>0. PICK s \in SlotIds : s = clients[UserKey]
    BY <1>1, <1>3, <1>5 DEF UserLoad, TypeOK, MaybeSlot
  <2>1. /\ s # 0
        /\ Continue(h, [call[h] EXCEPT !.at = "acquire", !.pc = s])
    BY <1>5, <2>0, BotsFacts DEF UserLoad
  <2>2. call'[h] = [call[h] EXCEPT !.at = "acquire", !.pc = s] /\ Others(h)
    BY <1>1, <2>1, Went
  <2>3. Shape(h)'
    BY <1>1, <1>2, <1>3, <2>1, <2>2 DEF Shape, Chosen, Starting, CallRecord
  <2>4. Linked(h)'
    BY <1>1, <1>2, <1>3, <2>0, <2>2 DEF Linked, CallRecord
  <2>5. Progress(h)' /\ ~Owns(h)' /\ ~Busy(h) /\ ~Busy(h)'
    BY <1>1, <1>2, <1>3, <2>2 DEF Progress, Owns, Starting, CallRecord, Busy
  <2>6. HeldSlots(h)' \subseteq HeldSlots(h) \cup {s}
    BY <1>1, <1>3, <2>2 DEF HeldSlots, CallRecord
  <2>7. checker.slot # 0 => s # checker.slot
    <3>1. checker.slot # 0 => checker.key # UserKey /\ checker.key \in Keys
      BY <1>1, <1>2 DEF Undisturbed, TypeOK
    <3> QED BY <3>1, <2>0, <1>3, OneKey DEF PoolInv, CheckerFits
  <2>8. checker.slot # 0 => checker.slot \notin HeldSlots(h)'
    BY <2>6, <2>7, NotChecked DEF PoolInv
  <2> QED BY <1>1, <1>2, <2>2, <2>3, <2>4, <2>5, <2>8, QuietStep
<1> QED BY <1>4, <1>5

LEMMA UserRecheckInv ==
    ASSUME PoolInv, NEW h \in Calls, UserRecheck(h)
    PROVE  PoolInv'
<1> USE DEF poolVars
<1>1. TypeOK /\ TypeOK' /\ call[h] \in CallRecord
      /\ Shape(h) /\ Linked(h) /\ Progress(h)
  BY CallTyped DEF PoolInv, TypeOK, Step
<1>2. /\ call[h].at = "recheck" /\ call[h].op = "user"
      /\ clients' = clients /\ slots' = slots
      /\ totalConns' = totalConns /\ running' = running /\ checker' = checker
  BY DEF UserRecheck
<1>3. PICK at \in {"acquire", "create"} :
        /\ at = IF slots[call[h].pc].ready THEN "acquire" ELSE "create"
        /\ Continue(h, [call[h] EXCEPT !.at = at, !.claimed = TRUE])
  BY DEF UserRecheck
<1>4. call'[h] = [call[h] EXCEPT !.at = at, !.claimed = TRUE] /\ Others(h)
  BY <1>1, <1>3, Went
<1>5. Shape(h)'
  BY <1>1, <1>2, <1>4 DEF Shape, Chosen, Starting, CallRecord
<1>6. Linked(h)'
  BY <1>1, <1>2, <1>4 DEF Linked, CallRecord
<1>7. Progress(h)' /\ Owns(h) /\ ~Busy(h) /\ ~Busy(h)' /\ call'[h].pc = call[h].pc
  BY <1>1, <1>2, <1>3, <1>4 DEF Progress, Owns, Starting, CallRecord, Busy
<1>8. HeldSlots(h)' = HeldSlots(h)
  BY <1>1, <1>4 DEF HeldSlots, CallRecord
<1>9. checker.slot # 0 => checker.slot \notin HeldSlots(h)'
  BY <1>8, NotChecked DEF PoolInv
<1> QED BY <1>1, <1>2, <1>4, <1>5, <1>6, <1>7, <1>9, QuietStep

\* What a restricted list of candidates leaves in a call's hands.
LEMMA LessHeld ==
    ASSUME TypeOK, NEW h \in Calls, NEW places, places \subseteq DOMAIN call[h].cands,
           call'[h].cands = Restrict(call[h].cands, places),
           {call'[h].selected, call'[h].pc, call'[h].into} \subseteq {0} \cup HeldSlots(h)
    PROVE  HeldSlots(h)' \subseteq {0} \cup HeldSlots(h)
<1>1. call[h].cands \in Candidates
  BY DEF TypeOK, CallRecord
<1>2. Range(call'[h].cands) \subseteq Range(call[h].cands)
  BY <1>1, CandsRestricted DEF Range
<1> QED BY <1>2 DEF HeldSlots

LEMMA BotAvailableInv ==
    ASSUME PoolInv, NEW h \in Calls, BotAvailable(h)
    PROVE  PoolInv'
<1> USE DEF poolVars
<1>1. TypeOK /\ TypeOK' /\ call[h] \in CallRecord /\ Shape(h) /\ Linked(h)
  BY CallTyped DEF PoolInv, TypeOK, Step
<1>2. /\ call[h].at = "gather" /\ DOMAIN call[h].cands = DOMAIN Bots
      /\ clients' = clients /\ slots' = slots
      /\ totalConns' = totalConns /\ running' = running /\ checker' = checker
  BY DEF BotAvailable
<1>3. PICK avail \in SUBSET DOMAIN Bots :
        Continue(h, [call[h] EXCEPT !.at = "select",
                                    !.cands = Restrict(@, avail)])
  BY DEF BotAvailable
<1>4. PICK list \in Candidates :
        /\ list = Restrict(call[h].cands, avail)
        /\ DOMAIN list \subseteq DOMAIN call[h].cands
        /\ \A i \in DOMAIN list : list[i] = call[h].cands[i]
  BY <1>1, <1>2, CandsRestricted DEF CallRecord
<1>5. call'[h] = [call[h] EXCEPT !.at = "select", !.cands = list] /\ Others(h)
  BY <1>1, <1>3, <1>4, Went
<1>6. Shape(h)'
  BY <1>1, <1>2, <1>5 DEF Shape, Chosen, Starting, CallRecord
<1>7. Linked(h)'
  BY <1>1, <1>2, <1>4, <1>5 DEF Linked, CallRecord
<1>8. Progress(h)' /\ ~Owns(h)' /\ ~Busy(h) /\ ~Busy(h)'
  BY <1>1, <1>2, <1>5 DEF Progress, Owns, Starting, CallRecord, Busy
<1>9. HeldSlots(h)' \subseteq {0} \cup HeldSlots(h)
  <2>1. {call'[h].selected, call'[h].pc, call'[h].into} \subseteq {0} \cup HeldSlots(h)
    BY <1>1, <1>5 DEF HeldSlots, CallRecord
  <2>2. call'[h].cands = Restrict(call[h].cands, avail)
    BY <1>1, <1>4, <1>5 DEF CallRecord
  <2> QED BY <2>1, <2>2, <1>1, <1>2, LessHeld
<1>10. checker.slot # 0 => checker.slot \notin HeldSlots(h)'
  BY <1>9, NotChecked DEF PoolInv
<1> QED BY <1>1, <1>2, <1>5, <1>6, <1>7, <1>8, <1>10, QuietStep

LEMMA BotSelectInv ==
    ASSUME PoolInv, NEW h \in Calls, BotSelect(h)
    PROVE  PoolInv'
<1> USE DEF poolVars
<1>1. TypeOK /\ TypeOK' /\ call[h] \in CallRecord /\ Shape(h) /\ Linked(h)
  BY CallTyped DEF PoolInv, TypeOK, Step
<1>2. /\ call[h].at = "select" /\ clients' = clients /\ slots' = slots
      /\ totalConns' = totalConns /\ running' = running /\ checker' = checker
  BY DEF BotSelect
<1>3. PICK i \in DOMAIN call[h].cands :
        LET s == call[h].cands[i] IN
        Continue(h, [call[h] EXCEPT
              !.at = IF slots[s].ready THEN "acquire" ELSE "claim",
              !.key = slots[s].key, !.selected = s, !.pc = s])
  BY DEF BotSelect
<1>4. PICK s \in SlotIds : s = call[h].cands[i] /\ s # 0 /\ clients[Bots[i]] = s
  BY <1>1, HandTypes DEF Linked
<1>5. slots[s].key = Bots[i]
  BY <1>1, <1>4, HandTypes DEF PoolInv, SlotFits
<1>6. PICK at \in {"acquire", "claim"} :
        Continue(h, [call[h] EXCEPT !.at = at, !.key = Bots[i],
                                    !.selected = s, !.pc = s])
  BY <1>3, <1>4, <1>5
<1>7. /\ call'[h] = [call[h] EXCEPT !.at = at, !.key = Bots[i],
                                    !.selected = s, !.pc = s]
      /\ Others(h)
  BY <1>1, <1>6, Went
<1>8. Shape(h)'
  BY <1>1, <1>2, <1>4, <1>7 DEF Shape, Chosen, Starting, CallRecord
<1>9. Linked(h)'
  BY <1>1, <1>2, <1>4, <1>7 DEF Linked, CallRecord
<1>10. Progress(h)' /\ ~Owns(h)' /\ ~Busy(h) /\ ~Busy(h)'
  BY <1>1, <1>2, <1>7 DEF Progress, Owns, Starting, CallRecord, Busy, Shape
<1>11. HeldSlots(h)' \subseteq HeldSlots(h)
  <2>1. s \in Range(call[h].cands)
    BY <1>4 DEF Range
  <2> QED BY <2>1, <1>1, <1>7 DEF HeldSlots, CallRecord
<1>12. checker.slot # 0 => checker.slot \notin HeldSlots(h)'
  BY <1>11, NotChecked DEF PoolInv
<1> QED BY <1>1, <1>2, <1>7, <1>8, <1>9, <1>10, <1>12, QuietStep

\* A call that ends has nothing in its hands.
LEMMA Ended ==
    ASSUME TypeOK, NEW h \in Calls, EndCall(h)
    PROVE  /\ call'[h] = [NewCall EXCEPT !.at = "done"] /\ Others(h)
           /\ Shape(h)' /\ Linked(h)' /\ Progress(h)'
           /\ ~Owns(h)' /\ ~Busy(h)' /\ HeldSlots(h)' = {0}
<1>1. call'[h] = [NewCall EXCEPT !.at = "done"] /\ Others(h)
  BY Went DEF EndCall
<1>2. Shape(h)'
  BY <1>1, NoCands DEF Shape, NewCall, Chosen, Starting
<1>3. Linked(h)' /\ Progress(h)' /\ ~Owns(h)' /\ ~Busy(h)'
  BY <1>1, NoCands DEF Linked, Progress, Owns, Busy, NewCall, Starting
<1>4. HeldSlots(h)' = {0}
  BY <1>1, NoCands DEF HeldSlots, NewCall, Range
<1> QED BY <1>1, <1>2, <1>3, <1>4

LEMMA BotNoneInv ==
    ASSUME PoolInv, NEW h \in Calls, BotNone(h)
    PROVE  PoolInv'
<1> USE DEF poolVars
<1>1. TypeOK /\ TypeOK' /\ Shape(h)
  BY CallTyped DEF PoolInv, Step
<1>2. /\ call[h].at = "select" /\ clients' = clients /\ slots' = slots
      /\ totalConns' = totalConns /\ running' = running /\ checker' = checker
      /\ EndCall(h)
  BY DEF BotNone
<1>3. ~Busy(h) /\ (checker.slot # 0 => checker.slot \notin HeldSlots(h)')
  BY <1>1, <1>2, Ended DEF Busy
<1> QED BY <1>1, <1>2, <1>3, Ended, QuietStep

LEMMA WaitInv ==
    ASSUME PoolInv, NEW h \in Calls, Wait(h)
    PROVE  PoolInv'
<1> USE DEF poolVars
<1>1. TypeOK /\ TypeOK' /\ call[h] \in CallRecord /\ Shape(h) /\ Linked(h)
  BY CallTyped DEF PoolInv, TypeOK, Step
<1>2. /\ call[h].at = "wait" /\ clients' = clients /\ slots' = slots
      /\ totalConns' = totalConns /\ running' = running /\ checker' = checker
  BY DEF Wait
<1>3. PICK at \in {"load", "select"} :
        /\ at = IF call[h].op = "user" THEN "load" ELSE "select"
        /\ Continue(h, [call[h] EXCEPT !.at = at, !.selected = 0, !.pc = 0])
  BY DEF Wait
<1>4. /\ call'[h] = [call[h] EXCEPT !.at = at, !.selected = 0, !.pc = 0]
      /\ Others(h)
  BY <1>1, <1>3, Went
<1>5. Shape(h)'
  BY <1>1, <1>2, <1>3, <1>4 DEF Shape, Chosen, Starting, CallRecord
<1>6. Linked(h)'
  BY <1>1, <1>2, <1>4 DEF Linked, CallRecord
<1>7. Progress(h)' /\ ~Owns(h)' /\ ~Busy(h) /\ ~Busy(h)'
  BY <1>1, <1>2, <1>4 DEF Progress, Owns, Starting, CallRecord, Busy
<1>8. HeldSlots(h)' \subseteq {0} \cup HeldSlots(h)
  BY <1>1, <1>4 DEF HeldSlots, CallRecord
<1>9. checker.slot # 0 => checker.slot \notin HeldSlots(h)'
  BY <1>8, NotChecked DEF PoolInv
<1> QED BY <1>1, <1>2, <1>4, <1>5, <1>6, <1>7, <1>9, QuietStep

----------------------------------------------------------------------------
(* The claim.                                                              *)

LEMMA Flagged ==
    ASSUME TypeOK, NEW s \in SlotIds, NEW b, SetCreating(s, b)
    PROVE  /\ slots'[s].creating = b
           /\ \A t \in SlotIds : t # s => slots'[t] = slots[t]
           /\ \A t \in SlotIds : SameClient(t)
           /\ ClientsSteady /\ ConnsSteady
<1>1. slots[s] \in SlotRecord /\ \A k \in Keys : clients[k] \in MaybeSlot
  BY DEF TypeOK
<1>2. /\ slots'[s] = [slots[s] EXCEPT !.creating = b]
      /\ \A t \in SlotIds : t # s => slots'[t] = slots[t]
  BY Put DEF SetCreating
<1>3. \A t \in SlotIds : SameClient(t) /\ slots'[t].conns = slots[t].conns
  BY <1>1, <1>2 DEF SameClient, SameStop, SlotRecord
<1> QED BY <1>1, <1>2, <1>3 DEF SlotRecord, ClientsSteady, ConnsSteady, MaybeSlot

\* The owner of a claim may change it without harm to another.
LEMMA OwnFlag ==
    ASSUME PoolInv, NEW h \in Calls, NEW b,
           Owns(h) \/ b = TRUE, SetCreating(call[h].pc, b), call[h].pc \in SlotIds
    PROVE  ClaimsSteady(h)
<1>1. TypeOK
  BY DEF PoolInv
<1> SUFFICES ASSUME NEW g \in Calls, g # h, Owns(g)
             PROVE  slots'[call[g].pc].creating
  BY DEF ClaimsSteady
<1>2. slots[call[g].pc].creating /\ call[g].pc \in SlotIds
  <2>1. call[g].at \in Chosen
    BY DEF Owns, Starting, Chosen
  <2> QED BY <2>1, <1>1, HandTypes DEF PoolInv, Progress, Shape
<1>3. CASE call[g].pc = call[h].pc
  BY <1>1, <1>2, <1>3, Flagged DEF PoolInv, OwnersApart
<1>4. CASE call[g].pc # call[h].pc
  BY <1>1, <1>2, <1>4, Flagged
<1> QED BY <1>3, <1>4

LEMMA ClaimInv ==
    ASSUME PoolInv, NEW h \in Calls, Claim(h)
    PROVE  PoolInv'
<1> USE DEF poolVars
<1>1. TypeOK /\ TypeOK' /\ call[h] \in CallRecord
      /\ Shape(h) /\ Linked(h) /\ Progress(h)
  BY CallTyped DEF PoolInv, TypeOK, Step
<1>2. /\ call[h].at = "claim" /\ clients' = clients
      /\ totalConns' = totalConns /\ running' = running /\ checker' = checker
  BY DEF Claim
<1>3. PICK s \in SlotIds : s = call[h].pc /\ s = call[h].selected
  BY <1>1, <1>2, HandTypes DEF Shape, Chosen
<1>4. PICK at \in {"wait", "recheck"} :
        /\ Continue(h, [call[h] EXCEPT !.at = at])
        /\ at = "wait" => slots' = slots
        /\ at = "recheck" => ~slots[s].creating /\ SetCreating(s, TRUE)
  BY <1>3 DEF Claim
<1>5. call'[h] = [call[h] EXCEPT !.at = at] /\ Others(h)
  BY <1>1, <1>4, Went
<1>6. Shape(h)'
  BY <1>1, <1>2, <1>3, <1>5 DEF Shape, Chosen, Starting, CallRecord
<1>7. Linked(h)' /\ ~Busy(h) /\ ~Busy(h)' /\ call'[h].pc = s
  BY <1>1, <1>2, <1>3, <1>5 DEF Linked, CallRecord, Busy
<1>8. HeldSlots(h)' = HeldSlots(h)
  BY <1>1, <1>5 DEF HeldSlots, CallRecord
<1>9. checker.slot # 0 => checker.slot \notin HeldSlots(h)'
  BY <1>8, NotChecked DEF PoolInv
<1>10. CASE at = "wait"
  <2>1. Progress(h)' /\ ~Owns(h)'
    BY <1>1, <1>5, <1>10 DEF Progress, Owns, Starting, Shape, CallRecord
  <2> QED BY <1>1, <1>2, <1>4, <1>5, <1>6, <1>7, <1>9, <1>10, <2>1, QuietStep
<1>11. CASE at = "recheck"
  <2>1. ~slots[s].creating /\ SetCreating(s, TRUE)
    BY <1>4, <1>11
  <2>2. slots'[s].creating = TRUE /\ ClientsSteady /\ ConnsSteady
    BY <1>1, <2>1, Flagged
  <2>3. ClaimsSteady(h)
    BY <1>3, <2>1, OwnFlag
  <2>4. Progress(h)'
    BY <1>1, <1>5, <1>7, <1>11, <2>2 DEF Progress, CallRecord
  <2>5. OwnersApart'
    <3>1. \A g \in Calls : g # h => call'[g] = call[g] /\ (Owns(g)' <=> Owns(g))
      BY <1>5 DEF Others, Owns
    <3>2. \A g \in Calls : Owns(g) => call[g].pc # s
      BY <2>1 DEF PoolInv, Progress
    <3> QED BY <3>1, <3>2, <1>7 DEF PoolInv, OwnersApart
  <2> QED BY <1>1, <1>2, <1>5, <1>6, <1>7, <1>9, <2>2, <2>3, <2>4, <2>5, MoveStep
<1> QED BY <1>10, <1>11

\* removeBotCandidate
LEMMA Removed ==
    ASSUME PoolInv, NEW h \in Calls, RemoveCandidate(h), clients' = clients,
           call[h].op = "bot", call[h].at \in {"recheck", "create"}
    PROVE  /\ Others(h) /\ Shape(h)' /\ Linked(h)' /\ Progress(h)'
           /\ ~Owns(h)' /\ ~Busy(h)' /\ HeldSlots(h)' \subseteq {0} \cup HeldSlots(h)
<1>1. TypeOK /\ call[h] \in CallRecord /\ Shape(h) /\ Linked(h)
  BY DEF PoolInv, TypeOK
<1> DEFINE left == {i \in DOMAIN call[h].cands :
                      slots[call[h].cands[i]].key # call[h].key}
<1>0. left \subseteq DOMAIN call[h].cands
  OBVIOUS
<1>2. PICK list \in Candidates :
        /\ list = Restrict(call[h].cands, left)
        /\ DOMAIN list \subseteq DOMAIN call[h].cands
        /\ \A i \in DOMAIN list : list[i] = call[h].cands[i]
  <2> HIDE DEF left
  <2> QED BY <1>0, <1>1, CandsRestricted DEF CallRecord
<1>3. Continue(h, [call[h] EXCEPT !.at = "select", !.cands = list,
                                  !.selected = 0, !.pc = 0])
  BY <1>2 DEF RemoveCandidate
<1> HIDE DEF left
<1>4. /\ call'[h] = [call[h] EXCEPT !.at = "select", !.cands = list,
                                    !.selected = 0, !.pc = 0]
      /\ Others(h)
  BY <1>1, <1>3, Went
<1>5. Shape(h)'
  BY <1>1, <1>4 DEF Shape, Chosen, Starting, CallRecord
<1>6. Linked(h)'
  BY <1>1, <1>2, <1>4 DEF Linked, CallRecord
<1>7. Progress(h)' /\ ~Owns(h)' /\ ~Busy(h)'
  BY <1>1, <1>4 DEF Progress, Owns, Starting, CallRecord, Busy
<1>8. HeldSlots(h)' \subseteq {0} \cup HeldSlots(h)
  <2>1. {call'[h].selected, call'[h].pc, call'[h].into} \subseteq {0} \cup HeldSlots(h)
    BY <1>1, <1>4 DEF HeldSlots, CallRecord
  <2>2. call'[h].cands = Restrict(call[h].cands, left)
    BY <1>1, <1>2, <1>4 DEF CallRecord
  <2> QED BY <2>1, <2>2, <1>0, <1>1, LessHeld
<1> QED BY <1>4, <1>5, <1>6, <1>7, <1>8

LEMMA BotRecheckInv ==
    ASSUME PoolInv, NEW h \in Calls, BotRecheck(h)
    PROVE  PoolInv'
<1>1. TypeOK /\ TypeOK' /\ call[h] \in CallRecord
      /\ Shape(h) /\ Linked(h) /\ Progress(h)
  BY CallTyped DEF PoolInv, TypeOK, Step
<1>2. /\ call[h].at = "recheck" /\ call[h].op = "bot" /\ clients' = clients
      /\ totalConns' = totalConns /\ running' = running /\ checker' = checker
  BY DEF BotRecheck
<1>3. PICK s \in SlotIds : s = call[h].pc /\ s = clients[call[h].key] /\ s # 0
  BY <1>1, <1>2, HandTypes DEF Shape, Linked, Chosen
<1>4. Owns(h) /\ ~Busy(h) /\ ~call[h].claimed
  BY <1>1, <1>2 DEF Owns, Busy, Starting, Shape
<1>5. PICK at \in {"acquire", "create"} :
        /\ Continue(h, [call[h] EXCEPT !.at = at, !.pc = s])
        /\ at = "create" => slots' = slots /\ ~slots[s].ready
        /\ at = "acquire" => SetCreating(s, FALSE)
  BY <1>3 DEF BotRecheck
<1>6. call'[h] = [call[h] EXCEPT !.at = at, !.pc = s] /\ Others(h)
  BY <1>1, <1>5, Went
<1>7. Shape(h)'
  BY <1>1, <1>2, <1>3, <1>6 DEF Shape, Chosen, Starting, CallRecord
<1>8. Linked(h)' /\ ~Busy(h)' /\ call'[h].pc = call[h].pc
  BY <1>1, <1>2, <1>3, <1>6 DEF Linked, CallRecord, Busy
<1>9. HeldSlots(h)' = HeldSlots(h)
  BY <1>1, <1>3, <1>6 DEF HeldSlots, CallRecord
<1>10. checker.slot # 0 => checker.slot \notin HeldSlots(h)'
  BY <1>9, NotChecked DEF PoolInv
<1>11. CASE at = "create"
  <2>1. Progress(h)'
    BY <1>1, <1>3, <1>4, <1>5, <1>6, <1>11 DEF Progress, CallRecord
  <2>2. slots' = slots
    BY <1>5, <1>11
  <2> QED BY <1>1, <1>2, <1>4, <1>6, <1>7, <1>8, <1>10, <2>1, <2>2, QuietStep
<1>12. CASE at = "acquire"
  <2>1. SetCreating(call[h].pc, FALSE)
    BY <1>3, <1>5, <1>12
  <2>2. ClientsSteady /\ ConnsSteady
    BY <1>1, <1>3, <2>1, Flagged
  <2>3. ClaimsSteady(h)
    BY <1>3, <1>4, <2>1, OwnFlag
  <2>4. Progress(h)' /\ ~Owns(h)'
    BY <1>1, <1>4, <1>6, <1>12 DEF Progress, Owns, Starting, CallRecord
  <2>5. OwnersApart'
    BY <1>6, <2>4, OwnersKept DEF PoolInv
  <2> QED BY <1>1, <1>2, <1>4, <1>6, <1>7, <1>8, <1>10, <2>2, <2>3, <2>4, <2>5, MoveStep
<1> QED BY <1>11, <1>12

LEMMA CreateFailsInv ==
    ASSUME PoolInv, NEW h \in Calls, CreateFails(h)
    PROVE  PoolInv'
<1>1. TypeOK /\ TypeOK' /\ call[h] \in CallRecord /\ Shape(h)
  BY CallTyped DEF PoolInv, TypeOK, Step
<1>2. /\ call[h].at = "create" /\ clients' = clients
      /\ totalConns' = totalConns /\ running' = running /\ checker' = checker
      /\ SetCreating(call[h].pc, FALSE)
      /\ IF call[h].op = "user" THEN EndCall(h) ELSE RemoveCandidate(h)
  BY DEF CreateFails
<1>3. call[h].pc \in SlotIds /\ Owns(h) /\ ~Busy(h) /\ call[h].op \in {"user", "bot"}
  BY <1>1, <1>2, HandTypes DEF Shape, Chosen, Starting, Owns, Busy
<1>4. ClientsSteady /\ ConnsSteady /\ ClaimsSteady(h)
  BY <1>1, <1>2, <1>3, Flagged, OwnFlag
<1>5. /\ Others(h) /\ Shape(h)' /\ Linked(h)' /\ Progress(h)'
      /\ ~Owns(h)' /\ ~Busy(h)' /\ HeldSlots(h)' \subseteq {0} \cup HeldSlots(h)
  <2>1. CASE EndCall(h)
    BY <2>1, <1>1, Ended
  <2>2. CASE ~EndCall(h)
    BY <2>2, <1>2, <1>3, Removed
  <2> QED BY <2>1, <2>2
<1>6. OwnersApart'
  BY <1>5, OwnersKept DEF PoolInv
<1>7. checker.slot # 0 => checker.slot \notin HeldSlots(h)'
  BY <1>5, NotChecked DEF PoolInv
<1> QED BY <1>1, <1>2, <1>3, <1>4, <1>5, <1>6, <1>7, MoveStep

\* A call that returns has a client or none, and its key.
LEMMA Returned ==
    ASSUME TypeOK, NEW h \in Calls, NEW c, Return(h, c)
    PROVE  /\ Others(h) /\ call'[h].at = "use" /\ call'[h].key = call[h].key
           /\ call'[h].client = c /\ Shape(h)' /\ ~Owns(h)' /\ Busy(h)'
           /\ HeldSlots(h)' = {0}
           /\ call'[h].pc = 0 /\ DOMAIN call'[h].cands = {}
<1>1. /\ call'[h] = [NewCall EXCEPT !.at = "use", !.client = c, !.key = call[h].key]
      /\ Others(h)
  BY Went DEF Return
<1>2. Shape(h)'
  BY <1>1, NoCands DEF Shape, NewCall, Chosen, Starting
<1>3. ~Owns(h)' /\ Busy(h)'
  BY <1>1 DEF Owns, Busy, NewCall, Starting
<1>4. HeldSlots(h)' = {0}
  BY <1>1, NoCands DEF HeldSlots, NewCall, Range
<1> QED BY <1>1, <1>2, <1>3, <1>4, NoCands DEF NewCall

LEMMA ReadInv ==
    ASSUME PoolInv, NEW h \in Calls, ReadClient(h)
    PROVE  PoolInv'
<1>1. TypeOK /\ TypeOK' /\ call[h] \in CallRecord /\ Shape(h) /\ Linked(h) /\ Progress(h)
  BY CallTyped DEF PoolInv, TypeOK, Step
<1>2. /\ call[h].at = "read" /\ clients' = clients
      /\ totalConns' = totalConns /\ running' = running /\ checker' = checker
      /\ SetCreating(call[h].pc, slots[call[h].pc].creating /\ ~call[h].claimed)
      /\ Return(h, slots[call[h].pc].tg)
  BY DEF ReadClient
<1>3. PICK s \in SlotIds : s = call[h].pc /\ s = clients[call[h].key] /\ s # 0
  BY <1>1, <1>2, HandTypes DEF Shape, Linked, Chosen
<1> DEFINE b == slots[s].creating /\ ~call[h].claimed
<1>4. SetCreating(s, b) /\ (~call[h].claimed => (b <=> slots[s].creating))
  BY <1>2, <1>3, Zenon
<1> HIDE DEF b
<1>5. ClientsSteady /\ ConnsSteady /\ SameClient(s)
  BY <1>1, <1>4, Flagged
<1>6. ClaimsSteady(h)
  <2>1. CASE call[h].claimed
    BY <2>1, <1>2, <1>3, <1>4, OwnFlag DEF Owns
  <2>2. CASE ~call[h].claimed
    <3>1. ASSUME NEW g \in Calls, g # h, Owns(g) PROVE slots'[call[g].pc].creating
      <4>1. slots[call[g].pc].creating /\ call[g].pc \in SlotIds
        <5>1. call[g].at \in Chosen
          BY <3>1 DEF Owns, Starting, Chosen
        <5> QED BY <5>1, <1>1, <3>1, HandTypes DEF PoolInv, Progress, Shape
      <4> QED BY <4>1, <2>2, <1>1, <1>4, Flagged
    <3> QED BY <3>1 DEF ClaimsSteady
  <2> QED BY <2>1, <2>2
<1>7. /\ Others(h) /\ call'[h].at = "use" /\ call'[h].key = call[h].key
      /\ call'[h].client = slots[s].tg /\ Shape(h)' /\ ~Owns(h)' /\ Busy(h)'
      /\ HeldSlots(h)' = {0}
      /\ call'[h].pc = 0 /\ DOMAIN call'[h].cands = {}
  BY <1>1, <1>2, <1>3, Returned
<1>8. Linked(h)'
  BY <1>2, <1>3, <1>7 DEF Linked
<1>9. slots[s].tg \in {NoClient, slots[s].stop}
  BY <1>1, <1>3, HandTypes DEF PoolInv, SlotFits
<1>10. Progress(h)'
  BY <1>2, <1>3, <1>5, <1>7, <1>9 DEF Progress, SameClient, SameStop
<1>11. OwnersApart'
  BY <1>7, OwnersKept DEF PoolInv
<1>12. Busy(h) /\ call[h].at # "publish"
  BY <1>2 DEF Busy
<1>13. checker.slot # 0 => checker.slot \notin HeldSlots(h)'
  BY <1>7
<1> QED BY <1>1, <1>2, <1>5, <1>6, <1>7, <1>8, <1>10, <1>11, <1>12, <1>13, MoveStep

----------------------------------------------------------------------------
(* The connection counts.                                                  *)

\* A call counts a connection to the slot in its hands, or takes its own
\* back.
LEMMA ConnStep ==
    ASSUME PoolInv, TypeOK', NEW h \in Calls, Others(h),
           clients' = clients, running' = running, checker' = checker,
           clients[call[h].key] # 0, Busy(h)' => call'[h].key = call[h].key,
           clients[call[h].key] # checker.slot,
           \/ ~Busy(h) /\ Busy(h)' /\ AddConns(call[h].key, 1)
           \/ Busy(h) /\ ~Busy(h)' /\ AddConns(call[h].key, -1),
           Shape(h)', Linked(h)', Progress(h)',
           Owns(h)' => Owns(h) /\ call'[h].pc = call[h].pc,
           call[h].at # "publish",
           checker.slot # 0 => checker.slot \notin HeldSlots(h)'
    PROVE  PoolInv'
<1>0. /\ Grown /\ TypeOK /\ call[h].key \in Keys
      /\ \A k \in Keys : clients[k] \in MaybeSlot
  BY DEF Grown, PoolInv, TypeOK, CallRecord
<1>1. PICK n \in Int : AddConns(call[h].key, n)
  BY <1>0
<1>2. PICK s \in SlotIds : s = clients[call[h].key]
  BY <1>0, <1>1, Added
<1>3. /\ \A t \in SlotIds : t # s => slots'[t] = slots[t]
      /\ slots'[s].creating = slots[s].creating
      /\ SameClient(s)
  BY <1>0, <1>1, <1>2, Added
<1>4. ClientsSteady /\ StopsSteady
  BY <1>0, <1>2, <1>3 DEF ClientsSteady, StopsSteady, SameClient, SameStop, MaybeSlot
<1>5. ClaimsSteady(h)
  <2>1. ASSUME NEW g \in Calls, g # h, Owns(g) PROVE slots'[call[g].pc].creating
    <3>1. slots[call[g].pc].creating /\ call[g].pc \in SlotIds
      <4>1. call[g].at \in Chosen
        BY <2>1 DEF Owns, Starting, Chosen
      <4> QED BY <4>1, <1>0, <2>1, HandTypes DEF PoolInv, Progress, Shape
    <3> QED BY <3>1, <1>3
  <2> QED BY <2>1 DEF ClaimsSteady
<1>6. \A g \in Calls : (Shape(g) /\ Linked(g) /\ Progress(g))'
  <2>1. ASSUME NEW g \in Calls, g # h PROVE (Shape(g) /\ Linked(g) /\ Progress(g))'
    BY <2>1, <1>0, <1>4, <1>5, ShapeOthers, LinkedOthers, ProgressOthers DEF PoolInv
  <2> QED BY <2>1
<1>7. \A k \in Keys : SlotFits(k)'
  BY <1>4, SlotKept DEF PoolInv
<1>8. CheckerFits'
  <2>1. checker.slot # 0 => slots'[checker.slot].conns = slots[checker.slot].conns
    BY <1>0, <1>2, <1>3 DEF TypeOK, MaybeSlot
  <2> QED BY <2>1, <1>0, CheckerKept DEF PoolInv
<1>9. ConnsExact'
  BY <1>0, ConnsAdded DEF PoolInv
<1>10. ClientsReachable'
  BY <1>0, <1>4, ReachKept DEF PoolInv
<1>11. OwnersApart'
  BY OwnersKept DEF PoolInv
<1> QED BY <1>6, <1>7, <1>8, <1>9, <1>10, <1>11 DEF PoolInv

LEMMA CountInv ==
    ASSUME PoolInv, NEW h \in Calls, CountClient(h) \/ AcquireClient(h)
    PROVE  PoolInv'
<1>1. TypeOK /\ TypeOK' /\ call[h] \in CallRecord /\ Shape(h) /\ Linked(h) /\ Progress(h)
  BY CallTyped DEF PoolInv, TypeOK, Step
<1>2. /\ call[h].at \in {"count", "acquire"} /\ clients' = clients
      /\ running' = running /\ checker' = checker /\ AddConns(call[h].key, 1)
  BY DEF CountClient, AcquireClient
<1>3. PICK at \in {"expose", "read"} :
        /\ Continue(h, [call[h] EXCEPT !.at = at])
        /\ at = "expose" <=> call[h].at = "count"
  BY DEF CountClient, AcquireClient
<1>4. call'[h] = [call[h] EXCEPT !.at = at] /\ Others(h)
  BY <1>1, <1>3, Went
<1>5. PICK s \in SlotIds : s = call[h].pc /\ s = clients[call[h].key] /\ s # 0
  BY <1>1, <1>2, HandTypes DEF Shape, Linked, Chosen
<1>6. /\ slots'[s].creating = slots[s].creating /\ SameClient(s)
  BY <1>1, <1>2, <1>5, HandTypes, Added
<1>7. Shape(h)'
  BY <1>1, <1>2, <1>3, <1>4 DEF Shape, Chosen, Starting, CallRecord
<1>8. Linked(h)' /\ ~Busy(h) /\ Busy(h)' /\ call'[h].pc = s /\ call'[h].key = call[h].key
  BY <1>1, <1>2, <1>3, <1>4, <1>5 DEF Linked, CallRecord, Busy
<1>9. Owns(h)' => Owns(h)
  BY <1>1, <1>2, <1>3, <1>4 DEF Owns, Starting, CallRecord
<1>10. Progress(h)'
  BY <1>1, <1>2, <1>3, <1>4, <1>5, <1>6, <1>8, <1>9 DEF Progress, SameClient, SameStop, CallRecord
<1>11. HeldSlots(h)' = HeldSlots(h) /\ s \in HeldSlots(h)
  BY <1>1, <1>4, <1>5 DEF HeldSlots, CallRecord
<1>12. s # checker.slot /\ (checker.slot # 0 => checker.slot \notin HeldSlots(h)')
  BY <1>5, <1>11, NotChecked DEF PoolInv
<1> QED BY <1>1, <1>2, <1>4, <1>5, <1>7, <1>8, <1>9, <1>10, <1>12, ConnStep

\* The slot that a stream is counted for is not the checker's.
LEMMA BusyKept ==
    ASSUME PoolInv, NEW h \in Calls, Busy(h), checker.slot # 0
    PROVE  call[h].key # checker.key /\ clients[call[h].key] # checker.slot
<1>1. /\ clients[checker.key] = checker.slot /\ slots[checker.slot].conns = 0
      /\ checker.key \in Keys /\ TypeOK
  BY DEF PoolInv, CheckerFits, TypeOK
<1>2. Cardinality(Counted(checker.key)) = 0 /\ IsFiniteSet(Counted(checker.key))
  BY <1>1, CountedFacts DEF PoolInv, ConnsExact
<1>3. Counted(checker.key) = {}
  BY <1>2, FS_EmptySet
<1>4. call[h].key # checker.key
  BY <1>1, <1>3, CountedFacts
<1> QED BY <1>1, <1>4, HandTypes, OneKey DEF PoolInv

LEMMA ReleaseInv ==
    ASSUME PoolInv, NEW h \in Calls, Release(h)
    PROVE  PoolInv'
<1>1. TypeOK /\ TypeOK' /\ call[h] \in CallRecord /\ Shape(h) /\ Linked(h)
  BY RestTyped, BotsFacts DEF PoolInv, TypeOK
<1>2. /\ call[h].at = "use" /\ clients' = clients /\ EndCall(h)
      /\ running' = running /\ checker' = checker /\ AddConns(call[h].key, -1)
  BY DEF Release
<1>3. clients[call[h].key] # 0 /\ Busy(h)
  BY <1>1, <1>2 DEF Linked, Busy
<1>4. clients[call[h].key] # checker.slot
  BY <1>3, BusyKept
<1>5. /\ call'[h] = [NewCall EXCEPT !.at = "done"] /\ Others(h)
      /\ Shape(h)' /\ Linked(h)' /\ Progress(h)'
      /\ ~Owns(h)' /\ ~Busy(h)' /\ HeldSlots(h)' = {0}
  BY <1>1, <1>2, Ended
<1> QED BY <1>1, <1>2, <1>3, <1>4, <1>5, ConnStep

----------------------------------------------------------------------------
(* The start of a client.                                                  *)

LEMMA StartInv ==
    ASSUME PoolInv, NEW h \in Calls, StartClient(h)
    PROVE  PoolInv'
<1> USE DEF poolVars
<1>1. TypeOK /\ TypeOK' /\ call[h] \in CallRecord /\ Shape(h) /\ Linked(h) /\ Progress(h)
  BY CallTyped DEF PoolInv, TypeOK, Step
<1>2. /\ call[h].at = "create" /\ clients' = clients /\ slots' = slots
      /\ totalConns' = totalConns /\ checker' = checker
  BY DEF StartClient
<1>3. PICK c \in Clients :
        /\ c[1] = call[h].key /\ running' = running \cup {c}
        /\ Continue(h, [call[h] EXCEPT !.at = "publish", !.made = c])
  BY <1>1, HandTypes, ClientFacts DEF StartClient
<1>4. call'[h] = [call[h] EXCEPT !.at = "publish", !.made = c] /\ Others(h)
  BY <1>1, <1>3, Went
<1>5. Shape(h)'
  BY <1>1, <1>2, <1>3, <1>4 DEF Shape, Chosen, Starting, CallRecord
<1>6. Linked(h)' /\ ~Busy(h) /\ ~Busy(h)'
  BY <1>1, <1>2, <1>4 DEF Linked, CallRecord, Busy
<1>7. Progress(h)' /\ Owns(h) /\ call'[h].pc = call[h].pc
  BY <1>1, <1>2, <1>3, <1>4 DEF Progress, Owns, Starting, CallRecord
<1>8. HeldSlots(h)' = HeldSlots(h)
  BY <1>1, <1>4 DEF HeldSlots, CallRecord
<1>9. /\ Grown /\ StopsSteady /\ ClientsSteady /\ ConnsSteady
      /\ running \subseteq running'
  BY <1>2, <1>3 DEF Grown, StopsSteady, ClientsSteady, ConnsSteady, SameClient, SameStop
<1>10. ClaimsSteady(h)
  BY <1>2 DEF ClaimsSteady, PoolInv, Progress
<1>11. \A g \in Calls : (Shape(g) /\ Linked(g) /\ Progress(g))'
  <2>1. ASSUME NEW g \in Calls, g # h PROVE (Shape(g) /\ Linked(g) /\ Progress(g))'
    BY <2>1, <1>1, <1>4, <1>9, <1>10, ShapeOthers, LinkedOthers, ProgressOthers
       DEF PoolInv
  <2> QED BY <2>1, <1>5, <1>6, <1>7
<1>12. \A k \in Keys : SlotFits(k)'
  BY <1>1, <1>2, <1>9, SlotKept DEF PoolInv
<1>13. CheckerFits'
  <2>1. checker.slot # 0 => checker.slot \notin HeldSlots(h)'
    BY <1>8, NotChecked DEF PoolInv
  <2> QED BY <2>1, <1>1, <1>2, <1>4, <1>9, CheckerKept DEF PoolInv
<1>14. ConnsExact'
  BY <1>1, <1>2, <1>4, <1>6, <1>9, ConnsKept DEF PoolInv
<1>15. OwnersApart'
  BY <1>4, <1>7, OwnersKept DEF PoolInv
<1>16. ClientsReachable'
  <2> SUFFICES ASSUME NEW d \in running'
               PROVE  (\/ clients[d[1]] # 0 /\ slots[clients[d[1]]].stop = d
                       \/ \E g \in Calls : call[g].at = "publish" /\ call[g].made = d)'
    BY DEF ClientsReachable
  <2>1. CASE d = c
    <3>1. call'[h].at = "publish" /\ call'[h].made = d
      BY <2>1, <1>1, <1>4 DEF CallRecord
    <3> QED BY <3>1
  <2>2. CASE d \in running /\ clients[d[1]] # 0 /\ slots[clients[d[1]]].stop = d
    BY <2>2, <1>2
  <2>3. CASE d \in running /\ \E g \in Calls : call[g].at = "publish" /\ call[g].made = d
    <3>1. PICK g \in Calls : call[g].at = "publish" /\ call[g].made = d
      BY <2>3
    <3>2. call'[g] = call[g]
      BY <3>1, <1>2, <1>4 DEF Others
    <3> QED BY <3>1, <3>2
  <2> QED BY <2>1, <2>2, <2>3, <1>3 DEF PoolInv, ClientsReachable
<1> QED BY <1>1, <1>11, <1>12, <1>13, <1>14, <1>15, <1>16 DEF PoolInv

LEMMA PublishInv ==
    ASSUME PoolInv, NEW h \in Calls, PublishClient(h)
    PROVE  PoolInv'
<1>1. TypeOK /\ TypeOK' /\ call[h] \in CallRecord /\ Shape(h) /\ Linked(h) /\ Progress(h)
  BY CallTyped DEF PoolInv, TypeOK, Step
<1>2. /\ call[h].at = "publish" /\ clients' = clients /\ running' = running
      /\ totalConns' = totalConns /\ checker' = checker
  BY DEF PublishClient
<1>3. PICK k \in Keys : k = call[h].key
  BY <1>1, HandTypes
<1>4. PICK s \in SlotIds : s = call[h].pc /\ s = clients[k] /\ s # 0
  BY <1>1, <1>2, <1>3, HandTypes DEF Shape, Linked, Chosen
<1>5. PICK c \in Clients : c = call[h].made /\ c[1] = k /\ c \in running
  BY <1>1, <1>2, <1>3 DEF Shape, Progress
<1>6. /\ SetSlot(s, [slots[s] EXCEPT !.stop = c, !.old = FALSE, !.ready = TRUE])
      /\ Continue(h, [call[h] EXCEPT !.at = "count", !.into = s])
  BY <1>3, <1>4, <1>5 DEF PublishClient
<1>7. /\ call'[h] = [call[h] EXCEPT !.at = "count", !.into = s]
      /\ Others(h)
  BY <1>1, <1>6, Went
<1>8. /\ slots'[s] = [slots[s] EXCEPT !.stop = c, !.old = FALSE, !.ready = TRUE]
      /\ \A t \in SlotIds : t # s => slots'[t] = slots[t]
      /\ slots[s] \in SlotRecord
  BY <1>1, <1>6, Put DEF TypeOK
<1>9. /\ slots'[s].stop = c /\ slots'[s].ready
      /\ slots'[s].key = slots[s].key /\ slots'[s].tg = slots[s].tg
      /\ slots'[s].conns = slots[s].conns /\ slots'[s].creating = slots[s].creating
  BY <1>8 DEF SlotRecord
<1>10. /\ ~slots[s].ready /\ slots[s].stop = NoClient /\ slots[s].tg = NoClient
       /\ slots[s].key = k /\ slots[s].creating /\ Owns(h)
  BY <1>1, <1>2, <1>4 DEF PoolInv, SlotFits, Progress, Owns, Starting
<1>11. Shape(h)'
  BY <1>1, <1>2, <1>4, <1>7 DEF Shape, Chosen, Starting, CallRecord
<1>12. Linked(h)' /\ ~Busy(h) /\ ~Busy(h)' /\ call'[h].pc = call[h].pc
  BY <1>1, <1>2, <1>4, <1>7 DEF Linked, CallRecord, Busy
<1>13. Progress(h)'
  <2>1. call'[h].at = "count" /\ call'[h].pc = s /\ call'[h].made = c
    BY <1>1, <1>4, <1>5, <1>7 DEF CallRecord
  <2> QED BY <2>1, <1>9, <1>10 DEF Progress
<1>14. HeldSlots(h)' \subseteq HeldSlots(h) \cup {s} /\ s \in HeldSlots(h)
  BY <1>1, <1>4, <1>7 DEF HeldSlots, CallRecord
<1>15. Grown /\ \A j \in Keys : clients[j] \in MaybeSlot
  BY <1>1, <1>2 DEF Grown, TypeOK
<1>16. ASSUME NEW g \in Calls, g # h PROVE (Shape(g) /\ Linked(g) /\ Progress(g))'
  <2>1. Shape(g) /\ Linked(g) /\ Progress(g) /\ call'[g] = call[g]
    BY <1>7, <1>16 DEF PoolInv, Others
  <2>2. Shape(g)' /\ Linked(g)'
    BY <2>1, <1>1, <1>7, <1>15, <1>16, ShapeOthers, LinkedOthers
  <2>3. Owns(g) => call[g].pc # s /\ call[g].pc \in SlotIds
    <3>1. Owns(g) => call[g].at \in Chosen
      BY DEF Owns, Starting, Chosen
    <3> QED BY <3>1, <2>1, <1>1, <1>4, <1>10, <1>16, HandTypes DEF PoolInv, OwnersApart, Shape
  <2>4. Owns(g) => slots'[call[g].pc] = slots[call[g].pc]
    BY <2>3, <1>8
  <2>5. call[g].at = "use" => call[g].client \in {NoClient, slots'[clients[call[g].key]].stop}
    <3>1. CASE clients[call[g].key] = s
      BY <3>1, <2>1, <1>10 DEF Progress
    <3>2. CASE clients[call[g].key] # s
      BY <3>2, <2>1, <1>1, <1>8, <1>15, HandTypes DEF Progress, Linked, MaybeSlot
    <3> QED BY <3>1, <3>2
  <2>6. call[g].at \in Starting => Owns(g)
    BY DEF Owns
  <2>7. Progress(g)'
    BY <2>1, <2>4, <2>5, <2>6, <1>2 DEF Progress, Owns, Starting
  <2> QED BY <2>2, <2>7
<1>17. ASSUME NEW j \in Keys PROVE SlotFits(j)'
  <2>1. CASE j = k
    BY <2>1, <1>2, <1>4, <1>5, <1>9, <1>10 DEF SlotFits
  <2>2. CASE j # k
    <3>1. clients[j] # 0 => clients[j] # s /\ clients[j] \in SlotIds
      BY <2>2, <1>4, <1>15, OneKey DEF PoolInv, MaybeSlot
    <3> QED BY <3>1, <1>2, <1>8 DEF PoolInv, SlotFits
  <2> QED BY <2>1, <2>2
<1>18. ConnsSteady
  BY <1>8, <1>9, <1>15 DEF ConnsSteady, MaybeSlot
<1>19. CheckerFits'
  <2>1. checker.slot # 0 => checker.slot \notin HeldSlots(h)'
    BY <1>14, NotChecked DEF PoolInv
  <2>2. checker.slot # 0 => slots'[checker.slot].conns = slots[checker.slot].conns
    BY <1>18 DEF ConnsSteady, PoolInv, CheckerFits, TypeOK
  <2> QED BY <2>1, <2>2, <1>1, <1>2, <1>7, <1>15, CheckerKept DEF PoolInv
<1>20. ConnsExact'
  BY <1>1, <1>2, <1>7, <1>12, <1>18, ConnsKept DEF PoolInv
<1>21. OwnersApart'
  BY <1>7, <1>10, <1>12, OwnersKept DEF PoolInv
<1>22. ClientsReachable'
  <2> SUFFICES ASSUME NEW d \in running'
               PROVE  (\/ clients[d[1]] # 0 /\ slots[clients[d[1]]].stop = d
                       \/ \E g \in Calls : call[g].at = "publish" /\ call[g].made = d)'
    BY DEF ClientsReachable
  <2>0. d \in running /\ d[1] \in Keys /\ d \in Clients
    BY <1>1, <1>2, ClientFacts DEF TypeOK
  <2>1. CASE clients[d[1]] # 0 /\ slots[clients[d[1]]].stop = d
    <3>1. clients[d[1]] # s
      BY <2>0, <2>1, <1>10, ClientFacts
    <3> QED BY <3>1, <2>0, <2>1, <1>2, <1>8, <1>15 DEF MaybeSlot
  <2>2. CASE d = c
    BY <2>2, <1>2, <1>4, <1>5, <1>9
  <2>3. CASE d # c /\ \E g \in Calls : call[g].at = "publish" /\ call[g].made = d
    <3>1. PICK g \in Calls : call[g].at = "publish" /\ call[g].made = d
      BY <2>3
    <3>2. call'[g] = call[g]
      BY <3>1, <2>3, <1>5, <1>7 DEF Others
    <3> QED BY <3>1, <3>2
  <2> QED BY <2>0, <2>1, <2>2, <2>3 DEF PoolInv, ClientsReachable
<1>23. \A g \in Calls : (Shape(g) /\ Linked(g) /\ Progress(g))'
  BY <1>11, <1>12, <1>13, <1>16
<1> QED BY <1>1, <1>17, <1>19, <1>20, <1>21, <1>22, <1>23 DEF PoolInv

LEMMA ExposeInv ==
    ASSUME PoolInv, NEW h \in Calls, ExposeClient(h)
    PROVE  PoolInv'
<1>1. TypeOK /\ TypeOK' /\ call[h] \in CallRecord /\ Shape(h) /\ Linked(h) /\ Progress(h)
  BY CallTyped DEF PoolInv, TypeOK, Step
<1>2. /\ call[h].at = "expose" /\ clients' = clients /\ running' = running
      /\ totalConns' = totalConns /\ checker' = checker
  BY DEF ExposeClient
<1>3. PICK k \in Keys : k = call[h].key
  BY <1>1, HandTypes
<1>4. PICK s \in SlotIds : /\ s = call[h].pc /\ s = clients[k] /\ s # 0
                           /\ s = call[h].into
  BY <1>1, <1>2, <1>3, HandTypes DEF Shape, Linked, Chosen
<1>5. PICK c : c = call[h].made /\ c = slots[s].stop /\ slots[s].ready
  BY <1>1, <1>2, <1>4 DEF Progress
<1>6. /\ slots' = [slots EXCEPT ![s].tg = c, ![s].creating = FALSE]
      /\ Return(h, slots'[s].tg) /\ slots[s] \in SlotRecord
  BY <1>1, <1>4, <1>5 DEF ExposeClient, TypeOK
<1>7. /\ \A t \in SlotIds : t # s => slots'[t] = slots[t]
      /\ slots'[s].tg = c /\ slots'[s].conns = slots[s].conns
      /\ SameStop(s)
  BY <1>1, <1>6 DEF TypeOK, SlotRecord, SameStop
<1>8. /\ Others(h) /\ call'[h].at = "use" /\ call'[h].key = call[h].key
      /\ call'[h].client = c /\ Shape(h)' /\ ~Owns(h)' /\ Busy(h)'
      /\ HeldSlots(h)' = {0}
      /\ call'[h].pc = 0 /\ DOMAIN call'[h].cands = {}
  BY <1>1, <1>6, <1>7, Returned
<1>9. Linked(h)'
  BY <1>2, <1>3, <1>4, <1>8 DEF Linked
<1>10. Progress(h)'
  BY <1>2, <1>3, <1>4, <1>5, <1>7, <1>8 DEF Progress, SameStop
<1>11. Grown /\ \A j \in Keys : clients[j] \in MaybeSlot
  BY <1>1, <1>2 DEF Grown, TypeOK
<1>12. StopsSteady /\ ConnsSteady
  BY <1>7, <1>11 DEF StopsSteady, ConnsSteady, SameStop, MaybeSlot
<1>13. ClaimsSteady(h) /\ Owns(h) /\ Busy(h)
  <2>1. Owns(h) /\ Busy(h)
    BY <1>2 DEF Owns, Starting, Busy
  <2>2. ASSUME NEW g \in Calls, g # h, Owns(g) PROVE slots'[call[g].pc].creating
    <3>1. call[g].at \in Chosen
      BY <2>2 DEF Owns, Starting, Chosen
    <3>2. slots[call[g].pc].creating /\ call[g].pc \in SlotIds /\ call[g].pc # s
      BY <3>1, <2>1, <2>2, <1>1, <1>4, HandTypes DEF PoolInv, Progress, Shape, OwnersApart
    <3> QED BY <3>2, <1>7
  <2> QED BY <2>1, <2>2 DEF ClaimsSteady
<1>14. \A g \in Calls : (Shape(g) /\ Linked(g) /\ Progress(g))'
  <2>1. ASSUME NEW g \in Calls, g # h PROVE (Shape(g) /\ Linked(g) /\ Progress(g))'
    BY <2>1, <1>1, <1>2, <1>8, <1>11, <1>12, <1>13, ShapeOthers, LinkedOthers,
       ProgressOthers DEF PoolInv
  <2> QED BY <2>1, <1>8, <1>9, <1>10
<1>15. ASSUME NEW j \in Keys PROVE SlotFits(j)'
  <2>1. CASE clients[j] = s
    BY <2>1, <1>2, <1>5, <1>7 DEF PoolInv, SlotFits, SameStop
  <2>2. CASE clients[j] # s
    BY <2>2, <1>2, <1>7, <1>11 DEF PoolInv, SlotFits, MaybeSlot
  <2> QED BY <2>1, <2>2
<1>16. CheckerFits'
  <2>1. checker.slot # 0 => slots'[checker.slot].conns = slots[checker.slot].conns
    BY <1>12 DEF ConnsSteady, PoolInv, CheckerFits, TypeOK
  <2>2. checker.slot # 0 => checker.slot \notin HeldSlots(h)'
    BY <1>8
  <2> QED BY <2>1, <2>2, <1>1, <1>2, <1>8, <1>11, CheckerKept DEF PoolInv
<1>17. ConnsExact'
  BY <1>1, <1>2, <1>8, <1>12, <1>13, ConnsKept DEF PoolInv
<1>18. OwnersApart'
  BY <1>8, OwnersKept DEF PoolInv
<1>19. ClientsReachable'
  BY <1>1, <1>2, <1>8, <1>11, <1>12, ReachKept DEF PoolInv
<1> QED BY <1>1, <1>14, <1>15, <1>16, <1>17, <1>18, <1>19 DEF PoolInv

----------------------------------------------------------------------------
(* A slot is found or made.                                                *)

\* The slot of the key is one that was there, or a fresh one that nobody has.
LEMMA Stored ==
    ASSUME PoolInv, TypeOK', NEW k \in Keys, NEW s \in SlotIds, LoadOrStore(k, s)
    PROVE  /\ Grown /\ StopsSteady /\ ConnsSteady
           /\ clients'[k] = s
           /\ \A j \in Keys : j # k => clients'[j] = clients[j]
           /\ \A j \in Keys : SlotFits(j) /\ running' = running => SlotFits(j)'
           /\ clients[k] = 0 => slots'[s].conns = 0 /\ ~slots'[s].ready
                                /\ s # checker.slot
           /\ clients[k] # 0 => slots' = slots /\ clients' = clients
           /\ \A g \in Calls : call[g].pc # 0 => slots'[call[g].pc] = slots[call[g].pc]
           /\ checker.slot # 0 => slots'[checker.slot] = slots[checker.slot]
<1>1. TypeOK /\ \A j \in Keys : clients[j] \in MaybeSlot
  BY DEF PoolInv, TypeOK
<1>2. 0 \notin SlotIds /\ NewSlot(k) \in SlotRecord
  BY BotsFacts, SlotNew
<1>3. CASE clients[k] # 0
  <2>1. slots' = slots /\ clients' = clients /\ clients[k] = s
    BY <1>3 DEF LoadOrStore
  <2> QED BY <1>3, <2>1 DEF Grown, StopsSteady, ConnsSteady, SameStop, SlotFits
<1>4. CASE clients[k] = 0
  <2>1. /\ s \in SlotIds \ UsedSlots
        /\ clients' = [clients EXCEPT ![k] = s]
        /\ SetSlot(s, NewSlot(k))
    BY <1>2, <1>4 DEF LoadOrStore
  <2>2. /\ slots'[s] = NewSlot(k)
        /\ \A t \in SlotIds : t # s => slots'[t] = slots[t]
    BY <1>1, <2>1, Put
  <2>3. /\ \A j \in Keys : clients[j] # s
        /\ s # checker.slot
        /\ \A g \in Calls : call[g].pc # s
    <3>1. Range(clients) \subseteq UsedSlots /\ checker.slot \in UsedSlots
      BY DEF UsedSlots
    <3>2. \A j \in Keys : clients[j] \in Range(clients)
      BY <1>1 DEF Range, TypeOK
    <3>3. \A g \in Calls : call[g].pc \in UsedSlots
      BY DEF UsedSlots, HeldSlots
    <3> QED BY <2>1, <3>1, <3>2, <3>3
  <2>4. clients'[k] = s /\ \A j \in Keys : j # k => clients'[j] = clients[j]
    BY <1>1, <2>1 DEF TypeOK
  <2>5. Grown
    BY <1>4, <2>4 DEF Grown
  <2>6. StopsSteady /\ ConnsSteady
    BY <1>1, <2>2, <2>3 DEF StopsSteady, ConnsSteady, SameStop, MaybeSlot
  <2>7. /\ slots'[s].conns = 0 /\ ~slots'[s].ready /\ slots'[s].key = k
        /\ slots'[s].stop = NoClient /\ slots'[s].tg = NoClient
    BY <2>2 DEF NewSlot
  <2>8. ASSUME NEW j \in Keys, SlotFits(j), running' = running PROVE SlotFits(j)'
    <3>1. CASE j = k
      BY <3>1, <2>4, <2>7 DEF SlotFits
    <3>2. CASE j # k
      BY <3>2, <2>2, <2>3, <2>4, <2>8, <1>1 DEF SlotFits, MaybeSlot
    <3> QED BY <3>1, <3>2
  <2>9. \A g \in Calls : call[g].pc # 0 => slots'[call[g].pc] = slots[call[g].pc]
    BY <1>1, <2>2, <2>3, HandTypes
  <2>10. checker.slot # 0 => slots'[checker.slot] = slots[checker.slot]
    BY <1>1, <2>2, <2>3 DEF TypeOK, MaybeSlot
  <2> QED BY <1>4, <2>3, <2>4, <2>5, <2>6, <2>7, <2>8, <2>9, <2>10
<1> QED BY <1>3, <1>4

LEMMA StoreStep ==
    ASSUME PoolInv, TypeOK', NEW h \in Calls, Others(h),
           NEW k \in Keys, NEW s \in SlotIds, LoadOrStore(k, s),
           Undisturbed(k), ~Races,
           totalConns' = totalConns, running' = running, checker' = checker,
           Shape(h)', Linked(h)', Progress(h)', ~Owns(h)',
           ~Busy(h), ~Busy(h)', call[h].at # "publish",
           HeldSlots(h)' \subseteq {0, s} \cup HeldSlots(h)
    PROVE  PoolInv'
<1>1. /\ Grown /\ StopsSteady /\ ConnsSteady /\ clients'[k] = s
      /\ \A j \in Keys : j # k => clients'[j] = clients[j]
      /\ \A j \in Keys : SlotFits(j)'
      /\ clients[k] = 0 => slots'[s].conns = 0 /\ s # checker.slot
      /\ clients[k] # 0 => slots' = slots /\ clients' = clients
      /\ \A g \in Calls : call[g].pc # 0 => slots'[call[g].pc] = slots[call[g].pc]
      /\ checker.slot # 0 => slots'[checker.slot] = slots[checker.slot]
  BY Stored DEF PoolInv
<1>2. ClaimsSteady(h)
  <2>1. ASSUME NEW g \in Calls, Owns(g) PROVE slots'[call[g].pc].creating
    <3>1. call[g].at \in Chosen
      BY <2>1 DEF Owns, Starting, Chosen
    <3> QED BY <3>1, <2>1, <1>1 DEF PoolInv, Progress, Shape
  <2> QED BY <2>1 DEF ClaimsSteady
<1>3. \A g \in Calls : (Shape(g) /\ Linked(g) /\ Progress(g))'
  <2>1. ASSUME NEW g \in Calls, g # h PROVE (Shape(g) /\ Linked(g) /\ Progress(g))'
    BY <2>1, <1>1, <1>2, ShapeOthers, LinkedOthers, ProgressOthers DEF PoolInv
  <2> QED BY <2>1
<1>4. CheckerFits'
  <2>1. checker.slot # 0 => s # checker.slot
    <3>1. CASE clients[k] = 0
      BY <3>1, <1>1
    <3>2. CASE clients[k] # 0 /\ checker.slot # 0
      <4>1. checker.key # k /\ checker.key \in Keys /\ clients[k] = s
        BY <3>2, <1>1 DEF Undisturbed, PoolInv, TypeOK
      <4> QED BY <4>1, <3>2, OneKey DEF PoolInv, CheckerFits
    <3> QED BY <3>1, <3>2
  <2>2. checker.slot # 0 => checker.slot \notin HeldSlots(h)'
    BY <2>1, NotChecked DEF PoolInv
  <2>3. checker.slot # 0 => slots'[checker.slot].conns = slots[checker.slot].conns
    BY <1>1
  <2> QED BY <2>2, <2>3, <1>1, CheckerKept DEF PoolInv
<1>5. ConnsExact'
  <2>1. \A j \in Keys : \/ clients'[j] = clients[j]
                        \/ clients[j] = 0 /\ Counted(j) = {}
                           /\ slots'[clients'[j]].conns = 0
    <3>1. clients[k] = 0 => Counted(k) = {}
      BY NobodyCounted DEF PoolInv
    <3> QED BY <3>1, <1>1
  <2> QED BY <2>1, <1>1, ConnsKept DEF PoolInv
<1>6. OwnersApart'
  BY OwnersKept DEF PoolInv
<1>7. ClientsReachable'
  BY <1>1, ReachKept DEF PoolInv
<1> QED BY <1>1, <1>3, <1>4, <1>5, <1>6, <1>7 DEF PoolInv

LEMMA UserStoreInv ==
    ASSUME PoolInv, ~Races, NEW h \in Calls, UserStore(h)
    PROVE  PoolInv'
<1>1. TypeOK /\ TypeOK' /\ call[h] \in CallRecord /\ Shape(h) /\ Linked(h)
  BY CallTyped DEF PoolInv, TypeOK, Step
<1>2. /\ call[h].at = "store" /\ totalConns' = totalConns /\ running' = running
      /\ checker' = checker /\ Undisturbed(UserKey) /\ UserKey \in Keys
  BY BotsFacts DEF UserStore
<1>3. PICK s \in SlotIds :
        /\ LoadOrStore(UserKey, s)
        /\ Continue(h, [call[h] EXCEPT
              !.at = IF clients[UserKey] = s /\ slots[s].ready
                     THEN "acquire" ELSE "claim",
              !.pc = s, !.selected = s])
  BY DEF UserStore
<1>4. PICK at \in {"acquire", "claim"} :
        Continue(h, [call[h] EXCEPT !.at = at, !.pc = s, !.selected = s])
  BY <1>3
<1>5. call'[h] = [call[h] EXCEPT !.at = at, !.pc = s, !.selected = s] /\ Others(h)
  BY <1>1, <1>4, Went
<1>6. call[h].key = UserKey /\ ~call[h].claimed /\ s # 0 /\ clients'[UserKey] = s
  BY <1>1, <1>2, <1>3, BotsFacts, Stored DEF Shape, Starting
<1>7. Shape(h)'
  BY <1>1, <1>2, <1>5, <1>6 DEF Shape, Chosen, Starting, CallRecord
<1>8. Linked(h)'
  BY <1>1, <1>2, <1>5, <1>6 DEF Linked, Shape, CallRecord
<1>9. Progress(h)' /\ ~Owns(h)' /\ ~Busy(h) /\ ~Busy(h)'
  BY <1>1, <1>2, <1>5, <1>6 DEF Progress, Owns, Starting, CallRecord, Busy
<1>10. HeldSlots(h)' \subseteq {0, s} \cup HeldSlots(h)
  BY <1>1, <1>5 DEF HeldSlots, CallRecord
<1> QED BY <1>1, <1>2, <1>3, <1>5, <1>7, <1>8, <1>9, <1>10, StoreStep

LEMMA BotGatherInv ==
    ASSUME PoolInv, ~Races, NEW h \in Calls, BotGather(h)
    PROVE  PoolInv'
<1>1. TypeOK /\ TypeOK' /\ call[h] \in CallRecord /\ Shape(h) /\ Linked(h)
  BY CallTyped DEF PoolInv, TypeOK, Step
<1>2. /\ call[h].at = "gather" /\ totalConns' = totalConns /\ running' = running
      /\ checker' = checker
  BY DEF BotGather
<1>3. PICK n \in DOMAIN Bots, s \in SlotIds :
        /\ DOMAIN call[h].cands = 1..(n - 1)
        /\ Undisturbed(Bots[n])
        /\ LoadOrStore(Bots[n], s)
        /\ Continue(h, [call[h] EXCEPT
              !.cands = [i \in 1..n |-> IF i = n THEN s ELSE @[i]]])
  BY DEF BotGather
<1>4. n \in Nat \ {0} /\ Bots[n] \in Keys /\ clients'[Bots[n]] = s /\ Grown
  BY <1>1, <1>3, BotsFacts, Stored
<1> DEFINE more == [i \in 1..n |-> IF i = n THEN s ELSE call[h].cands[i]]
<1>5. call'[h] = [call[h] EXCEPT !.cands = more] /\ Others(h)
  BY <1>1, <1>3, Went
<1>6. /\ DOMAIN more = 1..n
      /\ \A i \in 1..n : more[i] = IF i = n THEN s ELSE call[h].cands[i]
      /\ Range(more) \subseteq {s} \cup Range(call[h].cands)
  <2>1. \A i \in 1..n : i = n \/ i \in DOMAIN call[h].cands
    BY <1>3, <1>4
  <2> QED BY <2>1 DEF Range
<1> HIDE DEF more
<1>7. Shape(h)'
  BY <1>1, <1>2, <1>5 DEF Shape, Chosen, Starting, CallRecord
<1>8. Linked(h)'
  <2>1. ASSUME NEW i \in 1..n PROVE clients'[Bots[i]] = more[i]
    <3>1. CASE i = n
      BY <3>1, <1>4, <1>6
    <3>2. CASE i # n
      <4>1. i \in DOMAIN call[h].cands
        BY <3>2, <1>3, <1>4
      <4>2. clients[Bots[i]] = call[h].cands[i] /\ call[h].cands[i] # 0 /\ Bots[i] \in Keys
        BY <4>1, <1>1, HandTypes DEF Linked
      <4> QED BY <4>2, <3>2, <1>4, <1>6 DEF Grown
    <3> QED BY <3>1, <3>2
  <2>2. call'[h].pc = 0 /\ call'[h].at = "gather" /\ call'[h].cands = more
    BY <1>1, <1>2, <1>5 DEF Shape, Chosen, CallRecord
  <2> QED BY <2>1, <2>2, <1>6 DEF Linked
<1>9. Progress(h)' /\ ~Owns(h)' /\ ~Busy(h) /\ ~Busy(h)'
  BY <1>1, <1>2, <1>5 DEF Progress, Owns, Starting, CallRecord, Busy
<1>10. HeldSlots(h)' \subseteq {0, s} \cup HeldSlots(h)
  BY <1>1, <1>5, <1>6 DEF HeldSlots, CallRecord
<1> QED BY <1>1, <1>2, <1>3, <1>4, <1>5, <1>7, <1>8, <1>9, <1>10, StoreStep

----------------------------------------------------------------------------
(* The idle checker and Close.                                             *)

LEMMA IdleInv ==
    ASSUME PoolInv, ~Races, NEW k \in Keys, Age(k) \/ CheckIdle(k)
    PROVE  PoolInv'
<1> USE DEF poolVars
<1>1. TypeOK /\ TypeOK' /\ \A j \in Keys : clients[j] \in MaybeSlot
  <2>1. CASE Age(k)
    <3>1. PICK s \in SlotIds :
            s = clients[k] /\ SetSlot(s, [slots[s] EXCEPT !.old = TRUE])
      BY <2>1 DEF Age, MaybeSlot, PoolInv, TypeOK
    <3>2. slots[s] \in SlotRecord
      BY DEF PoolInv, TypeOK
    <3>3. [slots[s] EXCEPT !.old = TRUE] \in SlotRecord
      BY <3>2 DEF SlotRecord
    <3>4. slots' \in [SlotIds -> SlotRecord]
      BY <3>1, <3>3, SlotTyped DEF PoolInv
    <3> QED BY <2>1, <3>4 DEF Age, PoolInv, TypeOK
  <2>2. CASE CheckIdle(k)
    BY <2>2 DEF CheckIdle, PoolInv, TypeOK
  <2> QED BY <2>1, <2>2
<1>2. /\ clients' = clients /\ call' = call /\ running' = running
      /\ totalConns' = totalConns
  BY DEF Age, CheckIdle
<1>3. \A t \in SlotIds : /\ SameClient(t)
                         /\ slots'[t].conns = slots[t].conns
                         /\ slots'[t].creating = slots[t].creating
  <2>1. CASE Age(k)
    <3>1. PICK s \in SlotIds :
            s = clients[k] /\ SetSlot(s, [slots[s] EXCEPT !.old = TRUE])
      BY <2>1, <1>1 DEF Age, MaybeSlot
    <3>2. slots[s] \in SlotRecord
      BY <1>1 DEF TypeOK
    <3>3. /\ slots'[s] = [slots[s] EXCEPT !.old = TRUE]
          /\ \A t \in SlotIds : t # s => slots'[t] = slots[t]
      BY <1>1, <3>1, Put
    <3> QED BY <3>2, <3>3 DEF SlotRecord, SameClient, SameStop
  <2>2. CASE CheckIdle(k)
    BY <2>2 DEF CheckIdle, SameClient, SameStop
  <2> QED BY <2>1, <2>2
<1>4. ASSUME NEW g \in Calls PROVE (Shape(g) /\ Linked(g) /\ Progress(g))'
  <2>1. Shape(g) /\ Linked(g) /\ Progress(g)
    BY DEF PoolInv
  <2>2. Shape(g)' /\ Linked(g)' /\ (Owns(g)' <=> Owns(g))
    BY <2>1, <1>2 DEF Shape, Linked, Owns
  <2>3. call[g].pc # 0 => call[g].pc \in SlotIds
    BY <1>1, HandTypes
  <2>4. call[g].at \in Chosen => call[g].pc # 0
    BY <2>1 DEF Shape
  <2>5. call[g].at = "use" => clients[call[g].key] \in SlotIds
    BY <2>1, <1>1, HandTypes DEF Linked, MaybeSlot
  <2>6. Owns(g) => call[g].at \in Chosen
    BY DEF Owns, Starting, Chosen
  <2>7. Progress(g)'
    BY <2>1, <2>2, <2>3, <2>4, <2>5, <2>6, <1>2, <1>3
       DEF Progress, SameClient, SameStop, Chosen
  <2> QED BY <2>2, <2>7
<1>5. OwnersApart'
  BY <1>2 DEF PoolInv, OwnersApart, Owns
<1>6. \A j \in Keys : SlotFits(j)'
  BY <1>1, <1>2, <1>3 DEF PoolInv, SlotFits, SameClient, SameStop, MaybeSlot
<1>7. CheckerFits'
  <2>1. CASE Age(k)
    <3>1. checker' = checker
      BY <2>1 DEF Age
    <3> QED BY <3>1, <1>1, <1>2, <1>3 DEF PoolInv, CheckerFits, InHand, HeldSlots,
               TypeOK, MaybeSlot
  <2>2. CASE CheckIdle(k)
    BY <2>2, <1>2 DEF CheckIdle, CheckerFits, Quiet, InHand, HeldSlots
  <2> QED BY <2>1, <2>2
<1>8. ConnsExact'
  <2>1. \A j \in Keys : Counted(j)' = Counted(j)
    BY <1>2 DEF Counted
  <2>2. UNION {Counted(j)' : j \in Keys} = UNION {Counted(j) : j \in Keys}
    BY <2>1
  <2>3. \A j \in Keys : clients[j] # 0 => slots'[clients[j]].conns = Cardinality(Counted(j)')
    BY <2>1, <1>1, <1>3 DEF PoolInv, ConnsExact, MaybeSlot
  <2>4. totalConns' = Cardinality(UNION {Counted(j)' : j \in Keys})
    BY <2>2, <1>2 DEF PoolInv, ConnsExact
  <2> QED BY <2>3, <2>4, <1>2 DEF ConnsExact
<1>9. ClientsReachable'
  <2>1. \A c \in running : c[1] \in Keys
    BY <1>1, ClientFacts DEF TypeOK
  <2> QED BY <2>1, <1>1, <1>2, <1>3 DEF PoolInv, ClientsReachable, SameClient,
             SameStop, MaybeSlot
<1> QED BY <1>1, <1>4, <1>5, <1>6, <1>7, <1>8, <1>9 DEF PoolInv

LEMMA EvictInv ==
    ASSUME PoolInv, Evict
    PROVE  PoolInv'
<1>1. /\ TypeOK /\ \A j \in Keys : clients[j] \in MaybeSlot
      /\ checker.slot # 0 /\ call' = call /\ totalConns' = totalConns
  BY DEF PoolInv, TypeOK, Evict
<1>2. PICK k \in Keys : k = checker.key
  BY <1>1 DEF TypeOK
<1>3. PICK s \in SlotIds : s = checker.slot /\ s = clients[k] /\ ~InHand(s) /\ s # 0
  BY <1>1, <1>2, BotsFacts DEF PoolInv, CheckerFits, TypeOK, MaybeSlot
<1>4. /\ running' = running \ {slots[s].stop}
      /\ clients' = [clients EXCEPT ![k] = 0]
      /\ slots' = [slots EXCEPT ![s] = NewSlot(UserKey)]
      /\ checker' = [key |-> UserKey, slot |-> 0]
      /\ UNCHANGED <<currentIdx, open>>
  BY <1>2, <1>3 DEF Evict
<1>5. /\ \A t \in SlotIds : t # s => slots'[t] = slots[t]
      /\ clients'[k] = 0 /\ \A j \in Keys : j # k => clients'[j] = clients[j]
  BY <1>1, <1>4 DEF TypeOK
<1>6. \A j \in Keys : j # k => clients[j] # s
  BY <1>3, OneKey DEF PoolInv
<1>7. /\ ~slots[s].ready => slots[s].stop = NoClient
      /\ slots[s].ready => slots[s].stop[1] = k
  BY <1>3 DEF PoolInv, SlotFits
<1>8. TypeOK'
  <2>1. UserKey \in Keys /\ NewSlot(UserKey) \in SlotRecord
    BY BotsFacts, SlotNew
  <2>2. slots' \in [SlotIds -> SlotRecord] /\ clients' \in [Keys -> MaybeSlot]
    BY <2>1, <1>1, <1>4 DEF TypeOK, MaybeSlot
  <2>3. running' \subseteq Clients /\ checker' \in [key : Keys, slot : MaybeSlot]
    BY <2>1, <1>1, <1>4 DEF TypeOK, MaybeSlot
  <2> QED BY <2>2, <2>3, <1>1, <1>4 DEF TypeOK
<1>9. ASSUME NEW g \in Calls PROVE (Shape(g) /\ Linked(g) /\ Progress(g))'
  <2>1. Shape(g) /\ Linked(g) /\ Progress(g) /\ s \notin HeldSlots(g)
    BY <1>3 DEF PoolInv, InHand
  <2>2. Shape(g)' /\ (Owns(g)' <=> Owns(g))
    BY <2>1, <1>1 DEF Shape, Owns
  <2>3. call[g].pc # s /\ (call[g].pc # 0 => call[g].key # k /\ call[g].pc \in SlotIds)
    BY <2>1, <1>1, <1>3, HandTypes DEF HeldSlots, Linked
  <2>4. call[g].at = "use" => call[g].key # k
    BY <1>1, <1>2, BusyKept DEF Busy
  <2>5. call[g].key \in Keys
    BY <1>1, HandTypes
  <2>6. Linked(g)'
    <3>1. ASSUME NEW i \in DOMAIN call[g].cands PROVE clients'[Bots[i]] = call[g].cands[i]
      <4>1. call[g].cands[i] # s /\ clients[Bots[i]] = call[g].cands[i] /\ Bots[i] \in Keys
        BY <2>1, <1>1, HandTypes DEF HeldSlots, Range, Linked
      <4>2. Bots[i] # k
        BY <4>1, <1>3
      <4> QED BY <4>1, <4>2, <1>5
    <3> QED BY <3>1, <2>1, <2>3, <2>4, <2>5, <1>1, <1>5 DEF Linked
  <2>7. call[g].at \in Chosen => call[g].pc # 0
    BY <2>1 DEF Shape
  <2>8. Owns(g) => call[g].at \in Chosen
    BY DEF Owns, Starting, Chosen
  <2>9. call[g].at = "publish" => call[g].made \in running'
    <3>1. call[g].at = "publish" =>
            call[g].made \in Clients /\ call[g].made[1] # k /\ call[g].made \in running
      BY <2>1, <2>3, <2>7 DEF Shape, Chosen, Progress
    <3> QED BY <3>1, <1>4, <1>7, ClientFacts
  <2>10. call[g].at = "use" => /\ clients'[call[g].key] = clients[call[g].key]
                               /\ slots'[clients[call[g].key]] = slots[clients[call[g].key]]
    BY <2>1, <2>4, <2>5, <1>1, <1>5, <1>6 DEF Linked, MaybeSlot
  <2>11. call[g].at \in Chosen => slots'[call[g].pc] = slots[call[g].pc]
    BY <2>3, <2>7, <1>5
  <2>12. Progress(g)'
    BY <2>1, <2>2, <2>8, <2>9, <2>10, <2>11, <1>1 DEF Progress, Chosen
  <2> QED BY <2>2, <2>6, <2>12
<1>10. OwnersApart'
  BY <1>1 DEF PoolInv, OwnersApart, Owns
<1>11. ASSUME NEW j \in Keys PROVE SlotFits(j)'
  <2>1. CASE j = k
    BY <2>1, <1>5 DEF SlotFits
  <2>2. CASE j # k
    <3>1. clients'[j] = clients[j] /\ clients[j] # s
      BY <2>2, <1>5, <1>6
    <3>2. clients[j] # 0 => slots'[clients[j]] = slots[clients[j]] /\ clients[j] \in SlotIds
      BY <3>1, <1>1, <1>5 DEF MaybeSlot
    <3>3. clients[j] # 0 /\ slots[clients[j]].ready =>
            slots[clients[j]].stop \in running' /\ slots[clients[j]].stop[1] = j
      <4>1. clients[j] # 0 /\ slots[clients[j]].ready =>
              slots[clients[j]].stop \in running /\ slots[clients[j]].stop[1] = j
        BY DEF PoolInv, SlotFits
      <4>2. running \subseteq Clients
        BY <1>1 DEF TypeOK
      <4> QED BY <4>1, <4>2, <2>2, <1>4, <1>7, ClientFacts
    <3> QED BY <3>1, <3>2, <3>3 DEF PoolInv, SlotFits
  <2> QED BY <2>1, <2>2
<1>12. CheckerFits'
  BY <1>4 DEF CheckerFits
<1>13. ConnsExact'
  <2>1. \A j \in Keys : Counted(j)' = Counted(j)
    BY <1>1 DEF Counted
  <2>2. UNION {Counted(j)' : j \in Keys} = UNION {Counted(j) : j \in Keys}
    BY <2>1
  <2>3. ASSUME NEW j \in Keys, clients'[j] # 0
        PROVE  slots'[clients'[j]].conns = Cardinality(Counted(j)')
    <3>1. j # k /\ clients'[j] = clients[j] /\ clients[j] # s /\ clients[j] \in SlotIds
      BY <2>3, <1>1, <1>5, <1>6 DEF MaybeSlot
    <3> QED BY <3>1, <2>1, <2>3, <1>5 DEF PoolInv, ConnsExact
  <2>4. totalConns' = Cardinality(UNION {Counted(j)' : j \in Keys})
    BY <2>2, <1>1 DEF PoolInv, ConnsExact
  <2> QED BY <2>3, <2>4 DEF ConnsExact
<1>14. ClientsReachable'
  <2> SUFFICES ASSUME NEW c \in running'
               PROVE  (\/ clients[c[1]] # 0 /\ slots[clients[c[1]]].stop = c
                       \/ \E g \in Calls : call[g].at = "publish" /\ call[g].made = c)'
    BY DEF ClientsReachable
  <2>1. c \in running /\ c[1] \in Keys /\ c # slots[s].stop
    BY <1>1, <1>4, ClientFacts DEF TypeOK
  <2>2. CASE clients[c[1]] # 0 /\ slots[clients[c[1]]].stop = c
    <3>1. clients[c[1]] # s /\ c[1] # k
      BY <2>1, <2>2, <1>3
    <3>2. clients'[c[1]] = clients[c[1]] /\ clients[c[1]] \in SlotIds
      BY <3>1, <2>1, <2>2, <1>1, <1>5 DEF MaybeSlot
    <3> QED BY <3>1, <3>2, <2>2, <1>5
  <2>3. CASE \E g \in Calls : call[g].at = "publish" /\ call[g].made = c
    BY <2>3, <1>1
  <2> QED BY <2>1, <2>2, <2>3 DEF PoolInv, ClientsReachable
<1> QED BY <1>8, <1>9, <1>10, <1>11, <1>12, <1>13, <1>14 DEF PoolInv

LEMMA CloseInv ==
    ASSUME PoolInv, ~Races, Close
    PROVE  PoolInv'
<1>1. /\ TypeOK /\ \A h \in Calls : call[h].at \in {"new", "done"}
      /\ checker.slot = 0
      /\ running' = running \ {slots[clients[k]].stop :
                                 k \in {x \in Keys : clients[x] # 0}}
      /\ clients' = [k \in Keys |-> 0] /\ open' = FALSE
      /\ UNCHANGED <<slots, totalConns, currentIdx, call, checker>>
  BY DEF PoolInv, Close
<1>2. TypeOK'
  BY <1>1 DEF TypeOK, MaybeSlot
<1>3. ASSUME NEW h \in Calls PROVE (Shape(h) /\ Linked(h) /\ Progress(h))'
  <2>1. Shape(h)' /\ ~Owns(h)'
    BY <1>1 DEF PoolInv, Shape, Owns, Starting
  <2>2. call[h].pc = 0 /\ DOMAIN call[h].cands = {}
    BY <1>1 DEF PoolInv, Shape, Chosen
  <2>3. Linked(h)'
    BY <2>2, <1>1 DEF Linked
  <2>4. Progress(h)'
    BY <2>1, <1>1 DEF Progress
  <2> QED BY <2>1, <2>3, <2>4
<1>4. OwnersApart'
  BY <1>1 DEF PoolInv, OwnersApart, Owns
<1>5. (\A k \in Keys : SlotFits(k)') /\ CheckerFits'
  BY <1>1 DEF SlotFits, CheckerFits
<1>6. ConnsExact'
  <2>1. \A j \in Keys : Counted(j)' = Counted(j)
    BY <1>1 DEF Counted
  <2>2. UNION {Counted(j)' : j \in Keys} = UNION {Counted(j) : j \in Keys}
    BY <2>1
  <2>3. totalConns' = Cardinality(UNION {Counted(j)' : j \in Keys})
    BY <2>2, <1>1 DEF PoolInv, ConnsExact
  <2> QED BY <2>3, <1>1 DEF ConnsExact
<1>7. ClientsReachable'
  <2>1. ASSUME NEW c \in running' PROVE FALSE
    <3>1. c \in running /\ c[1] \in Keys
      BY <1>1, ClientFacts DEF TypeOK
    <3>2. clients[c[1]] # 0 /\ slots[clients[c[1]]].stop = c
      BY <3>1, <1>1 DEF PoolInv, ClientsReachable
    <3> QED BY <2>1, <3>1, <3>2, <1>1
  <2> QED BY <2>1 DEF ClientsReachable
<1> QED BY <1>2, <1>3, <1>4, <1>5, <1>6, <1>7 DEF PoolInv

----------------------------------------------------------------------------
(* The pool, with the circuit breaker beside it.                           *)

LEMMA InitInv ==
    ASSUME Init
    PROVE  PoolInv
<1>0. /\ \A k \in Keys : clients[k] = 0
      /\ \A h \in Calls : call[h] = NewCall
      /\ checker.slot = 0 /\ running = {} /\ totalConns = 0
  BY DEF Init
<1>1. TypeOK
  <2>1. /\ slots \in [SlotIds -> SlotRecord] /\ call \in [Calls -> CallRecord]
        /\ UserKey \in Keys
    BY SlotNew, CallNew, BotsFacts DEF Init
  <2> QED BY <2>1, BotsFacts DEF Init, TypeOK, MaybeSlot
<1>2. ASSUME NEW h \in Calls
      PROVE  Shape(h) /\ Linked(h) /\ Progress(h) /\ ~Owns(h) /\ ~Busy(h)
  <2>1. /\ call[h].at = "new" /\ call[h].op = "none" /\ call[h].pc = 0
        /\ call[h].selected = 0 /\ call[h].into = 0 /\ call[h].key = UserKey
        /\ call[h].claimed = FALSE /\ call[h].client = NoClient
        /\ DOMAIN call[h].cands = {}
    BY <1>0, NoCands DEF NewCall
  <2>2. Shape(h)
    BY <2>1 DEF Shape, Chosen, Starting
  <2> QED BY <2>1, <2>2 DEF Linked, Progress, Owns, Busy, Starting
<1>3. ConnsExact
  <2>1. {h \in Calls : Busy(h)} = {}
    BY <1>2
  <2>2. UNION {Counted(k) : k \in Keys} = {}
    BY <2>1, <1>1, CountedFacts
  <2> QED BY <2>2, <1>0, FS_EmptySet DEF ConnsExact
<1> QED BY <1>0, <1>1, <1>2, <1>3
        DEF PoolInv, OwnersApart, SlotFits, CheckerFits, ClientsReachable

\* Every step of the pool keeps the invariant, when the checker does not
\* meet a call.
LEMMA StepInv ==
    ASSUME PoolInv, ~Races, NEW h \in Calls, Step(h)
    PROVE  PoolInv'
BY UserLoadInv, UserStoreInv, UserRecheckInv, BotGatherInv, BotAvailableInv,
   BotSelectInv, BotNoneInv, BotRecheckInv, ClaimInv, WaitInv, CreateFailsInv,
   StartInv, PublishInv, CountInv, ExposeInv, ReadInv
   DEF Step

LEMMA StillInv ==
    ASSUME PoolInv, UNCHANGED vars
    PROVE  PoolInv'
<1> USE DEF vars, poolVars
<1>1. TypeOK' /\ OwnersApart' /\ CheckerFits' /\ ConnsExact' /\ ClientsReachable'
  BY DEF PoolInv, TypeOK, OwnersApart, Owns, CheckerFits, InHand, HeldSlots,
         ConnsExact, Counted, ClientsReachable
<1>2. \A h \in Calls : Shape(h)' /\ Linked(h)' /\ Progress(h)'
  BY DEF PoolInv, Shape, Linked, Progress, Owns
<1>3. \A k \in Keys : SlotFits(k)'
  BY DEF PoolInv, SlotFits
<1> QED BY <1>1, <1>2, <1>3 DEF PoolInv

LEMMA NextInv ==
    ASSUME PoolInv, ~Races, [Next]_vars
    PROVE  PoolInv'
<1>1. ASSUME NEW h \in Calls, GetUserClient(h) \/ GetBotClient(h)
      PROVE  PoolInv'
  BY <1>1, GetInv
<1>2. ASSUME NEW h \in Calls, Step(h)
      PROVE  PoolInv'
  BY <1>2, StepInv
<1>3. ASSUME NEW h \in Calls, Release(h)
      PROVE  PoolInv'
  BY <1>3, ReleaseInv
<1>4. ASSUME NEW k \in Keys, Age(k) \/ CheckIdle(k)
      PROVE  PoolInv'
  BY <1>4, IdleInv
<1>5. CASE Evict
  BY <1>5, EvictInv
<1>6. CASE Close
  BY <1>6, CloseInv
<1>7. CASE UNCHANGED vars
  BY <1>7, StillInv
<1> QED BY <1>1, <1>2, <1>3, <1>4, <1>5, <1>6, <1>7 DEF Next

\* What a step with the circuit breaker does to the pool.
LEMMA PoolRuns ==
    ASSUME [CircuitNext]_allVars
    PROVE  [Next]_vars
<1>1. ASSUME NEW h \in Calls, CallStep(h)
      PROVE  Step(h)
  BY <1>1 DEF CallStep, Step
<1>2. ASSUME NEW h \in Calls, LookStep(h)
      PROVE  Step(h) \/ UNCHANGED vars
  BY <1>2 DEF LookStep, LookStart, LookLoad, LookSwap, LookReset, LookEnd, Step
<1>3. ASSUME NEW h \in Calls, CreateFailsRecorded(h)
      PROVE  Step(h)
  BY <1>3 DEF CreateFailsRecorded, Step
<1>4. ASSUME NEW h \in Calls,
             StreamFails(h) \/ FailStep(h) \/ StreamSucceeds(h) \/ PassStep(h)
      PROVE  UNCHANGED vars
  BY <1>4 DEF StreamFails, FailStep, CountFailure, Trip, TripEnd,
              StreamSucceeds, PassStep, PassLoad, PassSwap, PassReset
<1>5. ASSUME NEW h \in Calls, StreamEnds(h)
      PROVE  Release(h)
  BY <1>5 DEF StreamEnds
<1>6. CASE PoolStep
  BY <1>6 DEF PoolStep, Next
<1>7. CASE EvictForgets \/ CloseForgets
  BY <1>7 DEF EvictForgets, CloseForgets, Next
<1>8. CASE Tick \/ UNCHANGED allVars
  BY <1>8 DEF Tick, allVars
<1> QED BY <1>1, <1>2, <1>3, <1>4, <1>5, <1>6, <1>7, <1>8 DEF CircuitNext, Next

\* When the checker does not meet a call, the pool keeps its invariant.
THEOREM PoolCorrect ==
    ASSUME ~Races
    PROVE  CircuitSpec => []PoolInv
<1>1. CircuitInit => PoolInv
  BY InitInv DEF CircuitInit
<1>2. PoolInv /\ [CircuitNext]_allVars => PoolInv'
  BY NextInv, PoolRuns
<1> QED BY <1>1, <1>2, PTL DEF CircuitSpec

\* The connections of a client are the requests that use it, however many
\* requests create, share and release clients at once (Acquire, Release,
\* startClient), when the checker does not meet a call.
THEOREM ConnectionsExact ==
    ASSUME ~Races
    PROVE  CircuitSpec => []ConnsExact
<1>1. PoolInv => ConnsExact
  BY DEF PoolInv
<1> QED BY <1>1, PoolCorrect, PTL

\* Every client that runs can be stopped by the idle checker and by Close,
\* or is about to be, when the checker does not meet a call.
THEOREM NoClientLost ==
    ASSUME ~Races
    PROVE  CircuitSpec => []ClientsReachable
<1>1. PoolInv => ClientsReachable
  BY DEF PoolInv
<1> QED BY <1>1, PoolCorrect, PTL

\* A call that is about to publish the client that it has started is the
\* only one for its key, and the slot of the key has no client yet.
LEMMA PublisherAlone ==
    ASSUME PoolInv, NEW h \in Calls, call[h].at = "publish"
    PROVE  /\ call[h].made \in Clients
           /\ LET k == call[h].made[1] IN
              /\ k \in Keys /\ clients[k] # 0 /\ slots[clients[k]].stop = NoClient
              /\ \A g \in Calls : call[g].at = "publish" /\ call[g].made[1] = k
                                  => g = h
<1>1. \A g \in Calls : call[g].at = "publish"
         => /\ call[g].made \in Clients /\ call[g].made[1] = call[g].key
            /\ clients[call[g].key] = call[g].pc /\ call[g].pc # 0
            /\ ~slots[call[g].pc].ready /\ Owns(g)
  BY DEF PoolInv, Shape, Linked, Progress, Owns, Chosen, Starting
<1>2. call[h].key \in Keys
  BY <1>1, ClientFacts
<1>3. slots[call[h].pc].stop = NoClient
  BY <1>1, <1>2 DEF PoolInv, SlotFits
<1>4. \A g \in Calls : call[g].at = "publish" /\ call[g].key = call[h].key
                       => g = h
  BY <1>1 DEF PoolInv, OwnersApart
<1> QED BY <1>1, <1>2, <1>3, <1>4

\* No two clients run with one session, however many requests find none at
\* once (the claim on Creating), when the checker does not meet a call.
THEOREM OneClient ==
    ASSUME ~Races
    PROVE  CircuitSpec => []OneClientPerKey
<1>1. ASSUME PoolInv
      PROVE  OneClientPerKey
  <2>1. SUFFICES ASSUME NEW c \in running, NEW d \in running, c[1] = d[1]
                 PROVE  c = d
    BY DEF OneClientPerKey
  <2>2. running \subseteq Clients /\ NoClient \notin Clients
    BY <1>1, ClientFacts DEF PoolInv, TypeOK
  <2>3. \A e \in running :
           \/ slots[clients[e[1]]].stop = e
           \/ \E h \in Calls : call[h].at = "publish" /\ call[h].made = e
    BY <1>1 DEF PoolInv, ClientsReachable
  <2>4. CASE \E h \in Calls : call[h].at = "publish" /\ call[h].made = c
    <3>1. PICK h \in Calls : call[h].at = "publish" /\ call[h].made = c
      BY <2>4
    <3>2. /\ slots[clients[c[1]]].stop = NoClient
          /\ \A g \in Calls : call[g].at = "publish" /\ call[g].made[1] = c[1]
                              => g = h
      BY <3>1, <1>1, PublisherAlone
    <3>3. PICK g \in Calls : call[g].at = "publish" /\ call[g].made = d
      BY <2>1, <2>2, <2>3, <3>2
    <3> QED BY <3>1, <3>2, <3>3, <2>1
  <2>5. CASE slots[clients[c[1]]].stop = c
    <3>1. ~ \E h \in Calls : call[h].at = "publish" /\ call[h].made = d
      BY <2>5, <2>2, <2>1, <1>1, PublisherAlone
    <3> QED BY <3>1, <2>1, <2>3, <2>5
  <2> QED BY <2>3, <2>4, <2>5
<1> QED BY <1>1, PoolCorrect, PTL

\* The client that a request streams from runs for as long as the stream
\* lasts, when the checker does not meet a call.
THEOREM StreamsKeepTheirClient ==
    ASSUME ~Races
    PROVE  CircuitSpec => []InUseRunning
<1>1. ASSUME PoolInv
      PROVE  InUseRunning
  <2>1. SUFFICES ASSUME NEW h \in Calls, call[h].at = "use",
                        call[h].client # NoClient
                 PROVE  call[h].client \in running
    BY DEF InUseRunning
  <2>2. /\ call[h].client = slots[clients[call[h].key]].stop
        /\ clients[call[h].key] # 0 /\ call[h].key \in Keys
    BY <2>1, <1>1, HandTypes DEF PoolInv, Progress, Linked
  <2>3. SlotFits(call[h].key) /\ slots[clients[call[h].key]].ready \in BOOLEAN
    BY <2>2, <1>1 DEF PoolInv, TypeOK, SlotRecord, MaybeSlot
  <2> QED BY <2>1, <2>2, <2>3 DEF SlotFits
<1> QED BY <1>1, PoolCorrect, PTL

----------------------------------------------------------------------------
(* The circuits.  These hold whether or not the checker meets a call.      *)

Circuits == [BotKeys -> [failures : Nat, openUntil : Nat]]
LookRecord == [at : {"none", "load", "swap", "reset"}, time : Nat,
               bot : Nat \ {0}, seen : Nat, avail : SUBSET Nat]
PassRecord == [at : {"none", "load", "swap", "reset"}, key : Keys, seen : Nat]

\* A request that is about to close a circuit saw a cool-down that had ended
\* by the time that it had read before.
LookFits(h) ==
    /\ look[h].time <= now
    /\ look[h].at \in {"swap", "reset"} => look[h].bot <= Len(Bots)
    /\ look[h].at = "swap" => look[h].seen <= look[h].time

\* So did a stream that has succeeded.
PassFits(h) ==
    /\ passing[h].at # "none" => passing[h].key \in BotKeys
    /\ passing[h].at = "swap" => passing[h].seen <= now

CircuitInv ==
    /\ DOMAIN clients = Keys /\ checker.key \in Keys
    /\ now \in Nat
    /\ circuit \in Circuits
    /\ look \in [Calls -> LookRecord]
    /\ passing \in [Calls -> PassRecord]
    /\ \A k \in BotKeys : circuit[k].openUntil <= now + Cooldown
    /\ \A h \in Calls : LookFits(h) /\ PassFits(h)

\* What CooldownKept says of a step.
OpenKept ==
    \A k \in BotKeys :
        clients'[k] # 0 /\ circuit[k].openUntil > now
        => circuit'[k].openUntil >= circuit[k].openUntil

LEMMA CircuitInitInv ==
    ASSUME CircuitInit
    PROVE  CircuitInv
<1>1. DOMAIN clients = Keys /\ checker.key \in Keys
  BY BotsFacts DEF CircuitInit, Init
<1>2. UserKey \in Keys /\ Cooldown \in Nat
  BY BotsFacts, CircuitAssumption DEF CircuitAssumption
<1>3. /\ circuit \in Circuits
      /\ \A k \in BotKeys : circuit[k].openUntil = 0
  BY DEF CircuitInit, Circuits, Fresh
<1>4. /\ look \in [Calls -> LookRecord]
      /\ \A h \in Calls : look[h].at = "none" /\ look[h].time = 0
  BY DEF CircuitInit, LookRecord, NoLook
<1>5. /\ passing \in [Calls -> PassRecord]
      /\ \A h \in Calls : passing[h].at = "none"
  BY <1>2 DEF CircuitInit, PassRecord, NoRecord
<1>6. now = 0
  BY DEF CircuitInit
<1>7. \A k \in BotKeys : circuit[k].openUntil <= now + Cooldown
  BY <1>2, <1>3, <1>6
<1>8. \A h \in Calls : LookFits(h) /\ PassFits(h)
  BY <1>4, <1>5, <1>6 DEF LookFits, PassFits
<1> QED BY <1>1, <1>3, <1>4, <1>5, <1>6, <1>7, <1>8 DEF CircuitInv

\* The pool keeps its keys.
LEMMA KeysKept ==
    ASSUME DOMAIN clients = Keys, checker.key \in Keys, [CircuitNext]_allVars
    PROVE  DOMAIN clients' = Keys /\ checker'.key \in Keys
<1> USE DEF poolVars
<1>1. [Next]_vars
  BY PoolRuns
<1>2. ASSUME NEW h \in Calls, Step(h)
      PROVE  DOMAIN clients' = Keys /\ checker' = checker
  BY <1>2 DEF Step, UserLoad, UserStore, UserRecheck, BotGather, BotAvailable,
              BotSelect, BotNone, BotRecheck, Claim, Wait, CreateFails,
              StartClient, PublishClient, CountClient, ExposeClient,
              AcquireClient, ReadClient, LoadOrStore
<1>3. ASSUME NEW h \in Calls, GetUserClient(h) \/ GetBotClient(h) \/ Release(h)
      PROVE  clients' = clients /\ checker' = checker
  BY <1>3 DEF GetUserClient, GetBotClient, Release
<1>4. ASSUME NEW k \in Keys, Age(k) \/ CheckIdle(k)
      PROVE  clients' = clients /\ checker'.key \in Keys
  BY <1>4 DEF Age, CheckIdle
<1>5. CASE Evict \/ Close
  BY <1>5, BotsFacts DEF Evict, Close
<1>6. CASE UNCHANGED vars
  BY <1>6 DEF vars
<1> QED BY <1>1, <1>2, <1>3, <1>4, <1>5, <1>6 DEF Next

\* What a step does to a circuit: whoever closes it saw its cool-down end.
CircuitMoves ==
    /\ circuit' \in Circuits
    /\ now' \in Nat /\ now <= now'
    /\ \A k \in BotKeys :
          \/ circuit'[k].openUntil = circuit[k].openUntil
          \/ circuit'[k].openUntil = 0 /\ (circuit[k].openUntil <= now \/ clients'[k] = 0)
          \/ circuit'[k].openUntil = now + Cooldown

LEMMA Swapped ==
    ASSUME CircuitInv, NEW k \in BotKeys, NEW seen \in Nat, seen <= now,
           SwapClosed(k, seen), now' = now
    PROVE  CircuitMoves
<1>1. PICK c \in [failures : Nat, openUntil : Nat] : c = circuit[k]
  BY DEF CircuitInv, Circuits
<1>2. CASE c.openUntil = seen
  <2>1. circuit' = [circuit EXCEPT ![k] = [c EXCEPT !.openUntil = 0]]
    BY <1>1, <1>2 DEF SwapClosed
  <2>2. /\ circuit' \in Circuits /\ circuit'[k].openUntil = 0
        /\ \A j \in BotKeys : j # k => circuit'[j] = circuit[j]
    BY <2>1, <1>1 DEF CircuitInv, Circuits
  <2> QED BY <2>2, <1>1, <1>2 DEF CircuitInv, CircuitMoves
<1>3. CASE c.openUntil # seen
  BY <1>1, <1>3 DEF SwapClosed, CircuitInv, CircuitMoves
<1> QED BY <1>2, <1>3

\* The counter of failures is set, or the circuit is opened, by whoever
\* records a failure or a success.
LEMMA Recorded ==
    ASSUME CircuitInv, NEW k, now' = now,
           \/ StoreNoFailures(k)
           \/ circuit' = [circuit EXCEPT ![k].failures = @ + 1]
           \/ circuit' = [circuit EXCEPT ![k].openUntil = now + Cooldown]
    PROVE  CircuitMoves
<1>1. CASE k \notin BotKeys
  <2>1. circuit' = circuit
    BY <1>1 DEF CircuitInv, Circuits, StoreNoFailures
  <2> QED BY <2>1 DEF CircuitInv, CircuitMoves
<1>2. CASE k \in BotKeys
  <2>1. PICK c \in [failures : Nat, openUntil : Nat] : c = circuit[k]
    BY <1>2 DEF CircuitInv, Circuits
  <2>2. PICK n \in Nat : n = now + Cooldown
    BY CircuitAssumption DEF CircuitInv, CircuitAssumption
  <2>3. PICK d \in [failures : Nat, openUntil : Nat] :
           /\ circuit' = [circuit EXCEPT ![k] = d]
           /\ d.openUntil \in {c.openUntil, n}
    BY <2>1, <2>2 DEF StoreNoFailures
  <2>4. /\ circuit' \in Circuits /\ circuit'[k].openUntil = d.openUntil
        /\ \A j \in BotKeys : j # k => circuit'[j] = circuit[j]
    BY <2>3, <1>2 DEF CircuitInv, Circuits
  <2> QED BY <2>1, <2>2, <2>3, <2>4 DEF CircuitInv, CircuitMoves
<1> QED BY <1>1, <1>2

LEMMA MovesKeep ==
    ASSUME CircuitInv, CircuitMoves
    PROVE  /\ OpenKept
           /\ \A k \in BotKeys : circuit'[k].openUntil <= now' + Cooldown
<1>1. Cooldown \in Nat
  BY CircuitAssumption DEF CircuitAssumption
<1>2. ASSUME NEW k \in BotKeys
      PROVE  /\ clients'[k] # 0 /\ circuit[k].openUntil > now
                => circuit'[k].openUntil >= circuit[k].openUntil
             /\ circuit'[k].openUntil <= now' + Cooldown
  <2>1. /\ circuit[k].openUntil \in Nat /\ circuit[k].openUntil <= now + Cooldown
        /\ now \in Nat /\ now' \in Nat /\ now <= now'
    BY DEF CircuitInv, Circuits, CircuitMoves
  <2> QED BY <1>1, <2>1 DEF CircuitMoves
<1> QED BY <1>2 DEF OpenKept

LooksFit == look \in [Calls -> LookRecord] /\ \A h \in Calls : LookFits(h)
PassesFit == passing \in [Calls -> PassRecord] /\ \A h \in Calls : PassFits(h)

\* A step that leaves the loops over the candidates, or the recordings of a
\* success, alone.
LEMMA LooksKept ==
    ASSUME CircuitInv, look' = look, now' \in Nat, now <= now'
    PROVE  LooksFit'
<1>1. ASSUME NEW h \in Calls
      PROVE  LookFits(h)'
  <2>1. look[h] \in LookRecord /\ now \in Nat /\ LookFits(h)
    BY DEF CircuitInv
  <2>2. look[h].time \in Nat
    BY <2>1 DEF LookRecord
  <2> QED BY <2>1, <2>2 DEF LookFits
<1> QED BY <1>1 DEF LooksFit, CircuitInv

LEMMA PassesKept ==
    ASSUME CircuitInv, passing' = passing, now' \in Nat, now <= now'
    PROVE  PassesFit'
<1>1. ASSUME NEW h \in Calls
      PROVE  PassFits(h)'
  <2>1. passing[h] \in PassRecord /\ now \in Nat /\ PassFits(h)
    BY DEF CircuitInv
  <2>2. passing[h].seen \in Nat
    BY <2>1 DEF PassRecord
  <2> QED BY <2>1, <2>2 DEF PassFits
<1> QED BY <1>1 DEF PassesFit, CircuitInv

\* The loop of call h goes on with the local variables l.
LEMMA LookSet ==
    ASSUME CircuitInv, NEW h \in Calls, NEW l \in LookRecord, now' = now,
           look' = [look EXCEPT ![h] = l], l.time <= now,
           l.at \in {"swap", "reset"} => l.bot <= Len(Bots),
           l.at = "swap" => l.seen <= l.time
    PROVE  LooksFit'
<1>1. /\ look' \in [Calls -> LookRecord] /\ look'[h] = l
      /\ \A g \in Calls : g # h => look'[g] = look[g]
  BY DEF CircuitInv
<1> QED BY <1>1 DEF CircuitInv, LooksFit, LookFits

LEMMA PassSet ==
    ASSUME CircuitInv, NEW h \in Calls, NEW p \in PassRecord, now' = now,
           passing' = [passing EXCEPT ![h] = p],
           p.at # "none" => p.key \in BotKeys, p.at = "swap" => p.seen <= now
    PROVE  PassesFit'
<1>1. /\ passing' \in [Calls -> PassRecord] /\ passing'[h] = p
      /\ \A g \in Calls : g # h => passing'[g] = passing[g]
  BY DEF CircuitInv
<1> QED BY <1>1 DEF CircuitInv, PassesFit, PassFits

\* A step on the circuits that keeps what is known of both.
CircuitStep == CircuitMoves /\ LooksFit' /\ PassesFit'

LEMMA StillCircuits ==
    ASSUME CircuitInv, circuit' = circuit, now' \in Nat, now <= now'
    PROVE  CircuitMoves
BY DEF CircuitInv, CircuitMoves

\* isBotClientAvailable.
LEMMA LookRecords ==
    ASSUME NEW l \in LookRecord, NEW a \in {"none", "load", "swap", "reset"},
           NEW t \in Nat, NEW n \in Nat
    PROVE  /\ [l EXCEPT !.at = a, !.time = t] \in LookRecord
           /\ [l EXCEPT !.at = a, !.seen = n] \in LookRecord
           /\ [l EXCEPT !.at = a] \in LookRecord
           /\ [l EXCEPT !.bot = @ + 1] \in LookRecord
           /\ [l EXCEPT !.bot = @ + 1, !.avail = @ \cup {l.bot}] \in LookRecord
           /\ [l EXCEPT !.at = "load", !.seen = 0, !.bot = @ + 1,
                        !.avail = @ \cup {l.bot}] \in LookRecord
           /\ NoLook \in LookRecord
<1>1. PICK b \in Nat \ {0} : b = l.bot + 1
  BY DEF LookRecord
<1>2. PICK v \in SUBSET Nat : v = l.avail \cup {l.bot}
  BY DEF LookRecord
<1>3. [l EXCEPT !.at = a, !.time = t] \in LookRecord
  BY DEF LookRecord
<1>4. [l EXCEPT !.at = a, !.seen = n] \in LookRecord
  BY DEF LookRecord
<1>5. [l EXCEPT !.at = a] \in LookRecord
  BY DEF LookRecord
<1>6. [l EXCEPT !.bot = b] \in LookRecord
  BY DEF LookRecord
<1>7. [l EXCEPT !.bot = b, !.avail = v] \in LookRecord
  BY DEF LookRecord
<1>8. [l EXCEPT !.at = "load", !.seen = 0, !.bot = b, !.avail = v] \in LookRecord
  BY DEF LookRecord
<1>9. NoLook \in LookRecord
  BY DEF NoLook, LookRecord
<1> QED BY <1>1, <1>2, <1>3, <1>4, <1>5, <1>6, <1>7, <1>8, <1>9

LEMMA LookStepKeeps ==
    ASSUME CircuitInv, NEW h \in Calls, LookStep(h)
    PROVE  CircuitStep
<1>0. /\ look[h] \in LookRecord /\ LookFits(h) /\ now \in Nat
      /\ DOMAIN Bots = 1..Len(Bots) /\ Len(Bots) \in Nat
  BY BotsFacts DEF CircuitInv
<1>1. PICK l \in LookRecord : l = look[h]
  BY <1>0
<1>2. /\ l.time \in Nat /\ l.bot \in Nat \ {0} /\ l.seen \in Nat
      /\ l.time <= now /\ (l.at \in {"swap", "reset"} => l.bot <= Len(Bots))
      /\ (l.at = "swap" => l.seen <= l.time)
      /\ l.avail \in SUBSET Nat
  BY <1>0, <1>1 DEF LookRecord, LookFits
<1>3. l.bot <= Len(Bots) => Bots[l.bot] \in BotKeys
  BY <1>0, <1>2 DEF BotKeys, Range
<1>4. now' = now /\ passing' = passing
  BY DEF LookStep, LookStart, LookLoad, LookSwap, LookReset, LookEnd
<1>5. PassesFit'
  BY <1>0, <1>4, PassesKept
<1>6. PICK next \in LookRecord :
         next = [l EXCEPT !.at = "load", !.seen = 0, !.bot = @ + 1,
                          !.avail = @ \cup {l.bot}]
  BY <1>2, LookRecords
<1>12. next.at = "load" /\ next.time = l.time
  BY <1>6 DEF LookRecord
<1>7. CASE LookStart(h)
  <2>1. PICK m \in LookRecord : m = [l EXCEPT !.at = "load", !.time = now]
    BY <1>0, LookRecords
  <2>2. look' = [look EXCEPT ![h] = m] /\ m.at = "load" /\ m.time = now
    BY <1>7, <1>1, <2>1 DEF LookStart, LookRecord
  <2>4. m.time <= now
    BY <2>2, <1>0
  <2>3. LooksFit'
    BY <2>2, <2>4, <1>4, LookSet
  <2> QED BY <2>3, <1>0, <1>4, <1>5, <1>7, StillCircuits DEF CircuitStep, LookStart
<1>8. CASE LookLoad(h)
  <2>1. PICK o \in Nat : o = circuit[Bots[l.bot]].openUntil
    BY <1>8, <1>1, <1>3 DEF LookLoad, CircuitInv, Circuits
  <2>2. l.at = "load" /\ l.bot <= Len(Bots)
    BY <1>8, <1>1 DEF LookLoad
  <2>3. PICK m1 \in LookRecord, m2 \in LookRecord, m3 \in LookRecord :
           /\ m1 = [l EXCEPT !.bot = @ + 1, !.avail = @ \cup {l.bot}]
           /\ m2 = [l EXCEPT !.bot = @ + 1]
           /\ m3 = [l EXCEPT !.at = "swap", !.seen = o]
    BY <2>1, LookRecords
  <2>4. /\ m1.time = l.time /\ m1.at = "load" /\ m2.time = l.time /\ m2.at = "load"
        /\ m3.time = l.time /\ m3.at = "swap" /\ m3.bot = l.bot /\ m3.seen = o
    BY <2>2, <2>3 DEF LookRecord
  <2>6. \/ look' = [look EXCEPT ![h] = m1]
        \/ look' = [look EXCEPT ![h] = m2]
        \/ look' = [look EXCEPT ![h] = m3] /\ o <= l.time
    BY <1>8, <1>1, <1>2, <2>1, <2>3 DEF LookLoad
  <2>5. LooksFit'
    BY <2>2, <2>4, <2>6, <1>2, <1>4, LookSet
  <2> QED BY <2>5, <1>0, <1>4, <1>5, <1>8, StillCircuits DEF CircuitStep, LookLoad
<1>9. CASE LookSwap(h)
  <2>1. /\ l.at = "swap" /\ SwapClosed(Bots[l.bot], l.seen)
    BY <1>9, <1>1 DEF LookSwap
  <2>2. l.seen <= now
    BY <2>1, <1>0, <1>2
  <2>3. CircuitMoves
    BY <2>1, <2>2, <1>2, <1>3, <1>4, Swapped
  <2>4. PICK m \in LookRecord : m = [l EXCEPT !.at = "reset"]
    BY <1>2, LookRecords
  <2>5. m.time = l.time /\ m.at = "reset" /\ m.bot = l.bot
    BY <2>4 DEF LookRecord
  <2>6. look' = [look EXCEPT ![h] = m] \/ look' = [look EXCEPT ![h] = next]
    BY <1>9, <1>1, <1>6, <2>4 DEF LookSwap
  <2>7. LooksFit'
    BY <2>1, <2>5, <2>6, <1>2, <1>4, <1>12, LookSet
  <2> QED BY <2>3, <2>7, <1>5 DEF CircuitStep
<1>10. CASE LookReset(h)
  <2>1. StoreNoFailures(Bots[l.bot]) /\ look' = [look EXCEPT ![h] = next]
    BY <1>10, <1>1, <1>6 DEF LookReset
  <2>2. CircuitMoves
    BY <2>1, <1>4, Recorded
  <2>3. LooksFit'
    BY <2>1, <1>2, <1>4, <1>12, LookSet
  <2> QED BY <2>2, <2>3, <1>5 DEF CircuitStep
<1>11. CASE LookEnd(h)
  <2>1. PICK m \in LookRecord : m = NoLook
    BY <1>1, <1>0, LookRecords
  <2>2. look' = [look EXCEPT ![h] = m] /\ m.at = "none" /\ m.time = 0
    BY <1>11, <2>1 DEF LookEnd, NoLook
  <2>4. m.time <= now
    BY <2>2, <1>0
  <2>3. LooksFit'
    BY <2>2, <2>4, <1>4, LookSet
  <2> QED BY <2>3, <1>0, <1>4, <1>5, <1>11, StillCircuits DEF CircuitStep, LookEnd
<1> QED BY <1>7, <1>8, <1>9, <1>10, <1>11 DEF LookStep

\* RecordBotFailure: it opens a circuit and never closes one.
LEMMA FailStepKeeps ==
    ASSUME CircuitInv, NEW h \in Calls, FailStep(h)
    PROVE  CircuitStep
<1>1. now' = now /\ look' = look /\ passing' = passing /\ now \in Nat
  BY DEF FailStep, CountFailure, Trip, TripEnd, CircuitInv
<1>2. LooksFit' /\ PassesFit'
  BY <1>1, LooksKept, PassesKept
<1>3. CircuitMoves
  BY <1>1, Recorded DEF FailStep, CountFailure, Trip, TripEnd
<1> QED BY <1>2, <1>3 DEF CircuitStep

\* RecordBotSuccess: it closes a circuit whose cool-down has ended.
LEMMA PassStepKeeps ==
    ASSUME CircuitInv, NEW h \in Calls, PassStep(h)
    PROVE  CircuitStep
<1>1. now' = now /\ look' = look /\ now \in Nat
  BY DEF PassStep, PassLoad, PassSwap, PassReset, CircuitInv
<1>2. LooksFit'
  BY <1>1, LooksKept
<1>3. PICK p \in PassRecord : p = passing[h]
  BY DEF CircuitInv
<1>4. /\ p.key \in Keys /\ p.seen \in Nat
      /\ p.at # "none" => p.key \in BotKeys
      /\ p.at = "swap" => p.seen <= now
  BY <1>3 DEF PassRecord, CircuitInv, PassFits
<1>5. PICK none \in PassRecord : none = NoRecord
  <2>1. UserKey \in Keys
    BY BotsFacts
  <2> QED BY <2>1 DEF NoRecord, PassRecord
<1>9. none.at = "none"
  BY <1>5 DEF NoRecord
<1>6. CASE PassLoad(h)
  <2>1. p.at = "load" /\ p.key \in BotKeys
    BY <1>6, <1>3, <1>4 DEF PassLoad
  <2>2. PICK o \in Nat : o = circuit[p.key].openUntil
    BY <2>1 DEF CircuitInv, Circuits
  <2>3. PICK p1 \in PassRecord, p2 \in PassRecord :
           p1 = [p EXCEPT !.at = "reset"] /\ p2 = [p EXCEPT !.at = "swap", !.seen = o]
    BY <2>2 DEF PassRecord
  <2>4. /\ p1.at = "reset" /\ p1.key = p.key
        /\ p2.at = "swap" /\ p2.key = p.key /\ p2.seen = o
    BY <2>3 DEF PassRecord
  <2>5. \/ passing' = [passing EXCEPT ![h] = p1]
        \/ passing' = [passing EXCEPT ![h] = none]
        \/ passing' = [passing EXCEPT ![h] = p2] /\ o <= now
    <3>1. /\ o = 0 => passing' = [passing EXCEPT ![h] = p1]
          /\ o # 0 /\ o > now => passing' = [passing EXCEPT ![h] = none]
          /\ o # 0 /\ ~(o > now) => passing' = [passing EXCEPT ![h] = p2]
      <4>1. passing' = [passing EXCEPT
                          ![h] = CASE o = 0 -> [p EXCEPT !.at = "reset"]
                                   [] o > now -> NoRecord
                                   [] OTHER -> [p EXCEPT !.at = "swap", !.seen = o]]
        BY <1>3, <1>6, <2>2 DEF PassLoad
      <4>2. o = 0 => ~(o > now)
        BY <1>1
      <4> QED BY <4>1, <4>2, <1>5, <2>3
    <3> QED BY <3>1, <1>1, <2>2
  <2>6. PassesFit'
    BY <1>1, <1>9, <2>1, <2>4, <2>5, PassSet
  <2> QED BY <1>1, <1>2, <1>6, <2>6, StillCircuits DEF PassLoad, CircuitStep
<1>7. CASE PassSwap(h)
  <2>1. p.at = "swap" /\ SwapClosed(p.key, p.seen)
    BY <1>7, <1>3 DEF PassSwap
  <2>2. CircuitMoves
    BY <2>1, <1>1, <1>4, Swapped
  <2>3. PICK p1 \in PassRecord, p2 \in PassRecord :
           p1 = [p EXCEPT !.at = "reset", !.seen = 0]
           /\ p2 = [p EXCEPT !.at = "load", !.seen = 0]
    BY DEF PassRecord
  <2>4. p1.at = "reset" /\ p1.key = p.key /\ p2.at = "load" /\ p2.key = p.key
    BY <2>3 DEF PassRecord
  <2>5. \/ passing' = [passing EXCEPT ![h] = p1]
        \/ passing' = [passing EXCEPT ![h] = p2]
    BY <1>3, <1>7, <2>3 DEF PassSwap
  <2>6. PassesFit'
    BY <1>1, <1>4, <2>1, <2>4, <2>5, PassSet
  <2> QED BY <1>2, <2>2, <2>6 DEF CircuitStep
<1>8. CASE PassReset(h)
  <2>1. CircuitMoves
    BY <1>8, <1>1, Recorded DEF PassReset
  <2>2. passing' = [passing EXCEPT ![h] = none]
    BY <1>5, <1>8 DEF PassReset
  <2>3. PassesFit'
    BY <1>1, <1>9, <2>2, PassSet
  <2> QED BY <1>2, <2>1, <2>3 DEF CircuitStep
<1> QED BY <1>6, <1>7, <1>8 DEF PassStep

LEMMA SucceedsKeeps ==
    ASSUME CircuitInv, NEW h \in Calls, StreamSucceeds(h)
    PROVE  CircuitStep
<1>1. /\ now' = now /\ look' = look /\ circuit' = circuit /\ now \in Nat
      /\ call[h].key \in BotKeys
  BY DEF StreamSucceeds, CircuitInv
<1>2. LooksFit' /\ CircuitMoves
  BY <1>1, LooksKept, StillCircuits
<1>3. PICK p \in PassRecord : p = passing[h]
  BY DEF CircuitInv
<1>4. PICK q \in PassRecord : q = [p EXCEPT !.at = "load", !.key = call[h].key]
  BY <1>1 DEF PassRecord, Keys, BotKeys
<1>5. q.at = "load" /\ q.key \in BotKeys
  BY <1>1, <1>4 DEF PassRecord
<1>6. passing' = [passing EXCEPT ![h] = q]
  BY <1>3, <1>4 DEF StreamSucceeds
<1>7. PassesFit'
  BY <1>1, <1>5, <1>6, PassSet
<1> QED BY <1>2, <1>7 DEF CircuitStep

\* The circuits of keys that the pool forgets.
LEMMA ForgetKeeps ==
    ASSUME CircuitInv, NEW keys, Forget(keys),
           \A k \in keys \cap BotKeys : clients'[k] = 0
    PROVE  CircuitStep
<1>1. now' = now /\ look' = look /\ now \in Nat
  BY DEF Forget, CircuitInv
<1>2. LooksFit'
  BY <1>1, LooksKept
<1>3. Fresh \in [failures : Nat, openUntil : Nat] /\ Fresh.openUntil = 0
  BY DEF Fresh
<1>4. CircuitMoves
  <2>1. circuit' = [k \in BotKeys |-> IF k \in keys THEN Fresh ELSE circuit[k]]
    BY DEF Forget
  <2> HIDE DEF Fresh
  <2>2. circuit' \in Circuits
    BY <2>1, <1>3 DEF CircuitInv, Circuits
  <2> QED BY <2>1, <2>2, <1>1, <1>3 DEF CircuitMoves
<1>5. PassesFit'
  <2>1. NoRecord \in PassRecord /\ NoRecord.at = "none"
    BY BotsFacts DEF NoRecord, PassRecord
  <2>2. passing' = [h \in Calls |-> IF passing[h].key \in keys THEN NoRecord
                                    ELSE passing[h]]
    BY DEF Forget
  <2> QED BY <2>1, <2>2, <1>1 DEF PassesFit, PassFits, CircuitInv
<1> QED BY <1>2, <1>4, <1>5 DEF CircuitStep

LEMMA CircuitNextKeeps ==
    ASSUME CircuitInv, [CircuitNext]_allVars
    PROVE  CircuitInv' /\ OpenKept
<1>0. now \in Nat
  BY DEF CircuitInv
<1>1. ASSUME circuit' = circuit, look' = look, passing' = passing,
             now' \in Nat, now <= now'
      PROVE  CircuitStep
  BY <1>1, StillCircuits, LooksKept, PassesKept DEF CircuitStep
<1>2. ASSUME circuit' = circuit, look' = look, passing' = passing, now' = now
      PROVE  CircuitStep
  BY <1>0, <1>1, <1>2
<1>3. ASSUME NEW h \in Calls, CallStep(h) \/ CreateFailsRecorded(h)
                              \/ StreamFails(h) \/ StreamEnds(h)
      PROVE  CircuitStep
  BY <1>2, <1>3 DEF CallStep, CreateFailsRecorded, StreamFails, StreamEnds, circuitVars
<1>4. ASSUME NEW h \in Calls, LookStep(h) \/ FailStep(h) \/ PassStep(h)
                              \/ StreamSucceeds(h)
      PROVE  CircuitStep
  BY <1>4, LookStepKeeps, FailStepKeeps, PassStepKeeps, SucceedsKeeps
<1>5. ASSUME PoolStep \/ UNCHANGED allVars
      PROVE  CircuitStep
  BY <1>2, <1>5 DEF PoolStep, allVars, circuitVars
<1>6. ASSUME EvictForgets
      PROVE  CircuitStep
  <2>1. clients'[checker.key] = 0
    BY <1>6 DEF EvictForgets, Evict, CircuitInv
  <2> QED BY <2>1, <1>6, ForgetKeeps DEF EvictForgets
<1>7. ASSUME CloseForgets
      PROVE  CircuitStep
  <2>1. \A k \in Keys : clients'[k] = 0
    BY <1>7 DEF CloseForgets, Close
  <2> QED BY <2>1, <1>7, ForgetKeeps DEF CloseForgets
<1>8. ASSUME Tick
      PROVE  CircuitStep
  BY <1>0, <1>1, <1>8 DEF Tick
<1>9. CircuitStep
  BY <1>3, <1>4, <1>5, <1>6, <1>7, <1>8 DEF CircuitNext
<1>10. OpenKept /\ \A k \in BotKeys : circuit'[k].openUntil <= now' + Cooldown
  BY <1>9, MovesKeep DEF CircuitStep
<1>11. DOMAIN clients' = Keys /\ checker'.key \in Keys
  BY KeysKept DEF CircuitInv
<1> QED BY <1>9, <1>10, <1>11
        DEF CircuitStep, CircuitMoves, LooksFit, PassesFit, CircuitInv

\* An open circuit stays open for its cool-down, however the loops over the
\* candidates, the failures, the successes and the removals of bots
\* interleave, and whether or not the checker meets a call.
THEOREM CooldownIsKept == CircuitSpec => CooldownKept
<1>1. CircuitInit => CircuitInv
  BY CircuitInitInv
<1>2. CircuitInv /\ [CircuitNext]_allVars => CircuitInv'
  BY CircuitNextKeeps
<1>3. CircuitInv /\ [CircuitNext]_allVars
      => [\A k \in BotKeys :
             clients'[k] # 0 /\ circuit[k].openUntil > now
             => circuit'[k].openUntil >= circuit[k].openUntil]_allVars
  BY CircuitNextKeeps DEF OpenKept
<1> QED BY <1>1, <1>2, <1>3, PTL DEF CircuitSpec, CooldownKept
=============================================================================
