---------------------- MODULE PollingBroadcasterProofs ----------------------
(***************************************************************************)
(* Proofs about the broadcaster of a single instance, for every set of     *)
(* streams and events and every size and time.                             *)
(***************************************************************************)
EXTENDS PollingBroadcaster, FiniteSetTheorems,
        SequenceTheorems, TLAPS

----------------------------------------------------------------------------
(* The subscribers slice.                                                  *)

Places == {"off", "start", "on", "stop", "drain", "closed"}
Open == {s \in Subs : pc[s] \in {"start", "on"}}

\* The slice is nil, or within an array.
SliceTyped ==
    /\ pc \in [Subs -> Places]
    /\ arrays \in Seq(Seq(Subs \cup {Nobody}))
    /\ slice \in [array : Nat, len : Nat]
    /\ \/ slice.array = 0 /\ slice.len = 0
       \/ /\ slice.array \in 1..Len(arrays)
          /\ slice.len \in 1..Len(arrays[slice.array])

\* No stream is in the slice twice.
SliceApart ==
    \A i, j \in 1..slice.len :
        arrays[slice.array][i] = arrays[slice.array][j] => i = j

SliceInv == SliceTyped /\ SliceApart /\ SubscribersExact

LEMMA SliceInit ==
    ASSUME Init
    PROVE  SliceInv
<1>1. /\ pc = [s \in Subs |-> "off"] /\ arrays = << >>
      /\ slice = NilSlice
  BY DEF Init
<1>2. slice.array = 0 /\ slice.len = 0 /\ slice \in [array : Nat, len : Nat]
  BY <1>1 DEF NilSlice
<1>3. SliceTyped
  BY <1>1, <1>2 DEF SliceTyped, Places
<1>4. Subscribed = {} /\ {s \in Subs : pc[s] \in {"start", "on"}} = {}
  BY <1>1, <1>2 DEF Subscribed
<1>5. SubscribersExact
  BY <1>2, <1>4, FS_EmptySet DEF SubscribersExact
<1> QED BY <1>2, <1>3, <1>5 DEF SliceInv, SliceApart

\* The slice keeps its elements and who is open, so it stays exact.
LEMMA SliceKept ==
    ASSUME SliceInv, arrays' = arrays, slice' = slice, pc' \in [Subs -> Places],
           \A s \in Subs : pc'[s] \in {"start", "on"} <=> pc[s] \in {"start", "on"}
    PROVE  SliceInv'
<1>1. Subscribed' = Subscribed
  BY DEF Subscribed
<1>2. SubscribersExact'
  BY <1>1 DEF SubscribersExact, SliceInv
<1> QED BY <1>2 DEF SliceInv, SliceTyped, SliceApart

\* append, in place or into a new array.
LEMMA Appended ==
    ASSUME SliceTyped, NEW s \in Subs, AppendSub(s), pc' \in [Subs -> Places]
    PROVE  /\ SliceTyped'
           /\ slice'.len = slice.len + 1
           /\ \A i \in 1..slice.len :
                 arrays'[slice'.array][i] = arrays[slice.array][i]
           /\ arrays'[slice'.array][slice.len + 1] = s
<1> DEFINE A == Subs \cup {Nobody}
           size == IF slice.array = 0 THEN 0 ELSE Len(arrays[slice.array])
           room == IF size = 0 THEN 1 ELSE 2 * size
           grown == [i \in 1..room |->
                       IF i <= slice.len THEN arrays[slice.array][i]
                       ELSE IF i = slice.len + 1 THEN s ELSE Nobody]
<1>1. /\ slice.len \in Nat /\ slice.array \in Nat /\ arrays \in Seq(Seq(A))
      /\ s \in A /\ Nobody \in A
  BY DEF SliceTyped
<1>2. /\ slice.array # 0 => /\ slice.array \in DOMAIN arrays
                            /\ arrays[slice.array] \in Seq(A)
                            /\ slice.len <= Len(arrays[slice.array])
      /\ slice.array = 0 => slice.len = 0
      /\ size \in Nat /\ slice.len <= size
  BY <1>1 DEF SliceTyped
<1>3. CASE slice.len < size
  <2>1. PICK a \in Seq(A) : a = arrays[slice.array]
    BY <1>2, <1>3
  <2>2. slice.array # 0 /\ slice.len + 1 \in 1..Len(a)
    BY <1>1, <1>2, <1>3, <2>1
  <2>3. /\ arrays' = [arrays EXCEPT ![slice.array] = [a EXCEPT ![slice.len + 1] = s]]
        /\ slice' = [slice EXCEPT !.len = @ + 1]
    <3>1. /\ arrays' = [arrays EXCEPT ![slice.array][slice.len + 1] = s]
          /\ slice' = [slice EXCEPT !.len = @ + 1]
      BY <1>3 DEF AppendSub
    <3> QED BY <3>1, <2>1
  <2>4. PICK b \in Seq(A) : b = [a EXCEPT ![slice.len + 1] = s]
    BY <1>1, <2>2, ExceptSeq
  <2>5. /\ Len(b) = Len(a) /\ b[slice.len + 1] = s
        /\ \A i \in 1..slice.len : b[i] = a[i]
    BY <1>1, <2>2, <2>4
  <2>6. slice'.array = slice.array /\ slice'.len = slice.len + 1
        /\ slice' \in [array : Nat, len : Nat]
    <3>1. PICK n \in Nat : n = slice.len + 1
      BY <1>1
    <3>2. slice' = [slice EXCEPT !.len = n]
      BY <2>3, <3>1
    <3> QED BY <3>1, <3>2 DEF SliceTyped
  <2>7. arrays' \in Seq(Seq(A)) /\ Len(arrays') = Len(arrays) /\ arrays'[slice.array] = b
    BY <1>1, <1>2, <2>2, <2>3, <2>4
  <2> QED BY <1>1, <1>2, <2>1, <2>2, <2>5, <2>6, <2>7 DEF SliceTyped
<1>4. CASE ~(slice.len < size)
  <2>1. slice.len = size /\ room \in Nat /\ slice.len + 1 \in 1..room
    BY <1>1, <1>2, <1>4
  <2>2. /\ arrays' = Append(arrays, grown)
        /\ slice' = [array |-> Len(arrays) + 1, len |-> slice.len + 1]
    BY <1>4 DEF AppendSub
  <2>3. \A i \in 1..slice.len : arrays[slice.array][i] \in A
    BY <1>1, <1>2
  <2>4. PICK b : b = grown
    OBVIOUS
  <2>5. b \in Seq(A) /\ Len(b) = room
    BY <1>1, <2>1, <2>3, <2>4
  <2>6. /\ b[slice.len + 1] = s
        /\ \A i \in 1..slice.len : b[i] = arrays[slice.array][i]
    BY <1>1, <2>1, <2>4
  <2> HIDE DEF grown, room, size
  <2>7. /\ arrays' \in Seq(Seq(A)) /\ Len(arrays') = Len(arrays) + 1
        /\ arrays'[Len(arrays) + 1] = b
    BY <1>1, <2>2, <2>4, <2>5
  <2>8. slice'.array = Len(arrays) + 1 /\ slice'.len = slice.len + 1
    BY <2>2
  <2>9. slice' \in [array : Nat, len : Nat]
    BY <1>1, <2>2
  <2>10. slice'.array \in 1..Len(arrays') /\ slice'.len \in 1..Len(b)
    BY <1>1, <2>1, <2>5, <2>7, <2>8
  <2> QED BY <2>6, <2>7, <2>8, <2>9, <2>10 DEF SliceTyped
<1> QED BY <1>3, <1>4

LEMMA SubscribeInv ==
    ASSUME SliceInv, NEW s \in Subs, Subscribe(s)
    PROVE  SliceInv'
<1>1. /\ pc[s] = "off" /\ AppendSub(s) /\ pc' \in [Subs -> Places]
      /\ pc'[s] \in {"start", "on"} /\ \A t \in Subs : t # s => pc'[t] = pc[t]
  BY DEF Subscribe, SliceInv, SliceTyped, Places
<1>2. /\ SliceTyped' /\ slice'.len = slice.len + 1
      /\ \A i \in 1..slice.len : arrays'[slice'.array][i] = arrays[slice.array][i]
      /\ arrays'[slice'.array][slice.len + 1] = s
  BY <1>1, Appended DEF SliceInv
<1>3. slice.len \in Nat /\ Subscribed = Open /\ slice.len = Cardinality(Subscribed)
  BY DEF SliceInv, SliceTyped, SubscribersExact, Open
<1>4. s \notin Subscribed
  BY <1>1, <1>3 DEF Open
<1>5. Subscribed' = Subscribed \cup {s}
  BY <1>2, <1>3 DEF Subscribed
<1>6. Open' = Open \cup {s}
  BY <1>1 DEF Open
<1>7. Cardinality(Subscribed') = slice.len + 1
  <2>1. IsFiniteSet(Subscribed)
    BY <1>3, BroadcasterAssumption, FS_Subset DEF Open, BroadcasterAssumption
  <2> QED BY <2>1, <1>3, <1>4, <1>5, FS_AddElement
<1>8. SubscribersExact'
  BY <1>2, <1>3, <1>5, <1>6, <1>7 DEF SubscribersExact, Open
<1>9. SliceApart'
  <2>1. SUFFICES ASSUME NEW i \in 1..(slice.len + 1), NEW j \in 1..(slice.len + 1),
                        arrays'[slice'.array][i] = arrays'[slice'.array][j]
                 PROVE  i = j
    BY <1>2 DEF SliceApart
  <2>2. \A n \in 1..slice.len : arrays[slice.array][n] # s
    BY <1>4 DEF Subscribed
  <2>3. CASE i \in 1..slice.len /\ j \in 1..slice.len
    BY <2>1, <2>3, <1>2 DEF SliceInv, SliceApart
  <2>4. CASE ~(i \in 1..slice.len /\ j \in 1..slice.len)
    BY <2>1, <2>2, <2>4, <1>2, <1>3
  <2> QED BY <2>3, <2>4
<1> QED BY <1>2, <1>8, <1>9 DEF SliceInv

\* The places behind the one that is removed move down.
LEMMA RemovedSub ==
    ASSUME SliceInv, NEW s \in Subs, s \in Subscribed, RemoveSub(s),
           pc' \in [Subs -> Places]
    PROVE  /\ SliceTyped'
           /\ slice'.len = slice.len - 1
           /\ \E at \in 1..slice.len :
                 /\ arrays[slice.array][at] = s
                 /\ \A i \in 1..(slice.len - 1) :
                       arrays'[slice'.array][i]
                       = IF i < at THEN arrays[slice.array][i]
                         ELSE arrays[slice.array][i + 1]
<1> DEFINE A == Subs \cup {Nobody}
           k == slice.array
           n == slice.len
           at == CHOOSE i \in 1..n : arrays[k][i] = s
<1>1. \E i \in 1..n : arrays[k][i] = s
  BY DEF Subscribed
<1>2. at \in 1..n /\ arrays[k][at] = s
  BY <1>1
<1>3. /\ n \in Nat \ {0} /\ k \in Nat \ {0} /\ k \in 1..Len(arrays)
      /\ arrays \in Seq(Seq(A)) /\ n <= Len(arrays[k])
  BY <1>1 DEF SliceInv, SliceTyped
<1>4. PICK old \in Seq(A) : old = arrays[k]
  BY <1>3
<1>5. DOMAIN old = 1..Len(old) /\ Len(old) \in Nat
  OBVIOUS
<1>6. PICK new : new = [i \in 1..Len(old) |-> IF i \in at..(n - 1) THEN old[i + 1]
                                             ELSE old[i]]
  OBVIOUS
<1>7. arrays' = [arrays EXCEPT ![k] = new]
  BY <1>4, <1>5, <1>6 DEF RemoveSub
<1> HIDE DEF at
<1>8. \A i \in 1..Len(old) : i \in at..(n - 1) => i + 1 \in 1..Len(old)
  BY <1>2, <1>3, <1>4, <1>5
<1>9. new \in Seq(A) /\ Len(new) = Len(old)
  <2>1. \A i \in 1..Len(old) : old[i] \in A
    BY <1>5
  <2>2. \A i \in 1..Len(old) : new[i] \in A
    BY <1>6, <1>8, <2>1
  <2>3. new \in [1..Len(old) -> A]
    BY <1>6, <2>2
  <2> QED BY <2>3, <1>5
<1>10. arrays' \in Seq(Seq(A)) /\ Len(arrays') = Len(arrays) /\ arrays'[k] = new
  BY <1>3, <1>7, <1>9
<1>11. \A i \in 1..(n - 1) : new[i] = IF i < at THEN old[i] ELSE old[i + 1]
  BY <1>2, <1>3, <1>4, <1>5, <1>6
<1>12. CASE n = 1
  <2>1. slice' = NilSlice
    BY <1>12 DEF RemoveSub
  <2>2. slice'.array = 0 /\ slice'.len = 0 /\ slice' \in [array : Nat, len : Nat]
    BY <2>1 DEF NilSlice
  <2>3. SliceTyped'
    BY <2>2, <1>10 DEF SliceTyped
  <2> QED BY <2>2, <2>3, <1>2, <1>12
<1>13. CASE n # 1
  <2>1. slice' = [slice EXCEPT !.len = @ - 1]
    BY <1>13 DEF RemoveSub
  <2>2. PICK m \in Nat : m = n - 1 /\ m >= 1
    <3>1. n - 1 \in Nat /\ n - 1 >= 1
      BY <1>3, <1>13
    <3> HIDE DEF n
    <3> QED BY <3>1
  <2>3. slice' = [slice EXCEPT !.len = m]
    BY <2>1, <2>2
  <2>4. slice'.array = k /\ slice'.len = m /\ slice' \in [array : Nat, len : Nat]
    BY <2>3 DEF SliceInv, SliceTyped
  <2>5. m \in 1..Len(new)
    BY <2>2, <1>3, <1>4, <1>9
  <2>6. SliceTyped'
    BY <2>4, <2>5, <1>3, <1>10 DEF SliceTyped
  <2> QED BY <2>2, <2>4, <2>6, <1>2, <1>4, <1>10, <1>11
<1> QED BY <1>12, <1>13

LEMMA UnsubscribeInv ==
    ASSUME SliceInv, NEW s \in Subs, Unsubscribe(s)
    PROVE  SliceInv'
<1>1. /\ pc[s] = "on" /\ RemoveSub(s) /\ pc' \in [Subs -> Places]
      /\ pc'[s] \in {"stop", "drain"} /\ \A t \in Subs : t # s => pc'[t] = pc[t]
  BY DEF Unsubscribe, SliceInv, SliceTyped, Places
<1>2. slice.len \in Nat /\ Subscribed = Open /\ slice.len = Cardinality(Subscribed)
  BY DEF SliceInv, SliceTyped, SubscribersExact, Open
<1>3. s \in Subscribed
  BY <1>1, <1>2 DEF Open
<1>4. SliceTyped' /\ slice'.len = slice.len - 1
  BY <1>1, <1>3, RemovedSub
<1>5. PICK at \in 1..slice.len :
         /\ arrays[slice.array][at] = s
         /\ \A i \in 1..(slice.len - 1) :
               arrays'[slice'.array][i] = IF i < at THEN arrays[slice.array][i]
                                          ELSE arrays[slice.array][i + 1]
  BY <1>1, <1>3, RemovedSub
<1>6. \A i, j \in 1..slice.len : arrays[slice.array][i] = arrays[slice.array][j] => i = j
  BY DEF SliceInv, SliceApart
<1> DEFINE a(i) == arrays[slice.array][i]
           b(i) == arrays'[slice'.array][i]
           from(i) == IF i < at THEN i ELSE i + 1
<1>7. \A i \in 1..(slice.len - 1) :
         from(i) \in 1..slice.len /\ from(i) # at /\ b(i) = a(from(i))
  BY <1>2, <1>5
<1>8. \A i \in 1..slice.len : i # at
         => \E j \in 1..(slice.len - 1) : from(j) = i
  <2>1. SUFFICES ASSUME NEW i \in 1..slice.len, i # at
                 PROVE  \E j \in 1..(slice.len - 1) : from(j) = i
    OBVIOUS
  <2>2. CASE i < at
    BY <2>1, <2>2, <1>2
  <2>3. CASE ~(i < at)
    <3>1. i - 1 \in 1..(slice.len - 1) /\ ~(i - 1 < at)
      BY <2>1, <2>3, <1>2
    <3>2. from(i - 1) = i
      BY <3>1, <1>2
    <3> QED BY <3>1, <3>2
  <2> QED BY <2>2, <2>3
<1>9. \A i, j \in 1..(slice.len - 1) : from(i) = from(j) => i = j
  BY <1>2
<1> HIDE DEF from
<1>10. Subscribed' = Subscribed \ {s}
  <2>1. Subscribed = {a(i) : i \in 1..slice.len}
    BY DEF Subscribed
  <2>2. Subscribed' = {b(i) : i \in 1..(slice.len - 1)}
    BY <1>4 DEF Subscribed
  <2>3. a(at) = s /\ \A i, j \in 1..slice.len : a(i) = a(j) => i = j
    BY <1>5, <1>6
  <2> HIDE DEF a, b
  <2> QED BY <2>1, <2>2, <2>3, <1>7, <1>8
<1>11. Open' = Open \ {s}
  BY <1>1 DEF Open
<1>12. Cardinality(Subscribed') = slice.len - 1
  <2>1. IsFiniteSet(Subscribed)
    BY <1>2, BroadcasterAssumption, FS_Subset DEF Open, BroadcasterAssumption
  <2> QED BY <2>1, <1>2, <1>3, <1>10, FS_RemoveElement
<1>13. SubscribersExact'
  BY <1>2, <1>4, <1>10, <1>11, <1>12 DEF SubscribersExact, Open
<1>14. SliceApart'
  <2>1. \A i, j \in 1..(slice.len - 1) : b(i) = b(j) => i = j
    BY <1>6, <1>7, <1>9
  <2> QED BY <2>1, <1>4 DEF SliceApart
<1> QED BY <1>4, <1>13, <1>14 DEF SliceInv

LEMMA SliceNext ==
    ASSUME SliceInv, [Next]_vars
    PROVE  SliceInv'
<1> USE DEF subVars, pollVars, recordVars, sendVars
<1>0. pc \in [Subs -> Places]
  BY DEF SliceInv, SliceTyped
<1>1. ASSUME NEW s \in Subs, Subscribe(s)
      PROVE  SliceInv'
  BY <1>1, SubscribeInv
<1>2. ASSUME NEW s \in Subs, Unsubscribe(s)
      PROVE  SliceInv'
  BY <1>2, UnsubscribeInv
<1>3. ASSUME NEW s \in Subs, SubStep(s)
      PROVE  SliceInv'
  <2>1. /\ arrays' = arrays /\ slice' = slice /\ pc' \in [Subs -> Places]
        /\ \A t \in Subs : pc'[t] \in {"start", "on"} <=> pc[t] \in {"start", "on"}
    BY <1>3, <1>0 DEF SubStep, StartPolling, StopPolling, CloseChannel, Receive, Places
  <2> QED BY <2>1, SliceKept
<1>4. ASSUME UNCHANGED subVars
      PROVE  SliceInv'
  BY <1>4, <1>0, SliceKept
<1>5. ASSUME NEW e \in Events, Record(e) \/ RecordStep(e)
      PROVE  UNCHANGED subVars
  BY <1>5 DEF Record, RecordStep, BroadcastSend, RecordPanic, RecordQueue
<1>6. ASSUME NEW i \in Pollers, PollStep(i), ~PollPanic(i)
      PROVE  UNCHANGED subVars
  BY <1>6 DEF PollStep, PollTick, PollCancelled, PollQuery, PollEvent,
              PollEventDone, PollBatchDone, BroadcastSend
<1>7. ASSUME NEW i \in Pollers, PollPanic(i)
      PROVE  SliceInv'
  <2>1. /\ pc' = [s \in Subs |-> "closed"] /\ slice' = NilSlice /\ arrays' = arrays
    BY <1>7 DEF PollPanic
  <2>2. /\ slice'.array = 0 /\ slice'.len = 0 /\ slice' \in [array : Nat, len : Nat]
    BY <2>1 DEF NilSlice
  <2>3. Subscribed' = {} /\ {s \in Subs : pc'[s] \in {"start", "on"}} = {}
    BY <2>1, <2>2 DEF Subscribed
  <2>4. SubscribersExact'
    BY <2>2, <2>3, FS_EmptySet DEF SubscribersExact
  <2> QED BY <2>1, <2>2, <2>4 DEF SliceInv, SliceTyped, SliceApart, Places
<1>8. ASSUME NEW ok \in BOOLEAN, DBWorker(ok)
      PROVE  UNCHANGED subVars
  BY <1>8 DEF DBWorker
<1>9. ASSUME Shutdown \/ Tick \/ UNCHANGED vars
      PROVE  UNCHANGED subVars
  BY <1>9 DEF Shutdown, Tick, vars
<1> QED BY <1>1, <1>2, <1>3, <1>4, <1>5, <1>6, <1>7, <1>8, <1>9 DEF Next

\* The subscribers slice holds every open stream once and no other, for any
\* number of streams: the shift in place of Unsubscribe and the reuse of the
\* array by Subscribe never lose one.
THEOREM SubscribersAreExact == Spec => []SubscribersExact
<1>1. Init => SliceInv
  BY SliceInit
<1>2. SliceInv /\ [Next]_vars => SliceInv'
  BY SliceNext
<1>3. SliceInv => SubscribersExact
  BY DEF SliceInv
<1> QED BY <1>1, <1>2, <1>3, PTL DEF Spec

----------------------------------------------------------------------------
(* Deduplication.                                                          *)

\* An event that a poller has broadcast is marked, and the mark cannot have
\* run out before DeduplicationTTL.
MarkInv ==
    /\ now \in Nat
    /\ polled \in [Events -> Nat]
    /\ \A e \in DOMAIN recentEvents : recentEvents[e] \in Nat
    /\ now < DeduplicationTTL
       => \A e \in Events : /\ polled[e] <= 1
                            /\ polled[e] = 1 => e \in DOMAIN recentEvents

LEMMA MarkNext ==
    ASSUME MarkInv, [Next]_vars
    PROVE  MarkInv'
<1> USE DEF subVars, pollVars, recordVars, sendVars
<1>0. DeduplicationTTL \in Nat
  BY BroadcasterAssumption DEF BroadcasterAssumption
<1>1. ASSUME UNCHANGED <<now, polled, recentEvents>>
      PROVE  MarkInv'
  BY <1>1 DEF MarkInv
<1>2. ASSUME NEW s \in Subs, Subscribe(s) \/ Unsubscribe(s) \/ SubStep(s)
      PROVE  UNCHANGED <<now, polled, recentEvents>>
  BY <1>2 DEF Subscribe, Unsubscribe, SubStep, StartPolling, StopPolling,
              CloseChannel, Receive
<1>3. ASSUME NEW e \in Events, Record(e) \/ RecordStep(e)
      PROVE  UNCHANGED <<now, polled, recentEvents>>
  BY <1>3 DEF Record, RecordStep, BroadcastSend, RecordPanic, RecordQueue
<1>4. ASSUME NEW i \in Pollers, PollStep(i), ~PollEvent(i)
      PROVE  UNCHANGED <<now, polled, recentEvents>>
  BY <1>4 DEF PollStep, PollTick, PollCancelled, PollQuery, PollPanic,
              PollEventDone, PollBatchDone, BroadcastSend
<1>5. ASSUME NEW i \in Pollers, PollEvent(i)
      PROVE  MarkInv'
  <2>1. PICK e \in batch[i] :
           \/ ShouldProcess(e) /\ polled' = [polled EXCEPT ![e] = @ + 1]
           \/ UNCHANGED <<recentEvents, polled>>
    BY <1>5 DEF PollEvent
  <2>2. now' = now
    BY <1>5 DEF PollEvent
  <2>3. CASE UNCHANGED <<recentEvents, polled>>
    BY <2>2, <2>3, <1>1
  <2>4. CASE ShouldProcess(e) /\ polled' = [polled EXCEPT ![e] = @ + 1]
    <3>1. /\ ~Recent(e)
          /\ DOMAIN recentEvents' = DOMAIN recentEvents \cup {e}
          /\ recentEvents'[e] = now
          /\ \A x \in DOMAIN recentEvents : x # e => recentEvents'[x] = recentEvents[x]
      BY <2>4 DEF ShouldProcess
    <3>2. \A x \in DOMAIN recentEvents' : recentEvents'[x] \in Nat
      BY <3>1 DEF MarkInv
    <3>3. \A x \in Events : x # e => polled'[x] = polled[x]
      BY <2>4 DEF MarkInv
    <3>4. e \in Events => polled'[e] = polled[e] + 1
      BY <2>4 DEF MarkInv
    <3>5. polled' \in [Events -> Nat]
      <4>1. \A x \in Events : polled'[x] \in Nat
        BY <3>3, <3>4 DEF MarkInv
      <4>2. polled' = [x \in Events |-> polled'[x]]
        BY <2>4 DEF MarkInv
      <4> QED BY <4>1, <4>2
    <3>6. now < DeduplicationTTL => e \notin DOMAIN recentEvents
      BY <3>1, <1>0 DEF Recent, MarkInv
    <3>7. ASSUME now < DeduplicationTTL, NEW x \in Events
          PROVE  polled'[x] <= 1 /\ (polled'[x] = 1 => x \in DOMAIN recentEvents')
      <4>1. /\ polled[x] \in Nat /\ polled[x] <= 1
            /\ polled[x] = 1 => x \in DOMAIN recentEvents
        BY <3>7 DEF MarkInv
      <4>2. CASE x = e
        <5>1. polled[x] = 0 /\ polled'[x] = 1
          BY <4>1, <4>2, <3>4, <3>6, <3>7
        <5> QED BY <5>1, <4>2, <3>1
      <4>3. CASE x # e
        BY <4>1, <4>3, <3>1, <3>3
      <4> QED BY <4>2, <4>3
    <3> QED BY <2>2, <3>2, <3>5, <3>7 DEF MarkInv
  <2> QED BY <2>1, <2>3, <2>4
<1>6. ASSUME NEW ok \in BOOLEAN, DBWorker(ok)
      PROVE  UNCHANGED <<now, polled, recentEvents>>
  BY <1>6 DEF DBWorker
<1>7. ASSUME Shutdown \/ UNCHANGED vars
      PROVE  UNCHANGED <<now, polled, recentEvents>>
  BY <1>7 DEF Shutdown, vars
<1>8. ASSUME Tick
      PROVE  MarkInv'
  <2>1. now' = now + 1 /\ polled' = polled /\ recentEvents' = recentEvents
    BY <1>8 DEF Tick
  <2>2. now' < DeduplicationTTL => now < DeduplicationTTL
    BY <2>1, <1>0 DEF MarkInv
  <2> QED BY <2>1, <2>2 DEF MarkInv
<1> QED BY <1>1, <1>2, <1>3, <1>4, <1>5, <1>6, <1>7, <1>8 DEF Next

\* For as long as DeduplicationTTL the pollers broadcast an event at most
\* once, however many run beside each other and whichever of them sets
\* lastPollTime back (checkForNewEvents, shouldProcess).
THEOREM EventsPolledOnce == Spec => [](now < DeduplicationTTL => PolledOnce)
<1>1. Init => MarkInv
  <2>1. ASSUME Init PROVE MarkInv
    <3>1. now = 0 /\ polled = [e \in Events |-> 0] /\ DOMAIN recentEvents = {}
      BY <2>1 DEF Init
    <3> QED BY <3>1 DEF MarkInv
  <2> QED BY <2>1
<1>2. MarkInv /\ [Next]_vars => MarkInv'
  BY MarkNext
<1>3. MarkInv => (now < DeduplicationTTL => PolledOnce)
  BY DEF MarkInv, PolledOnce
<1> QED BY <1>1, <1>2, <1>3, PTL DEF Spec
=============================================================================
