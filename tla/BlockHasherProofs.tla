------------------------- MODULE BlockHasherProofs -------------------------
(***************************************************************************)
(* Proofs about BlockHasher for every number of workers, block size and    *)
(* stream.                                                                 *)
(***************************************************************************)
EXTENDS BlockHasher, FiniteSetTheorems, SequenceTheorems, TLAPS

USE WorkerCountAssumption, BlockSizeAssumption, StreamAssumption

LEMMA QueueSizeNat == QueueSize \in Nat /\ QueueSize = 2 * WorkerCount
  BY DEF QueueSize

LEMMA HashType == \A b \in Bytes : Hash(b) \in Digest
  BY DEF Bytes, Hash, Digest

LEMMA NoResultType == NoResult \in BlockResult
  <1>1. << >> \in Bytes
    BY DEF Bytes
  <1> QED
    BY <1>1, HashType DEF NoResult, BlockResult

\* SubSeqProperties for the stream, with the bounds as bound variables.
LEMMA StreamPiece ==
  \A m, n \in Int :
    (\A i \in m..n : Stream[i] \in Byte) =>
      /\ SubSeq(Stream, m, n) \in Seq(Byte)
      /\ Len(SubSeq(Stream, m, n)) = IF m <= n THEN n - m + 1 ELSE 0
      /\ \A i \in 1..(n - m + 1) : SubSeq(Stream, m, n)[i] = Stream[m + i - 1]
  <1> SUFFICES ASSUME NEW m \in Int, NEW n \in Int,
                      \A i \in m..n : Stream[i] \in Byte
               PROVE  /\ SubSeq(Stream, m, n) \in Seq(Byte)
                      /\ Len(SubSeq(Stream, m, n)) = IF m <= n THEN n - m + 1 ELSE 0
                      /\ \A i \in 1..(n - m + 1) :
                            SubSeq(Stream, m, n)[i] = Stream[m + i - 1]
    OBVIOUS
  <1> QED
    BY SubSeqProperties

\* A Write that takes n bytes leaves a legal block and stays in the stream.
LEMMA FillType ==
  ASSUME TypeOK, rest > 0,
         NEW n, n = Minimum(BlockSize - Len(currentBlock), rest)
  PROVE  /\ n \in Nat /\ n <= rest
         /\ currentBlock \o SubSeq(Stream, pos + 1, pos + n) \in Bytes
         /\ Len(currentBlock \o SubSeq(Stream, pos + 1, pos + n)) = Len(currentBlock) + n
         /\ Len(currentBlock) + n <= BlockSize
         /\ pos + n \in 0..Len(Stream)
         /\ \A k \in 1..(Len(currentBlock) + n) :
              (currentBlock \o SubSeq(Stream, pos + 1, pos + n))[k] =
                 IF k <= Len(currentBlock) THEN currentBlock[k]
                                           ELSE Stream[pos + k - Len(currentBlock)]
  <1>1. n \in Nat /\ n <= rest /\ n <= BlockSize - Len(currentBlock)
    BY DEF TypeOK, Minimum, Bytes
  <1>2. pos + n \in 0..Len(Stream)
    BY <1>1 DEF TypeOK
  <1>3. /\ SubSeq(Stream, pos + 1, pos + n) \in Bytes
        /\ Len(SubSeq(Stream, pos + 1, pos + n)) = n
        /\ \A i \in 1..n : SubSeq(Stream, pos + 1, pos + n)[i] = Stream[pos + i]
    <2>1. /\ pos + 1 \in Int /\ pos + n \in Int
          /\ \A i \in (pos + 1)..(pos + n) : Stream[i] \in Byte
      BY <1>1, <1>2 DEF TypeOK
    <2> QED
      <3>1. PICK a, b : a = pos + 1 /\ b = pos + n
        OBVIOUS
      <3>2. a \in Int /\ b \in Int /\ \A i \in a..b : Stream[i] \in Byte
        BY <2>1, <3>1
      <3>3. /\ SubSeq(Stream, a, b) \in Seq(Byte)
            /\ Len(SubSeq(Stream, a, b)) = IF a <= b THEN b - a + 1 ELSE 0
            /\ \A i \in 1..(b - a + 1) : SubSeq(Stream, a, b)[i] = Stream[a + i - 1]
        BY <3>2, StreamPiece, Zenon
      <3>4. b - a + 1 = n /\ (a <= b <=> n > 0)
        BY <1>1, <3>1 DEF TypeOK
      <3>5. SubSeq(Stream, a, b) \in Seq(Byte) /\ Len(SubSeq(Stream, a, b)) = n
        BY <1>1, <3>3, <3>4
      <3>6. ASSUME NEW i \in 1..n PROVE SubSeq(Stream, a, b)[i] = Stream[pos + i]
        <4>1. a + i - 1 = pos + i
          BY <3>1 DEF TypeOK
        <4>2. SubSeq(Stream, a, b)[i] = Stream[a + i - 1]
          BY <3>3, <3>4
        <4> QED
          BY <4>1, <4>2
      <3> QED
        BY <3>1, <3>5, <3>6, Zenon DEF Bytes
  <1>4. currentBlock \in Seq(Byte) /\ Len(currentBlock) \in Nat
    BY DEF TypeOK, Bytes
  <1>5. PICK piece : piece = SubSeq(Stream, pos + 1, pos + n)
    OBVIOUS
  <1>6. piece \in Seq(Byte) /\ Len(piece) = n /\ \A i \in 1..n : piece[i] = Stream[pos + i]
    BY <1>3, <1>5 DEF Bytes
  <1>7. /\ currentBlock \o piece \in Seq(Byte)
        /\ Len(currentBlock \o piece) = Len(currentBlock) + n
        /\ \A k \in 1..(Len(currentBlock) + n) : (currentBlock \o piece)[k] =
              IF k <= Len(currentBlock) THEN currentBlock[k] ELSE piece[k - Len(currentBlock)]
    <2>1. currentBlock \in Seq(Byte) /\ piece \in Seq(Byte) /\ Len(piece) = n
      BY <1>4, <1>6
    <2>2. PICK both : both = currentBlock \o piece
      OBVIOUS
    <2>3. /\ both \in Seq(Byte) /\ Len(both) = Len(currentBlock) + Len(piece)
          /\ \A k \in 1..(Len(currentBlock) + Len(piece)) : both[k] =
                IF k <= Len(currentBlock) THEN currentBlock[k]
                ELSE piece[k - Len(currentBlock)]
      BY <2>1, <2>2, ConcatProperties, Zenon
    <2> QED
      BY <2>1, <2>2, <2>3
  <1>8. ASSUME NEW k \in 1..(Len(currentBlock) + n), ~(k <= Len(currentBlock))
        PROVE  piece[k - Len(currentBlock)] = Stream[pos + k - Len(currentBlock)]
    <2>1. k - Len(currentBlock) \in 1..n
      BY <1>1, <1>4, <1>8
    <2>2. piece[k - Len(currentBlock)] = Stream[pos + (k - Len(currentBlock))]
      BY <1>6, <2>1
    <2>3. pos + (k - Len(currentBlock)) = pos + k - Len(currentBlock)
      BY <1>4 DEF TypeOK
    <2> QED
      BY <2>2, <2>3
  <1>9. Len(currentBlock) + n <= BlockSize
    BY <1>1, <1>4
  <1>10. \A k \in 1..(Len(currentBlock) + n) : (currentBlock \o piece)[k] =
           IF k <= Len(currentBlock) THEN currentBlock[k]
                                     ELSE Stream[pos + k - Len(currentBlock)]
    BY <1>7, <1>8
  <1> QED
    BY <1>1, <1>2, <1>5, <1>7, <1>9, <1>10, Zenon DEF Bytes

\* Types and bounds are kept by every step of the caller and of the workers.
THEOREM TypeCorrect == Spec => []TypeOK
<1>1. Init => TypeOK
  <2> SUFFICES ASSUME Init PROVE TypeOK
    OBVIOUS
  <2>1. NoResult \in BlockResult
    BY NoResultType
  <2>2. /\ worker \in [Workers -> {"recv", "send", "done"}]
        /\ hand \in [Workers -> BlockResult]
    BY <2>1 DEF Init, InitWorkers
  <2>3. /\ DOMAIN outOfOrder \subseteq Nat
        /\ \A i \in DOMAIN outOfOrder : outOfOrder[i] \in Digest
    BY DEF Init, EmptyMap
  <2>4. /\ jobs \in Seq(BlockJob) /\ Len(jobs) <= QueueSize
        /\ results \in Seq(BlockResult) /\ Len(results) <= QueueSize
    BY QueueSizeNat DEF Init, InitWorkers
  <2>5. /\ currentBlock \in Bytes /\ Len(currentBlock) <= BlockSize
        /\ blockHashes \in Seq(Digest) /\ sum \in Seq(Digest)
        /\ pos \in 0..Len(Stream) /\ rest <= Len(Stream) - pos
    BY DEF Init, Bytes
  <2>6. /\ pc \in PCs /\ rest \in Nat /\ nextDispatchIndex \in Nat
        /\ nextCommitIndex \in Nat /\ pending \in Int
    BY DEF Init, PCs
  <2>7. closed \in BOOLEAN /\ resultsClosed \in BOOLEAN /\ summed \in BOOLEAN
    BY Zenon DEF Init, InitWorkers
  <2> QED
    BY <2>2, <2>3, <2>4, <2>5, <2>6, <2>7 DEF TypeOK
<1>2. TypeOK /\ [Next]_vars => TypeOK'
  <2> SUFFICES ASSUME TypeOK, [Next]_vars PROVE TypeOK'
    OBVIOUS
  <2> USE QueueSizeNat
  <2>1. CASE WriteCall
    BY <2>1 DEF WriteCall, TypeOK, PCs, chanVars, workerVars, outVars
  <2>2. CASE WriteFill
    <3> DEFINE n == Minimum(BlockSize - Len(currentBlock), rest)
    <3>1. /\ n \in Nat /\ n <= rest
          /\ currentBlock \o SubSeq(Stream, pos + 1, pos + n) \in Bytes
          /\ Len(currentBlock \o SubSeq(Stream, pos + 1, pos + n)) = Len(currentBlock) + n
          /\ Len(currentBlock) + n <= BlockSize
          /\ pos + n \in 0..Len(Stream)
      BY <2>2, FillType DEF WriteFill
    <3>2. /\ currentBlock' = currentBlock \o SubSeq(Stream, pos + 1, pos + n)
          /\ pos' = pos + n
          /\ rest' = rest - n
      BY <2>2 DEF WriteFill
    <3> HIDE DEF n
    <3>3. /\ currentBlock' \in Bytes /\ Len(currentBlock') <= BlockSize
          /\ pos' \in 0..Len(Stream) /\ rest' \in Nat /\ rest' <= Len(Stream) - pos'
      BY <3>1, <3>2 DEF TypeOK
    <3> QED BY <2>2, <3>3 DEF WriteFill, TypeOK, PCs, chanVars, workerVars, outVars
  <2>3. CASE WriteReturn
    BY <2>3 DEF WriteReturn, TypeOK, PCs, chanVars, workerVars, outVars
  <2>4. CASE WriteDispatch
    BY <2>4 DEF WriteDispatch, DispatchBlock, TypeOK, PCs, BlockJob, Bytes, workerVars, outVars
  <2>5. ASSUME NEW next \in PCs, ReceiveResult(next) PROVE TypeOK'
    <3>1. /\ Head(results) \in BlockResult /\ Tail(results) \in Seq(BlockResult)
          /\ Len(Tail(results)) = Len(results) - 1 /\ Len(results) \in Nat
      BY <2>5, HeadTailProperties DEF ReceiveResult, TypeOK
    <3>2. Head(results).index \in Nat /\ Head(results).sum \in Digest
      BY <3>1 DEF BlockResult
    <3>3. /\ DOMAIN outOfOrder' \subseteq Nat
          /\ \A i \in DOMAIN outOfOrder' : outOfOrder'[i] \in Digest
      BY <2>5, <3>2 DEF ReceiveResult, TypeOK
    <3>4. results' \in Seq(BlockResult) /\ Len(results') <= QueueSize
      BY <2>5, <3>1 DEF ReceiveResult, TypeOK
    <3>5. pc' \in PCs /\ pending' \in Int
      BY <2>5 DEF ReceiveResult, TypeOK
    <3>6. UNCHANGED <<rest, pos, currentBlock, blockHashes, nextDispatchIndex,
                      nextCommitIndex, closed, jobs, resultsClosed, worker, hand,
                      summed, sum>>
      BY <2>5 DEF ReceiveResult, workerVars, outVars
    <3> QED
      BY <3>3, <3>4, <3>5, <3>6 DEF TypeOK
  <2>6. ASSUME NEW here \in PCs, NEW back \in PCs, CommitStep(here, back)
        PROVE TypeOK'
    <3>1. /\ DOMAIN outOfOrder' \subseteq Nat
          /\ \A i \in DOMAIN outOfOrder' : outOfOrder'[i] \in Digest
      BY <2>6 DEF CommitStep, TypeOK
    <3>2. blockHashes' \in Seq(Digest) /\ nextCommitIndex' \in Nat /\ pc' \in PCs
      <4>1. CASE UNCHANGED <<blockHashes, outOfOrder, nextCommitIndex>>
        BY <2>6, <4>1 DEF CommitStep, TypeOK
      <4>2. CASE /\ nextCommitIndex \in DOMAIN outOfOrder
                 /\ blockHashes' = Append(blockHashes, outOfOrder[nextCommitIndex])
                 /\ nextCommitIndex' = nextCommitIndex + 1
        <5>1. PICK x \in Digest : x = outOfOrder[nextCommitIndex]
          BY <4>2 DEF TypeOK
        <5>2. blockHashes \in Seq(Digest) /\ blockHashes' = Append(blockHashes, x)
          BY <4>2, <5>1 DEF TypeOK
        <5>3. blockHashes' \in Seq(Digest)
          BY <5>1, <5>2, AppendProperties
        <5>4. nextCommitIndex' \in Nat
          BY <4>2 DEF TypeOK
        <5> QED
          BY <2>6, <5>3, <5>4 DEF CommitStep, TypeOK
      <4> QED
        BY <2>6, <4>1, <4>2 DEF CommitStep
    <3> QED
      BY <2>6, <3>1, <3>2 DEF CommitStep, TypeOK, chanVars, workerVars, outVars
  <2>7. CASE DrainReceive
    BY <2>5, <2>7 DEF DrainReceive, PCs
  <2>8. CASE DrainReturn
    BY <2>8 DEF DrainReturn, TypeOK, PCs, chanVars, workerVars, outVars
  <2>9. CASE SumCall
    BY <2>9 DEF SumCall, TypeOK, PCs, chanVars, workerVars, outVars
  <2>10. CASE SumDispatch
    <3>1. CASE currentBlock # << >> /\ DispatchBlock
      BY <2>10, <3>1 DEF SumDispatch, DispatchBlock, TypeOK, PCs, BlockJob, Bytes,
        workerVars, outVars
    <3>2. CASE UNCHANGED <<jobs, nextDispatchIndex, pending, currentBlock>>
      BY <2>10, <3>2 DEF SumDispatch, TypeOK, PCs, workerVars, outVars
    <3> QED
      BY <2>10, <3>1, <3>2 DEF SumDispatch
  <2>11. CASE SumReceive
    BY <2>5, <2>11 DEF SumReceive, PCs
  <2>12. CASE SumReturn
    BY <2>12 DEF SumReturn, TypeOK, PCs, chanVars, workerVars
  <2>13. CASE CloseCall
    BY <2>13 DEF CloseCall, TypeOK, PCs, chanVars, workerVars, outVars
  <2>14. CASE CloseDiscard
    BY <2>14 DEF CloseDiscard, TypeOK, callerVars, workerVars, outVars
  <2>15. CASE CloseReturn
    BY <2>15 DEF CloseReturn, TypeOK, PCs, chanVars, workerVars, outVars
  <2>16. CASE ResetReturn
    <3>1. Init'
      BY <2>16 DEF ResetReturn, Init, InitWorkers
    <3> QED
      BY <1>1, <3>1, PTL
  <2>17. ASSUME NEW w \in Workers, WorkerReceive(w) PROVE TypeOK'
    <3>1. /\ Head(jobs) \in BlockJob /\ Tail(jobs) \in Seq(BlockJob)
          /\ Len(Tail(jobs)) = Len(jobs) - 1 /\ Len(jobs) \in Nat
      BY <2>17, HeadTailProperties DEF WorkerReceive, TypeOK
    <3>2. [index |-> Head(jobs).index, sum |-> Hash(Head(jobs).data)] \in BlockResult
      BY <3>1, HashType DEF BlockJob, BlockResult
    <3>3. hand' \in [Workers -> BlockResult]
      BY <2>17, <3>2 DEF WorkerReceive, TypeOK
    <3>4. jobs' \in Seq(BlockJob) /\ Len(jobs') <= QueueSize
      BY <2>17, <3>1 DEF WorkerReceive, TypeOK
    <3> QED
      BY <2>17, <3>3, <3>4 DEF WorkerReceive, TypeOK, callerVars, outVars
  <2>18. ASSUME NEW w \in Workers, WorkerSend(w) PROVE TypeOK'
    <3>1. hand' \in [Workers -> BlockResult]
      BY <2>18, NoResultType DEF WorkerSend, TypeOK
    <3>2. results' \in Seq(BlockResult) /\ Len(results') <= QueueSize
      BY <2>18 DEF WorkerSend, TypeOK
    <3> QED
      BY <2>18, <3>1, <3>2 DEF WorkerSend, TypeOK, callerVars, outVars
  <2>19. ASSUME NEW w \in Workers, WorkerExit(w) PROVE TypeOK'
    BY <2>19 DEF WorkerExit, TypeOK, callerVars, chanVars, outVars
  <2>20. CASE CloseResults
    BY <2>20 DEF CloseResults, TypeOK, callerVars, workerVars, outVars
  <2>21. CASE UNCHANGED vars
    BY <2>21 DEF vars, TypeOK, callerVars, chanVars, workerVars, outVars
  <2>22. {"drain", "drainCommit", "sum", "sumCommit"} \subseteq PCs
    BY DEF PCs
  <2> QED
    BY <2>1, <2>2, <2>3, <2>4, <2>6, <2>7, <2>8, <2>9, <2>10, <2>11, <2>12, <2>13,
       <2>14, <2>15, <2>16, <2>17, <2>18, <2>19, <2>20, <2>21, <2>22
    DEF Next, Caller, Worker
<1> QED
  BY <1>1, <1>2, PTL DEF Spec

----------------------------------------------------------------------------
(***************************************************************************)
(* The channels never leave everybody waiting.  The invariant relates the  *)
(* counter pending to where the blocks are, and bounds it at the points    *)
(* where the caller may block.                                             *)
(***************************************************************************)

Busy == {w \in Workers : worker[w] = "send"}

Control ==
    /\ pc \in {"write", "dispatch", "drain", "drainCommit"} => ~closed /\ ~summed
    /\ pc \in {"sum", "sumCommit"} => closed /\ currentBlock = << >>
    /\ pc = "sumDispatch" => (closed => summed)
    /\ pc \in {"close", "resetClose"} => closed
    /\ summed => closed /\ currentBlock = << >> /\ pending = 0
    /\ \A w \in Workers : worker[w] = "done" => closed /\ jobs = << >>
    /\ resultsClosed => \A w \in Workers : worker[w] = "done"

\* pending is the number of blocks in the channels and in the workers' hands.
Counting ==
    ~Abandoned => pending = Len(jobs) + Len(results) + Cardinality(Busy)

\* A caller that may dispatch next has drained the results channel.
Slack ==
    pc \in {"idle", "write", "dispatch", "sumDispatch"} /\ ~Abandoned
        => pending <= 3 * WorkerCount

CountInv == TypeOK /\ Control /\ Counting /\ Slack

LEMMA BusyBound ==
  /\ IsFiniteSet(Busy)
  /\ Cardinality(Busy) \in Nat
  /\ Cardinality(Busy) <= WorkerCount
  /\ IsFiniteSet(Workers) /\ Cardinality(Workers) = WorkerCount
  <1>1. IsFiniteSet(Workers) /\ Cardinality(Workers) = WorkerCount
    <2>1. 1 \in Int /\ WorkerCount \in Int
      OBVIOUS
    <2> QED
      BY <2>1, FS_Interval DEF Workers
  <1>2. Busy \subseteq Workers
    BY DEF Busy
  <1> QED
    BY <1>1, <1>2, FS_Subset, FS_CardinalityType

\* A worker that takes a job becomes busy, one that sends its result stops.
LEMMA BusyReceive ==
  ASSUME TypeOK, NEW w \in Workers, WorkerReceive(w)
  PROVE  Cardinality(Busy') = Cardinality(Busy) + 1
  <1>1. Busy' = Busy \cup {w} /\ w \notin Busy
    BY DEF WorkerReceive, Busy, TypeOK
  <1> QED
    BY <1>1, BusyBound, FS_AddElement

LEMMA BusySend ==
  ASSUME TypeOK, NEW w \in Workers, WorkerSend(w)
  PROVE  Cardinality(Busy') = Cardinality(Busy) - 1
  <1>1. Busy' = Busy \ {w} /\ w \in Busy
    BY DEF WorkerSend, Busy, TypeOK
  <1> QED
    BY <1>1, BusyBound, FS_RemoveElement

LEMMA CountInit == Init => Control /\ Counting /\ Slack
  <1> SUFFICES ASSUME Init PROVE Control /\ Counting /\ Slack
    OBVIOUS
  <1>1. Busy = {}
    BY DEF Init, InitWorkers, Busy
  <1>2. Cardinality(Busy) = 0
    BY <1>1, FS_EmptySet
  <1>3. Control
    BY DEF Init, InitWorkers, Control
  <1>4. Counting
    BY <1>2 DEF Init, InitWorkers, Counting
  <1>5. Slack
    BY DEF Init, Slack
  <1> QED
    BY <1>3, <1>4, <1>5

\* Steps that touch neither the channels nor the workers.
LEMMA CountLocal ==
  ASSUME CountInv,
         \/ WriteCall \/ WriteFill \/ WriteReturn \/ DrainReturn \/ SumCall
         \/ SumReturn \/ CloseCall \/ CloseReturn \/ UNCHANGED vars
         \/ CommitStep("drainCommit", "drain") \/ CommitStep("sumCommit", "sum")
  PROVE  Control' /\ Counting' /\ Slack'
  <1> USE DEF callerVars, chanVars, workerVars, outVars, vars
  <1>1. UNCHANGED <<jobs, results, resultsClosed, worker, hand, pending>>
    BY DEF WriteCall, WriteFill, WriteReturn, DrainReturn, SumCall, SumReturn,
           CloseCall, CloseReturn, CommitStep
  <1>2. Busy' = Busy
    BY <1>1 DEF Busy
  <1> HIDE DEF callerVars, chanVars, workerVars, outVars, vars
  <1>3. SumReturn => pending = 0
    <2> SUFFICES ASSUME SumReturn PROVE pending = 0
      OBVIOUS
    <2>1. pending = Len(jobs) + Len(results) + Cardinality(Busy)
      BY DEF CountInv, Counting, Abandoned, SumReturn
    <2>2. CASE pending <= 0
      BY <2>1, <2>2, BusyBound DEF CountInv, TypeOK
    <2>3. CASE resultsClosed /\ results = << >>
      <3>1. \A w \in Workers : worker[w] = "done"
        BY <2>3 DEF CountInv, Control
      <3>2. Busy = {}
        BY <3>1 DEF Busy
      <3>3. 1 \in Workers
        BY DEF Workers
      <3>4. jobs = << >>
        BY <3>1, <3>3 DEF CountInv, Control
      <3> QED
        BY <2>1, <2>3, <3>2, <3>4, FS_EmptySet
    <2> QED
      BY <2>2, <2>3 DEF SumReturn
  <1>4. DrainReturn => pending <= 3 * WorkerCount
    BY BusyBound, QueueSizeNat
    DEF CountInv, Counting, Abandoned, DrainReturn, TypeOK
  <1>5. Control'
    <2> USE <1>1 DEF CountInv, Control, outVars, callerVars
    <2>1. CASE WriteCall
      BY <2>1 DEF WriteCall
    <2>2. CASE WriteFill
      BY <2>2 DEF WriteFill
    <2>3. CASE WriteReturn
      BY <2>3 DEF WriteReturn
    <2>4. CASE DrainReturn
      BY <2>4 DEF DrainReturn
    <2>5. CASE SumCall
      BY <2>5 DEF SumCall
    <2>6. CASE SumReturn
      BY <2>6, <1>3 DEF SumReturn
    <2>7. CASE CloseCall
      BY <2>7 DEF CloseCall
    <2>8. CASE CloseReturn
      BY <2>8 DEF CloseReturn
    <2>9. CASE CommitStep("drainCommit", "drain")
      BY <2>9 DEF CommitStep
    <2>10. CASE CommitStep("sumCommit", "sum")
      BY <2>10 DEF CommitStep
    <2>11. CASE UNCHANGED vars
      BY <2>11 DEF vars
    <2> QED
      BY <2>1, <2>2, <2>3, <2>4, <2>5, <2>6, <2>7, <2>8, <2>9, <2>10, <2>11
  <1>6. ~Abandoned' => ~Abandoned
    BY DEF CountInv, Control, Abandoned, TypeOK, WriteCall, WriteFill, WriteReturn,
           DrainReturn, SumCall, SumReturn, CloseCall, CloseReturn, CommitStep, outVars,
           callerVars, vars
  <1>7. Counting'
    BY <1>1, <1>2, <1>6 DEF CountInv, Counting
  <1>8. Slack'
    <2> SUFFICES ASSUME pc' \in {"idle", "write", "dispatch", "sumDispatch"},
                        ~Abandoned'
                 PROVE  pending <= 3 * WorkerCount
      BY <1>1 DEF Slack
    <2>1. CASE pc \in {"idle", "write", "dispatch", "sumDispatch"}
      BY <1>6, <2>1 DEF CountInv, Slack
    <2>2. CASE pc \in {"drain", "sum"}
      BY <2>2, <1>3, <1>4 DEF WriteCall, WriteFill, WriteReturn, DrainReturn, SumCall,
        SumReturn, CloseCall, CloseReturn, CommitStep, callerVars, vars
    <2>3. CASE pc \in {"drainCommit", "sumCommit"}
      BY <2>3 DEF WriteCall, WriteFill, WriteReturn, DrainReturn, SumCall,
        SumReturn, CloseCall, CloseReturn, CommitStep, callerVars, vars
    <2>4. CASE pc \in {"close", "resetClose"}
      <3>1. summed
        BY <1>6, <2>4 DEF CountInv, Control, Abandoned
      <3> QED
        BY <3>1 DEF CountInv, Control
    <2> QED
      BY <2>1, <2>2, <2>3, <2>4 DEF CountInv, TypeOK, PCs
  <1> QED
    BY <1>5, <1>7, <1>8

\* The caller puts a block into the jobs channel.
LEMMA CountDispatch ==
  ASSUME CountInv, WriteDispatch \/ SumDispatch
  PROVE  Control' /\ Counting' /\ Slack'
  <1>1. UNCHANGED <<results, resultsClosed, worker, hand, summed>>
    BY DEF WriteDispatch, SumDispatch, workerVars, outVars
  <1>2. Busy' = Busy
    BY <1>1 DEF Busy
  <1>3. ~Abandoned
    BY DEF WriteDispatch, SumDispatch, Abandoned
  <1>4. CASE DispatchBlock /\ ~closed
    <2>1. Len(jobs') = Len(jobs) + 1 /\ pending' = pending + 1 /\ currentBlock' = << >>
      BY <1>4 DEF DispatchBlock, CountInv, TypeOK
    <2>2. \A w \in Workers : worker[w] # "done"
      BY <1>4 DEF CountInv, Control
    <2>3. ~resultsClosed
      <3>1. 1 \in Workers
        BY DEF Workers
      <3> QED
        BY <2>2, <3>1 DEF CountInv, Control
    <2>4. Control'
      BY <1>1, <1>4, <2>1, <2>2, <2>3 DEF CountInv, Control, WriteDispatch, SumDispatch
    <2>5. Counting'
      BY <1>1, <1>2, <1>3, <2>1, BusyBound DEF CountInv, Counting, TypeOK
    <2>6. Slack'
      BY DEF Slack, WriteDispatch, SumDispatch
    <2> QED
      BY <2>4, <2>5, <2>6
  <1>5. CASE SumDispatch /\ currentBlock = << >>
            /\ UNCHANGED <<jobs, nextDispatchIndex, pending, currentBlock>>
    <2>1. Control'
      BY <1>1, <1>5 DEF CountInv, Control, SumDispatch
    <2>2. Counting'
      BY <1>1, <1>2, <1>3, <1>5 DEF CountInv, Counting
    <2>3. Slack'
      BY <1>5 DEF Slack, SumDispatch
    <2> QED
      BY <2>1, <2>2, <2>3
  <1> QED
    BY <1>4, <1>5 DEF WriteDispatch, SumDispatch, CountInv, Control

\* The caller takes a result.
LEMMA CountReceive ==
  ASSUME CountInv, DrainReceive \/ SumReceive
  PROVE  Control' /\ Counting' /\ Slack'
  <1>1. /\ UNCHANGED <<jobs, resultsClosed, worker, hand, summed, closed, currentBlock>>
        /\ pending' = pending - 1 /\ results' = Tail(results) /\ results # << >>
        /\ pc' \in {"drainCommit", "sumCommit"}
    BY DEF DrainReceive, SumReceive, ReceiveResult, workerVars, outVars
  <1>2. Busy' = Busy
    BY <1>1 DEF Busy
  <1>3. Len(results') = Len(results) - 1
    BY <1>1, HeadTailProperties DEF CountInv, TypeOK
  <1>4. Control'
    <2>1. ~summed
      <3>1. pc = "drain" \/ pending > 0
        BY DEF DrainReceive, SumReceive
      <3> QED
        BY <3>1 DEF CountInv, Control
    <2>2. CASE DrainReceive
      BY <1>1, <2>1, <2>2 DEF CountInv, Control, DrainReceive, ReceiveResult
    <2>3. CASE SumReceive
      BY <1>1, <2>1, <2>3 DEF CountInv, Control, SumReceive, ReceiveResult
    <2> QED
      BY <2>2, <2>3
  <1>5. Counting'
    <2>1. ~Abandoned
      BY DEF DrainReceive, SumReceive, Abandoned
    <2> QED
      BY <1>1, <1>2, <1>3, <2>1, BusyBound DEF CountInv, Counting, TypeOK
  <1>6. Slack'
    BY <1>1 DEF Slack
  <1> QED
    BY <1>4, <1>5, <1>6

\* Close discards a result; after a Sum there is none to discard.
LEMMA CountDiscard ==
  ASSUME CountInv, CloseDiscard
  PROVE  Control' /\ Counting' /\ Slack'
  <1>1. UNCHANGED <<pc, closed, summed, currentBlock, pending, jobs, resultsClosed, worker>>
    BY DEF CloseDiscard, callerVars, workerVars, outVars
  <1>2. Abandoned
    <2> SUFFICES ASSUME summed PROVE FALSE
      BY DEF CountInv, Control, CloseDiscard, Abandoned
    <2>1. pending = 0 /\ ~Abandoned
      BY DEF CountInv, Control, Abandoned
    <2>2. Len(results) > 0
      BY DEF CloseDiscard, CountInv, TypeOK
    <2> QED
      BY <2>1, <2>2, BusyBound DEF CountInv, Counting, TypeOK
  <1>3. Abandoned'
    BY <1>1, <1>2 DEF Abandoned
  <1>4. Control'
    BY <1>1 DEF CountInv, Control
  <1> QED
    BY <1>3, <1>4 DEF Counting, Slack

\* Reset ends in an initial state.
LEMMA ResetIsInit ==
  ASSUME ResetReturn
  PROVE  Init'
  BY DEF ResetReturn, Init, InitWorkers

\* The workers and the goroutine that closes the results channel.
LEMMA CountWorker ==
  ASSUME CountInv, (\E w \in Workers : Worker(w)) \/ CloseResults
  PROVE  Control' /\ Counting' /\ Slack'
  <1>1. UNCHANGED <<pc, closed, summed, currentBlock, pending>>
    BY DEF Worker, WorkerReceive, WorkerSend, WorkerExit, CloseResults, callerVars, outVars
  <1>2. Abandoned' = Abandoned
    BY <1>1 DEF Abandoned
  <1>3. Slack'
    BY <1>1, <1>2 DEF CountInv, Slack
  <1>4. ASSUME NEW w \in Workers, WorkerReceive(w)
        PROVE  Control' /\ Counting'
    <2>1. Len(jobs') = Len(jobs) - 1 /\ UNCHANGED results
      BY <1>4, HeadTailProperties DEF WorkerReceive, CountInv, TypeOK
    <2>2. Counting'
      BY <1>1, <1>2, <1>4, <2>1, BusyReceive, BusyBound DEF CountInv, Counting, TypeOK
    <2>3. Control'
      BY <1>1, <1>4 DEF CountInv, Control, TypeOK, WorkerReceive
    <2> QED
      BY <2>2, <2>3
  <1>5. ASSUME NEW w \in Workers, WorkerSend(w)
        PROVE  Control' /\ Counting'
    <2>1. Len(results') = Len(results) + 1 /\ UNCHANGED jobs
      BY <1>5 DEF WorkerSend, CountInv, TypeOK
    <2>2. Counting'
      BY <1>1, <1>2, <1>5, <2>1, BusySend, BusyBound DEF CountInv, Counting, TypeOK
    <2>3. Control'
      BY <1>1, <1>5 DEF CountInv, Control, TypeOK, WorkerSend
    <2> QED
      BY <2>2, <2>3
  <1>6. ASSUME NEW w \in Workers, WorkerExit(w)
        PROVE  Control' /\ Counting'
    <2>1. UNCHANGED <<jobs, results, resultsClosed>> /\ Busy' = Busy
      BY <1>6 DEF WorkerExit, Busy, CountInv, TypeOK, chanVars
    <2>2. Control'
      BY <1>1, <1>6, <2>1 DEF CountInv, Control, TypeOK, WorkerExit
    <2> QED
      BY <1>1, <1>2, <2>1, <2>2 DEF CountInv, Counting
  <1>7. ASSUME CloseResults
        PROVE  Control' /\ Counting'
    <2>1. UNCHANGED <<jobs, results, worker>> /\ Busy' = Busy
      BY <1>7 DEF CloseResults, Busy, workerVars
    <2>2. Control'
      BY <1>1, <1>7, <2>1 DEF CountInv, Control, CloseResults
    <2> QED
      BY <1>1, <1>2, <2>1, <2>2 DEF CountInv, Counting
  <1> QED
    BY <1>3, <1>4, <1>5, <1>6, <1>7 DEF Worker

LEMMA CountNext ==
  ASSUME CountInv, [Next]_vars
  PROVE  Control' /\ Counting' /\ Slack'
  <1>1. CASE ResetReturn
    BY <1>1, ResetIsInit, CountInit, PTL
  <1> QED
    BY <1>1, CountLocal, CountDispatch, CountReceive, CountDiscard, CountWorker
    DEF Next, Caller

LEMMA CountInvariant == Spec => []CountInv
  <1>1. Init /\ TypeOK => CountInv
    BY CountInit DEF CountInv
  <1>2. CountInv /\ [Next]_vars /\ TypeOK' => CountInv'
    BY CountNext DEF CountInv
  <1> QED
    BY <1>1, <1>2, TypeCorrect, PTL DEF Spec

\* Deadlock freedom of the two bounded channels, for every number of workers:
\* the caller is never blocked on a full jobs channel while all the workers are
\* blocked on a full results channel.
THEOREM NeverMutualWait == Spec => []NoMutualWait
  <1>1. CountInv => NoMutualWait
    <2> SUFFICES ASSUME CountInv, pc \in {"dispatch", "sumDispatch"},
                        Len(jobs) = QueueSize, Len(results) = QueueSize,
                        \A w \in Workers : worker[w] = "send"
                 PROVE  FALSE
      BY DEF NoMutualWait
    <2>1. Busy = Workers
      BY DEF Busy
    <2>2. ~Abandoned
      BY DEF Abandoned
    <2>3. pending = Len(jobs) + Len(results) + WorkerCount
      BY <2>1, <2>2, BusyBound DEF CountInv, Counting
    <2>4. pending <= 3 * WorkerCount
      BY <2>2 DEF CountInv, Slack
    <2> QED
      BY <2>3, <2>4, QueueSizeNat
  <1> QED
    BY <1>1, CountInvariant, PTL

----------------------------------------------------------------------------
(***************************************************************************)
(* Sum returns the hashes in block order.                                  *)
(***************************************************************************)

Items(q) == {q[k] : k \in 1..Len(q)}
Held == {hand[w] : w \in Busy}

\* The bytes not yet dispatched are in currentBlock, and only a Sum dispatches
\* a block that is not full.
Frontier ==
    /\ Offset(nextDispatchIndex) <= pos =>
          /\ Len(currentBlock) = pos - Offset(nextDispatchIndex)
          /\ \A k \in 1..Len(currentBlock) :
                currentBlock[k] = Stream[Offset(nextDispatchIndex) + k]
    /\ Offset(nextDispatchIndex) > pos =>
          /\ closed
          /\ currentBlock = << >>
          /\ nextDispatchIndex > 0
          /\ Offset(nextDispatchIndex - 1) < pos
    /\ pc = "dispatch" => Len(currentBlock) = BlockSize
    /\ pc # "dispatch" => Len(currentBlock) < BlockSize

GoodJob(j) == j.index < nextDispatchIndex /\ j.data = Block(j.index, pos)
GoodResult(r) == r.index < nextDispatchIndex /\ r.sum = Hash(Block(r.index, pos))

\* What travels under an index is the block with that index, or its hash.
Contents ==
    /\ \A j \in Items(jobs) : GoodJob(j)
    /\ \A r \in Items(results) : GoodResult(r)
    /\ \A r \in Held : GoodResult(r)
    /\ \A i \in DOMAIN outOfOrder :
          i < nextDispatchIndex /\ outOfOrder[i] = Hash(Block(i, pos))

Committed ==
    /\ Len(blockHashes) = nextCommitIndex
    /\ nextCommitIndex <= nextDispatchIndex
    /\ \A i \in 1..nextCommitIndex : blockHashes[i] = Hash(Block(i - 1, pos))
    /\ pc \notin {"drainCommit", "sumCommit"} => nextCommitIndex \notin DOMAIN outOfOrder

\* No dispatched block is lost.
Complete ==
    ~Abandoned =>
        \A i \in nextCommitIndex..(nextDispatchIndex - 1) :
            \/ i \in DOMAIN outOfOrder
            \/ \E j \in Items(jobs) : j.index = i
            \/ \E r \in Items(results) : r.index = i
            \/ \E r \in Held : r.index = i

OrderInv == Frontier /\ Contents /\ Committed /\ Complete /\ SumMatchesSerial

LEMMA OffsetFacts ==
  /\ Offset(0) = 0
  /\ \A i \in Nat : Offset(i) \in Nat /\ Offset(i + 1) = Offset(i) + BlockSize
  /\ \A i, j \in Nat : i < j => Offset(i) + BlockSize <= Offset(j)
  <1>1. \A i \in Nat : Offset(i) \in Nat /\ Offset(i + 1) = Offset(i) + BlockSize
    BY DEF Offset
  <1>2. ASSUME NEW i \in Nat, NEW j \in Nat, i < j
        PROVE  Offset(i) + BlockSize <= Offset(j)
    <2>1. PICK d \in Nat : j = i + 1 + d
      <3>1. j - i - 1 \in Nat /\ j = i + 1 + (j - i - 1)
        BY <1>2
      <3> QED
        BY <3>1
    <2>2. j * BlockSize = i * BlockSize + BlockSize + d * BlockSize
      BY <2>1
    <2>3. d * BlockSize >= 0
      BY <2>1
    <2>4. i * BlockSize \in Nat /\ d * BlockSize \in Nat
      OBVIOUS
    <2> QED
      BY <2>2, <2>3, <2>4 DEF Offset
  <1>3. Offset(0) = 0
    BY DEF Offset
  <1> QED
    BY <1>1, <1>2, <1>3

\* A block that is full stays what it is when the stream goes on.
LEMMA BlockStable ==
  ASSUME NEW i \in Nat, NEW d \in Nat, i < d,
         NEW n \in Nat, NEW m \in Nat, Offset(d) <= n, n <= m
  PROVE  Block(i, n) = Block(i, m)
  <1>1. /\ Offset(i) \in Nat /\ Offset(i) + BlockSize <= Offset(d)
        /\ Offset(d) \in Nat
    BY OffsetFacts
  <1>2. BlockSize <= n - Offset(i) /\ BlockSize <= m - Offset(i)
    BY <1>1
  <1>3. /\ Minimum(BlockSize, n - Offset(i)) = BlockSize
        /\ Minimum(BlockSize, m - Offset(i)) = BlockSize
    BY <1>2 DEF Minimum
  <1> QED
    BY <1>3 DEF Block

\* The block in the buffer is the one with the next index.
LEMMA CurrentIsBlock ==
  ASSUME TypeOK, Frontier, Offset(nextDispatchIndex) <= pos
  PROVE  currentBlock = Block(nextDispatchIndex, pos)
  <1>1. Offset(nextDispatchIndex) \in Nat
    BY OffsetFacts DEF TypeOK
  <1>2. /\ Len(currentBlock) = pos - Offset(nextDispatchIndex)
        /\ \A k \in 1..Len(currentBlock) :
              currentBlock[k] = Stream[Offset(nextDispatchIndex) + k]
    BY DEF Frontier
  <1>3. Minimum(BlockSize, pos - Offset(nextDispatchIndex)) = Len(currentBlock)
    <2>1. /\ Len(currentBlock) \in Nat /\ Len(currentBlock) <= BlockSize
          /\ BlockSize \in Nat
      BY DEF TypeOK, Bytes
    <2>2. Minimum(BlockSize, Len(currentBlock)) = Len(currentBlock)
      BY <2>1 DEF Minimum
    <2> QED
      BY <1>2, <2>2
  <1>4. currentBlock = [k \in 1..Len(currentBlock) |-> currentBlock[k]]
    BY DEF TypeOK, Bytes
  <1> QED
    BY <1>2, <1>3, <1>4 DEF Block

LEMMA ItemsAppend ==
  ASSUME NEW S, NEW q \in Seq(S), NEW e \in S
  PROVE  Items(Append(q, e)) = Items(q) \cup {e}
  <1>1. /\ Len(Append(q, e)) = Len(q) + 1 /\ Len(q) \in Nat
        /\ \A k \in 1..Len(q) : Append(q, e)[k] = q[k]
        /\ Append(q, e)[Len(q) + 1] = e
    BY AppendProperties
  <1>2. 1..(Len(q) + 1) = 1..Len(q) \cup {Len(q) + 1}
    BY <1>1
  <1> QED
    BY <1>1, <1>2 DEF Items

LEMMA ItemsTail ==
  ASSUME NEW S, NEW q \in Seq(S), q # << >>
  PROVE  Items(q) = Items(Tail(q)) \cup {Head(q)}
  <1>1. /\ Len(Tail(q)) = Len(q) - 1 /\ Len(q) \in Nat /\ Len(q) > 0
        /\ \A k \in 1..Len(Tail(q)) : Tail(q)[k] = q[k + 1]
        /\ Head(q) = q[1]
    BY HeadTailProperties
  <1>2. ASSUME NEW k \in 1..Len(q)
        PROVE  q[k] \in Items(Tail(q)) \cup {Head(q)}
    <2>1. CASE k = 1
      BY <1>1, <2>1
    <2>2. CASE k # 1
      <3>1. k - 1 \in 1..Len(Tail(q)) /\ q[k] = Tail(q)[k - 1]
        BY <1>1, <2>2
      <3> QED
        BY <3>1 DEF Items
    <2> QED
      BY <2>1, <2>2
  <1>3. ASSUME NEW k \in 1..Len(Tail(q))
        PROVE  Tail(q)[k] \in Items(q)
    <2>1. k + 1 \in 1..Len(q) /\ Tail(q)[k] = q[k + 1]
      BY <1>1
    <2> QED
      BY <2>1 DEF Items
  <1>4. Head(q) \in Items(q)
    <2>1. 1 \in 1..Len(q)
      BY <1>1
    <2> QED
      BY <1>1, <2>1 DEF Items
  <1> QED
    BY <1>2, <1>3, <1>4 DEF Items

LEMMA ItemsType ==
  ASSUME NEW S, NEW q \in Seq(S)
  PROVE  Items(q) \subseteq S
  <1>1. \A k \in 1..Len(q) : q[k] \in S
    OBVIOUS
  <1> QED
    BY <1>1 DEF Items

LEMMA ItemsEmpty == Items(<< >>) = {}
  BY DEF Items

LEMMA OrderInit == Init => OrderInv
  <1> SUFFICES ASSUME Init PROVE OrderInv
    OBVIOUS
  <1>1. Items(jobs) = {} /\ Items(results) = {}
    BY ItemsEmpty DEF Init, InitWorkers
  <1>2. Held = {}
    BY DEF Init, InitWorkers, Held, Busy
  <1>3. DOMAIN outOfOrder = {}
    BY DEF Init, EmptyMap
  <1>4. Frontier
    <2>1. Offset(nextDispatchIndex) = 0 /\ pos = 0 /\ pc = "idle" /\ Len(currentBlock) = 0
      BY OffsetFacts DEF Init
    <2> QED
      BY <2>1 DEF Frontier
  <1>5. Contents
    BY <1>1, <1>2, <1>3 DEF Contents
  <1>6. Committed
    BY <1>3 DEF Init, Committed
  <1>7. Complete
    BY DEF Init, Complete
  <1> QED
    BY <1>4, <1>5, <1>6, <1>7 DEF Init, OrderInv, SumMatchesSerial

\* Steps that change neither the data nor where it is.
LEMMA OrderFrame ==
  ASSUME OrderInv,
         UNCHANGED <<pos, currentBlock, blockHashes, outOfOrder, nextDispatchIndex,
                     nextCommitIndex, jobs, results, hand, summed, sum>>,
         Busy' = Busy,
         closed => closed',
         pc = "dispatch" <=> pc' = "dispatch",
         \/ pc' \in {"drainCommit", "sumCommit"}
         \/ pc \notin {"drainCommit", "sumCommit"}
         \/ nextCommitIndex \notin DOMAIN outOfOrder,
         ~Abandoned' => ~Abandoned
  PROVE  OrderInv'
  <1>1. Held' = Held
    BY DEF Held
  <1>2. Frontier'
    BY DEF OrderInv, Frontier
  <1>3. Contents'
    BY <1>1 DEF OrderInv, Contents, GoodJob, GoodResult
  <1>4. Committed'
    BY DEF OrderInv, Committed
  <1>5. Complete'
    BY <1>1 DEF OrderInv, Complete
  <1>6. SumMatchesSerial'
    BY DEF OrderInv, SumMatchesSerial
  <1> QED
    BY <1>2, <1>3, <1>4, <1>5, <1>6 DEF OrderInv

\* The loop of Write moves bytes from the stream to the current block.
LEMMA OrderFill ==
  ASSUME CountInv, OrderInv, WriteFill
  PROVE  OrderInv'
  <1> DEFINE n == Minimum(BlockSize - Len(currentBlock), rest)
             piece == SubSeq(Stream, pos + 1, pos + n)
             off == Offset(nextDispatchIndex)
  <1>1. TypeOK /\ rest > 0 /\ pc = "write" /\ ~closed /\ ~summed
    BY DEF WriteFill, CountInv, Control
  <1>2. /\ currentBlock' = currentBlock \o piece
        /\ pos' = pos + n
        /\ UNCHANGED <<blockHashes, outOfOrder, nextDispatchIndex, nextCommitIndex,
                       closed, jobs, results, worker, hand, summed, sum>>
        /\ pc' = IF Len(currentBlock') = BlockSize THEN "dispatch" ELSE "write"
    BY DEF WriteFill, chanVars, workerVars, outVars
  <1>3. /\ n \in Nat
        /\ Len(currentBlock \o piece) = Len(currentBlock) + n
        /\ Len(currentBlock) + n <= BlockSize
        /\ \A k \in 1..(Len(currentBlock) + n) :
              (currentBlock \o piece)[k] =
                 IF k <= Len(currentBlock) THEN currentBlock[k]
                                           ELSE Stream[pos + k - Len(currentBlock)]
    BY <1>1, FillType
  <1> HIDE DEF n, piece
  <1>4. /\ off \in Nat /\ pos \in Nat /\ off <= pos
        /\ Len(currentBlock) = pos - off
    <2>1. off \in Nat /\ pos \in Nat
      <3>1. nextDispatchIndex \in Nat /\ pos \in Nat
        BY <1>1 DEF TypeOK
      <3> QED
        BY <3>1, OffsetFacts
    <2>2. ~(off > pos)
      BY <1>1 DEF OrderInv, Frontier
    <2>3. off <= pos
      BY <2>1, <2>2
    <2> QED
      BY <2>1, <2>3 DEF OrderInv, Frontier
  <1>5. \A i \in Nat : i < nextDispatchIndex => Block(i, pos) = Block(i, pos')
    <2> SUFFICES ASSUME NEW i \in Nat, i < nextDispatchIndex
                 PROVE  Block(i, pos) = Block(i, pos')
      OBVIOUS
    <2>1. pos' \in Nat /\ pos <= pos' /\ nextDispatchIndex \in Nat
      BY <1>1, <1>2, <1>3, <1>4 DEF TypeOK
    <2> QED
      BY <1>4, <2>1, BlockStable
  <1>6. Frontier'
    <2>1. Len(currentBlock') = pos' - off
      BY <1>2, <1>3, <1>4
    <2>2. ASSUME NEW k \in 1..Len(currentBlock')
          PROVE  currentBlock'[k] = Stream[off + k]
      <3>1. k \in 1..(Len(currentBlock) + n) /\ k \in Int
        BY <1>2, <1>3, <1>4
      <3>2. CASE k <= Len(currentBlock)
        <4>1. k \in 1..Len(currentBlock)
          BY <1>4, <3>1, <3>2
        <4> QED
          BY <1>2, <1>3, <1>4, <3>1, <3>2, <4>1 DEF OrderInv, Frontier
      <3>3. CASE ~(k <= Len(currentBlock))
        <4>1. pos + k - Len(currentBlock) = off + k
          BY <1>4, <3>1
        <4> QED
          BY <1>2, <1>3, <3>1, <3>3, <4>1
      <3> QED
        BY <3>2, <3>3
    <2>3. off <= pos'
      BY <1>2, <1>3, <1>4
    <2>4. /\ pc' = "dispatch" => Len(currentBlock') = BlockSize
          /\ pc' # "dispatch" => Len(currentBlock') < BlockSize
      <3>1. Len(currentBlock') \in Int /\ Len(currentBlock') <= BlockSize
        BY <1>2, <1>3, <1>4
      <3>2. pc' = IF Len(currentBlock') = BlockSize THEN "dispatch" ELSE "write"
        BY <1>2
      <3> QED
        BY <3>1, <3>2
    <2>5. ~(off > pos')
      BY <1>2, <1>3, <1>4
    <2> QED
      BY <1>2, <2>1, <2>2, <2>3, <2>4, <2>5 DEF Frontier
  <1> HIDE DEF off
  <1>7. Held' = Held
    BY <1>2 DEF Held, Busy
  <1>8. Contents'
    <2>1. \A j \in Items(jobs) : j.index \in Nat
      <3>1. Items(jobs) \subseteq BlockJob
        BY <1>1, ItemsType DEF TypeOK
      <3> QED
        BY <3>1 DEF BlockJob
    <2>2. \A r \in Items(results) : r.index \in Nat
      <3>1. Items(results) \subseteq BlockResult
        BY <1>1, ItemsType DEF TypeOK
      <3> QED
        BY <3>1 DEF BlockResult
    <2>3. \A r \in Held : r.index \in Nat
      BY <1>1 DEF TypeOK, Held, Busy, BlockResult
    <2>4. \A i \in DOMAIN outOfOrder : i \in Nat
      BY <1>1 DEF TypeOK
    <2> QED
      BY <1>2, <1>5, <1>7, <2>1, <2>2, <2>3, <2>4
      DEF OrderInv, Contents, GoodJob, GoodResult
  <1>9. Committed'
    <2>1. ASSUME NEW i \in 1..nextCommitIndex
          PROVE  i - 1 \in Nat /\ i - 1 < nextDispatchIndex
      BY <1>1 DEF OrderInv, Committed, TypeOK
    <2> QED
      BY <1>1, <1>2, <1>5, <2>1 DEF OrderInv, Committed
  <1>10. Complete'
    BY <1>1, <1>2, <1>7 DEF OrderInv, Complete, Abandoned
  <1> QED
    BY <1>1, <1>2, <1>6, <1>8, <1>9, <1>10 DEF OrderInv, SumMatchesSerial

\* Calls, returns and the ends of the loops.
LEMMA OrderLocal ==
  ASSUME CountInv, OrderInv,
         \/ WriteCall \/ WriteReturn \/ DrainReturn \/ SumCall \/ CloseCall
         \/ CloseReturn \/ UNCHANGED vars
  PROVE  OrderInv'
  <1>1. UNCHANGED <<pos, currentBlock, blockHashes, outOfOrder, nextDispatchIndex,
                    nextCommitIndex, jobs, results, hand, worker, summed, sum>>
    BY DEF WriteCall, WriteReturn, DrainReturn, SumCall, CloseCall, CloseReturn,
           vars, callerVars, chanVars, workerVars, outVars
  <1>2. Busy' = Busy
    BY <1>1 DEF Busy
  <1>3. ~Abandoned' => ~Abandoned
    BY <1>1 DEF CountInv, Control, Abandoned, WriteCall, WriteReturn, DrainReturn,
                SumCall, CloseCall, CloseReturn, vars, callerVars
  <1>4. closed => closed'
    BY DEF WriteCall, WriteReturn, DrainReturn, SumCall, CloseCall, CloseReturn,
           vars, callerVars
  <1>5. pc = "dispatch" <=> pc' = "dispatch"
    BY DEF WriteCall, WriteReturn, DrainReturn, SumCall, CloseCall, CloseReturn,
           vars, callerVars
  <1>6. pc' \in {"drainCommit", "sumCommit"} \/ pc \notin {"drainCommit", "sumCommit"}
    BY DEF WriteCall, WriteReturn, DrainReturn, SumCall, CloseCall, CloseReturn,
           vars, callerVars
  <1> QED
    BY <1>1, <1>2, <1>3, <1>4, <1>5, <1>6, OrderFrame

LEMMA OrderExit ==
  ASSUME CountInv, OrderInv, (\E w \in Workers : WorkerExit(w)) \/ CloseResults
  PROVE  OrderInv'
  <1>1. UNCHANGED <<pc, closed, pos, currentBlock, blockHashes, outOfOrder,
                    nextDispatchIndex, nextCommitIndex, jobs, results, hand, summed, sum>>
    BY DEF WorkerExit, CloseResults, callerVars, chanVars, workerVars, outVars
  <1>2. Busy' = Busy
    BY DEF WorkerExit, CloseResults, Busy, CountInv, TypeOK, workerVars
  <1>3. ~Abandoned' => ~Abandoned
    BY <1>1 DEF Abandoned
  <1> QED
    BY <1>1, <1>2, <1>3, OrderFrame

\* The current block goes into the jobs channel under its index.
LEMMA OrderDispatchBlock ==
  ASSUME CountInv, OrderInv, WriteDispatch \/ SumDispatch, DispatchBlock,
         currentBlock # << >>, ~closed, ~summed
  PROVE  OrderInv'
  <1> DEFINE off == Offset(nextDispatchIndex)
  <1>0. PICK job : job = [index |-> nextDispatchIndex, data |-> currentBlock]
    OBVIOUS
  <1>1. /\ UNCHANGED <<pos, blockHashes, outOfOrder, nextCommitIndex, results, worker,
                       hand, summed, sum>>
        /\ jobs' = Append(jobs, job) /\ nextDispatchIndex' = nextDispatchIndex + 1
        /\ currentBlock' = << >>
        /\ pc \in {"dispatch", "sumDispatch"} /\ pc' \in {"drain", "sum"}
    BY <1>0 DEF WriteDispatch, SumDispatch, DispatchBlock, workerVars, outVars
  <1>2. TypeOK /\ nextDispatchIndex \in Nat /\ nextCommitIndex \in Nat /\ pos \in Nat
    BY DEF CountInv, TypeOK
  <1>3. off \in Nat /\ Offset(nextDispatchIndex') = off + BlockSize
    BY <1>1, <1>2, OffsetFacts
  <1>4. off <= pos /\ Len(currentBlock) = pos - off
    <2>1. off <= pos
      BY <1>2, <1>3 DEF OrderInv, Frontier
    <2> QED
      BY <2>1 DEF OrderInv, Frontier
  <1>5. currentBlock = Block(nextDispatchIndex, pos)
    BY <1>2, <1>4, CurrentIsBlock DEF OrderInv
  <1>6. Items(jobs') = Items(jobs) \cup {job}
    <2>1. job \in BlockJob /\ jobs \in Seq(BlockJob)
      BY <1>0, <1>2 DEF TypeOK, BlockJob
    <2> QED
      BY <1>1, <2>1, ItemsAppend
  <1>7. Held' = Held
    BY <1>1 DEF Held, Busy
  <1>8. Frontier'
    <2>1. CASE WriteDispatch
      <3>1. Len(currentBlock) = BlockSize
        BY <2>1 DEF OrderInv, Frontier, WriteDispatch
      <3>2. Offset(nextDispatchIndex') = pos'
        BY <1>1, <1>2, <1>3, <1>4, <3>1
      <3> QED
        BY <1>1, <1>2, <3>2 DEF Frontier
    <2>2. CASE SumDispatch
      <3>1. Len(currentBlock) < BlockSize /\ Len(currentBlock) > 0
        BY <1>2, <2>2 DEF OrderInv, Frontier, SumDispatch, TypeOK, Bytes
      <3>2. Offset(nextDispatchIndex') > pos' /\ off < pos'
        BY <1>1, <1>2, <1>3, <1>4, <3>1
      <3>3. closed' /\ nextDispatchIndex' - 1 = nextDispatchIndex /\ nextDispatchIndex' > 0
        BY <1>1, <1>2, <2>2 DEF SumDispatch
      <3>4. ~(Offset(nextDispatchIndex') <= pos')
        BY <1>1, <1>2, <1>3, <3>2
      <3> QED
        BY <1>1, <3>2, <3>3, <3>4 DEF Frontier
    <2> QED
      BY <2>1, <2>2
  <1>9. Contents'
    <2>1. \A j \in Items(jobs) : GoodJob(j)'
      <3>1. Items(jobs) \subseteq BlockJob
        BY <1>2, ItemsType DEF TypeOK
      <3> QED
        BY <1>1, <1>2, <3>1 DEF OrderInv, Contents, GoodJob, BlockJob
    <2>2. GoodJob(job)'
      BY <1>0, <1>1, <1>2, <1>5 DEF GoodJob
    <2>3. \A r \in Items(results) : GoodResult(r)'
      <3>1. Items(results) \subseteq BlockResult
        BY <1>2, ItemsType DEF TypeOK
      <3> QED
        BY <1>1, <1>2, <3>1 DEF OrderInv, Contents, GoodResult, BlockResult
    <2>4. \A r \in Held : GoodResult(r)'
      <3>1. Held \subseteq BlockResult
        BY <1>2 DEF Held, Busy, TypeOK
      <3> QED
        BY <1>1, <1>2, <3>1 DEF OrderInv, Contents, GoodResult, BlockResult
    <2>5. \A i \in DOMAIN outOfOrder :
            i < nextDispatchIndex' /\ outOfOrder[i] = Hash(Block(i, pos))
      BY <1>1, <1>2 DEF OrderInv, Contents, TypeOK
    <2> QED
      BY <1>1, <1>6, <1>7, <2>1, <2>2, <2>3, <2>4, <2>5 DEF Contents
  <1>10. Committed'
    BY <1>1, <1>2 DEF OrderInv, Committed
  <1>11. Complete'
    <2>1. ~Abandoned
      BY <1>1 DEF Abandoned
    <2> SUFFICES ASSUME NEW i \in nextCommitIndex..nextDispatchIndex
                 PROVE  \/ i \in DOMAIN outOfOrder
                        \/ \E j \in Items(jobs') : j.index = i
                        \/ \E r \in Items(results) : r.index = i
                        \/ \E r \in Held : r.index = i
      BY <1>1, <1>2, <1>7 DEF Complete
    <2>2. CASE i = nextDispatchIndex
      <3>1. job.index = i /\ job \in Items(jobs')
        BY <1>0, <1>6, <2>2
      <3> QED
        BY <3>1
    <2>3. CASE i # nextDispatchIndex
      <3>1. i \in nextCommitIndex..(nextDispatchIndex - 1)
        BY <1>2, <2>3
      <3> QED
        BY <1>6, <2>1, <3>1 DEF OrderInv, Complete
    <2> QED
      BY <2>2, <2>3
  <1> QED
    BY <1>1, <1>8, <1>9, <1>10, <1>11 DEF OrderInv, SumMatchesSerial

LEMMA OrderDispatch ==
  ASSUME CountInv, OrderInv, WriteDispatch \/ SumDispatch
  PROVE  OrderInv'
  <1>1. CASE SumDispatch /\ currentBlock = << >>
    <2>1. UNCHANGED <<pos, currentBlock, blockHashes, outOfOrder, nextDispatchIndex,
                      nextCommitIndex, jobs, results, hand, worker, summed, sum>>
      BY <1>1 DEF SumDispatch, workerVars, outVars
    <2>2. Busy' = Busy
      BY <2>1 DEF Busy
    <2>3. /\ pc # "dispatch" /\ pc' # "dispatch" /\ closed'
          /\ pc \notin {"drainCommit", "sumCommit"} /\ ~Abandoned
      BY <1>1 DEF SumDispatch, Abandoned
    <2> QED
      BY <2>1, <2>2, <2>3, OrderFrame
  <1>2. CASE WriteDispatch
    <2>1. Len(currentBlock) = BlockSize /\ ~closed /\ ~summed
      BY <1>2 DEF OrderInv, Frontier, WriteDispatch, CountInv, Control
    <2>2. currentBlock # << >>
      BY <2>1
    <2> QED
      BY <1>2, <2>1, <2>2, OrderDispatchBlock DEF WriteDispatch
  <1>3. CASE SumDispatch /\ currentBlock # << >>
    <2>1. ~closed /\ ~summed
      BY <1>3 DEF SumDispatch, CountInv, Control
    <2> QED
      BY <1>3, <2>1, OrderDispatchBlock DEF SumDispatch
  <1> QED
    BY <1>1, <1>2, <1>3

\* A result moves from the channel to outOfOrder.
LEMMA OrderReceive ==
  ASSUME CountInv, OrderInv, DrainReceive \/ SumReceive
  PROVE  OrderInv'
  <1>0. PICK res : res = Head(results)
    OBVIOUS
  <1>1. /\ UNCHANGED <<pos, currentBlock, blockHashes, nextDispatchIndex, nextCommitIndex,
                       closed, jobs, worker, hand, summed, sum>>
        /\ results' = Tail(results) /\ results # << >>
        /\ DOMAIN outOfOrder' = DOMAIN outOfOrder \cup {res.index}
        /\ \A i \in DOMAIN outOfOrder' :
              outOfOrder'[i] = IF i = res.index THEN res.sum ELSE outOfOrder[i]
        /\ pc \in {"drain", "sum"} /\ pc' \in {"drainCommit", "sumCommit"}
    BY <1>0 DEF DrainReceive, SumReceive, ReceiveResult, workerVars, outVars
  <1>2. Items(results) = Items(results') \cup {res}
    BY <1>0, <1>1, ItemsTail DEF CountInv, TypeOK
  <1>3. Held' = Held
    BY <1>1 DEF Held, Busy
  <1>4. GoodResult(res)
    BY <1>2 DEF OrderInv, Contents
  <1>5. Frontier'
    BY <1>1 DEF OrderInv, Frontier
  <1>6. Contents'
    <2>1. \A i \in DOMAIN outOfOrder' :
            i < nextDispatchIndex /\ outOfOrder'[i] = Hash(Block(i, pos))
      BY <1>1, <1>4 DEF OrderInv, Contents, GoodResult
    <2> QED
      BY <1>1, <1>2, <1>3, <2>1 DEF OrderInv, Contents, GoodJob, GoodResult
  <1>7. Committed'
    BY <1>1 DEF OrderInv, Committed
  <1>8. Complete'
    <2>1. ~Abandoned
      BY <1>1 DEF Abandoned
    <2> SUFFICES ASSUME NEW i \in nextCommitIndex..(nextDispatchIndex - 1)
                 PROVE  \/ i \in DOMAIN outOfOrder'
                        \/ \E j \in Items(jobs) : j.index = i
                        \/ \E r \in Items(results') : r.index = i
                        \/ \E r \in Held : r.index = i
      BY <1>1, <1>3 DEF Complete
    <2> QED
      BY <1>1, <1>2, <2>1 DEF OrderInv, Complete
  <1> QED
    BY <1>1, <1>5, <1>6, <1>7, <1>8 DEF OrderInv, SumMatchesSerial

\* One iteration of the commit loop.
LEMMA OrderCommit ==
  ASSUME CountInv, OrderInv,
         CommitStep("drainCommit", "drain") \/ CommitStep("sumCommit", "sum")
  PROVE  OrderInv'
  <1>1. /\ UNCHANGED <<pos, currentBlock, nextDispatchIndex, closed, jobs, results,
                       worker, hand, summed, sum>>
        /\ pc # "dispatch" /\ pc' # "dispatch"
    BY DEF CommitStep, chanVars, workerVars, outVars
  <1>2. Held' = Held /\ Busy' = Busy
    BY <1>1 DEF Held, Busy
  <1>3. ~Abandoned /\ ~Abandoned'
    BY DEF CommitStep, Abandoned
  <1>4. CASE /\ nextCommitIndex \notin DOMAIN outOfOrder
             /\ UNCHANGED <<blockHashes, outOfOrder, nextCommitIndex>>
    BY <1>1, <1>2, <1>3, <1>4, OrderFrame
  <1>5. CASE /\ nextCommitIndex \in DOMAIN outOfOrder
             /\ blockHashes' = Append(blockHashes, outOfOrder[nextCommitIndex])
             /\ outOfOrder' = [i \in DOMAIN outOfOrder \ {nextCommitIndex} |-> outOfOrder[i]]
             /\ nextCommitIndex' = nextCommitIndex + 1
             /\ pc' = pc
    <2>1. /\ nextCommitIndex \in Nat /\ nextDispatchIndex \in Nat
          /\ blockHashes \in Seq(Digest) /\ outOfOrder[nextCommitIndex] \in Digest
          /\ DOMAIN outOfOrder \subseteq Nat
      BY <1>5 DEF CountInv, TypeOK
    <2>2. /\ nextCommitIndex < nextDispatchIndex
          /\ outOfOrder[nextCommitIndex] = Hash(Block(nextCommitIndex, pos))
      BY <1>5 DEF OrderInv, Contents
    <2>3. /\ Len(blockHashes') = nextCommitIndex + 1
          /\ \A i \in 1..nextCommitIndex : blockHashes'[i] = blockHashes[i]
          /\ blockHashes'[nextCommitIndex + 1] = outOfOrder[nextCommitIndex]
      <3>1. Len(blockHashes) = nextCommitIndex
        BY DEF OrderInv, Committed
      <3> QED
        BY <1>5, <2>1, <3>1, AppendProperties
    <2>4. Committed'
      <3>1. ASSUME NEW i \in 1..(nextCommitIndex + 1)
            PROVE  blockHashes'[i] = Hash(Block(i - 1, pos))
        <4>1. CASE i = nextCommitIndex + 1
          <5>1. i - 1 = nextCommitIndex
            BY <2>1, <4>1
          <5> QED
            BY <2>2, <2>3, <4>1, <5>1
        <4>2. CASE i # nextCommitIndex + 1
          <5>1. i \in 1..nextCommitIndex
            BY <2>1, <4>2
          <5> QED
            BY <2>3, <5>1 DEF OrderInv, Committed
        <4> QED
          BY <4>1, <4>2
      <3>2. nextCommitIndex + 1 <= nextDispatchIndex
        BY <2>1, <2>2
      <3>3. pc' \in {"drainCommit", "sumCommit"}
        BY <1>5 DEF CommitStep
      <3> QED
        BY <1>1, <1>5, <2>3, <3>1, <3>2, <3>3 DEF Committed
    <2>5. Contents'
      BY <1>1, <1>2, <1>5 DEF OrderInv, Contents, GoodJob, GoodResult
    <2>6. Frontier'
      BY <1>1, <1>5 DEF OrderInv, Frontier
    <2>7. Complete'
      <3> SUFFICES ASSUME NEW i \in (nextCommitIndex + 1)..(nextDispatchIndex - 1)
                   PROVE  \/ i \in DOMAIN outOfOrder \ {nextCommitIndex}
                          \/ \E j \in Items(jobs) : j.index = i
                          \/ \E r \in Items(results) : r.index = i
                          \/ \E r \in Held : r.index = i
        BY <1>1, <1>2, <1>5 DEF Complete
      <3>1. i \in nextCommitIndex..(nextDispatchIndex - 1) /\ i # nextCommitIndex
        BY <2>1
      <3> QED
        BY <1>3, <3>1 DEF OrderInv, Complete
    <2> QED
      BY <1>1, <2>4, <2>5, <2>6, <2>7 DEF OrderInv, SumMatchesSerial
  <1> QED
    BY <1>4, <1>5 DEF CommitStep

\* A job goes from the channel to a worker's hands, where it is its hash.
LEMMA OrderWorkerReceive ==
  ASSUME CountInv, OrderInv, NEW w \in Workers, WorkerReceive(w)
  PROVE  OrderInv'
  <1>0. PICK job, res : job = Head(jobs) /\ res = [index |-> job.index, sum |-> Hash(job.data)]
    OBVIOUS
  <1>1. /\ UNCHANGED <<pc, pos, currentBlock, blockHashes, outOfOrder, nextDispatchIndex,
                       nextCommitIndex, closed, results, summed, sum>>
        /\ jobs' = Tail(jobs) /\ jobs # << >>
        /\ Busy' = Busy \cup {w} /\ w \notin Busy
        /\ hand' = [hand EXCEPT ![w] = res]
    BY <1>0 DEF WorkerReceive, callerVars, outVars, Busy, CountInv, TypeOK
  <1>2. Items(jobs) = Items(jobs') \cup {job}
    BY <1>0, <1>1, ItemsTail DEF CountInv, TypeOK
  <1>3. Held' = Held \cup {res}
    BY <1>1 DEF Held, Busy, CountInv, TypeOK
  <1>4. GoodResult(res) /\ res.index = job.index
    BY <1>0, <1>2 DEF OrderInv, Contents, GoodJob, GoodResult
  <1>5. Abandoned' = Abandoned
    BY <1>1 DEF Abandoned
  <1>6. Frontier' /\ Committed'
    BY <1>1 DEF OrderInv, Frontier, Committed
  <1>7. Contents'
    BY <1>1, <1>2, <1>3, <1>4 DEF OrderInv, Contents, GoodJob, GoodResult
  <1>8. Complete'
    BY <1>1, <1>2, <1>3, <1>4, <1>5 DEF OrderInv, Complete
  <1> QED
    BY <1>1, <1>6, <1>7, <1>8 DEF OrderInv, SumMatchesSerial

\* A result goes from a worker's hands to the results channel.
LEMMA OrderWorkerSend ==
  ASSUME CountInv, OrderInv, NEW w \in Workers, WorkerSend(w)
  PROVE  OrderInv'
  <1>0. PICK res : res = hand[w]
    OBVIOUS
  <1>1. /\ UNCHANGED <<pc, pos, currentBlock, blockHashes, outOfOrder, nextDispatchIndex,
                       nextCommitIndex, closed, jobs, summed, sum>>
        /\ results' = Append(results, res)
        /\ Busy' = Busy \ {w} /\ w \in Busy
        /\ hand' = [hand EXCEPT ![w] = NoResult]
    BY <1>0 DEF WorkerSend, callerVars, outVars, Busy, CountInv, TypeOK
  <1>2. res \in Held
    BY <1>0, <1>1 DEF Held
  <1>3. Items(results') = Items(results) \cup {res}
    <2>1. res \in BlockResult /\ results \in Seq(BlockResult)
      BY <1>0 DEF CountInv, TypeOK
    <2> QED
      BY <1>1, <2>1, ItemsAppend
  <1>4. Held' \subseteq Held /\ Held \subseteq Held' \cup {res}
    BY <1>0, <1>1 DEF Held, Busy, CountInv, TypeOK
  <1>5. Abandoned' = Abandoned
    BY <1>1 DEF Abandoned
  <1>6. Frontier' /\ Committed'
    BY <1>1 DEF OrderInv, Frontier, Committed
  <1>7. Contents'
    BY <1>1, <1>2, <1>3, <1>4 DEF OrderInv, Contents, GoodJob, GoodResult
  <1>8. Complete'
    BY <1>1, <1>3, <1>4, <1>5 DEF OrderInv, Complete
  <1> QED
    BY <1>1, <1>6, <1>7, <1>8 DEF OrderInv, SumMatchesSerial

\* Close finds results only when the caller gave the stream up.
LEMMA DiscardAbandoned ==
  ASSUME CountInv, CloseDiscard
  PROVE  Abandoned
  <1> SUFFICES ASSUME summed PROVE FALSE
    BY DEF CountInv, Control, CloseDiscard, Abandoned
  <1>1. pending = 0 /\ ~Abandoned
    BY DEF CountInv, Control, Abandoned
  <1>2. Len(results) > 0
    BY DEF CountInv, TypeOK, CloseDiscard
  <1> QED
    BY <1>1, <1>2, BusyBound DEF CountInv, Counting, TypeOK

\* Close throws results away, after the caller gave the stream up.
LEMMA OrderDiscard ==
  ASSUME CountInv, OrderInv, CloseDiscard
  PROVE  OrderInv'
  <1>1. /\ UNCHANGED <<pc, pos, currentBlock, blockHashes, outOfOrder, nextDispatchIndex,
                       nextCommitIndex, closed, jobs, worker, hand, summed, sum>>
        /\ results' = Tail(results) /\ results # << >>
    BY DEF CloseDiscard, callerVars, workerVars, outVars
  <1>2. Items(results') \subseteq Items(results)
    BY <1>1, ItemsTail DEF CountInv, TypeOK
  <1>3. Held' = Held
    BY <1>1 DEF Held, Busy
  <1>4. Abandoned
    BY DiscardAbandoned
  <1>5. Abandoned'
    BY <1>1, <1>4 DEF Abandoned
  <1>6. Frontier' /\ Committed'
    BY <1>1 DEF OrderInv, Frontier, Committed
  <1>7. Contents'
    BY <1>1, <1>2, <1>3 DEF OrderInv, Contents, GoodJob, GoodResult
  <1> QED
    BY <1>1, <1>5, <1>6, <1>7 DEF OrderInv, Complete, SumMatchesSerial

\* When Sum leaves its loop every block is committed, in order.
LEMMA SumIsSerial ==
  ASSUME CountInv, OrderInv, SumReturn
  PROVE  IsSerialSum(blockHashes, pos)
  <1>1. pc = "sum" /\ ~Abandoned /\ currentBlock = << >>
    BY DEF SumReturn, Abandoned, CountInv, Control
  <1>2. jobs = << >> /\ results = << >> /\ Busy = {}
    <2>1. CASE pending <= 0
      <3>1. /\ pending = Len(jobs) + Len(results) + Cardinality(Busy)
            /\ Len(jobs) \in Nat /\ Len(results) \in Nat
        BY <1>1 DEF CountInv, Counting, TypeOK
      <3>2. Len(jobs) = 0 /\ Len(results) = 0 /\ Cardinality(Busy) = 0
        BY <2>1, <3>1, BusyBound
      <3>3. Busy = {}
        BY <3>2, BusyBound, FS_EmptySet
      <3> QED
        BY <3>2, <3>3 DEF CountInv, TypeOK
    <2>2. CASE resultsClosed /\ results = << >>
      <3>1. \A w \in Workers : worker[w] = "done"
        BY <2>2 DEF CountInv, Control
      <3>2. 1 \in Workers
        BY DEF Workers
      <3> QED
        BY <2>2, <3>1, <3>2 DEF CountInv, Control, Busy
    <2> QED
      BY <2>1, <2>2 DEF SumReturn
  <1>3. Items(jobs) = {} /\ Items(results) = {} /\ Held = {}
    BY <1>2, ItemsEmpty DEF Held
  <1>4. nextCommitIndex \in Nat /\ nextDispatchIndex \in Nat /\ pos \in Nat
    BY DEF CountInv, TypeOK
  <1>5. nextCommitIndex = nextDispatchIndex
    <2> SUFFICES ASSUME nextCommitIndex # nextDispatchIndex PROVE FALSE
      OBVIOUS
    <2>1. nextCommitIndex \in nextCommitIndex..(nextDispatchIndex - 1)
      BY <1>4 DEF OrderInv, Committed
    <2>2. nextCommitIndex \in DOMAIN outOfOrder
      BY <1>1, <1>3, <2>1 DEF OrderInv, Complete
    <2> QED
      BY <1>1, <2>2 DEF OrderInv, Committed
  <1>6. IsBlockCount(nextDispatchIndex, pos)
    <2>1. CASE Offset(nextDispatchIndex) <= pos
      <3>1. Offset(nextDispatchIndex) = pos
        <4>1. Len(currentBlock) = 0
          BY <1>1
        <4>2. Len(currentBlock) = pos - Offset(nextDispatchIndex)
          BY <2>1 DEF OrderInv, Frontier
        <4>3. Offset(nextDispatchIndex) \in Nat
          BY <1>4, OffsetFacts
        <4> QED
          BY <1>4, <4>1, <4>2, <4>3
      <3>2. nextDispatchIndex > 0 => Offset(nextDispatchIndex - 1) < pos
        <4> SUFFICES ASSUME nextDispatchIndex > 0
                     PROVE  Offset(nextDispatchIndex - 1) < pos
          OBVIOUS
        <4>1. nextDispatchIndex - 1 \in Nat /\ nextDispatchIndex - 1 < nextDispatchIndex
          BY <1>4
        <4>2. /\ Offset(nextDispatchIndex - 1) + BlockSize <= Offset(nextDispatchIndex)
              /\ Offset(nextDispatchIndex - 1) \in Nat
          BY <1>4, <4>1, OffsetFacts
        <4> QED
          BY <1>4, <3>1, <4>2
      <3> QED
        BY <1>4, <3>1, <3>2 DEF IsBlockCount
    <2>2. CASE ~(Offset(nextDispatchIndex) <= pos)
      <3>1. Offset(nextDispatchIndex) > pos
        BY <1>4, <2>2, OffsetFacts
      <3>2. Offset(nextDispatchIndex - 1) < pos
        BY <3>1 DEF OrderInv, Frontier
      <3>3. pos <= Offset(nextDispatchIndex)
        BY <1>4, <3>1, OffsetFacts
      <3> QED
        BY <3>2, <3>3 DEF IsBlockCount
    <2> QED
      BY <2>1, <2>2
  <1>7. blockHashes \in Seq(Digest) /\ Len(blockHashes) = nextDispatchIndex
    BY <1>5 DEF CountInv, TypeOK, OrderInv, Committed
  <1> QED
    BY <1>5, <1>6, <1>7 DEF IsSerialSum, OrderInv, Committed

LEMMA OrderSumReturn ==
  ASSUME CountInv, OrderInv, SumReturn
  PROVE  OrderInv'
  <1>1. /\ UNCHANGED <<pos, currentBlock, blockHashes, outOfOrder, nextDispatchIndex,
                       nextCommitIndex, closed, jobs, results, worker, hand>>
        /\ pc = "sum" /\ pc' = "idle" /\ sum' = blockHashes
    BY DEF SumReturn, chanVars, workerVars
  <1>2. Held' = Held
    BY <1>1 DEF Held, Busy
  <1>3. ~Abandoned
    BY <1>1 DEF Abandoned
  <1>4. Frontier' /\ Committed'
    BY <1>1 DEF OrderInv, Frontier, Committed
  <1>5. Contents'
    BY <1>1, <1>2 DEF OrderInv, Contents, GoodJob, GoodResult
  <1>6. Complete'
    BY <1>1, <1>2, <1>3 DEF OrderInv, Complete
  <1>7. SumMatchesSerial'
    BY <1>1, SumIsSerial DEF SumMatchesSerial
  <1> QED
    BY <1>4, <1>5, <1>6, <1>7 DEF OrderInv

LEMMA OrderNext ==
  ASSUME CountInv, OrderInv, [Next]_vars
  PROVE  OrderInv'
  <1>1. CASE ResetReturn
    BY <1>1, ResetIsInit, OrderInit, PTL
  <1> QED
    BY <1>1, OrderLocal, OrderExit, OrderFill, OrderDispatch, OrderReceive, OrderCommit,
       OrderWorkerReceive, OrderWorkerSend, OrderDiscard, OrderSumReturn
    DEF Next, Caller, Worker

LEMMA OrderInvariant == Spec => []OrderInv
  <1>1. CountInv /\ OrderInv /\ [Next]_vars => OrderInv'
    BY OrderNext
  <1> QED
    BY <1>1, OrderInit, CountInvariant, PTL DEF Spec

\* For every number of workers, every block size and every stream, what Sum
\* returns is the list of the block hashes in stream order.
THEOREM SumCorrect == Spec => []SumMatchesSerial
  <1>1. OrderInv => SumMatchesSerial
    BY DEF OrderInv
  <1> QED
    BY <1>1, OrderInvariant, PTL

\* The parallel hasher implements the single-threaded one.
THEOREM ImplementsSerial == Spec => RefinesSerial
  <1>1. Init => Serial!Init
    BY DEF Init, Serial!Init
  <1>2. CountInv /\ OrderInv /\ [Next]_vars => [Serial!Next]_(Serial!absVars)
    <2> SUFFICES ASSUME CountInv, OrderInv, [Next]_vars
                 PROVE  Serial!Next \/ UNCHANGED <<pos, summed, sum>>
      BY DEF Serial!absVars
    <2>1. CASE WriteFill
      <3>1. ~summed /\ UNCHANGED <<summed, sum>>
        BY <2>1 DEF WriteFill, CountInv, Control, outVars
      <3>2. pos' \in pos..Len(Stream)
        <4> DEFINE n == Minimum(BlockSize - Len(currentBlock), rest)
        <4>1. n \in Nat /\ pos + n \in 0..Len(Stream) /\ pos' = pos + n
          BY <2>1, FillType DEF WriteFill, CountInv
        <4> HIDE DEF n
        <4> QED
          BY <4>1 DEF CountInv, TypeOK
      <3> QED
        BY <3>1, <3>2 DEF Serial!Next, Serial!Absorb
    <2>2. CASE SumReturn
      <3>1. UNCHANGED pos /\ sum' = blockHashes /\ summed' = TRUE
        BY <2>2 DEF SumReturn
      <3>2. Serial!IsSerialSum(sum', pos)
        BY <2>2, <3>1, SumIsSerial
        DEF IsSerialSum, IsBlockCount, Block, Offset, Minimum, Hash, Digest, Byte,
            Serial!IsSerialSum, Serial!IsBlockCount, Serial!Block, Serial!Offset,
            Serial!Minimum, Serial!Hash, Serial!Digest, Serial!Byte
      <3> QED
        BY <3>1, <3>2 DEF Serial!Next, Serial!Finish
    <2>3. CASE ResetReturn
      BY <2>3 DEF ResetReturn, Serial!Next, Serial!Restart
    <2>4. CASE \/ WriteCall \/ WriteReturn \/ WriteDispatch \/ DrainReceive \/ DrainReturn
               \/ CommitStep("drainCommit", "drain") \/ CommitStep("sumCommit", "sum")
               \/ SumCall \/ SumDispatch \/ SumReceive \/ CloseCall \/ CloseDiscard
               \/ CloseReturn \/ CloseResults \/ UNCHANGED vars
      BY <2>4 DEF WriteCall, WriteReturn, WriteDispatch, DrainReceive, DrainReturn, CommitStep,
        SumCall, SumDispatch, SumReceive, ReceiveResult, CloseCall, CloseDiscard, CloseReturn,
        CloseResults, vars, callerVars, outVars
    <2>5. CASE \E w \in Workers : Worker(w)
      BY <2>5 DEF Worker, WorkerReceive, WorkerSend, WorkerExit, callerVars, outVars
    <2> QED
      BY <2>1, <2>2, <2>3, <2>4, <2>5 DEF Next, Caller
  <1> QED
    BY <1>1, <1>2, CountInvariant, OrderInvariant, PTL DEF Spec, RefinesSerial, Serial!Spec

----------------------------------------------------------------------------
(***************************************************************************)
(* Where the blocks in flight are.  No two places hold the same block: as  *)
(* many blocks are in flight as the places can hold, and each is in one.   *)
(***************************************************************************)

HeldIndices == {hand[w].index : w \in Busy}
Placed == Indices(jobs) \cup Indices(results) \cup HeldIndices

AccountInv ==
    ~Abandoned => pending = Cardinality(InFlight) /\ InFlight = Placed

LEMMA IndicesItems ==
  ASSUME NEW q
  PROVE  Indices(q) = {e.index : e \in Items(q)}
  BY DEF Indices, Items

\* A channel holds no more indices than it has elements.
LEMMA IndicesBound ==
  ASSUME NEW S, NEW q \in Seq(S)
  PROVE  IsFiniteSet(Indices(q)) /\ Cardinality(Indices(q)) <= Len(q)
  <1>1. Len(q) \in Nat
    OBVIOUS
  <1>2. IsFiniteSet(1..Len(q)) /\ Cardinality(1..Len(q)) = Len(q)
    <2>1. 1 \in Int /\ Len(q) \in Int
      BY <1>1
    <2>2. Cardinality(1..Len(q)) = IF 1 > Len(q) THEN 0 ELSE Len(q) - 1 + 1
      BY <2>1, FS_Interval
    <2>3. IsFiniteSet(1..Len(q))
      BY <2>1, FS_Interval
    <2> QED
      BY <1>1, <2>2, <2>3
  <1> DEFINE f == [k \in 1..Len(q) |-> q[k].index]
  <1>3. f \in Surjection(1..Len(q), Indices(q))
    BY DEF Indices, Surjection
  <1> QED
    BY <1>2, <1>3, FS_Surjection

LEMMA HeldBound ==
  /\ IsFiniteSet(HeldIndices) /\ Cardinality(HeldIndices) <= Cardinality(Busy)
  /\ UNION {HeldBy(w) : w \in Workers} = HeldIndices
  <1> DEFINE f == [w \in Busy |-> hand[w].index]
  <1>1. f \in Surjection(Busy, HeldIndices)
    BY DEF HeldIndices, Surjection
  <1>2. UNION {HeldBy(w) : w \in Workers} = HeldIndices
    BY DEF HeldBy, HeldIndices, Busy
  <1> QED
    BY <1>1, <1>2, BusyBound, FS_Surjection

\* The places never hold more blocks than there are elements in them.
PlacedFits ==
    /\ IsFiniteSet(Placed)
    /\ Cardinality(Placed) <= Len(jobs) + Len(results) + Cardinality(Busy)

LEMMA PlacedBound == TypeOK => PlacedFits
  <1> SUFFICES ASSUME TypeOK PROVE PlacedFits
    OBVIOUS
  <1> DEFINE a == Indices(jobs)  b == Indices(results)  h == HeldIndices
  <1>1. /\ IsFiniteSet(a) /\ Cardinality(a) <= Len(jobs)
        /\ IsFiniteSet(b) /\ Cardinality(b) <= Len(results)
    BY IndicesBound DEF TypeOK
  <1>2. IsFiniteSet(h) /\ Cardinality(h) <= Cardinality(Busy)
    BY HeldBound
  <1>3. /\ Cardinality(a) \in Nat /\ Cardinality(b) \in Nat /\ Cardinality(h) \in Nat
        /\ Len(jobs) \in Nat /\ Len(results) \in Nat /\ Cardinality(Busy) \in Nat
    BY <1>1, <1>2, BusyBound, FS_CardinalityType DEF TypeOK
  <1> HIDE DEF a, b, h
  <1>4. /\ IsFiniteSet(a \cup b)
        /\ Cardinality(a \cup b) = Cardinality(a) + Cardinality(b) - Cardinality(a \cap b)
        /\ Cardinality(a \cap b) \in Nat
    BY <1>1, FS_Union, FS_Intersection, FS_CardinalityType
  <1>5. /\ IsFiniteSet((a \cup b) \cup h)
        /\ Cardinality((a \cup b) \cup h) =
              Cardinality(a \cup b) + Cardinality(h) - Cardinality((a \cup b) \cap h)
        /\ Cardinality((a \cup b) \cap h) \in Nat /\ Cardinality(a \cup b) \in Nat
    BY <1>2, <1>4, FS_Union, FS_Intersection, FS_CardinalityType
  <1>6. Cardinality((a \cup b) \cup h) <= Len(jobs) + Len(results) + Cardinality(Busy)
    BY <1>1, <1>2, <1>3, <1>4, <1>5
  <1> QED
    BY <1>5, <1>6 DEF PlacedFits, Placed, a, b, h

LEMMA InFlightFinite ==
  ASSUME TypeOK
  PROVE  IsFiniteSet(InFlight) /\ Cardinality(InFlight) \in Nat
  <1>1. nextCommitIndex \in Int /\ nextDispatchIndex - 1 \in Int
    BY DEF TypeOK
  <1>2. IsFiniteSet(nextCommitIndex..(nextDispatchIndex - 1))
    BY <1>1, FS_Interval
  <1> QED
    BY <1>2, FS_Difference, FS_CardinalityType DEF InFlight

\* Steps that leave the blocks where they are.
LEMMA AccountFrame ==
  ASSUME AccountInv, UNCHANGED <<jobs, results, hand, worker, pending>>,
         InFlight' = InFlight, ~Abandoned' => ~Abandoned
  PROVE  AccountInv'
  BY DEF AccountInv, Placed, Indices, HeldIndices, Busy

LEMMA AccountDispatch ==
  ASSUME CountInv, OrderInv, AccountInv, WriteDispatch \/ SumDispatch, DispatchBlock
  PROVE  AccountInv'
  <1>0. PICK job : job = [index |-> nextDispatchIndex, data |-> currentBlock]
    OBVIOUS
  <1>1. /\ UNCHANGED <<outOfOrder, nextCommitIndex, results, worker, hand>>
        /\ jobs' = Append(jobs, job) /\ nextDispatchIndex' = nextDispatchIndex + 1
        /\ pending' = pending + 1 /\ ~Abandoned
    BY <1>0 DEF WriteDispatch, SumDispatch, DispatchBlock, workerVars, Abandoned
  <1>2. /\ nextDispatchIndex \in Nat /\ nextCommitIndex \in Nat /\ pending \in Int
        /\ nextCommitIndex <= nextDispatchIndex
        /\ DOMAIN outOfOrder \subseteq Nat
    BY DEF CountInv, TypeOK, OrderInv, Committed
  <1>3. nextDispatchIndex \notin DOMAIN outOfOrder
    BY <1>2 DEF OrderInv, Contents
  <1>4. InFlight' = InFlight \cup {nextDispatchIndex} /\ nextDispatchIndex \notin InFlight
    <2>1. nextCommitIndex..(nextDispatchIndex' - 1)
            = (nextCommitIndex..(nextDispatchIndex - 1)) \cup {nextDispatchIndex}
      BY <1>1, <1>2
    <2> QED
      BY <1>1, <1>2, <1>3, <2>1 DEF InFlight
  <1>5. Cardinality(InFlight') = Cardinality(InFlight) + 1
    BY <1>4, InFlightFinite, FS_AddElement DEF CountInv
  <1>6. Indices(jobs') = Indices(jobs) \cup {nextDispatchIndex}
    <2>1. job \in BlockJob /\ jobs \in Seq(BlockJob)
      BY <1>0 DEF CountInv, TypeOK, BlockJob
    <2>2. Items(jobs') = Items(jobs) \cup {job}
      BY <1>1, <2>1, ItemsAppend
    <2> QED
      BY <1>0, <2>2, IndicesItems
  <1>7. Indices(results)' = Indices(results) /\ HeldIndices' = HeldIndices
    BY <1>1 DEF Indices, HeldIndices, Busy
  <1> QED
    BY <1>1, <1>4, <1>5, <1>6, <1>7 DEF AccountInv, Placed

\* The block whose result is taken was in no other place: the places that are
\* left can hold only as many blocks as are still in flight.
LEMMA AccountReceive ==
  ASSUME CountInv, CountInv', OrderInv, AccountInv, DrainReceive \/ SumReceive
  PROVE  AccountInv'
  <1>0. PICK i : i = Head(results).index
    OBVIOUS
  <1>1. /\ UNCHANGED <<nextDispatchIndex, nextCommitIndex, jobs, worker, hand>>
        /\ results' = Tail(results) /\ results # << >>
        /\ DOMAIN outOfOrder' = DOMAIN outOfOrder \cup {i}
        /\ pending' = pending - 1 /\ ~Abandoned /\ ~Abandoned'
    BY <1>0 DEF DrainReceive, SumReceive, ReceiveResult, workerVars, Abandoned
  <1>2. Indices(results) = Indices(results') \cup {i}
    <2>1. Items(results) = Items(results') \cup {Head(results)}
      BY <1>1, ItemsTail DEF CountInv, TypeOK
    <2> QED
      BY <1>0, <2>1, IndicesItems
  <1>3. InFlight' = InFlight \ {i}
    BY <1>1 DEF InFlight
  <1>4. i \in InFlight /\ pending = Cardinality(InFlight)
    BY <1>1, <1>2 DEF AccountInv, Placed
  <1>5. Cardinality(InFlight') = pending'
    BY <1>1, <1>3, <1>4, InFlightFinite, FS_RemoveElement DEF CountInv
  <1>6. Placed = Placed' \cup {i}
    BY <1>1, <1>2 DEF Placed, Indices, HeldIndices, Busy
  <1>7. IsFiniteSet(Placed') /\ Cardinality(Placed') <= pending'
    <2>1. TypeOK'
      BY DEF CountInv
    <2>2. PlacedFits'
      BY <2>1, PlacedBound, PTL
    <2> QED
      BY <1>1, <2>2 DEF PlacedFits, CountInv, Counting
  <1>8. i \notin Placed'
    <2> SUFFICES ASSUME i \in Placed' PROVE FALSE
      OBVIOUS
    <2>1. Placed' = InFlight
      BY <1>1, <1>6 DEF AccountInv
    <2> QED
      BY <1>1, <1>4, <1>7, <2>1, InFlightFinite DEF CountInv
  <1>9. InFlight' = Placed'
    BY <1>1, <1>3, <1>6, <1>8 DEF AccountInv
  <1> QED
    BY <1>5, <1>9 DEF AccountInv

LEMMA AccountCommit ==
  ASSUME CountInv, AccountInv,
         CommitStep("drainCommit", "drain") \/ CommitStep("sumCommit", "sum")
  PROVE  AccountInv'
  <1>1. /\ UNCHANGED <<nextDispatchIndex, jobs, results, hand, worker, pending>>
        /\ ~Abandoned
    BY DEF CommitStep, chanVars, workerVars, Abandoned
  <1>2. nextCommitIndex \in Nat /\ nextDispatchIndex \in Nat
    BY DEF CountInv, TypeOK
  <1>3. InFlight' = InFlight
    <2>1. CASE UNCHANGED <<outOfOrder, nextCommitIndex>>
      BY <1>1, <2>1 DEF InFlight
    <2>2. CASE /\ nextCommitIndex \in DOMAIN outOfOrder
               /\ DOMAIN outOfOrder' = DOMAIN outOfOrder \ {nextCommitIndex}
               /\ nextCommitIndex' = nextCommitIndex + 1
      BY <1>1, <1>2, <2>2 DEF InFlight
    <2> QED
      BY <2>1, <2>2 DEF CommitStep
  <1> QED
    BY <1>1, <1>3, AccountFrame

\* A block changes hands.
LEMMA AccountWorker ==
  ASSUME CountInv, AccountInv, NEW w \in Workers, WorkerReceive(w) \/ WorkerSend(w)
  PROVE  AccountInv'
  <1>1. /\ UNCHANGED <<pc, outOfOrder, nextDispatchIndex, nextCommitIndex, closed, pending,
                       summed>>
        /\ InFlight' = InFlight /\ Abandoned' = Abandoned
    BY DEF WorkerReceive, WorkerSend, callerVars, outVars, InFlight, Abandoned
  <1>2. CASE WorkerReceive(w)
    <2>0. PICK i : i = Head(jobs).index
      OBVIOUS
    <2>1. /\ jobs' = Tail(jobs) /\ jobs # << >> /\ results' = results
          /\ Busy' = Busy \cup {w} /\ w \notin Busy
          /\ hand'[w].index = i /\ \A v \in Busy : hand'[v] = hand[v]
      BY <1>2, <2>0 DEF WorkerReceive, Busy, CountInv, TypeOK
    <2>2. HeldIndices' = HeldIndices \cup {i}
      BY <2>1 DEF HeldIndices
    <2>3. Indices(jobs) = Indices(jobs') \cup {i}
      <3>1. Items(jobs) = Items(jobs') \cup {Head(jobs)}
        BY <2>1, ItemsTail DEF CountInv, TypeOK
      <3> QED
        BY <2>0, <3>1, IndicesItems
    <2>4. Indices(results') = Indices(results)
      BY <2>1
    <2> QED
      BY <1>1, <2>2, <2>3, <2>4 DEF AccountInv, Placed
  <1>3. CASE WorkerSend(w)
    <2>0. PICK r : r = hand[w]
      OBVIOUS
    <2>1. /\ results' = Append(results, r) /\ jobs' = jobs
          /\ Busy' = Busy \ {w} /\ w \in Busy
          /\ \A v \in Busy' : hand'[v] = hand[v]
      BY <1>3, <2>0 DEF WorkerSend, Busy, CountInv, TypeOK
    <2>2. HeldIndices = HeldIndices' \cup {r.index}
      BY <2>0, <2>1 DEF HeldIndices
    <2>3. Indices(results') = Indices(results) \cup {r.index}
      <3>1. r \in BlockResult /\ results \in Seq(BlockResult)
        BY <2>0 DEF CountInv, TypeOK
      <3>2. Items(results') = Items(results) \cup {r}
        BY <2>1, <3>1, ItemsAppend
      <3> QED
        BY <3>2, IndicesItems
    <2>4. Indices(jobs') = Indices(jobs)
      BY <2>1
    <2> QED
      BY <1>1, <2>2, <2>3, <2>4 DEF AccountInv, Placed
  <1> QED
    BY <1>2, <1>3

LEMMA AccountInit == Init => AccountInv
  <1> SUFFICES ASSUME Init PROVE AccountInv
    OBVIOUS
  <1>1. Placed = {}
    BY DEF Init, InitWorkers, Placed, Indices, HeldIndices, Busy
  <1>2. InFlight = {}
    BY DEF Init, InFlight
  <1> QED
    BY <1>1, <1>2, FS_EmptySet DEF Init, AccountInv

\* The remaining steps move no block, or follow a Close that gave up.
LEMMA AccountOther ==
  ASSUME CountInv, AccountInv,
         \/ WriteCall \/ WriteFill \/ WriteReturn \/ DrainReturn \/ SumCall
         \/ SumDispatch /\ currentBlock = << >>
         \/ SumReturn \/ CloseCall \/ CloseReturn \/ CloseResults
         \/ UNCHANGED vars
  PROVE  AccountInv'
  <1>1. /\ UNCHANGED <<outOfOrder, nextDispatchIndex, nextCommitIndex, jobs, results, hand,
                       worker, pending>>
        /\ ~Abandoned' => ~Abandoned
    BY DEF WriteCall, WriteFill, WriteReturn, DrainReturn, SumCall, SumDispatch, SumReturn,
           CloseCall, CloseReturn, CloseResults, vars, callerVars, chanVars, workerVars,
           outVars, Abandoned, CountInv, Control
  <1> QED
    BY <1>1, AccountFrame DEF InFlight

LEMMA AccountNext ==
  ASSUME CountInv, CountInv', OrderInv, AccountInv, [Next]_vars
  PROVE  AccountInv'
  <1>1. CASE ResetReturn
    BY <1>1, ResetIsInit, AccountInit, PTL
  <1>2. CASE CloseDiscard
    <2>1. UNCHANGED <<pc, closed, summed, pending, worker>> /\ results # << >>
      BY <1>2 DEF CloseDiscard, callerVars, outVars, workerVars
    <2>2. Abandoned
      BY <1>2, DiscardAbandoned
    <2> QED
      BY <2>1, <2>2 DEF Abandoned, AccountInv
  <1>3. CASE \E w \in Workers : WorkerExit(w)
    <2>1. /\ UNCHANGED <<pc, closed, summed, pending, outOfOrder, nextDispatchIndex,
                         nextCommitIndex, jobs, results, hand>>
          /\ Busy' = Busy
      BY <1>3 DEF WorkerExit, callerVars, chanVars, outVars, Busy, CountInv, TypeOK
    <2> QED
      BY <2>1 DEF AccountInv, Placed, Indices, HeldIndices, InFlight, Abandoned
  <1>4. CASE WriteDispatch \/ SumDispatch
    BY <1>4, AccountDispatch, AccountOther DEF WriteDispatch, SumDispatch
  <1> QED
    BY <1>1, <1>2, <1>3, <1>4, AccountReceive, AccountCommit, AccountWorker, AccountOther
    DEF Next, Caller, Worker

\* For every number of workers and queue size: a dispatched block is in
\* exactly one place until its hash arrives, and pending counts these blocks.
THEOREM BlocksAccounted == Spec => []EveryBlockAccounted
  <1>1. CountInv /\ CountInv' /\ OrderInv /\ AccountInv /\ [Next]_vars => AccountInv'
    BY AccountNext
  <1>2. CountInv /\ AccountInv => EveryBlockAccounted
    <2>1. UNION {HeldBy(w) : w \in Workers} = HeldIndices
      BY HeldBound
    <2>2. CountInv => (~Abandoned => pending = Len(jobs) + Len(results)
                         + Cardinality({w \in Workers : worker[w] = "send"}))
      BY DEF CountInv, Counting, Busy
    <2> QED
      BY <2>1, <2>2 DEF AccountInv, EveryBlockAccounted, Placed
  <1> QED
    BY <1>1, <1>2, AccountInit, CountInvariant, OrderInvariant, PTL DEF Spec
============================================================================
