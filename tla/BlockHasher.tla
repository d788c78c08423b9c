---------------------------- MODULE BlockHasher ----------------------------
(***************************************************************************)
(* internal/hash/hash.go: the parallel block hasher that UploadsUpload     *)
(* feeds through an io.TeeReader while a part is sent to Telegram.         *)
(*                                                                         *)
(* One goroutine, the caller, owns every field of the BlockHasher and runs *)
(* Write, Sum, Close and Reset one after the other.  WorkerCount worker    *)
(* goroutines take jobs from one bounded channel and put results into      *)
(* another, and a last goroutine closes the results channel when all the   *)
(* workers have ended.  The code after "pc" names the statement at which   *)
(* the caller is; a channel operation is one step.                         *)
(***************************************************************************)
EXTENDS HashBlocks, FiniteSets

CONSTANT WorkerCount    \* runtime.GOMAXPROCS(0)

ASSUME WorkerCountAssumption == WorkerCount \in Nat \ {0}

Workers == 1..WorkerCount

\* The capacity of both channels (initWorkers).
QueueSize == IF WorkerCount * 2 < 2 THEN 2 ELSE WorkerCount * 2

VARIABLES
    pc,                 \* where the caller is
    rest,               \* len(p) still to be consumed by the current Write
    pos,                \* bytes of Stream that went through Write (ghost)
    currentBlock,
    blockHashes,
    outOfOrder,         \* map[int][]byte: a function on the indices present
    nextDispatchIndex,
    nextCommitIndex,
    pending,
    closed,             \* h.closed: the jobs channel is closed
    jobs,               \* the jobs channel
    results,            \* the results channel
    resultsClosed,      \* close(h.results) was executed
    worker,             \* what each worker is at: "recv", "send" or "done"
    hand,               \* the result a worker at "send" holds
    summed,             \* Sum has returned
    sum                 \* what Sum returned

callerVars == <<pc, rest, pos, currentBlock, blockHashes, outOfOrder,
                nextDispatchIndex, nextCommitIndex, pending, closed>>
outVars == <<summed, sum>>
chanVars == <<jobs, results, resultsClosed>>
workerVars == <<worker, hand>>
vars == <<callerVars, chanVars, workerVars, outVars>>

Bytes == Seq(Byte)

BlockJob == [index : Nat, data : Bytes]
BlockResult == [index : Nat, sum : Digest]

EmptyMap == [i \in {} |-> Hash(<< >>)]
NoResult == [index |-> 0, sum |-> Hash(<< >>)]

PCs == {"idle", "write", "dispatch", "drain", "drainCommit", "sumDispatch",
        "sum", "sumCommit", "close", "resetClose"}

----------------------------------------------------------------------------
(* The goroutines that initWorkers starts, and the channels it makes.      *)

InitWorkers(j, r, rc, w, h) ==
    /\ j = << >>
    /\ r = << >>
    /\ rc = FALSE
    /\ w = [i \in Workers |-> "recv"]
    /\ h = [i \in Workers |-> NoResult]

Init ==
    /\ pc = "idle"
    /\ rest = 0
    /\ pos = 0
    /\ currentBlock = << >>
    /\ blockHashes = << >>
    /\ outOfOrder = EmptyMap
    /\ nextDispatchIndex = 0
    /\ nextCommitIndex = 0
    /\ pending = 0
    /\ closed = FALSE
    /\ InitWorkers(jobs, results, resultsClosed, worker, hand)
    /\ summed = FALSE
    /\ sum = << >>

\* for job := range h.jobs, and the hash of the job's block.
WorkerReceive(w) ==
    /\ worker[w] = "recv"
    /\ jobs # << >>
    /\ jobs' = Tail(jobs)
    /\ worker' = [worker EXCEPT ![w] = "send"]
    /\ hand' = [hand EXCEPT ![w] = [index |-> Head(jobs).index,
                                    sum |-> Hash(Head(jobs).data)]]
    /\ UNCHANGED <<callerVars, results, resultsClosed, outVars>>

\* h.results <- blockResult{...}: blocks while the channel is full.
WorkerSend(w) ==
    /\ worker[w] = "send"
    /\ Len(results) < QueueSize
    /\ results' = Append(results, hand[w])
    /\ worker' = [worker EXCEPT ![w] = "recv"]
    /\ hand' = [hand EXCEPT ![w] = NoResult]
    /\ UNCHANGED <<callerVars, jobs, resultsClosed, outVars>>

\* The range over a closed and empty jobs channel ends; wg.Done.
WorkerExit(w) ==
    /\ worker[w] = "recv"
    /\ closed
    /\ jobs = << >>
    /\ worker' = [worker EXCEPT ![w] = "done"]
    /\ UNCHANGED <<callerVars, chanVars, hand, outVars>>

\* h.wg.Wait(); close(h.results)
CloseResults ==
    /\ \A w \in Workers : worker[w] = "done"
    /\ ~resultsClosed
    /\ resultsClosed' = TRUE
    /\ UNCHANGED <<callerVars, jobs, results, workerVars, outVars>>

----------------------------------------------------------------------------
(* The caller.                                                             *)

\* Write(p) is called with the next n bytes; the caller never writes to a
\* hasher whose jobs channel it has closed with Sum or Close.
WriteCall ==
    /\ pc = "idle"
    /\ ~closed
    /\ \E n \in 1..(Len(Stream) - pos) : rest' = n
    /\ pc' = "write"
    /\ UNCHANGED <<pos, currentBlock, blockHashes, outOfOrder,
                   nextDispatchIndex, nextCommitIndex, pending, closed,
                   chanVars, workerVars, outVars>>

\* Fault: the whole of p goes into the current block.
WriteFillOverrun ==
    /\ pc = "write"
    /\ rest > 0
    /\ currentBlock' = currentBlock \o SubSeq(Stream, pos + 1, pos + rest)
    /\ pos' = pos + rest
    /\ rest' = 0
    /\ pc' = IF Len(currentBlock') = BlockSize THEN "dispatch" ELSE "write"
    /\ UNCHANGED <<blockHashes, outOfOrder, nextDispatchIndex,
                   nextCommitIndex, pending, closed, chanVars, workerVars,
                   outVars>>

\* One iteration of the loop in Write up to the dispatch of a full block.
WriteFill ==
    /\ pc = "write"
    /\ rest > 0
    /\ LET n == Minimum(BlockSize - Len(currentBlock), rest)
       IN  /\ currentBlock' = currentBlock \o SubSeq(Stream, pos + 1, pos + n)
           /\ pos' = pos + n
           /\ rest' = rest - n
    /\ pc' = IF Len(currentBlock') = BlockSize THEN "dispatch" ELSE "write"
    /\ UNCHANGED <<blockHashes, outOfOrder, nextDispatchIndex,
                   nextCommitIndex, pending, closed, chanVars, workerVars,
                   outVars>>

WriteReturn ==
    /\ pc = "write"
    /\ rest = 0
    /\ pc' = "idle"
    /\ UNCHANGED <<rest, pos, currentBlock, blockHashes, outOfOrder,
                   nextDispatchIndex, nextCommitIndex, pending, closed,
                   chanVars, workerVars, outVars>>

\* dispatchBlock(h.currentBlock): blocks while the jobs channel is full; the
\* caller truncates currentBlock after it.
DispatchBlock ==
    /\ Len(jobs) < QueueSize
    /\ jobs' = Append(jobs, [index |-> nextDispatchIndex, data |-> currentBlock])
    /\ nextDispatchIndex' = nextDispatchIndex + 1
    /\ pending' = pending + 1
    /\ currentBlock' = << >>

\* Fault: Write dispatches block after block without draining results.
WriteDispatchNoDrain ==
    /\ pc = "dispatch"
    /\ DispatchBlock
    /\ pc' = "write"
    /\ UNCHANGED <<rest, pos, blockHashes, outOfOrder, nextCommitIndex, closed,
                   results, resultsClosed, workerVars, outVars>>

WriteDispatch ==
    /\ pc = "dispatch"
    /\ DispatchBlock
    /\ pc' = "drain"
    /\ UNCHANGED <<rest, pos, blockHashes, outOfOrder, nextCommitIndex, closed,
                   results, resultsClosed, workerVars, outVars>>

\* Fault: pending is not decremented.
ReceiveResultStillPending(next) ==
    /\ results # << >>
    /\ results' = Tail(results)
    /\ outOfOrder' = [i \in DOMAIN outOfOrder \cup {Head(results).index} |->
                        IF i = Head(results).index THEN Head(results).sum
                                                   ELSE outOfOrder[i]]
    /\ pc' = next
    /\ UNCHANGED <<rest, pos, currentBlock, blockHashes, nextDispatchIndex,
                   nextCommitIndex, pending, closed, jobs, resultsClosed,
                   workerVars, outVars>>

\* processResult up to its loop; next is the pc of that loop.
ReceiveResult(next) ==
    /\ results # << >>
    /\ results' = Tail(results)
    /\ pending' = pending - 1
    /\ outOfOrder' = [i \in DOMAIN outOfOrder \cup {Head(results).index} |->
                        IF i = Head(results).index THEN Head(results).sum
                                                   ELSE outOfOrder[i]]
    /\ pc' = next
    /\ UNCHANGED <<rest, pos, currentBlock, blockHashes, nextDispatchIndex,
                   nextCommitIndex, closed, jobs, resultsClosed, workerVars,
                   outVars>>

\* Fault: hashes are committed in the order in which they arrive.
CommitStepArrivalOrder(here, back) ==
    /\ pc = here
    /\ \/ \E i \in DOMAIN outOfOrder :
          /\ blockHashes' = Append(blockHashes, outOfOrder[i])
          /\ outOfOrder' = [j \in DOMAIN outOfOrder \ {i} |-> outOfOrder[j]]
          /\ nextCommitIndex' = nextCommitIndex + 1
          /\ pc' = here
       \/ /\ DOMAIN outOfOrder = {}
          /\ pc' = back
          /\ UNCHANGED <<blockHashes, outOfOrder, nextCommitIndex>>
    /\ UNCHANGED <<rest, pos, currentBlock, nextDispatchIndex, pending, closed,
                   chanVars, workerVars, outVars>>

\* One iteration of the commit loop of processResult: the next hash in order
\* moves from outOfOrder to blockHashes, or the loop ends.
CommitStep(here, back) ==
    /\ pc = here
    /\ \/ /\ nextCommitIndex \in DOMAIN outOfOrder
          /\ blockHashes' = Append(blockHashes, outOfOrder[nextCommitIndex])
          /\ outOfOrder' = [i \in DOMAIN outOfOrder \ {nextCommitIndex} |-> outOfOrder[i]]
          /\ nextCommitIndex' = nextCommitIndex + 1
          /\ pc' = here
       \/ /\ nextCommitIndex \notin DOMAIN outOfOrder
          /\ pc' = back
          /\ UNCHANGED <<blockHashes, outOfOrder, nextCommitIndex>>
    /\ UNCHANGED <<rest, pos, currentBlock, nextDispatchIndex, pending, closed,
                   chanVars, workerVars, outVars>>

\* drainResultsNonBlocking takes what is there ...
DrainReceive ==
    /\ pc = "drain"
    /\ ReceiveResult("drainCommit")

\* Fault: the select has no way out of the loop when nothing is there.
DrainReturnSpin ==
    /\ pc = "drain"
    /\ results = << >>
    /\ UNCHANGED vars

\* ... and returns to the loop of Write when nothing is.
DrainReturn ==
    /\ pc = "drain"
    /\ results = << >>
    /\ pc' = "write"
    /\ UNCHANGED <<rest, pos, currentBlock, blockHashes, outOfOrder,
                   nextDispatchIndex, nextCommitIndex, pending, closed,
                   chanVars, workerVars, outVars>>

\* Sum() is called, on an open hasher or once more after an earlier Sum.
SumCall ==
    /\ pc = "idle"
    /\ closed => summed
    /\ pc' = "sumDispatch"
    /\ UNCHANGED <<rest, pos, currentBlock, blockHashes, outOfOrder,
                   nextDispatchIndex, nextCommitIndex, pending, closed,
                   chanVars, workerVars, outVars>>

\* The partial last block is dispatched, then closeJobs.
SumDispatch ==
    /\ pc = "sumDispatch"
    /\ \/ /\ currentBlock # << >>
          /\ DispatchBlock
       \/ /\ currentBlock = << >>
          /\ UNCHANGED <<jobs, nextDispatchIndex, pending, currentBlock>>
    /\ closed' = TRUE
    /\ pc' = "sum"
    /\ UNCHANGED <<rest, pos, blockHashes, outOfOrder, nextCommitIndex,
                   results, resultsClosed, workerVars, outVars>>

SumReceive ==
    /\ pc = "sum"
    /\ pending > 0
    /\ ReceiveResult("sumCommit")

\* Fault: Sum does not wait for the results that are pending.
SumReturnEarly ==
    /\ pc = "sum"
    /\ sum' = blockHashes
    /\ summed' = TRUE
    /\ pc' = "idle"
    /\ UNCHANGED <<rest, pos, currentBlock, blockHashes, outOfOrder,
                   nextDispatchIndex, nextCommitIndex, pending, closed,
                   chanVars, workerVars>>

\* Sum returns: no result is pending, or the results channel was found closed.
SumReturn ==
    /\ pc = "sum"
    /\ \/ pending <= 0
       \/ resultsClosed /\ results = << >>
    /\ sum' = blockHashes
    /\ summed' = TRUE
    /\ pc' = "idle"
    /\ UNCHANGED <<rest, pos, currentBlock, blockHashes, outOfOrder,
                   nextDispatchIndex, nextCommitIndex, pending, closed,
                   chanVars, workerVars>>

\* Close(), and Reset() which starts with it: closeJobs.
CloseCall ==
    /\ pc = "idle"
    /\ closed' = TRUE
    /\ pc' \in {"close", "resetClose"}
    /\ UNCHANGED <<rest, pos, currentBlock, blockHashes, outOfOrder,
                   nextDispatchIndex, nextCommitIndex, pending,
                   chanVars, workerVars, outVars>>

\* for range h.results {}: results are discarded ...
CloseDiscard ==
    /\ pc \in {"close", "resetClose"}
    /\ results # << >>
    /\ results' = Tail(results)
    /\ UNCHANGED <<callerVars, jobs, resultsClosed, workerVars, outVars>>

\* Fault: Close closes the jobs channel and returns.
CloseReturnAtOnce ==
    /\ pc = "close"
    /\ pc' = "idle"
    /\ UNCHANGED <<rest, pos, currentBlock, blockHashes, outOfOrder,
                   nextDispatchIndex, nextCommitIndex, pending, closed,
                   chanVars, workerVars, outVars>>

\* ... until the channel is closed.
CloseReturn ==
    /\ pc = "close"
    /\ resultsClosed
    /\ results = << >>
    /\ pc' = "idle"
    /\ UNCHANGED <<rest, pos, currentBlock, blockHashes, outOfOrder,
                   nextDispatchIndex, nextCommitIndex, pending, closed,
                   chanVars, workerVars, outVars>>

\* The rest of Reset: every field is cleared and new workers are started.
ResetReturn ==
    /\ pc = "resetClose"
    /\ resultsClosed
    /\ results = << >>
    /\ pc' = "idle"
    /\ rest' = 0
    /\ pos' = 0
    /\ blockHashes' = << >>
    /\ currentBlock' = << >>
    /\ outOfOrder' = EmptyMap
    /\ nextDispatchIndex' = 0
    /\ nextCommitIndex' = 0
    /\ pending' = 0
    /\ closed' = FALSE
    /\ InitWorkers(jobs', results', resultsClosed', worker', hand')
    /\ summed' = FALSE
    /\ sum' = << >>

Caller ==
    \/ WriteFill \/ WriteReturn \/ WriteDispatch
    \/ DrainReceive \/ CommitStep("drainCommit", "drain") \/ DrainReturn
    \/ SumDispatch \/ SumReceive \/ CommitStep("sumCommit", "sum") \/ SumReturn
    \/ CloseDiscard \/ CloseReturn \/ ResetReturn

Worker(w) == WorkerReceive(w) \/ WorkerSend(w) \/ WorkerExit(w)

Next ==
    \/ WriteCall \/ SumCall \/ CloseCall
    \/ Caller
    \/ \E w \in Workers : Worker(w)
    \/ CloseResults

\* The Go scheduler runs every runnable goroutine; nobody has to call.
Fairness ==
    /\ WF_vars(Caller)
    /\ \A w \in Workers : WF_vars(Worker(w))
    /\ WF_vars(CloseResults)

Spec == Init /\ [][Next]_vars /\ Fairness

----------------------------------------------------------------------------
(* Properties.                                                             *)

Indices(q) == {q[k].index : k \in 1..Len(q)}
HeldBy(w) == IF worker[w] = "send" THEN {hand[w].index} ELSE {}

\* Dispatched blocks whose hash the caller has not received yet.
InFlight == (nextCommitIndex..(nextDispatchIndex - 1)) \ DOMAIN outOfOrder

\* Close was called without a Sum: the caller gave the stream up, and the
\* results that Close throws away are never asked for.
Abandoned == closed /\ ~summed /\ pc \in {"idle", "close", "resetClose"}

TypeOK ==
    /\ pc \in PCs
    /\ rest \in Nat
    /\ pos \in 0..Len(Stream)
    /\ rest <= Len(Stream) - pos
    /\ currentBlock \in Bytes
    /\ Len(currentBlock) <= BlockSize
    /\ blockHashes \in Seq(Digest)
    /\ DOMAIN outOfOrder \subseteq Nat
    /\ \A i \in DOMAIN outOfOrder : outOfOrder[i] \in Digest
    /\ nextDispatchIndex \in Nat
    /\ nextCommitIndex \in Nat
    /\ pending \in Int
    /\ closed \in BOOLEAN
    /\ jobs \in Seq(BlockJob)
    /\ Len(jobs) <= QueueSize
    /\ results \in Seq(BlockResult)
    /\ Len(results) <= QueueSize
    /\ resultsClosed \in BOOLEAN
    /\ worker \in [Workers -> {"recv", "send", "done"}]
    /\ hand \in [Workers -> BlockResult]
    /\ summed \in BOOLEAN
    /\ sum \in Seq(Digest)

\* The value Sum returned is the list a single-threaded hasher computes for
\* the bytes written, whatever order the workers finished in (Sum,
\* processResult).
SumMatchesSerial == summed => IsSerialSum(sum, pos)

\* Every dispatched block whose hash has not come back is in exactly one place,
\* the jobs channel, a worker's hands or the results channel, and pending
\* counts these blocks: the loop of Sum neither stops early nor waits for a
\* result that nobody will send.
EveryBlockAccounted ==
    ~Abandoned =>
        /\ pending = Cardinality(InFlight)
        /\ pending = Len(jobs) + Len(results)
                     + Cardinality({w \in Workers : worker[w] = "send"})
        /\ InFlight = Indices(jobs) \cup Indices(results)
                      \cup UNION {HeldBy(w) : w \in Workers}

\* The caller blocked on a full jobs channel never waits for workers that are
\* all blocked on a full results channel: Write drains the results after every
\* dispatch, so at most 3 * WorkerCount blocks are in flight when it
\* dispatches the next one (dispatchBlock, drainResultsNonBlocking).
NoMutualWait ==
    ~ /\ pc \in {"dispatch", "sumDispatch"}
      /\ Len(jobs) = QueueSize
      /\ Len(results) = QueueSize
      /\ \A w \in Workers : worker[w] = "send"

\* Write, Sum, Close and Reset return: the bounded channels never leave the
\* caller and all the workers waiting for each other (dispatchBlock,
\* drainResultsNonBlocking).
CallsReturn == (pc # "idle") ~> (pc = "idle")

\* Once the jobs channel is closed every worker ends ("Close releases worker
\* resources"), also when Close is called with blocks still in flight.
ClosedReleasesWorkers == closed ~> (\A w \in Workers : worker[w] = "done")

\* The hasher implements the single-threaded one.
Serial == INSTANCE SerialHasher
RefinesSerial == Serial!Spec
============================================================================
