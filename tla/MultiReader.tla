---------------------------- MODULE MultiReader ----------------------------
(***************************************************************************)
(* internal/reader/tg_reader.go: the reader of a range of one stored       *)
(* document.  A goroutine (fillBuffer) fetches the chunks that cover the   *)
(* range, a batch of them at a time, each with retries, cuts the first and *)
(* the last one, and sends them in order on a bounded channel from which   *)
(* Read copies.                                                            *)
(*                                                                         *)
(* A byte is its position in the document, so a buffer of consecutive      *)
(* bytes is the interval [from, to).  getPartReader makes such a reader    *)
(* also for an encrypted part and then drops it for the decrypter's own:   *)
(* nobody reads from or closes that one (dropped).                         *)
(***************************************************************************)
EXTENDS Naturals, Integers, Sequences, FiniteSets

CONSTANTS
    Size,           \* length of the stored document
    MaxChunk,       \* CalculateChunkSize starts here (1 MiB) ...
    MinChunk,       \* ... and halves down to this (1 KiB)
    Concurrency,    \* config.Stream.Concurrency
    Buffers,        \* config.Stream.Buffers, the capacity of the channel
    MaxRetries,     \* maxChunkRetries
    ReadSizes       \* lengths of the slices that callers pass to Read

ASSUME MultiReaderAssumption ==
    /\ {Size, MaxChunk, MinChunk, Concurrency, Buffers} \subseteq Nat \ {0}
    /\ MaxRetries \in Nat
    /\ ReadSizes \subseteq Nat \ {0}

VARIABLES
    first, last,    \* the range asked for
    dropped,        \* no caller has this reader
    limit,          \* bytes still to return
    cur,            \* the buffer Read copies from
    bufferChan,     \* the channel, in order
    filler,         \* fillBuffer: "start" of a batch, "fetch", "send", "done"
    currentPart, offset,
    fetch,          \* the goroutines of the batch
    buffers,        \* their results
    group,          \* first error of the errgroup
    ended,          \* the request's context is done
    cancelled,      \* r.cancel was called
    closed,         \* Close was called
    status, out,    \* what the caller got, see ByteStream
    reported,       \* onChunkFail was called
    puts            \* times each part's buffer went back to the pool

readVars == <<limit, cur, status, out>>
fillVars == <<filler, currentPart, offset, fetch, buffers, group, reported>>
ctxVars == <<ended, cancelled, closed>>
vars == <<first, last, dropped, bufferChan, puts, readVars, fillVars, ctxVars>>

Stream == INSTANCE ByteStream
    WITH first <- first, last <- last, out <- out, status <- status

(***************************************************************************)
(* The chunks of a range.                                                  *)
(***************************************************************************)
CalculateChunkSize(start, end) ==
    LET halve[c \in 1..MaxChunk] ==
            IF c > MinChunk /\ c > end - start THEN halve[c \div 2] ELSE c
    IN halve[MaxChunk]

ChunkSize == CalculateChunkSize(first, last)
StartOffset == first - (first % ChunkSize)
LeftCut == first - StartOffset
RightCut == (last % ChunkSize) + 1
TotalParts == (last - StartOffset + ChunkSize) \div ChunkSize

BatchSize ==
    IF Concurrency < TotalParts - currentPart
    THEN Concurrency ELSE TotalParts - currentPart

\* What Telegram returns for a chunk: less than asked for at the end.
GetChunk(at) ==
    [from |-> at,
     to   |-> IF at + ChunkSize > Size THEN Size ELSE at + ChunkSize]

\* The chunk of a part as it is sent to the reader.
Cut(part, chunk) ==
    [part |-> part,
     from |-> IF part = 0 THEN chunk.from + LeftCut ELSE chunk.from,
     to   |-> IF part + 1 = TotalParts THEN chunk.from + RightCut ELSE chunk.to]

-----------------------------------------------------------------------------
NoBuffer == [part |-> -1, from |-> 0, to |-> 0]
Idle == [state |-> "idle", attempt |-> 0]
Slots == 1..Concurrency

\* Fault: the context is not derived from that of the request.
DoneOwn == cancelled

Done == ended \/ cancelled

\* Fault: one buffer less.
RoomShort == Len(bufferChan) + 1 < Buffers

Room == Len(bufferChan) < Buffers
GroupDone == Done \/ group # "none"

\* newTGMultiReader
Init ==
    /\ first \in 0..(Size - 1) /\ last \in first..(Size - 1)
    /\ dropped \in BOOLEAN
    /\ limit = last - first + 1
    /\ cur = NoBuffer
    /\ bufferChan = << >>
    /\ filler = "start" /\ currentPart = 0 /\ offset = StartOffset
    /\ fetch = [i \in Slots |-> Idle]
    /\ buffers = [i \in Slots |-> NoBuffer]
    /\ group = "none"
    /\ ended = FALSE /\ cancelled = FALSE /\ closed = FALSE
    /\ status = "open" /\ out = << >>
    /\ reported = FALSE
    /\ puts = [p \in 0..(Size - 1) |-> 0]

Put(parts) == puts' = [p \in DOMAIN puts |->
                         IF p \in parts THEN puts[p] + 1 ELSE puts[p]]

(***************************************************************************)
(* fillBuffer and fillBatch.                                               *)
(***************************************************************************)
\* fillBuffer returns: the deferred close of the channel, after r.cancel if
\* the batch failed.
Finish(failed) ==
    /\ filler' = "done"
    /\ cancelled' = (cancelled \/ failed)

StartBatch ==
    /\ filler = "start"
    /\ IF currentPart < TotalParts
       THEN /\ filler' = "fetch"
            /\ fetch' = [i \in Slots |-> IF i <= BatchSize
                            THEN [state |-> "get", attempt |-> 0] ELSE Idle]
            /\ buffers' = [i \in Slots |-> NoBuffer]
            /\ UNCHANGED cancelled
       ELSE Finish(FALSE) /\ UNCHANGED <<fetch, buffers>>
    /\ UNCHANGED <<first, last, dropped, bufferChan, puts, readVars, ended,
                   closed, currentPart, offset, group, reported>>

Ends(i, err) ==
    /\ fetch' = [fetch EXCEPT ![i].state = "err"]
    /\ group' = IF group = "none" THEN err ELSE group

FetchOk(i) ==
    /\ fetch' = [fetch EXCEPT ![i].state = "ok"]
    /\ buffers' = [buffers EXCEPT ![i] =
                     Cut(currentPart + i - 1,
                         GetChunk(offset + (i - 1) * ChunkSize))]
    /\ UNCHANGED group

\* Fault: a chunk that failed too often looks like a cancelled one.
FetchTransientQuiet(i) ==
    /\ IF fetch[i].attempt >= MaxRetries
       THEN Ends(i, "canceled")
       ELSE /\ fetch' = [fetch EXCEPT ![i].state = "wait", ![i].attempt = @ + 1]
            /\ UNCHANGED group
    /\ UNCHANGED buffers

\* A chunk that timed out or met one of retryableChunkMarkers.
FetchTransient(i) ==
    /\ IF fetch[i].attempt >= MaxRetries
       THEN Ends(i, "failed")
       ELSE /\ fetch' = [fetch EXCEPT ![i].state = "wait", ![i].attempt = @ + 1]
            /\ UNCHANGED group
    /\ UNCHANGED buffers

FetchFatal(i) == Ends(i, "failed") /\ UNCHANGED buffers

FetchCanceled(i) == GroupDone /\ Ends(i, "canceled") /\ UNCHANGED buffers

\* fetchChunkWithRetry, one attempt.
Attempt(i) ==
    /\ fetch[i].state = "get"
    /\ FetchOk(i) \/ FetchTransient(i) \/ FetchFatal(i) \/ FetchCanceled(i)
    /\ UNCHANGED <<first, last, dropped, bufferChan, puts, readVars, ctxVars,
                   filler, currentPart, offset, reported>>

\* fetchChunkWithRetry, the wait before the next attempt.
Backoff(i) ==
    /\ fetch[i].state = "wait"
    /\ \/ GroupDone /\ Ends(i, "canceled")
       \/ fetch' = [fetch EXCEPT ![i].state = "get"] /\ UNCHANGED group
    /\ UNCHANGED <<first, last, dropped, bufferChan, puts, readVars, ctxVars,
                   filler, currentPart, offset, buffers, reported>>

\* g.Wait returns.
BatchFetched ==
    /\ filler = "fetch"
    /\ \A i \in Slots : fetch[i].state \in {"idle", "ok", "err"}
    /\ IF group = "none"
       THEN filler' = "send" /\ UNCHANGED <<reported, puts, cancelled>>
       ELSE /\ reported' = (reported \/ group # "canceled")
            /\ Put({buffers[i].part : i \in Slots})
            /\ Finish(TRUE)
    /\ UNCHANGED <<first, last, dropped, bufferChan, readVars, ended, closed,
                   currentPart, offset, fetch, buffers, group>>

Unsent == {i \in Slots : buffers[i] # NoBuffer}

\* Fault: the other way round.
NextUnsentLast == CHOOSE i \in Unsent : \A j \in Unsent : i >= j

NextUnsent == CHOOSE i \in Unsent : \A j \in Unsent : i <= j

SendBuffer ==
    /\ filler = "send"
    /\ Unsent # {}
    /\ Room
    /\ bufferChan' = Append(bufferChan, buffers[NextUnsent])
    /\ buffers' = [buffers EXCEPT ![NextUnsent] = NoBuffer]
    /\ UNCHANGED <<first, last, dropped, puts, readVars, ctxVars, filler,
                   currentPart, offset, fetch, group, reported>>

SendCanceled ==
    /\ filler = "send"
    /\ Unsent # {}
    /\ Done
    /\ Finish(TRUE)
    /\ UNCHANGED <<first, last, dropped, bufferChan, puts, readVars, ended,
                   closed, currentPart, offset, fetch, buffers, group, reported>>

BatchSent ==
    /\ filler = "send"
    /\ Unsent = {}
    /\ filler' = "start"
    /\ currentPart' = currentPart + BatchSize
    /\ offset' = offset + ChunkSize * BatchSize
    /\ UNCHANGED <<first, last, dropped, bufferChan, puts, readVars, ctxVars,
                   fetch, buffers, group, reported>>

(***************************************************************************)
(* Read and Close.                                                         *)
(***************************************************************************)
Reading == ~dropped /\ ~closed /\ status = "open"

\* Fault: r.cur still points at the buffer.
EmptiedKept(b) == b

\* r.cur once its buffer is back in the pool.
Emptied(b) == NoBuffer

\* Copy at most n bytes of the buffer b.
Copy(b, n) ==
    LET k == IF n < b.to - b.from THEN n ELSE b.to - b.from
    IN /\ out' = out \o Stream!Bytes(b.from, b.from + k)
       /\ limit' = limit - k
       /\ IF limit' <= 0
          THEN status' = "eof" /\ cur' = Emptied(b) /\ Put({b.part})
          ELSE /\ cur' = [b EXCEPT !.from = @ + k]
               /\ UNCHANGED <<status, puts>>

ReadCurrent(n) ==
    /\ Reading /\ cur.from < cur.to
    /\ Copy(cur, n)
    /\ UNCHANGED <<first, last, dropped, bufferChan, fillVars, ctxVars>>

ReadNext(n) ==
    /\ Reading /\ cur.from >= cur.to
    /\ bufferChan # << >>
    /\ Copy(Head(bufferChan), n)
    /\ bufferChan' = Tail(bufferChan)
    /\ UNCHANGED <<first, last, dropped, fillVars, ctxVars>>

\* ErrStreamAbandoned, or the error of the context.
ReadFails ==
    /\ Reading /\ cur.from >= cur.to
    /\ \/ Done
       \/ bufferChan = << >> /\ filler = "done"
    /\ status' = "failed"
    /\ UNCHANGED <<first, last, dropped, bufferChan, puts, limit, cur, out,
                   fillVars, ctxVars>>

\* The caller is done with the reader, or its own writes failed.
Close ==
    /\ ~dropped /\ ~closed
    /\ closed' = TRUE
    /\ cancelled' = TRUE
    /\ cur' = Emptied(cur)
    /\ Put(IF cur = NoBuffer THEN {} ELSE {cur.part})
    /\ UNCHANGED <<first, last, dropped, bufferChan, limit, status, out,
                   fillVars, ended>>

\* The handler returned or the client went away.
RequestEnds ==
    /\ ~ended
    /\ ended' = TRUE
    /\ UNCHANGED <<first, last, dropped, bufferChan, puts, readVars, fillVars,
                   cancelled, closed>>

-----------------------------------------------------------------------------
Read == (\E n \in ReadSizes : ReadCurrent(n) \/ ReadNext(n)) \/ ReadFails
Fill == StartBatch \/ BatchFetched \/ SendBuffer \/ SendCanceled \/ BatchSent

CallerDone == dropped \/ closed \/ status # "open"

\* Nothing is left to do: no deadlock.
Over == ended /\ CallerDone /\ UNCHANGED vars

Next ==
    \/ Fill
    \/ \E i \in Slots : Attempt(i) \/ Backoff(i)
    \/ Read
    \/ Close
    \/ RequestEnds
    \/ Over

(***************************************************************************)
(* Every fetch ends within ChunkTimeout, goroutines are scheduled, a       *)
(* caller reads until it has an answer and closes after an error, and a    *)
(* handler whose caller is done returns.  Nothing makes a client go away.  *)
(***************************************************************************)
Spec ==
    /\ Init /\ [][Next]_vars
    /\ WF_vars(Fill)
    /\ \A i \in Slots : WF_vars(Attempt(i)) /\ WF_vars(Backoff(i))
    /\ WF_vars(Read)
    /\ WF_vars(status = "failed" /\ Close)
    /\ WF_vars(CallerDone /\ RequestEnds)

-----------------------------------------------------------------------------
TypeOK ==
    /\ first \in 0..(Size - 1) /\ last \in first..(Size - 1)
    /\ dropped \in BOOLEAN
    /\ limit \in 0..Size
    /\ filler \in {"start", "fetch", "send", "done"}
    /\ currentPart \in 0..TotalParts
    /\ fetch \in [Slots -> [state : {"idle", "get", "wait", "ok", "err"},
                            attempt : 0..MaxRetries]]
    /\ group \in {"none", "failed", "canceled"}
    /\ {ended, cancelled, closed, reported} \subseteq BOOLEAN
    /\ status \in {"open", "eof", "failed"}
    /\ Len(bufferChan) <= Buffers
    /\ Len(out) + limit = last - first + 1

\* Whatever the fetches do, a caller gets the bytes of its range in order
\* and io.EOF only with the last of them (Read, fillBatch's cuts and order).
ReadsTheRange == Stream!Spec

\* A buffer goes back to the pool at most once, and a buffer in the pool is
\* not one that Read will still copy from (Read, Close and fillBatch all Put).
BuffersOwned ==
    /\ \A p \in DOMAIN puts : puts[p] <= 1
    /\ \A p \in DOMAIN puts : puts[p] = 1 =>
          /\ cur.part # p
          /\ \A k \in 1..Len(bufferChan) : bufferChan[k].part # p

\* A caller that got the whole range never had its bot blamed, and a caller
\* whose Read failed had it blamed unless the request itself was over.
FailureReported ==
    /\ status = "eof" => ~reported
    /\ status = "failed" => reported \/ ended

\* A caller that keeps reading gets to the end or an error.
ReadsEnd == <>CallerDone

\* The goroutine of every reader ends, also of the one that is dropped.
FillerStops == <>(filler = "done")
=============================================================================
