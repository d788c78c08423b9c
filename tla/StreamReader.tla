---------------------------- MODULE StreamReader ----------------------------
(***************************************************************************)
(* A streaming request: FilesStream and streamWithTGReader of              *)
(* pkg/services/file.go, internal/http_range, the reader of parts          *)
(* (internal/reader/reader.go) and the decrypter (internal/crypt).         *)
(*                                                                         *)
(* The handler resolves the Range header, makes a Reader over the parts of *)
(* the file, and copies from it.  The Reader goes from part to part; an    *)
(* encrypted part is read through a decrypter that opens ranges of what is *)
(* stored.  Each such range is read through a ByteStream (see MultiReader, *)
(* which implements it): its bytes in order, or an error at any point.     *)
(*                                                                         *)
(* A byte of the file is its position; Zero is a byte of a box that did    *)
(* not open (fillBuffer passes zeros on), Text the text of an error page.  *)
(***************************************************************************)
EXTENDS Cipher, FiniteSets, FiniteSetsExt

CONSTANTS
    Files,      \* records [size, partSize, encrypted]
    NoHeader,   \* no Range header, and one without "="
    BadHeader,
    Headers,    \* Range headers: those two and sequences of values
    PartNonces, \* the random nonces of encrypted parts
    ReadSizes,  \* lengths of the slices that io.CopyN passes to Read
    MaxFaults   \* bound: reads from Telegram that fail

None == -1      \* the number before or after the dash is missing
NoDash == -2
Zero == -3
Text == -4

HeaderValues == [lo : Nat \cup {None, NoDash}, hi : Nat \cup {None}]

ASSUME StreamAssumption ==
    /\ Files \subseteq [size : Nat, partSize : Nat \ {0}, encrypted : BOOLEAN]
    /\ \A f \in Files : Fits(f.partSize \div BlockDataSize)  \* an int64
    /\ NoHeader # BadHeader
    /\ \A h \in Headers : h \in {NoHeader, BadHeader} \/ h \in Seq(HeaderValues)
    /\ {NoHeader, BadHeader} \cap Seq(HeaderValues) = {}
    /\ PartNonces \subseteq Nonces
    /\ ReadSizes \subseteq Nat \ {0}
    /\ MaxFaults \in Nat

VARIABLES
    file, header,   \* the request
    parts,      \* the parts of the file, as they are stored
    status,     \* "new", "respond", "copy", "done", "failed", "panic"
    code,       \* the status code sent
    start, end, \* the range to serve
    ranges,     \* Reader.ranges: the range to read of each part
    pos,        \* Reader.pos
    remaining,  \* Reader.remaining
    src,        \* the ByteStream read from: [part, at, stop], cells [at, stop)
    dec,        \* the decrypter: [nonce, buf, limit]
    body,       \* what the client got
    faults,     \* failed reads so far
    told        \* what the client pool was told: of "failure" and "success"

request == <<file, header, parts>>
reader == <<ranges, pos, remaining, src, dec>>
vars == <<request, status, code, start, end, reader, body, faults, told>>

\* n bytes from position a on.
Positions(a, n) == [i \in 1..n |-> a + i - 1]

(***************************************************************************)
(* http_range.Parse.  A value is [lo, hi]; NoDash indexes past the end of  *)
(* strings.Split's result.                                                 *)
(***************************************************************************)
Resolve(v, size) ==
    LET lo == IF v.lo = None THEN size - v.hi ELSE v.lo
        hi == IF v.lo = None \/ v.hi = None THEN size - 1 ELSE v.hi
    IN [start |-> lo, end |-> Minimum(hi, size - 1)]

\* The values that give a range.
Parse(h, size) ==
    {i \in DOMAIN h :
        LET r == Resolve(h[i], size)
        IN (h[i].lo # None \/ h[i].hi # None) /\ r.start <= r.end /\ r.start >= 0}

(***************************************************************************)
(* The parts of the file, as the upload stored them, and what getParts     *)
(* makes of the messages.                                                  *)
(***************************************************************************)
PlainSize(f, p) == Minimum(f.partSize, f.size - (p - 1) * f.partSize)

StoredParts(f, nonce) ==
    [p \in 1..((f.size + f.partSize - 1) \div f.partSize) |->
        IF f.encrypted THEN EncryptData(PlainSize(f, p), nonce)
        ELSE [len |-> PlainSize(f, p), nonce |-> << >>, boxes |-> << >>]]

\* Part.DecryptedSize or Part.Size, from the size of the document.
PartSize(p) ==
    IF file.encrypted THEN DecryptedSize(parts[p].len) ELSE parts[p].len

\* calculatePartByteRanges: the range of each part, inside the part.
CalculatePartByteRanges ==
    LET size == PartSize(1)
        lo == start \div size
        hi == end \div size
    IN [i \in 1..(hi - lo + 1) |->
          LET no == lo + i - 1
          IN [part  |-> no + 1,
              start |-> IF start > no * size THEN start - no * size ELSE 0,
              end   |-> Minimum(size - 1, end - no * size)]]

-----------------------------------------------------------------------------
NoSource == [part |-> 0, at |-> 0, stop |-> 0]
NoDecrypter == [nonce |-> << >>, buf |-> << >>, limit |-> -1]

Init ==
    /\ file \in Files /\ header \in Headers
    /\ \E nonce \in PartNonces : parts = StoredParts(file, nonce)
    /\ status = "new" /\ code = 0
    /\ start = 0 /\ end = 0
    /\ ranges = << >> /\ pos = 0 /\ remaining = 0
    /\ src = NoSource /\ dec = NoDecrypter
    /\ body = << >>
    /\ faults = 0
    /\ told = {}

(***************************************************************************)
(* FilesStream up to the body.                                             *)
(***************************************************************************)
Reply(c, s) == code' = c /\ status' = s

FilesStream ==
    /\ status = "new"
    /\ IF file.size = 0 THEN Reply(200, "done") /\ UNCHANGED <<start, end>>
       ELSE CASE header = NoHeader ->
                   Reply(200, "respond") /\ start' = 0 /\ end' = file.size - 1
              [] header = BadHeader ->
                   Reply(400, "done") /\ UNCHANGED <<start, end>>
              [] header \notin {NoHeader, BadHeader} /\
                   \E i \in DOMAIN header : header[i].lo = NoDash ->
                   Reply(0, "panic") /\ UNCHANGED <<start, end>>
              [] OTHER ->
                   LET valid == Parse(header, file.size)
                   IN IF Cardinality(valid) = 1
                      THEN /\ Reply(206, "respond")
                           /\ \E i \in valid :
                                 LET r == Resolve(header[i], file.size)
                                 IN start' = r.start /\ end' = r.end
                      ELSE Reply(416, "done") /\ UNCHANGED <<start, end>>
    /\ UNCHANGED <<request, reader, body, faults, told>>

\* A HEAD request has no body.
HeadOnly ==
    /\ status = "respond"
    /\ status' = "done"
    /\ UNCHANGED <<request, code, start, end, reader, body, faults, told>>

(***************************************************************************)
(* The decrypter.  Each operator returns the decrypter d, the source s and *)
(* an error: "nil", "eof", "fault" (of the source) or one of its own.      *)
(***************************************************************************)
Result(d, s, err) == [d |-> d, s |-> s, err |-> err]

Left(s) == s.stop - s.at

\* fillBuffer.  If lost >= 0, the source fails after that many cells.
FillBuffer(d, s, lost) ==
    LET fails == lost \in 0..(Left(s) - 1)
        n == IF fails THEN lost ELSE Minimum(BlockSize, Left(s))
        err == IF fails THEN "fault"
               ELSE IF n = Left(s) THEN "eof" ELSE "nil"
        after == [s EXCEPT !.at = @ + n]
        opened == Opens(parts[s.part], d.nonce, s.at, n)
        data == [i \in 1..(n - BlockHeaderSize) |->
                    IF opened = {} THEN Zero
                    ELSE (s.part - 1) * file.partSize
                           + (CHOOSE b \in opened : TRUE).from + i - 1]
    IN CASE n = 0 -> Result(d, after, err)
         [] n \in 1..BlockHeaderSize ->
              Result(d, after, IF err = "fault" THEN err ELSE "bad header")
         [] n > BlockHeaderSize /\ opened = {} /\ err = "fault" ->
              Result(d, after, err)
         [] OTHER ->
              Result([d EXCEPT !.buf = data, !.nonce = Increment(@)],
                     after, "nil")

\* newDecrypter on a source at the start of a part.
NewDecrypter(s, lost) ==
    LET n == Minimum(FileHeaderSize, Left(s))
    IN IF lost >= 0 THEN Result(NoDecrypter, s, "fault")
       ELSE IF n < FileHeaderSize THEN Result(NoDecrypter, s, "too short")
       ELSE Result([NoDecrypter EXCEPT !.nonce = parts[s.part].nonce],
                   [s EXCEPT !.at = @ + n], "nil")

\* The open callback of getPartReader.
Open(part, offset, limit) ==
    [part |-> part, at |-> offset,
     stop |-> Minimum(parts[part].len, offset + limit)]

RangeSeek(d, part, offset, limit, lost) ==
    LET u == CalculateUnderlying(offset, limit)
        filled == FillBuffer([d EXCEPT !.nonce = Add(@, u.blocks)],
                             Open(part, u.offset, u.limit), lost)
    IN IF filled.err # "nil" THEN filled
       ELSE IF u.discard > Len(filled.d.buf)
            THEN Result(filled.d, filled.s, "bad seek")
       ELSE [filled EXCEPT !.d.buf = SubSeq(@, u.discard + 1, Len(@)),
                           !.d.limit = limit]

\* fault: which read fails, if any, and after how many cells.
NewDecrypterSeek(part, offset, limit, fault) ==
    LET first == IF offset = 0 THEN CalculateUnderlying(offset, limit).limit ELSE 0
        head == NewDecrypter(Open(part, 0, FileHeaderSize + first),
                             IF fault[1] = "header" THEN fault[2] ELSE -1)
    IN IF head.err # "nil" THEN head
       ELSE IF offset = 0 THEN [head EXCEPT !.d.limit = limit]
       ELSE RangeSeek(head.d, part, offset, limit,
                      IF fault[1] = "seek" THEN fault[2] ELSE -1)

(***************************************************************************)
(* The Reader.                                                             *)
(***************************************************************************)
\* The faults that a step may meet, at one of the places given.
Faults(where) ==
    IF faults = MaxFaults THEN {<<"no", -1>>}
    ELSE {<<"no", -1>>} \cup (where \X (0..(BlockSize - 1)))

\* getPartReader of the i-th range.  For an encrypted part it has opened a
\* reader of the plain range first, which stays open (DroppedFails).
GetPartReader(i, fault) ==
    LET r == ranges'[i]
        opened == NewDecrypterSeek(r.part, r.start, r.end - r.start + 1, fault)
    IN IF file.encrypted
       THEN /\ dec' = opened.d /\ src' = opened.s
            /\ faults' = faults + (IF opened.err = "fault" THEN 1 ELSE 0)
            /\ status' = IF opened.err = "nil" THEN "copy" ELSE "failed"
       ELSE /\ src' = [part |-> r.part, at |-> r.start, stop |-> r.end + 1]
            /\ dec' = NoDecrypter
            /\ faults' = faults
            /\ status' = "copy"

\* onChunkFail and RecordBotFailure of a source that failed, RecordBotSuccess
\* when all was copied.
Told == told \cup (IF faults' > faults THEN {"failure"} ELSE {})
             \cup (IF status' = "done" THEN {"success"} ELSE {})

\* streamWithTGReader: fetchParts, NewReader.
\* After WriteHeader an error is only text in the body.  The pool hears of it
\* if a client was found and fetching the parts failed.
PartsFail ==
    /\ status = "respond"
    /\ faults < MaxFaults
    /\ faults' = faults + 1
    /\ status' = "failed"
    /\ body' = Append(body, Text)
    /\ told' \in {{}, {"failure"}}
    /\ UNCHANGED <<request, code, start, end, reader>>

NewReader ==
    /\ status = "respond"
    /\ ranges' = CalculatePartByteRanges
    /\ pos' = 1
    /\ remaining' = end - start + 1
    /\ \E fault \in Faults({"header", "seek"}) : GetPartReader(1, fault)
    /\ body' = IF status' = "failed" THEN Append(body, Text) ELSE body
    /\ told' = Told
    /\ UNCHANGED <<request, code, start, end>>

\* Read of the current part with a slice of k bytes: the bytes, the decrypter
\* and source after it, and the error.
PartRead(k, fault) ==
    LET plain == Minimum(k, Left(src))
        filled == IF dec.buf = << >> THEN FillBuffer(dec, src, fault[2])
                  ELSE Result(dec, src, "nil")
        n == Minimum(k, Minimum(Len(filled.d.buf), filled.d.limit))
        d == [filled.d EXCEPT !.buf = SubSeq(@, n + 1, Len(@)), !.limit = @ - n]
    IN CASE ~file.encrypted /\ fault[1] # "no" ->
              [bytes |-> << >>, d |-> dec, s |-> src, err |-> "fault"]
         [] ~file.encrypted /\ fault[1] = "no" ->
              [bytes |-> Positions((src.part - 1) * file.partSize + src.at, plain),
               d |-> dec,
               s |-> [src EXCEPT !.at = @ + plain],
               err |-> IF plain = Left(src) THEN "eof" ELSE "nil"]
         [] file.encrypted /\ filled.err # "nil" ->
              [bytes |-> << >>, d |-> filled.d, s |-> filled.s, err |-> filled.err]
         [] OTHER ->
              [bytes |-> SubSeq(filled.d.buf, 1, n), d |-> d, s |-> filled.s,
               err |-> IF d.limit = 0 THEN "eof" ELSE "nil"]

\* io.CopyN reads once (Reader.Read) and writes what it got.  It stops when
\* it has the content length or an error.
Copy(k) ==
    /\ status = "copy"
    /\ UNCHANGED <<request, code, start, end, ranges>>
    /\ \E fault \in Faults({"read"}) :
         LET r == PartRead(k, fault)
             rest == remaining - Len(r.bytes)
             lastRange == pos = Len(ranges)
         IN /\ body' = body \o r.bytes
            /\ remaining' = rest
            /\ CASE rest = 0 ->
                      /\ status' = "done"
                      /\ src' = r.s /\ dec' = r.d
                      /\ UNCHANGED <<pos, faults>>
                 [] rest > 0 /\ r.err = "nil" ->
                      /\ src' = r.s /\ dec' = r.d
                      /\ UNCHANGED <<status, pos, faults>>
                 [] rest > 0 /\ r.err = "eof" /\ ~lastRange ->
                      /\ pos' = pos + 1
                      /\ \E f \in Faults({"header", "seek"}) :
                            GetPartReader(pos + 1, f)
                 [] OTHER ->
                      /\ status' = "failed"
                      /\ src' = r.s /\ dec' = r.d
                      /\ faults' = faults + (IF r.err = "fault" THEN 1 ELSE 0)
                      /\ UNCHANGED pos
    /\ told' = Told

\* The reader that getPartReader dropped fetches on its own and may fail.
DroppedFails ==
    /\ status = "copy" /\ file.encrypted
    /\ faults < MaxFaults
    /\ faults' = faults + 1
    /\ told' = told \cup {"failure"}
    /\ UNCHANGED <<request, status, code, start, end, reader, body>>

Finished == status \in {"done", "failed", "panic"}
Over == Finished /\ UNCHANGED vars

Next ==
    \/ FilesStream \/ HeadOnly \/ PartsFail \/ NewReader
    \/ \E k \in ReadSizes : Copy(k)
    \/ DroppedFails
    \/ Over

Spec == Init /\ [][Next]_vars

-----------------------------------------------------------------------------
TypeOK ==
    /\ file \in Files /\ header \in Headers
    /\ status \in {"new", "respond", "copy", "done", "failed", "panic"}
    /\ code \in {0, 200, 206, 400, 416}
    /\ {start, end, pos, remaining} \subseteq Nat
    /\ faults \in 0..MaxFaults
    /\ told \subseteq {"failure", "success"}
    /\ Len(body) <= file.size + 1

\* The bytes that the Range header asks for, from the header alone.
Asked(v) ==
    {p \in 0..(file.size - 1) :
        \/ v.lo = None /\ v.hi \in 0..file.size /\ p >= file.size - v.hi
        \/ v.lo >= 0 /\ v.lo <= p /\ (v.hi = None \/ p <= v.hi)}

Wanted ==
    CASE header = NoHeader -> 0..(file.size - 1)
      [] header = BadHeader -> {}
      [] OTHER -> UNION {Asked(header[i]) : i \in DOMAIN header}

\* The client gets the bytes it asked for, in order, whatever the parts, the
\* boxes and the reads are, and nothing else but the text of an error page in
\* place of all of them; the pool hears of a success only if it got them all,
\* and of a failure only if it did not or the file is encrypted (Parse,
\* calculatePartByteRanges, RangeSeek, fillBuffer and the nonces).
ServesTheRange ==
    /\ \/ body = <<Text>>
       \/ \A i \in DOMAIN body :
             /\ body[i] \in Wanted
             /\ Cardinality({p \in Wanted : p < body[i]}) = i - 1
    /\ "success" \in told => Len(body) = Cardinality(Wanted)
    /\ "failure" \in told /\ ~file.encrypted => status = "failed"

\* No stream fails unless a read from Telegram failed: offsets and limits
\* always lead to whole boxes and to enough of them.
FailsOnlyByFault == status = "failed" => faults > 0

\* The size that is announced to Telegram (EncryptedSize, in the upload) is
\* the length of what the encrypter returns, and DecryptedSize undoes it.
SizesAgree ==
    \A p \in DOMAIN parts : file.encrypted =>
        /\ EncryptedSize(PlainSize(file, p)) = parts[p].len
        /\ DecryptedSize(parts[p].len) = PlainSize(file, p)

=============================================================================
