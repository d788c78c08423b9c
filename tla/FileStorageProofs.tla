------------------------- MODULE FileStorageProofs -------------------------
(***************************************************************************)
(* Proofs about FileStorage, and about CheckCommand beside it, for every   *)
(* set of users and uploads, every number of parts and every bound.        *)
(***************************************************************************)
EXTENDS CheckCommand, FiniteSetTheorems, SequenceTheorems, NaturalsInduction,
        WellFoundedInduction, TLAPS

USE StorageAssumption

----------------------------------------------------------------------------
(* Lemmas about the operators of the model.                                *)

FileRow == [name : Names, user : Users, status : FileStatus,
            parts : Seq(Nat), size : Nat]
SentRow == [upload_id : UploadIds, part_no : Nat]

\* What a message carries.
LEMMA SentFacts ==
  ASSUME TypeOK, NEW m \in DOMAIN sent
  PROVE  /\ sent[m].upload_id \in UploadIds
         /\ sent[m].part_no \in PartNos(sent[m].upload_id) /\ sent[m].part_no \in Nat
         /\ sent[m] = [upload_id |-> sent[m].upload_id, part_no |-> sent[m].part_no]
         /\ m \in Nat \ {0}
  <1>0. sent \in Seq(SentRow)
    BY DEF TypeOK, SentOK, SentRow
  <1>1. sent[m] \in SentRow /\ DOMAIN sent = 1..Len(sent)
    BY <1>0
  <1>2. sent[m].part_no \in PartNos(sent[m].upload_id)
    BY DEF TypeOK, SentOK
  <1>3. \A r \in SentRow : /\ r.upload_id \in UploadIds /\ r.part_no \in Nat
                            /\ r = [upload_id |-> r.upload_id, part_no |-> r.part_no]
    BY DEF SentRow
  <1>4. Len(sent) \in Nat
    BY DEF TypeOK, SentOK
  <1> QED
    BY <1>1, <1>2, <1>3, <1>4

LEMMA PartSetEmpty == PartSet(<< >>) = {}
  BY DEF PartSet

LEMMA PartSetType ==
  ASSUME NEW s \in Seq(Nat)
  PROVE  PartSet(s) \subseteq Nat
  BY DEF PartSet

\* What a file or a request is built from are ids of readable rows.
LEMMA InPartOrderType ==
  ASSUME NEW rows, NEW parts \in InPartOrder(rows), RowIds(rows) \subseteq Nat,
         IsFiniteSet(rows)
  PROVE  /\ parts \in Seq(Nat)
         /\ Len(parts) = Cardinality(rows)
         /\ PartSet(parts) = RowIds(rows)
  <1>1. Cardinality(rows) \in Nat
    BY FS_CardinalityType
  <1>2. parts \in [1..Cardinality(rows) -> RowIds(rows)] /\ PartSet(parts) = RowIds(rows)
    BY DEF InPartOrder
  <1> QED
    BY <1>1, <1>2

\* The rows are finitely many: their fields come from finite sets, except the
\* upload id and the part number, which the message determines.
LEMMA RowsFinite ==
  ASSUME TypeOK
  PROVE  IsFiniteSet(uploads)
  <1>1. DOMAIN sent = 1..Len(sent) /\ Len(sent) \in Nat /\ now \in Nat
    BY DEF TypeOK, SentOK
  <1>2. IsFiniteSet(1..Len(sent)) /\ IsFiniteSet(0..now)
    <2>1. 1 \in Int /\ 0 \in Int /\ Len(sent) \in Int /\ now \in Int
      BY <1>1
    <2> QED
      BY <2>1, FS_Interval, Zenon
  <1>3. IsFiniteSet((1..Len(sent)) \X (0..now))
    BY <1>2, FS_Product
  <1> DEFINE row(x) == [part_id |-> x[1], upload_id |-> sent[x[1]].upload_id,
                        part_no |-> sent[x[1]].part_no, created_at |-> x[2]]
             f == [x \in (1..Len(sent)) \X (0..now) |-> row(x)]
             image == {row(x) : x \in (1..Len(sent)) \X (0..now)}
  <1>4. IsFiniteSet(image)
    <2>1. f \in Surjection((1..Len(sent)) \X (0..now), image)
      BY DEF Surjection
    <2> QED
      BY <1>3, <2>1, FS_Surjection
  <1>5. uploads \subseteq image
    <2> SUFFICES ASSUME NEW r \in uploads PROVE r \in image
      OBVIOUS
    <2>1. /\ r \in [part_id : DOMAIN sent, upload_id : UploadIds, part_no : Nat,
                    created_at : 0..now]
          /\ sent[r.part_id] = [upload_id |-> r.upload_id, part_no |-> r.part_no]
      BY DEF TypeOK, RowsOK
    <2>2. PICK x : x = <<r.part_id, r.created_at>>
      OBVIOUS
    <2>3. x \in (1..Len(sent)) \X (0..now) /\ x[1] = r.part_id /\ x[2] = r.created_at
      BY <1>1, <2>1, <2>2
    <2>4. row(x) = r
      BY <2>1, <2>3
    <2> QED
      BY <2>3, <2>4
  <1> QED
    BY <1>4, <1>5, FS_Subset

----------------------------------------------------------------------------
(* Type correctness.                                                       *)

\* A part of the type invariant survives steps that leave its variables alone.
LEMMA Frames ==
  /\ SentOK /\ UNCHANGED <<sent, messages, abandoned>> => SentOK'
  /\ RowsOK /\ UNCHANGED <<sent, uploads, sending, now>> => RowsOK'
  /\ FilesOK /\ UNCHANGED <<sent, files>> => FilesOK'
  /\ RequestsOK /\ UNCHANGED <<sent, files, request>> => RequestsOK'
  /\ JobsOK /\ UNCHANGED <<sent, files, fileJob, uploadJob>> => JobsOK'
  /\ ClientsOK /\ UNCHANGED <<sent, acked, doubt, outcome>> => ClientsOK'
  <1>1. SentOK /\ UNCHANGED <<sent, messages, abandoned>> => SentOK'
    BY DEF SentOK
  <1>2. RowsOK /\ UNCHANGED <<sent, uploads, sending, now>> => RowsOK'
    BY DEF RowsOK
  <1>3. FilesOK /\ UNCHANGED <<sent, files>> => FilesOK'
    BY DEF FilesOK
  <1>4. RequestsOK /\ UNCHANGED <<sent, files, request>> => RequestsOK'
    BY DEF RequestsOK
  <1>5. JobsOK /\ UNCHANGED <<sent, files, fileJob, uploadJob>> => JobsOK'
    BY DEF JobsOK, FileGroup, UploadGroup
  <1>6. ClientsOK /\ UNCHANGED <<sent, acked, doubt, outcome>> => ClientsOK'
    BY DEF ClientsOK
  <1> QED
    BY <1>1, <1>2, <1>3, <1>4, <1>5, <1>6

LEMMA TypeInit == Init => TypeOK
  <1> SUFFICES ASSUME Init PROVE TypeOK
    OBVIOUS
  <1>1. SentOK /\ RowsOK
    BY DEF Init, SentOK, RowsOK, RowIds
  <1>2. FilesOK
    BY DEF Init, FilesOK
  <1>3. RequestsOK
    BY PartSetEmpty DEF Init, RequestsOK, NoRequest
  <1>4. JobsOK
    BY DEF Init, JobsOK, IdleJob
  <1>5. ClientsOK
    BY DEF Init, ClientsOK
  <1> QED
    BY <1>1, <1>2, <1>3, <1>4, <1>5 DEF Init, TypeOK

\* A message is added.
LEMMA TypeSend ==
  ASSUME TypeOK, NEW u \in UploadIds, NEW p \in PartNos(u), UploadSend(u, p)
  PROVE  TypeOK'
  <1>0. PICK row : row = [upload_id |-> u, part_no |-> p]
    OBVIOUS
  <1>1. /\ sent' = Append(sent, row) /\ Len(sent) < MaxMessages
        /\ messages' = messages \cup {Len(sent) + 1}
        /\ sending' = sending \cup {Len(sent) + 1}
        /\ UNCHANGED <<now, restarts, uploads, files, sessions, request, fileJob,
                       uploadJob, acked, doubt, outcome, abandoned>>
    BY <1>0 DEF UploadSend, dbVars, jobVars, clientVars
  <1>2. row \in SentRow /\ row.upload_id = u /\ row.part_no = p /\ sent \in Seq(SentRow)
    BY <1>0 DEF SentRow, PartNos, TypeOK, SentOK
  <1>3. /\ sent' \in Seq(SentRow) /\ Len(sent') = Len(sent) + 1
        /\ DOMAIN sent = 1..Len(sent) /\ DOMAIN sent' = 1..(Len(sent) + 1)
        /\ DOMAIN sent' = DOMAIN sent \cup {Len(sent) + 1}
        /\ \A m \in DOMAIN sent : sent'[m] = sent[m]
        /\ sent'[Len(sent) + 1] = row /\ Len(sent) \in Nat
    BY <1>1, <1>2, AppendProperties
  <1>4. SentOK'
    <2>1. \A m \in DOMAIN sent' : sent'[m].part_no \in PartNos(sent'[m].upload_id)
      BY <1>2, <1>3 DEF TypeOK, SentOK
    <2>2. Len(sent') <= MaxMessages
      BY <1>1, <1>3
    <2>3. messages' \subseteq DOMAIN sent' /\ abandoned' \subseteq DOMAIN sent'
      BY <1>1, <1>3 DEF TypeOK, SentOK
    <2> QED
      BY <1>3, <2>1, <2>2, <2>3 DEF SentOK, SentRow
  <1>5. RowsOK'
    <2>1. RowIds(uploads) \subseteq DOMAIN sent
      BY DEF TypeOK, RowsOK, RowIds
    <2>2. Len(sent) + 1 \notin DOMAIN sent
      BY <1>3
    <2>3. sending' \subseteq DOMAIN sent' \ RowIds(uploads)
      BY <1>1, <1>3, <2>1, <2>2 DEF TypeOK, RowsOK
    <2>4. \A r \in uploads : sent'[r.part_id] =
                               [upload_id |-> r.upload_id, part_no |-> r.part_no]
      BY <1>3 DEF TypeOK, RowsOK
    <2>5. uploads \subseteq [part_id : DOMAIN sent', upload_id : UploadIds,
                             part_no : Nat, created_at : 0..now]
      BY <1>3 DEF TypeOK, RowsOK
    <2> QED
      BY <1>1, <2>3, <2>4, <2>5 DEF RowsOK
  <1>6. FilesOK' /\ RequestsOK'
    BY <1>1, <1>3 DEF TypeOK, FilesOK, RequestsOK
  <1>7. JobsOK'
    BY <1>1, <1>3 DEF TypeOK, JobsOK, FileGroup, UploadGroup
  <1>8. ClientsOK'
    BY <1>1, <1>3 DEF TypeOK, ClientsOK
  <1> QED
    BY <1>1, <1>4, <1>5, <1>6, <1>7, <1>8 DEF TypeOK

LEMMA TypeUpload ==
  ASSUME TypeOK,
         \/ \E m \in sending, answered \in BOOLEAN : UploadInsert(m, answered)
         \/ \E m \in sending : UploadError(m)
         \/ \E u \in UploadIds : UploadsPartsById(u) \/ UploadsDelete(u)
  PROVE  TypeOK'
  <1> USE DEF tgVars, dbVars, handlerVars, jobVars, clientVars
  <1>0. RowIds(uploads) \subseteq DOMAIN sent /\ sending \subseteq DOMAIN sent
    BY DEF TypeOK, RowsOK, RowIds
  <1>1. ASSUME NEW m \in sending, NEW answered \in BOOLEAN, UploadInsert(m, answered)
        PROVE  TypeOK'
    <2>0. PICK u, p : u = sent[m].upload_id /\ p = sent[m].part_no
      OBVIOUS
    <2>1. /\ u \in UploadIds /\ p \in PartNos(u) /\ p \in Nat
          /\ sent[m] = [upload_id |-> u, part_no |-> p] /\ m \in DOMAIN sent
      BY <1>0, <2>0, SentFacts
    <2>2. PICK row : row = [part_id |-> m, upload_id |-> u, part_no |-> p, created_at |-> now]
      OBVIOUS
    <2>3. /\ uploads' = uploads \cup {row} /\ sending' = sending \ {m}
          /\ acked' = IF answered THEN [acked EXCEPT ![u][p] = m] ELSE acked
          /\ doubt' = IF answered THEN doubt ELSE doubt \cup {<<u, p>>}
          /\ UNCHANGED <<now, restarts, sent, messages, files, sessions, request, fileJob,
                         uploadJob, outcome, abandoned>>
      BY <1>1, <2>0, <2>2 DEF UploadInsert
    <2>4. RowsOK'
      <3>1. row \in [part_id : DOMAIN sent, upload_id : UploadIds, part_no : Nat,
                     created_at : 0..now]
        BY <2>1, <2>2 DEF TypeOK
      <3>2. RowIds(uploads') = RowIds(uploads) \cup {m}
        BY <2>2, <2>3 DEF RowIds
      <3>3. /\ row.part_id = m /\ row.upload_id = u /\ row.part_no = p
        BY <2>2
      <3> QED
        BY <2>1, <2>3, <3>1, <3>2, <3>3 DEF TypeOK, RowsOK
    <2>5. ClientsOK'
      <3>1. /\ DOMAIN acked' = UploadIds
            /\ \A v \in UploadIds : acked'[v] \in [PartNos(v) -> {0} \cup DOMAIN sent]
        BY <2>1, <2>3 DEF TypeOK, ClientsOK
      <3>2. doubt' \subseteq UNION {{v} \X PartNos(v) : v \in UploadIds}
        <4>1. <<u, p>> \in {u} \X PartNos(u)
          BY <2>1
        <4> QED
          BY <2>1, <2>3, <4>1 DEF TypeOK, ClientsOK
      <3> QED
        BY <2>3, <3>1, <3>2 DEF TypeOK, ClientsOK
    <2> QED
      BY <2>3, <2>4, <2>5, Frames DEF TypeOK
  <1>2. ASSUME NEW m \in sending, UploadError(m)
        PROVE  TypeOK'
    <2>1. SentOK' /\ RowsOK'
      BY <1>0, <1>2 DEF UploadError, TypeOK, SentOK, RowsOK
    <2> QED
      BY <1>2, <2>1, Frames DEF UploadError, TypeOK
  <1>3. ASSUME NEW u \in UploadIds, UploadsPartsById(u)
        PROVE  TypeOK'
    <2>1. RowIds(ListedRows(u)) \subseteq DOMAIN sent
      BY <1>0 DEF RowIds, ListedRows, ReadableRows, RowsOf
    <2>2. PICK known \in [PartNos(u) -> {0} \cup RowIds(ListedRows(u))] :
             acked' = [acked EXCEPT ![u] = known]
      BY <1>3 DEF UploadsPartsById
    <2>3. known \in [PartNos(u) -> {0} \cup DOMAIN sent]
      BY <2>1
    <2>4. UNCHANGED <<sent, outcome>> /\ doubt' \subseteq doubt
      BY <1>3 DEF UploadsPartsById
    <2>5. ClientsOK'
      BY <2>2, <2>3, <2>4 DEF TypeOK, ClientsOK
    <2> QED
      BY <1>3, <2>5, Frames DEF UploadsPartsById, TypeOK
  <1>4. ASSUME NEW u \in UploadIds, UploadsDelete(u)
        PROVE  TypeOK'
    <2>1. RowIds(RowsOf(u)) \subseteq DOMAIN sent /\ RowIds(uploads \ RowsOf(u)) \subseteq RowIds(uploads)
      BY <1>0 DEF RowIds, RowsOf
    <2>2. SentOK' /\ RowsOK'
      BY <1>4, <2>1 DEF UploadsDelete, TypeOK, SentOK, RowsOK
    <2>3. ClientsOK'
      BY <1>4 DEF UploadsDelete, TypeOK, ClientsOK
    <2> QED
      BY <1>4, <2>2, <2>3, Frames DEF UploadsDelete, TypeOK
  <1> QED
    BY <1>1, <1>2, <1>3, <1>4

\* The part of FilesCreate and FilesUpdate before the transaction.
LEMMA TypeRead ==
  ASSUME TypeOK, NEW u \in UploadIds,
         \/ FilesCreateRead(u)
         \/ \E f \in DOMAIN files : \E size \in {0, PartCount[u]} : FilesUpdateRead(u, f, size)
  PROVE  TypeOK'
  <1> USE DEF tgVars, dbVars, handlerVars, jobVars, clientVars
  <1>1. RowIds(ReadableRows(u)) \subseteq DOMAIN sent /\ DOMAIN sent \subseteq Nat
        /\ IsFiniteSet(ReadableRows(u))
    <2>1. ReadableRows(u) \subseteq uploads
      BY DEF ReadableRows, RowsOf
    <2>2. RowIds(ReadableRows(u)) \subseteq DOMAIN sent
      BY <2>1 DEF TypeOK, RowsOK, RowIds
    <2>3. DOMAIN sent = 1..Len(sent)
      BY DEF TypeOK, SentOK
    <2> QED
      BY <2>1, <2>2, <2>3, RowsFinite, FS_Subset
  <1>2. PICK r : /\ r \in [op : {"none", "create", "update"}, file : Nat, size : Nat,
                           parts : Seq(Nat)]
                 /\ PartSet(r.parts) \subseteq DOMAIN sent
                 /\ r.op = "update" => r.file \in DOMAIN files
                 /\ r.size = 0 => r.parts = << >>
                 /\ request' = [request EXCEPT ![u] = r]
    <2>1. CASE FilesCreateRead(u)
      <3>1. PICK parts \in InPartOrder(ReadableRows(u)) :
              request' = [request EXCEPT ![u] = [op |-> "create", file |-> 0,
                                                 size |-> PartCount[u], parts |-> parts]]
        BY <2>1 DEF FilesCreateRead
      <3>2. parts \in Seq(Nat) /\ PartSet(parts) \subseteq DOMAIN sent
        BY <1>1, InPartOrderType
      <3>3. PartCount[u] \in Nat \ {0}
        OBVIOUS
      <3> QED
        BY <3>1, <3>2, <3>3
    <2>2. CASE \E f \in DOMAIN files : \E size \in {0, PartCount[u]} : FilesUpdateRead(u, f, size)
      <3>1. PICK f \in DOMAIN files, size \in {0, PartCount[u]} : FilesUpdateRead(u, f, size)
        BY <2>2
      <3>2. PICK parts \in InPartOrder(ReadableRows(u)) :
              request' = [request EXCEPT ![u] =
                           [op |-> "update", file |-> f,
                            size |-> IF size = 0 THEN Len(parts) ELSE size, parts |-> parts]]
        BY <3>1 DEF FilesUpdateRead
      <3>3. parts \in Seq(Nat) /\ PartSet(parts) \subseteq DOMAIN sent
        BY <1>1, InPartOrderType
      <3>4. PartCount[u] \in Nat \ {0} /\ f \in Nat
        BY DEF TypeOK, FilesOK
      <3>5. PICK z : z = IF size = 0 THEN Len(parts) ELSE size
        OBVIOUS
      <3>6. z \in Nat /\ (z = 0 => parts = << >>)
        BY <3>3, <3>4, <3>5
      <3> QED
        BY <3>2, <3>3, <3>4, <3>5, <3>6
    <2> QED
      BY <2>1, <2>2
  <1>3. UNCHANGED <<now, restarts, sent, messages, uploads, files, sessions, sending, fileJob,
                    uploadJob, acked, doubt, outcome, abandoned>>
    BY DEF FilesCreateRead, FilesUpdateRead
  <1>4. RequestsOK'
    BY <1>2, <1>3 DEF TypeOK, RequestsOK
  <1> QED
    BY <1>3, <1>4, Frames DEF TypeOK

\* What INSERT ... ON CONFLICT does: row f is new, or it was the active file
\* with the same name.
Inserted(u, parts, size, f) ==
    /\ DOMAIN files' = DOMAIN files \cup {f}
    /\ \A g \in DOMAIN files : g # f => files'[g] = files[g]
    /\ files'[f] = [name |-> Name[u], user |-> Owner[u], status |-> "active",
                    parts |-> parts, size |-> size]
    /\ f \in DOMAIN files => files[f].status = "active" /\ files[f].user = Owner[u]
    /\ \A g \in DOMAIN files :
          /\ files[g].status = "active"
          /\ files[g].name = Name[u] /\ files[g].user = Owner[u]
          => g = f
    /\ files' \in Seq(FileRow)

LEMMA FileFacts ==
  ASSUME TypeOK
  PROVE  /\ files \in Seq(FileRow) /\ DOMAIN files = 1..Len(files) /\ Len(files) \in Nat
         /\ \A f \in DOMAIN files : files[f] \in FileRow /\ f \in Nat
  <1>1. files \in Seq(FileRow)
    BY DEF TypeOK, FilesOK, FileRow
  <1> QED
    BY <1>1

LEMMA InsertShape ==
  ASSUME TypeOK, NEW u \in UploadIds, NEW parts \in Seq(Nat), NEW size \in Nat,
         InsertFile(u, parts, size, files')
  PROVE  \E f \in Nat : Inserted(u, parts, size, f)
  <1>0. PICK row : row = [name |-> Name[u], user |-> Owner[u], status |-> "active",
                          parts |-> parts, size |-> size]
    OBVIOUS
  <1>1. row \in FileRow /\ row.name = Name[u] /\ row.user = Owner[u]
    BY <1>0 DEF FileRow, Names, FileStatus
  <1> DEFINE conflict == {f \in DOMAIN files : /\ files[f].status = "active"
                                               /\ files[f].name = Name[u]
                                               /\ files[f].user = Owner[u]}
  <1>2. \/ conflict = {} /\ files' = Append(files, row)
        \/ \E f \in conflict : files' = [files EXCEPT ![f] = row]
    BY <1>0, <1>1 DEF InsertFile
  <1>3. CASE conflict = {} /\ files' = Append(files, row)
    <2>1. /\ files' \in Seq(FileRow) /\ Len(files') = Len(files) + 1
          /\ \A g \in 1..Len(files) : files'[g] = files[g]
          /\ files'[Len(files) + 1] = row
          /\ DOMAIN files' = 1..(Len(files) + 1)
      BY <1>1, <1>3, FileFacts, AppendProperties
    <2>2. /\ DOMAIN files' = DOMAIN files \cup {Len(files) + 1}
          /\ Len(files) + 1 \notin DOMAIN files /\ Len(files) + 1 \in Nat
      BY <2>1, FileFacts
    <2>3. Inserted(u, parts, size, Len(files) + 1)
      BY <1>0, <1>3, <2>1, <2>2, FileFacts DEF Inserted
    <2> QED
      BY <2>2, <2>3
  <1>4. ASSUME NEW f \in conflict, files' = [files EXCEPT ![f] = row]
        PROVE  Inserted(u, parts, size, f) /\ f \in Nat
    <2>1. f \in DOMAIN files /\ f \in Nat
      BY FileFacts
    <2>2. \A g \in DOMAIN files : /\ files[g].status = "active"
                                  /\ files[g].name = Name[u] /\ files[g].user = Owner[u]
                                  => g = f
      BY DEF TypeOK, FilesOK
    <2>3. /\ DOMAIN files' = DOMAIN files /\ files'[f] = row
          /\ \A g \in DOMAIN files : g # f => files'[g] = files[g]
      BY <1>4, <2>1
    <2>4. files' \in Seq(FileRow)
      BY <1>1, <1>4, <2>1, FileFacts
    <2> QED
      BY <1>0, <2>1, <2>2, <2>3, <2>4 DEF Inserted
  <1> QED
    BY <1>2, <1>3, <1>4

LEMMA InsertType ==
  ASSUME TypeOK, NEW u \in UploadIds, NEW parts \in Seq(Nat), NEW size \in Nat,
         NEW f \in Nat, Inserted(u, parts, size, f),
         PartSet(parts) \subseteq DOMAIN sent, sent' = sent
  PROVE  FilesOK'
  <1>1. files'[f].parts = parts /\ files'[f].name = Name[u] /\ files'[f].user = Owner[u]
    BY DEF Inserted
  <1>2. \A g \in DOMAIN files' : PartSet(files'[g].parts) \subseteq DOMAIN sent'
    BY <1>1 DEF Inserted, TypeOK, FilesOK
  <1>3. \A g, h \in DOMAIN files' :
          /\ files'[g].status = "active" /\ files'[h].status = "active"
          /\ files'[g].name = files'[h].name /\ files'[g].user = files'[h].user
          => g = h
    <2>1. \A g \in DOMAIN files' : g = f \/ (g \in DOMAIN files /\ files'[g] = files[g])
      BY DEF Inserted
    <2>2. ASSUME NEW g \in DOMAIN files', g # f, files'[g].status = "active",
                 files'[g].name = Name[u], files'[g].user = Owner[u]
          PROVE  FALSE
      BY <2>1, <2>2 DEF Inserted
    <2>3. \A g, h \in DOMAIN files :
            /\ files[g].status = "active" /\ files[h].status = "active"
            /\ files[g].name = files[h].name /\ files[g].user = files[h].user
            => g = h
      BY DEF TypeOK, FilesOK
    <2> QED
      BY <1>1, <2>1, <2>2, <2>3
  <1> QED
    BY <1>2, <1>3 DEF FilesOK, Inserted, FileRow

\* Requests and jobs only know file ids, and no row of files goes away.
LEMMA FilesGrow ==
  ASSUME TypeOK, sent' = sent, DOMAIN files \subseteq DOMAIN files'
  PROVE  /\ request' = request => RequestsOK'
         /\ \A u \in UploadIds :
               request' = [request EXCEPT ![u] = NoRequest] => RequestsOK'
         /\ UNCHANGED jobVars => JobsOK'
  <1>1. request' = request => RequestsOK'
    BY DEF TypeOK, RequestsOK
  <1>2. ASSUME NEW u \in UploadIds, request' = [request EXCEPT ![u] = NoRequest]
        PROVE  RequestsOK'
    <2>1. NoRequest \in [op : {"none", "create", "update"}, file : Nat, size : Nat,
                         parts : Seq(Nat)]
          /\ NoRequest.op = "none" /\ PartSet(NoRequest.parts) = {}
      BY PartSetEmpty DEF NoRequest
    <2> QED
      BY <1>2, <2>1 DEF TypeOK, RequestsOK
  <1>3. UNCHANGED jobVars => JobsOK'
    BY DEF jobVars, TypeOK, JobsOK, FileGroup, UploadGroup
  <1> QED
    BY <1>1, <1>2, <1>3

LEMMA ReplacedType ==
  ASSUME TypeOK
  PROVE  Replaced(files') \subseteq DOMAIN sent
  BY DEF Replaced, TypeOK, FilesOK

\* The rows of an upload are deleted with the transaction.
LEMMA ConsumeType ==
  ASSUME TypeOK, NEW u \in UploadIds, NEW parts, ConsumeUploads(u, parts),
         UNCHANGED <<now, sent, messages, sending>>
  PROVE  SentOK' /\ RowsOK'
  <1>1. RowIds(RowsOf(u)) \subseteq DOMAIN sent /\ RowIds(uploads') \subseteq RowIds(uploads)
        /\ uploads' \subseteq uploads
    BY DEF ConsumeUploads, RowIds, RowsOf, TypeOK, RowsOK
  <1>2. abandoned' \subseteq DOMAIN sent
    BY <1>1, ReplacedType DEF ConsumeUploads, TypeOK, SentOK
  <1>3. SentOK'
    BY <1>2 DEF TypeOK, SentOK
  <1>4. RowsOK'
    BY <1>1 DEF TypeOK, RowsOK
  <1> QED
    BY <1>3, <1>4

LEMMA AnswerType ==
  ASSUME TypeOK, NEW u \in UploadIds, NEW answered \in BOOLEAN, Answer(u, answered),
         UNCHANGED <<sent, acked, doubt>>
  PROVE  ClientsOK'
  BY DEF Answer, TypeOK, ClientsOK

LEMMA TypeCommit ==
  ASSUME TypeOK, NEW u \in UploadIds, NEW answered \in BOOLEAN,
         FilesCreateCommit(u, answered) \/ FilesUpdateCommit(u, answered)
  PROVE  TypeOK'
  <1> USE DEF tgVars, dbVars, handlerVars, jobVars, clientVars
  <1>0. PICK r : r = request[u]
    OBVIOUS
  <1>1. /\ r \in [op : {"none", "create", "update"}, file : Nat, size : Nat, parts : Seq(Nat)]
        /\ PartSet(r.parts) \subseteq DOMAIN sent
        /\ r.op = "update" => r.file \in DOMAIN files
    BY <1>0 DEF TypeOK, RequestsOK
  <1>2. /\ UNCHANGED <<now, restarts, sent, messages, sessions, sending, fileJob, uploadJob,
                       acked, doubt>>
        /\ ConsumeUploads(u, r.parts) /\ Answer(u, answered)
        /\ request' = [request EXCEPT ![u] = NoRequest]
    BY <1>0 DEF FilesCreateCommit, FilesUpdateCommit
  <1>3. FilesOK' /\ DOMAIN files \subseteq DOMAIN files'
    <2>1. CASE FilesCreateCommit(u, answered)
      <3>1. InsertFile(u, r.parts, r.size, files') /\ r.parts \in Seq(Nat) /\ r.size \in Nat
        BY <1>0, <1>1, <2>1 DEF FilesCreateCommit
      <3>2. PICK f \in Nat : Inserted(u, r.parts, r.size, f)
        BY <3>1, InsertShape
      <3>3. FilesOK'
        BY <1>1, <1>2, <3>1, <3>2, InsertType
      <3> QED
        BY <3>2, <3>3 DEF Inserted
    <2>2. CASE FilesUpdateCommit(u, answered)
      <3>1. r.file \in DOMAIN files /\ files' = [files EXCEPT ![r.file] = UpdatedRow(@, r)]
        BY <1>0, <1>1, <2>2 DEF FilesUpdateCommit
      <3>2. PICK old, new : old = files[r.file] /\ new = UpdatedRow(old, r)
        OBVIOUS
      <3>3. old \in FileRow /\ PartSet(old.parts) \subseteq DOMAIN sent
        BY <3>1, <3>2, FileFacts DEF TypeOK, FilesOK
      <3>4. /\ new \in FileRow /\ new.name = old.name /\ new.user = old.user
            /\ new.status = old.status /\ new.parts \in {old.parts, r.parts}
        <4>1. /\ [old EXCEPT !.parts = r.parts, !.size = r.size] \in FileRow
              /\ [old EXCEPT !.size = 0] \in FileRow
          BY <1>1, <3>3 DEF FileRow
        <4> QED
          BY <1>1, <3>2, <3>3, <4>1 DEF UpdatedRow, FileRow
      <3>5. files' \in Seq(FileRow)
        BY <3>1, <3>2, <3>4, FileFacts
      <3>6. /\ DOMAIN files' = DOMAIN files /\ files'[r.file] = new
            /\ \A g \in DOMAIN files : g # r.file => files'[g] = files[g]
        BY <3>1, <3>2
      <3>7. \A g \in DOMAIN files' : PartSet(files'[g].parts) \subseteq DOMAIN sent'
        BY <1>1, <1>2, <3>3, <3>4, <3>6 DEF TypeOK, FilesOK
      <3>8. \A g \in DOMAIN files : /\ files'[g].name = files[g].name
                                    /\ files'[g].user = files[g].user
                                    /\ files'[g].status = files[g].status
        BY <3>2, <3>4, <3>6
      <3> QED
        BY <3>5, <3>6, <3>7, <3>8 DEF TypeOK, FilesOK, FileRow
    <2> QED
      BY <2>1, <2>2
  <1>4. RequestsOK' /\ JobsOK'
    BY <1>2, <1>3, FilesGrow
  <1>5. SentOK' /\ RowsOK'
    BY <1>2, ConsumeType
  <1>6. ClientsOK'
    BY <1>2, AnswerType
  <1> QED
    BY <1>2, <1>3, <1>4, <1>5, <1>6 DEF TypeOK

\* A client that holds an answer for every part holds a list of messages.
LEMMA AckedParts ==
  ASSUME TypeOK, NEW u \in UploadIds, \A p \in PartNos(u) : acked[u][p] # 0
  PROVE  acked[u] \in Seq(Nat) /\ PartSet(acked[u]) \subseteq DOMAIN sent
  <1>1. acked[u] \in [1..PartCount[u] -> {0} \cup DOMAIN sent] /\ PartCount[u] \in Nat
    BY DEF TypeOK, ClientsOK, PartNos
  <1>2. \A p \in 1..PartCount[u] : acked[u][p] \in DOMAIN sent
    BY <1>1 DEF PartNos
  <1>3. DOMAIN sent \subseteq Nat
    BY SentFacts
  <1>4. acked[u] \in [1..PartCount[u] -> Nat]
    BY <1>1, <1>2, <1>3
  <1>5. PartSet(acked[u]) \subseteq DOMAIN sent
    BY <1>2, <1>4 DEF PartSet
  <1>6. acked[u] \in Seq(Nat)
    <2>1. \A n \in Nat : \A s \in [1..n -> Nat] : s \in Seq(Nat)
      OBVIOUS
    <2> QED
      BY <1>1, <1>4, <2>1, Zenon
  <1> QED
    BY <1>5, <1>6

LEMMA TypeRequest ==
  ASSUME TypeOK,
         \/ \E u \in UploadIds : RequestError(u)
         \/ \E u \in UploadIds, answered \in BOOLEAN : FilesCreateByParts(u, answered)
         \/ \E f \in DOMAIN files : FilesDelete(f)
  PROVE  TypeOK'
  <1> USE DEF tgVars, dbVars, handlerVars, jobVars, clientVars
  <1>1. ASSUME NEW u \in UploadIds, RequestError(u)
        PROVE  TypeOK'
    <2>1. RequestsOK'
      BY <1>1, FilesGrow DEF RequestError
    <2> QED
      BY <1>1, <2>1, Frames DEF RequestError, TypeOK
  <1>2. ASSUME NEW u \in UploadIds, NEW answered \in BOOLEAN, FilesCreateByParts(u, answered)
        PROVE  TypeOK'
    <2>1. acked[u] \in Seq(Nat) /\ PartSet(acked[u]) \subseteq DOMAIN sent
      BY <1>2, AckedParts DEF FilesCreateByParts
    <2>2. InsertFile(u, acked[u], PartCount[u], files') /\ PartCount[u] \in Nat
      BY <1>2 DEF FilesCreateByParts
    <2>3. PICK f \in Nat : Inserted(u, acked[u], PartCount[u], f)
      BY <2>1, <2>2, InsertShape
    <2>4. /\ UNCHANGED <<now, restarts, sent, messages, uploads, sessions, sending, request,
                         fileJob, uploadJob, acked, doubt>>
          /\ abandoned' = abandoned \cup Replaced(files') /\ Answer(u, answered)
      BY <1>2 DEF FilesCreateByParts
    <2>5. FilesOK'
      BY <2>1, <2>2, <2>3, <2>4, InsertType
    <2>6. RequestsOK' /\ JobsOK'
      <3>1. DOMAIN files \subseteq DOMAIN files'
        BY <2>3 DEF Inserted
      <3> QED
        BY <2>4, <3>1, FilesGrow
    <2>7. SentOK'
      BY <2>4, ReplacedType DEF TypeOK, SentOK
    <2>8. ClientsOK'
      BY <2>4, AnswerType
    <2> QED
      BY <2>4, <2>5, <2>6, <2>7, <2>8, Frames DEF TypeOK
  <1>3. ASSUME NEW f \in DOMAIN files, FilesDelete(f)
        PROVE  TypeOK'
    <2>0. PICK old : old = files[f]
      OBVIOUS
    <2>1. files' = [files EXCEPT ![f] = [old EXCEPT !.status = "pending_deletion"]]
      BY <1>3, <2>0 DEF FilesDelete
    <2>2. [old EXCEPT !.status = "pending_deletion"] \in FileRow
      BY <2>0, FileFacts DEF FileRow, FileStatus
    <2>3. files' \in Seq(FileRow) /\ DOMAIN files' = DOMAIN files
      BY <2>1, <2>2, FileFacts
    <2>4. /\ \A g \in DOMAIN files : g # f => files'[g] = files[g]
          /\ files'[f].status = "pending_deletion" /\ files'[f].parts = files[f].parts
      BY <2>0, <2>1, FileFacts DEF FileRow
    <2>5. sent' = sent
      BY <1>3 DEF FilesDelete
    <2>6. FilesOK'
      BY <2>3, <2>4, <2>5 DEF TypeOK, FilesOK, FileRow
    <2>7. RequestsOK' /\ JobsOK'
      BY <1>3, <2>3, FilesGrow DEF FilesDelete
    <2> QED
      BY <1>3, <2>6, <2>7, Frames DEF FilesDelete, TypeOK
  <1> QED
    BY <1>1, <1>2, <1>3

\* Groups that a scan finds, and what a job keeps of them.
LEMMA GroupTypes ==
  ASSUME TypeOK
  PROVE  FileGroups \subseteq FileGroup /\ UploadGroups \subseteq UploadGroup
  <1>1. ASSUME NEW x \in Users
        PROVE  /\ Pending(x) \subseteq DOMAIN files
               /\ PartsOf(Pending(x)) \subseteq DOMAIN sent
               /\ RowIds(Expired(x)) \subseteq DOMAIN sent
               /\ (x \in sessions) \in BOOLEAN
    BY DEF Pending, Expired, RowIds, PartsOf, TypeOK, FilesOK, RowsOK
  <1>2. ASSUME NEW g \in FileGroups PROVE g \in FileGroup
    <2>1. PICK x \in Users : g = [user |-> x, session |-> x \in sessions, ids |-> Pending(x),
             parts |-> PartsOf(Pending(x))]
      BY DEF FileGroups
    <2> QED
      BY <1>1, <2>1 DEF FileGroup
  <1>3. ASSUME NEW g \in UploadGroups PROVE g \in UploadGroup
    <2>1. PICK x \in Users : g = [user |-> x, session |-> x \in sessions,
                                  parts |-> RowIds(Expired(x))]
      BY DEF UploadGroups
    <2> QED
      BY <1>1, <2>1 DEF UploadGroup
  <1> QED
    BY <1>2, <1>3

JobType(G) == [at : {"idle", "groups", "rows"}, todo : SUBSET G, group : SUBSET G]

LEMMA JobTypes ==
  ASSUME NEW G
  PROVE  /\ IdleJob \in JobType(G)
         /\ \A todo \in SUBSET G : JobWith(todo) \in JobType(G)
         /\ \A job \in JobType(G) : \A g \in job.todo : JobAtRows(job, g) \in JobType(G)
  BY DEF JobWith, IdleJob, JobAtRows, JobType

LEMMA TypeFileJob ==
  ASSUME TypeOK,
         \/ CleanFilesScan
         \/ \E g \in fileJob.todo : \/ CleanFilesBreak(g)
                                   \/ CleanFilesMessages(g)
                                   \/ CleanFilesError(g)
         \/ \E ok \in BOOLEAN : CleanFilesRows(ok)
  PROVE  TypeOK'
  <1> USE DEF tgVars, dbVars, handlerVars, jobVars, clientVars
  <1>0. fileJob \in JobType(FileGroup) /\ uploadJob \in JobType(UploadGroup)
    BY DEF TypeOK, JobsOK, JobType
  <1>1. /\ UNCHANGED <<now, restarts, sent, uploads, sessions, sending, request, uploadJob,
                       acked, doubt, outcome>>
        /\ messages' \subseteq messages
    BY DEF CleanFilesScan, CleanFilesBreak, CleanFilesMessages, CleanFilesError, CleanFilesRows
  <1>2. DOMAIN files' = DOMAIN files /\ abandoned' \subseteq DOMAIN sent /\ FilesOK'
    <2>1. CASE UNCHANGED <<files, abandoned>>
      BY <1>1, <2>1, Frames DEF TypeOK, SentOK
    <2>2. ASSUME NEW ok \in BOOLEAN, CleanFilesRows(ok)
          PROVE  DOMAIN files' = DOMAIN files /\ abandoned' \subseteq DOMAIN sent /\ FilesOK'
      <3>1. PICK g \in fileJob.group :
              /\ files' = [f \in DOMAIN files |-> IF ok /\ f \in g.ids
                                                 THEN [files[f] EXCEPT !.status = "deleted"]
                                                 ELSE files[f]]
              /\ abandoned' = IF ok THEN abandoned \cup (PartsOf(g.ids) \ g.parts)
                              ELSE abandoned
        BY <2>2 DEF CleanFilesRows
      <3>2. g.ids \subseteq DOMAIN files
        BY <1>0 DEF JobType, FileGroup
      <3>3. abandoned' \subseteq DOMAIN sent
        BY <3>1, <3>2 DEF TypeOK, SentOK, FilesOK, PartsOf
      <3>4. \A f \in DOMAIN files : [files[f] EXCEPT !.status = "deleted"] \in FileRow
        BY FileFacts DEF FileRow, FileStatus
      <3>5. files' \in Seq(FileRow) /\ DOMAIN files' = DOMAIN files
        BY <3>1, <3>4, FileFacts
      <3>6. \A f \in DOMAIN files : /\ files'[f].name = files[f].name
                                    /\ files'[f].user = files[f].user
                                    /\ files'[f].parts = files[f].parts
                                    /\ files'[f].status \in {"deleted", files[f].status}
        BY <3>1, FileFacts DEF FileRow
      <3>7. FilesOK'
        BY <1>1, <3>5, <3>6 DEF TypeOK, FilesOK, FileRow
      <3> QED
        BY <3>3, <3>5, <3>7
    <2> QED
      BY <2>1, <2>2 DEF CleanFilesScan, CleanFilesBreak, CleanFilesMessages, CleanFilesError
  <1>3. fileJob' \in JobType(FileGroup)
    <2>1. \/ fileJob' = IdleJob
          \/ \E g \in fileJob.todo : fileJob' = JobAtRows(fileJob, g)
          \/ \E todo \in SUBSET FileGroup : fileJob' = JobWith(todo)
      <3>1. CASE \E ok \in BOOLEAN : CleanFilesRows(ok)
        BY <1>0, <3>1 DEF CleanFilesRows, JobType
      <3> QED
        BY <3>1, GroupTypes DEF CleanFilesScan, CleanFilesBreak, CleanFilesMessages, CleanFilesError
    <2> QED
      BY <1>0, <2>1, JobTypes
  <1>4. JobsOK'
    BY <1>0, <1>1, <1>2, <1>3 DEF JobsOK, JobType, FileGroup, UploadGroup
  <1>5. SentOK'
    BY <1>1, <1>2 DEF TypeOK, SentOK
  <1>6. RequestsOK'
    BY <1>1, <1>2, FilesGrow
  <1> QED
    BY <1>1, <1>2, <1>4, <1>5, <1>6, Frames DEF TypeOK

LEMMA TypeUploadJob ==
  ASSUME TypeOK,
         \/ CleanUploadsScan
         \/ \E g \in uploadJob.todo : CleanUploadsMessages(g) \/ CleanUploadsError(g)
         \/ \E ok \in BOOLEAN : CleanUploadsRows(ok)
  PROVE  TypeOK'
  <1> USE DEF tgVars, dbVars, handlerVars, jobVars, clientVars
  <1>0. fileJob \in JobType(FileGroup) /\ uploadJob \in JobType(UploadGroup)
    BY DEF TypeOK, JobsOK, JobType
  <1>1. /\ UNCHANGED <<now, restarts, sent, files, sessions, sending, request, fileJob,
                       acked, doubt, outcome>>
        /\ messages' \subseteq messages
    BY DEF CleanUploadsScan, CleanUploadsMessages, CleanUploadsError, CleanUploadsRows
  <1>2. uploads' \subseteq uploads /\ abandoned' \subseteq DOMAIN sent
    <2>1. CASE UNCHANGED <<uploads, abandoned>>
      BY <2>1 DEF TypeOK, SentOK
    <2>2. CASE \E ok \in BOOLEAN : CleanUploadsRows(ok)
      <3>1. \A g \in uploadJob.group : g.parts \subseteq DOMAIN sent
        BY <1>0 DEF JobType, UploadGroup
      <3> QED
        BY <2>2, <3>1 DEF CleanUploadsRows, TypeOK, SentOK
    <2> QED
      BY <2>1, <2>2 DEF CleanUploadsScan, CleanUploadsMessages, CleanUploadsError
  <1>3. uploadJob' \in JobType(UploadGroup)
    <2>1. \/ uploadJob' = IdleJob
          \/ \E g \in uploadJob.todo : uploadJob' = JobAtRows(uploadJob, g)
          \/ \E todo \in SUBSET UploadGroup : uploadJob' = JobWith(todo)
      <3>1. CASE \E ok \in BOOLEAN : CleanUploadsRows(ok)
        BY <1>0, <3>1 DEF CleanUploadsRows, JobType
      <3> QED
        BY <3>1, GroupTypes DEF CleanUploadsScan, CleanUploadsMessages, CleanUploadsError
    <2> QED
      BY <1>0, <2>1, JobTypes
  <1>4. JobsOK'
    BY <1>0, <1>1, <1>3 DEF JobsOK, JobType, FileGroup, UploadGroup
  <1>5. SentOK' /\ RowsOK'
    BY <1>1, <1>2 DEF TypeOK, SentOK, RowsOK, RowIds
  <1> QED
    BY <1>1, <1>4, <1>5, Frames DEF TypeOK

LEMMA TypeEnvironment ==
  ASSUME TypeOK,
         (\E x \in Users : Logout(x) \/ Login(x)) \/ Restart \/ Tick \/ UNCHANGED vars
  PROVE  TypeOK'
  <1> USE DEF tgVars, dbVars, handlerVars, jobVars, clientVars
  <1>1. CASE Restart
    <2>1. sending \subseteq DOMAIN sent
      BY DEF TypeOK, RowsOK
    <2>2. SentOK' /\ RowsOK'
      BY <1>1, <2>1 DEF Restart, TypeOK, SentOK, RowsOK
    <2>3. RequestsOK'
      BY <1>1, PartSetEmpty DEF Restart, RequestsOK, NoRequest
    <2>4. JobsOK'
      BY <1>1 DEF Restart, JobsOK, IdleJob
    <2>5. ClientsOK'
      <3>1. \A m \in sending : <<sent[m].upload_id, sent[m].part_no>>
                                 \in UNION {{u} \X PartNos(u) : u \in UploadIds}
        BY <2>1, SentFacts
      <3>2. doubt' \subseteq UNION {{u} \X PartNos(u) : u \in UploadIds}
        BY <1>1, <3>1 DEF Restart, TypeOK, ClientsOK
      <3>3. outcome' \in [UploadIds -> {"open", "done", "doubt"}]
        BY <1>1 DEF Restart, TypeOK, ClientsOK
      <3> QED
        BY <1>1, <3>2, <3>3 DEF Restart, TypeOK, ClientsOK
    <2> QED
      BY <1>1, <2>2, <2>3, <2>4, <2>5, Frames DEF Restart, TypeOK
  <1>2. CASE Tick
    <2>1. now' \in 0..MaxTime /\ now \in Nat /\ now' = now + 1
      BY <1>2 DEF Tick, TypeOK
    <2>2. 0..now \subseteq 0..now'
      BY <2>1
    <2>3. RowsOK'
      BY <1>2, <2>2 DEF Tick, TypeOK, RowsOK
    <2> QED
      BY <1>2, <2>1, <2>3, Frames DEF Tick, TypeOK
  <1>3. CASE UNCHANGED vars
    BY <1>3, Frames DEF vars, TypeOK
  <1>4. CASE \E x \in Users : Logout(x) \/ Login(x)
    BY <1>4, Frames DEF Logout, Login, TypeOK
  <1> QED
    BY <1>1, <1>2, <1>3, <1>4

LEMMA TypeNext == TypeOK /\ [Next]_vars => TypeOK'
  BY TypeSend, TypeUpload, TypeRead, TypeCommit, TypeRequest, TypeFileJob, TypeUploadJob,
     TypeEnvironment
  DEF Next

\* Whatever the clients do and however many uploads there are: rows refer to
\* messages that were sent, a name is taken by one active file only, and
\* what handlers and jobs remember is about rows and messages that existed.
THEOREM StorageTypeCorrect == Spec => []TypeOK
  BY TypeInit, TypeNext, PTL DEF Spec

----------------------------------------------------------------------------
(***************************************************************************)
(* No message is lost sight of.  A job that is about to delete rows has    *)
(* deleted their messages, or records that it did not.                     *)
(***************************************************************************)

Purged ==
    /\ fileJob.at = "rows" => \A g \in fileJob.group : g.parts \cap messages = {}
    /\ uploadJob.at = "rows" =>
          \A g \in uploadJob.group : g.session => g.parts \cap messages = {}

\* A file row that exists has m among its parts.
Kept(m) == \E f \in DOMAIN files : files[f].status # "deleted" /\ m \in PartSet(files[f].parts)

LEMMA AccountedPointwise ==
  MessageAccounted <=> \A m \in messages : \/ m \in sending \/ m \in abandoned
                                           \/ m \in RowIds(uploads) \/ Kept(m)
  BY DEF MessageAccounted, Kept, PartsOf

LEMMA PurgedInit == Init => Purged /\ MessageAccounted
  BY DEF Init, Purged, MessageAccounted, IdleJob, PartsOf

LEMMA PurgedNext ==
  ASSUME TypeOK, Purged, [Next]_vars
  PROVE  Purged'
  <1> USE DEF tgVars, dbVars, handlerVars, jobVars, clientVars
  <1>0. fileJob \in JobType(FileGroup) /\ uploadJob \in JobType(UploadGroup)
    BY DEF TypeOK, JobsOK, JobType
  <1>1. CASE messages' \subseteq messages /\ UNCHANGED <<fileJob, uploadJob>>
    BY <1>1 DEF Purged
  <1>2. CASE \E u \in UploadIds : \E p \in PartNos(u) : UploadSend(u, p)
    <2>1. /\ messages' = messages \cup {Len(sent) + 1} /\ UNCHANGED <<fileJob, uploadJob>>
      BY <1>2 DEF UploadSend
    <2>2. Len(sent) + 1 \notin DOMAIN sent
      BY DEF TypeOK, SentOK
    <2>3. /\ \A g \in fileJob.group : g.parts \subseteq DOMAIN sent
          /\ \A g \in uploadJob.group : g.parts \subseteq DOMAIN sent
      BY <1>0 DEF JobType, FileGroup, UploadGroup
    <2> QED
      BY <2>1, <2>2, <2>3 DEF Purged
  <1>3. CASE \/ CleanFilesScan
             \/ \E g \in fileJob.todo : CleanFilesBreak(g) \/ CleanFilesError(g)
             \/ \E ok \in BOOLEAN : CleanFilesRows(ok)
    <2>1. messages' \subseteq messages /\ uploadJob' = uploadJob /\ fileJob'.at # "rows"
      BY <1>3 DEF CleanFilesScan, CleanFilesBreak, CleanFilesError, CleanFilesRows, IdleJob, JobWith
    <2> QED
      BY <2>1 DEF Purged
  <1>4. CASE \E g \in fileJob.todo : CleanFilesMessages(g)
    <2>1. PICK g \in fileJob.todo : CleanFilesMessages(g)
      BY <1>4
    <2>2. messages' = messages \ g.parts /\ uploadJob' = uploadJob /\ fileJob'.group = {g}
      BY <2>1 DEF CleanFilesMessages, JobAtRows
    <2> QED
      BY <2>2 DEF Purged
  <1>5. CASE \/ CleanUploadsScan \/ (\E g \in uploadJob.todo : CleanUploadsError(g))
             \/ \E ok \in BOOLEAN : CleanUploadsRows(ok)
    <2>1. messages' \subseteq messages /\ fileJob' = fileJob /\ uploadJob'.at # "rows"
      BY <1>5 DEF CleanUploadsScan, CleanUploadsError, CleanUploadsRows, IdleJob, JobWith
    <2> QED
      BY <2>1 DEF Purged
  <1>6. CASE \E g \in uploadJob.todo : CleanUploadsMessages(g)
    <2>1. PICK g \in uploadJob.todo : CleanUploadsMessages(g)
      BY <1>6
    <2>2. /\ messages' = IF g.session THEN messages \ g.parts ELSE messages
          /\ fileJob' = fileJob /\ uploadJob'.group = {g}
      BY <2>1 DEF CleanUploadsMessages, JobAtRows
    <2> QED
      BY <2>2 DEF Purged
  <1>7. CASE Restart
    BY <1>7 DEF Restart, Purged, IdleJob
  <1>8. CASE \/ \E m \in sending, answered \in BOOLEAN : UploadInsert(m, answered)
             \/ \E m \in sending : UploadError(m)
             \/ \E u \in UploadIds :
                   \/ UploadsPartsById(u) \/ UploadsDelete(u) \/ FilesCreateRead(u)
                   \/ RequestError(u)
                   \/ \E f \in DOMAIN files :
                         \E size \in {0, PartCount[u]} : FilesUpdateRead(u, f, size)
                   \/ \E answered \in BOOLEAN :
                         \/ FilesCreateCommit(u, answered) \/ FilesUpdateCommit(u, answered)
                         \/ FilesCreateByParts(u, answered)
             \/ \E f \in DOMAIN files : FilesDelete(f)
             \/ \E x \in Users : Logout(x) \/ Login(x)
             \/ Tick \/ UNCHANGED vars
    <2>1. messages' = messages /\ UNCHANGED <<fileJob, uploadJob>>
      BY <1>8 DEF UploadInsert, UploadError, UploadsPartsById, UploadsDelete, FilesCreateRead,
        RequestError, FilesUpdateRead, FilesCreateCommit, FilesUpdateCommit,
        FilesCreateByParts, FilesDelete, Logout, Login, Tick, vars
    <2> QED
      BY <1>1, <2>1
  <1> QED
    BY <1>2, <1>3, <1>4, <1>5, <1>6, <1>7, <1>8 DEF Next

\* A row of files that is replaced or extended keeps its messages or abandons
\* them.
LEMMA KeptOrReplaced ==
  ASSUME NEW m, Kept(m), DOMAIN files \subseteq DOMAIN files',
         \A f \in DOMAIN files : files[f].status # "deleted" => files'[f].status # "deleted"
  PROVE  Kept(m)' \/ m \in Replaced(files')
  <1>1. PICK f \in DOMAIN files : files[f].status # "deleted" /\ m \in PartSet(files[f].parts)
    BY DEF Kept
  <1>2. CASE m \in PartSet(files'[f].parts)
    BY <1>1, <1>2 DEF Kept
  <1>3. CASE m \notin PartSet(files'[f].parts)
    BY <1>1, <1>3 DEF Replaced
  <1> QED
    BY <1>2, <1>3

LEMMA AccountedCommit ==
  ASSUME TypeOK, MessageAccounted, NEW u \in UploadIds, NEW answered \in BOOLEAN,
         \/ FilesCreateCommit(u, answered) \/ FilesUpdateCommit(u, answered)
         \/ FilesCreateByParts(u, answered)
  PROVE  MessageAccounted'
  <1> USE DEF tgVars, dbVars, handlerVars, jobVars, clientVars
  <1>0. PICK r : r = request[u]
    OBVIOUS
  <1>1. /\ r \in [op : {"none", "create", "update"}, file : Nat, size : Nat, parts : Seq(Nat)]
        /\ r.op = "update" => r.file \in DOMAIN files
        /\ r.op # "none" /\ r.size = 0 => r.parts = << >>
    BY <1>0 DEF TypeOK, RequestsOK
  <1>2. UNCHANGED <<messages, sending>>
    BY DEF FilesCreateCommit, FilesUpdateCommit, FilesCreateByParts
  <1>3. ASSUME NEW parts \in Seq(Nat), NEW size \in Nat, InsertFile(u, parts, size, files')
        PROVE  /\ DOMAIN files \subseteq DOMAIN files'
               /\ \A f \in DOMAIN files : files[f].status # "deleted" => files'[f].status # "deleted"
               /\ \A m \in PartSet(parts) : Kept(m)'
    <2>1. PICK f \in Nat : Inserted(u, parts, size, f)
      BY <1>3, InsertShape
    <2>2. files'[f].status = "active" /\ files'[f].parts = parts
      BY <2>1 DEF Inserted
    <2> QED
      BY <2>1, <2>2 DEF Inserted, Kept
  <1>4. CASE FilesCreateCommit(u, answered) \/ FilesUpdateCommit(u, answered)
    <2>1. /\ DOMAIN files \subseteq DOMAIN files'
          /\ \A f \in DOMAIN files : files[f].status # "deleted" => files'[f].status # "deleted"
          /\ \A m \in PartSet(r.parts) : Kept(m)'
      <3>1. CASE FilesCreateCommit(u, answered)
        BY <1>0, <1>1, <1>3, <3>1 DEF FilesCreateCommit
      <3>2. CASE FilesUpdateCommit(u, answered)
        <4>1. /\ r.op = "update" /\ r.file \in DOMAIN files
              /\ files[r.file].status # "deleted"
              /\ files' = [files EXCEPT ![r.file] = UpdatedRow(@, r)]
          BY <1>0, <1>1, <3>2 DEF FilesUpdateCommit
        <4>2. PICK old, new : old = files[r.file] /\ new = UpdatedRow(old, r)
          OBVIOUS
        <4>3. /\ DOMAIN files' = DOMAIN files /\ files'[r.file] = new
              /\ \A g \in DOMAIN files : g # r.file => files'[g] = files[g]
          BY <4>1, <4>2
        <4>4. old \in FileRow
          BY <4>1, <4>2, FileFacts
        <4>5. new.status = old.status /\ (r.parts # << >> => new.parts = r.parts)
          BY <1>1, <4>1, <4>2, <4>4 DEF UpdatedRow, FileRow
        <4>6. \A m \in PartSet(r.parts) : Kept(m)'
          BY <4>1, <4>2, <4>3, <4>5, PartSetEmpty DEF Kept
        <4> QED
          BY <4>2, <4>3, <4>5, <4>6
      <3> QED
        BY <1>4, <3>1, <3>2
    <2>2. /\ uploads' = uploads \ RowsOf(u)
          /\ abandoned' = abandoned \cup Replaced(files') \cup (RowIds(RowsOf(u)) \ PartSet(r.parts))
      BY <1>0, <1>4 DEF FilesCreateCommit, FilesUpdateCommit, ConsumeUploads
    <2> SUFFICES ASSUME NEW m \in messages
                 PROVE  \/ m \in sending \/ m \in abandoned'
                        \/ m \in RowIds(uploads') \/ Kept(m)'
      BY <1>2 DEF MessageAccounted, Kept, PartsOf
    <2>3. CASE Kept(m)
      BY <2>1, <2>2, <2>3, KeptOrReplaced
    <2>4. CASE m \in RowIds(uploads)
      <3>1. m \in RowIds(uploads') \/ m \in RowIds(RowsOf(u))
        BY <2>2, <2>4 DEF RowIds
      <3> QED
        BY <2>1, <2>2, <3>1
    <2> QED
      BY <2>2, <2>3, <2>4, AccountedPointwise
  <1>5. CASE FilesCreateByParts(u, answered)
    <2>1. acked[u] \in Seq(Nat) /\ PartCount[u] \in Nat
      BY <1>5, AckedParts DEF FilesCreateByParts
    <2>2. /\ DOMAIN files \subseteq DOMAIN files'
          /\ \A f \in DOMAIN files : files[f].status # "deleted" => files'[f].status # "deleted"
      BY <1>3, <1>5, <2>1 DEF FilesCreateByParts
    <2>3. uploads' = uploads /\ abandoned' = abandoned \cup Replaced(files')
      BY <1>5 DEF FilesCreateByParts
    <2> SUFFICES ASSUME NEW m \in messages
                 PROVE  \/ m \in sending \/ m \in abandoned'
                        \/ m \in RowIds(uploads) \/ Kept(m)'
      BY <1>2, <2>3 DEF MessageAccounted, Kept, PartsOf
    <2> QED
      BY <2>2, <2>3, KeptOrReplaced, AccountedPointwise
  <1> QED
    BY <1>4, <1>5

LEMMA AccountedUpload ==
  ASSUME TypeOK, MessageAccounted,
         \/ \E u \in UploadIds : \E p \in PartNos(u) : UploadSend(u, p)
         \/ \E m \in sending, answered \in BOOLEAN : UploadInsert(m, answered)
         \/ \E m \in sending : UploadError(m)
         \/ \E u \in UploadIds : UploadsDelete(u)
         \/ Restart
  PROVE  MessageAccounted'
  <1> USE DEF tgVars, dbVars, handlerVars, jobVars, clientVars
  <1>1. files' = files
    BY DEF UploadSend, UploadInsert, UploadError, UploadsDelete, Restart
  <1> SUFFICES ASSUME NEW m \in messages'
               PROVE  m \in sending' \/ m \in abandoned' \/ m \in RowIds(uploads') \/ Kept(m)
    BY <1>1 DEF MessageAccounted, Kept, PartsOf
  <1>2. CASE \E u \in UploadIds : \E p \in PartNos(u) : UploadSend(u, p)
    BY <1>2, AccountedPointwise DEF UploadSend
  <1>3. CASE \E n \in sending, answered \in BOOLEAN : UploadInsert(n, answered)
    <2>1. PICK n \in sending, answered \in BOOLEAN : UploadInsert(n, answered)
      BY <1>3
    <2>2. /\ sending' = sending \ {n} /\ UNCHANGED <<messages, abandoned>>
          /\ RowIds(uploads') = RowIds(uploads) \cup {n}
      <3>1. PICK row : /\ row.part_id = n /\ uploads' = uploads \cup {row}
        BY <2>1 DEF UploadInsert
      <3> QED
        BY <2>1, <3>1 DEF UploadInsert, RowIds
    <2> QED
      BY <2>2, AccountedPointwise
  <1>4. CASE \E n \in sending : UploadError(n)
    BY <1>4, AccountedPointwise DEF UploadError
  <1>5. CASE \E u \in UploadIds : UploadsDelete(u)
    <2>1. PICK u \in UploadIds : UploadsDelete(u)
      BY <1>5
    <2>2. /\ UNCHANGED <<messages, sending>>
          /\ uploads' = uploads \ RowsOf(u) /\ abandoned' = abandoned \cup RowIds(RowsOf(u))
      BY <2>1 DEF UploadsDelete
    <2>3. RowIds(uploads) \subseteq RowIds(uploads') \cup RowIds(RowsOf(u))
      BY <2>2 DEF RowIds
    <2> QED
      BY <2>2, <2>3, AccountedPointwise
  <1>6. CASE Restart
    BY <1>6, AccountedPointwise DEF Restart
  <1> QED
    BY <1>2, <1>3, <1>4, <1>5, <1>6

LEMMA AccountedJobs ==
  ASSUME TypeOK, Purged, MessageAccounted,
         \/ \E ok \in BOOLEAN : CleanFilesRows(ok) \/ CleanUploadsRows(ok)
         \/ \E f \in DOMAIN files : FilesDelete(f)
  PROVE  MessageAccounted'
  <1> USE DEF tgVars, dbVars, handlerVars, jobVars, clientVars
  <1>1. ASSUME NEW ok \in BOOLEAN, CleanFilesRows(ok)
        PROVE  MessageAccounted'
    <2>1. PICK g \in fileJob.group :
            /\ files' = [f \in DOMAIN files |-> IF ok /\ f \in g.ids
                                               THEN [files[f] EXCEPT !.status = "deleted"]
                                               ELSE files[f]]
            /\ abandoned' = IF ok THEN abandoned \cup (PartsOf(g.ids) \ g.parts)
                            ELSE abandoned
      BY <1>1 DEF CleanFilesRows
    <2>2. UNCHANGED <<messages, sending, uploads>> /\ g.parts \cap messages = {}
      BY <1>1 DEF CleanFilesRows, Purged
    <2> SUFFICES ASSUME NEW m \in messages
                 PROVE  m \in sending \/ m \in abandoned' \/ m \in RowIds(uploads) \/ Kept(m)'
      BY <2>2 DEF MessageAccounted, Kept, PartsOf
    <2>3. CASE Kept(m)
      <3>1. PICK f \in DOMAIN files : files[f].status # "deleted" /\ m \in PartSet(files[f].parts)
        BY <2>3 DEF Kept
      <3>2. CASE ok /\ f \in g.ids
        <4>1. m \in PartsOf(g.ids)
          BY <3>1, <3>2 DEF PartsOf
        <4> QED
          BY <2>1, <2>2, <3>2, <4>1
      <3>3. CASE ~(ok /\ f \in g.ids)
        <4>1. files'[f] = files[f] /\ f \in DOMAIN files'
          BY <2>1, <3>3
        <4> QED
          BY <3>1, <4>1 DEF Kept
      <3> QED
        BY <3>2, <3>3
    <2> QED
      BY <2>1, <2>3, AccountedPointwise
  <1>2. ASSUME NEW ok \in BOOLEAN, CleanUploadsRows(ok)
        PROVE  MessageAccounted'
    <2>1. PICK g \in uploadJob.group :
            /\ uploads' = IF ok THEN {r \in uploads : r.part_id \notin g.parts} ELSE uploads
            /\ abandoned' = IF ok /\ ~g.session THEN abandoned \cup g.parts ELSE abandoned
      BY <1>2 DEF CleanUploadsRows
    <2>2. UNCHANGED <<messages, sending, files>> /\ (g.session => g.parts \cap messages = {})
      BY <1>2 DEF CleanUploadsRows, Purged
    <2>3. ok => RowIds(uploads) \subseteq RowIds(uploads') \cup g.parts
      BY <2>1 DEF RowIds
    <2> SUFFICES ASSUME NEW m \in messages
                 PROVE  m \in sending \/ m \in abandoned' \/ m \in RowIds(uploads') \/ Kept(m)
      BY <2>2 DEF MessageAccounted, Kept, PartsOf
    <2> QED
      BY <2>1, <2>2, <2>3, AccountedPointwise
  <1>3. ASSUME NEW f \in DOMAIN files, FilesDelete(f)
        PROVE  MessageAccounted'
    <2>1. /\ UNCHANGED <<messages, sending, uploads, abandoned>>
          /\ files' = [files EXCEPT ![f].status = "pending_deletion"]
      BY <1>3 DEF FilesDelete
    <2>2. DOMAIN files' = DOMAIN files
          /\ \A g \in DOMAIN files : /\ files'[g].parts = files[g].parts
                                     /\ files[g].status # "deleted" => files'[g].status # "deleted"
      BY <2>1, FileFacts DEF FileRow
    <2> SUFFICES ASSUME NEW m \in messages
                 PROVE  m \in sending \/ m \in abandoned \/ m \in RowIds(uploads) \/ Kept(m)'
      BY <2>1 DEF MessageAccounted, Kept, PartsOf
    <2>3. Kept(m) => Kept(m)'
      BY <2>2 DEF Kept
    <2> QED
      BY <2>3, AccountedPointwise
  <1> QED
    BY <1>1, <1>2, <1>3

LEMMA AccountedNext ==
  ASSUME TypeOK, Purged, MessageAccounted, [Next]_vars
  PROVE  MessageAccounted'
  <1> USE DEF tgVars, dbVars, handlerVars, jobVars, clientVars
  <1>1. CASE messages' \subseteq messages /\ UNCHANGED <<sending, abandoned, uploads, files>>
    BY <1>1 DEF MessageAccounted, PartsOf
  <1>2. CASE \/ CleanFilesScan \/ CleanUploadsScan
             \/ \E g \in fileJob.todo : \/ CleanFilesBreak(g) \/ CleanFilesMessages(g)
                                        \/ CleanFilesError(g)
             \/ \E g \in uploadJob.todo : CleanUploadsMessages(g) \/ CleanUploadsError(g)
    <2>1. messages' \subseteq messages /\ UNCHANGED <<sending, abandoned, uploads, files>>
      BY <1>2 DEF CleanFilesScan, CleanUploadsScan, CleanFilesBreak, CleanFilesMessages,
        CleanFilesError, CleanUploadsMessages, CleanUploadsError
    <2> QED
      BY <1>1, <2>1
  <1>3. CASE \/ \E u \in UploadIds :
                   \/ UploadsPartsById(u) \/ FilesCreateRead(u) \/ RequestError(u)
                   \/ \E f \in DOMAIN files :
                         \E size \in {0, PartCount[u]} : FilesUpdateRead(u, f, size)
             \/ \E x \in Users : Logout(x) \/ Login(x)
             \/ Tick \/ UNCHANGED vars
    <2>1. UNCHANGED <<messages, sending, abandoned, uploads, files>>
      BY <1>3 DEF UploadsPartsById, FilesCreateRead, RequestError, FilesUpdateRead, Logout,
        Login, Tick, vars
    <2> QED
      BY <1>1, <2>1
  <1> QED
    BY <1>2, <1>3, AccountedUpload, AccountedCommit, AccountedJobs DEF Next

\* Whatever the clients do, however requests, jobs, errors and restarts
\* interleave and for any number of users, uploads and messages: a message
\* that exists is held by a request, an upload row or a file row, or it was
\* dropped at one of the places that add to "abandoned".
THEOREM MessagesAccounted == Spec => []MessageAccounted
  <1>1. TypeOK /\ Purged /\ [Next]_vars => Purged'
    BY PurgedNext
  <1>2. TypeOK /\ Purged /\ MessageAccounted /\ [Next]_vars => MessageAccounted'
    BY AccountedNext
  <1> QED
    BY <1>1, <1>2, PurgedInit, StorageTypeCorrect, PTL DEF Spec

----------------------------------------------------------------------------
(***************************************************************************)
(* Clients that wait for their answers, look at the age of the parts,      *)
(* never repeat a request whose answer they lost and do not name part ids  *)
(* themselves: no message is shared and visible files are whole.           *)
(***************************************************************************)

Disciplined == Habits \subseteq {"logout"}

Existing == {f \in DOMAIN files : files[f].status # "deleted"}
Readable(r) == r.created_at + Retention > now
UploadJobGroups == uploadJob.todo \cup uploadJob.group
FileJobGroups == fileJob.todo \cup fileJob.group

\* A message has one row, and the parts of a file are neither in a row nor on
\* their way to one.
RowsApart ==
    /\ \A r, q \in uploads : r.part_id = q.part_id => r = q
    /\ \A f \in Existing : PartSet(files[f].parts) \cap sending = {}

\* The rows that a request has read are still there, and no more have come.
RequestsCurrent ==
    \A u \in UploadIds : request[u].op # "none" =>
        /\ PartSet(request[u].parts) = RowIds(ReadableRows(u))
        /\ SendingFor(u) = {}

\* What cleanUploads is going to delete has expired and is no part of a file;
\* what cleanFiles is going to delete is in no row and no visible file.
JobsApart ==
    /\ \A g \in UploadJobGroups : \A m \in g.parts :
          /\ m \notin sending
          /\ \A r \in uploads : r.part_id = m => ~Readable(r)
          /\ \A f \in Existing : m \notin PartSet(files[f].parts)
    /\ \A g \in FileJobGroups : \A m \in g.parts :
          /\ m \notin sending
          /\ m \notin RowIds(uploads)
          /\ \A f \in Active : m \notin PartSet(files[f].parts)

ApartInv == RowsApart /\ RequestsCurrent /\ JobsApart /\ NoSharedMessage

\* Messages that a request may still make a file of exist.
MessagesExist ==
    /\ sending \subseteq messages
    /\ \A r \in uploads : Readable(r) => r.part_id \in messages

\* The server has at most one readable row for a part, the client knows that
\* it may have one, and a part on its way is one the client does not count on.
RowUnique ==
    \A r, q \in uploads :
        /\ Readable(r) /\ Readable(q)
        /\ r.upload_id = q.upload_id /\ r.part_no = q.part_no
        => r = q
RowKnown ==
    \A r \in uploads : Readable(r) =>
        \/ acked[r.upload_id][r.part_no] # 0
        \/ <<r.upload_id, r.part_no>> \in doubt
SendingFresh ==
    \A m \in sending :
        /\ acked[sent[m].upload_id][sent[m].part_no] = 0
        /\ <<sent[m].upload_id, sent[m].part_no>> \notin doubt
SendingUnique == \A m, n \in sending : sent[m] = sent[n] => m = n
AckedTrue ==
    \A u \in UploadIds : \A p \in PartNos(u) :
        acked[u][p] # 0 => sent[acked[u][p]] = [upload_id |-> u, part_no |-> p]

OneRowPerPart == RowUnique /\ RowKnown /\ SendingFresh /\ SendingUnique /\ AckedTrue

\* The parts carry the whole content of upload u, in order.
Whole(carried, u, parts) ==
    [i \in DOMAIN parts |-> carried[parts[i]]]
        = [p \in PartNos(u) |-> [upload_id |-> u, part_no |-> p]]

RequestsWhole ==
    \A u \in UploadIds : request[u].op # "none" =>
        Whole(sent, u, request[u].parts) /\ request[u].size = PartCount[u]

WholeInv == MessagesExist /\ OneRowPerPart /\ RequestsWhole /\ FileComplete

LEMMA ApartInit == Init => ApartInv
  BY DEF Init, ApartInv, RowsApart, RequestsCurrent, JobsApart, NoSharedMessage, Existing,
    NoRequest, UploadJobGroups, FileJobGroups, IdleJob

\* Steps that take rows, files and messages away but add none.
LEMMA ApartShrink ==
  ASSUME ApartInv,
         sent' = sent, uploads' \subseteq uploads, sending' \subseteq sending,
         DOMAIN files' = DOMAIN files,
         \A f \in DOMAIN files : files'[f].parts = files[f].parts,
         Existing' \subseteq Existing, Active' \subseteq Active,
         UploadJobGroups' \subseteq UploadJobGroups, FileJobGroups' \subseteq FileJobGroups,
         \A r \in uploads : Readable(r)' => Readable(r),
         \A u \in UploadIds :
            \/ request'[u].op = "none"
            \/ request'[u] = request[u] /\ ReadableRows(u)' = ReadableRows(u)
  PROVE  ApartInv'
  <1>1. RowIds(uploads') \subseteq RowIds(uploads)
    BY DEF RowIds
  <1>2. Existing' \subseteq DOMAIN files /\ Active' \subseteq DOMAIN files
    BY DEF Existing, Active
  <1>3. RowsApart'
    BY <1>2 DEF ApartInv, RowsApart
  <1>4. RequestsCurrent'
    <2>1. \A u \in UploadIds : SendingFor(u)' \subseteq SendingFor(u)
      BY DEF SendingFor
    <2> QED
      BY <2>1 DEF ApartInv, RequestsCurrent
  <1>5. JobsApart'
    BY <1>1, <1>2 DEF ApartInv, JobsApart
  <1>6. NoSharedMessage'
    <2>1. \A f \in DOMAIN files' : files'[f].status # "deleted" => f \in Existing
      BY DEF Existing
    <2>2. \A f \in Existing : PartSet(files[f].parts) \cap RowIds(uploads) = {}
      BY DEF ApartInv, NoSharedMessage, Existing
    <2>3. \A f, g \in Existing : f # g =>
             PartSet(files[f].parts) \cap PartSet(files[g].parts) = {}
      BY DEF ApartInv, NoSharedMessage, Existing
    <2> QED
      BY <1>1, <2>1, <2>2, <2>3 DEF NoSharedMessage
  <1> QED
    BY <1>3, <1>4, <1>5, <1>6 DEF ApartInv

\* ReadableRows in terms of Readable.
LEMMA ReadableFacts ==
  ASSUME NEW u
  PROVE  /\ ReadableRows(u) = {r \in uploads : r.upload_id = u /\ Readable(r)}
         /\ ReadableRows(u)' = {r \in uploads' : r.upload_id = u /\ Readable(r)'}
  BY DEF ReadableRows, RowsOf, Readable

LEMMA ApartSend ==
  ASSUME TypeOK, ApartInv, NEW u \in UploadIds, NEW p \in PartNos(u), UploadSend(u, p)
  PROVE  ApartInv'
  <1> USE DEF tgVars, dbVars, handlerVars, jobVars, clientVars
  <1>0. PICK new : new = Len(sent) + 1
    OBVIOUS
  <1>1. /\ sending' = sending \cup {new} /\ request[u].op = "none"
        /\ UNCHANGED <<now, uploads, files, request, fileJob, uploadJob>>
        /\ new \notin DOMAIN sent
        /\ \A m \in DOMAIN sent : sent'[m] = sent[m]
        /\ sent'[new].upload_id = u
    <2>1. sent \in Seq(SentRow) /\ [upload_id |-> u, part_no |-> p] \in SentRow
      BY DEF TypeOK, SentOK, SentRow, PartNos
    <2>2. /\ \A m \in 1..Len(sent) : sent'[m] = sent[m]
          /\ sent'[new] = [upload_id |-> u, part_no |-> p]
          /\ DOMAIN sent = 1..Len(sent) /\ Len(sent) \in Nat
      BY <1>0, <2>1, AppendProperties DEF UploadSend
    <2>3. new \notin DOMAIN sent
      BY <1>0, <2>2
    <2>4. sent'[new].upload_id = u
      BY <2>2
    <2> QED
      BY <1>0, <2>2, <2>3, <2>4 DEF UploadSend, NoRequest
  <1>2. /\ \A f \in Existing : PartSet(files[f].parts) \subseteq DOMAIN sent
        /\ \A g \in UploadJobGroups \cup FileJobGroups : g.parts \subseteq DOMAIN sent
        /\ sending \subseteq DOMAIN sent
    BY DEF TypeOK, FilesOK, JobsOK, RowsOK, Existing, UploadJobGroups, FileJobGroups,
      FileGroup, UploadGroup
  <1>3. Existing' = Existing /\ Active' = Active /\ UploadJobGroups' = UploadJobGroups
        /\ FileJobGroups' = FileJobGroups /\ (\A r : Readable(r)' = Readable(r))
    BY <1>1 DEF Existing, Active, UploadJobGroups, FileJobGroups, Readable
  <1>4. RowsApart'
    BY <1>1, <1>2, <1>3 DEF ApartInv, RowsApart
  <1>5. RequestsCurrent'
    <2>1. ASSUME NEW v \in UploadIds, request[v].op # "none"
          PROVE  SendingFor(v)' = SendingFor(v) /\ ReadableRows(v)' = ReadableRows(v)
      <3>1. v # u
        BY <1>1, <2>1
      <3>2. SendingFor(v)' = SendingFor(v)
        BY <1>1, <1>2, <3>1 DEF SendingFor
      <3>3. ReadableRows(v)' = ReadableRows(v)
        BY <1>1 DEF ReadableRows, RowsOf
      <3> QED
        BY <3>2, <3>3
    <2> QED
      BY <1>1, <2>1 DEF ApartInv, RequestsCurrent
  <1>6. JobsApart'
    BY <1>1, <1>2, <1>3 DEF ApartInv, JobsApart
  <1>7. NoSharedMessage'
    BY <1>1 DEF ApartInv, NoSharedMessage
  <1> QED
    BY <1>4, <1>5, <1>6, <1>7 DEF ApartInv

LEMMA ApartInsert ==
  ASSUME TypeOK, ApartInv, NEW m \in sending, NEW answered \in BOOLEAN,
         UploadInsert(m, answered)
  PROVE  ApartInv'
  <1> USE DEF tgVars, dbVars, handlerVars, jobVars, clientVars
  <1>0. PICK u : u = sent[m].upload_id
    OBVIOUS
  <1>1. PICK row : /\ row.part_id = m /\ row.upload_id = u
                   /\ uploads' = uploads \cup {row}
    BY <1>0 DEF UploadInsert
  <1>2. /\ sending' = sending \ {m}
        /\ UNCHANGED <<now, sent, files, request, fileJob, uploadJob>>
    BY DEF UploadInsert
  <1>3. RowIds(uploads') = RowIds(uploads) \cup {m} /\ m \notin RowIds(uploads)
    BY <1>1 DEF RowIds, TypeOK, RowsOK
  <1>4. Existing' = Existing /\ Active' = Active /\ UploadJobGroups' = UploadJobGroups
        /\ FileJobGroups' = FileJobGroups /\ (\A r : Readable(r)' = Readable(r))
    BY <1>2 DEF Existing, Active, UploadJobGroups, FileJobGroups, Readable
  <1>5. RowsApart'
    <2>1. \A r \in uploads : r.part_id # m
      BY <1>3 DEF RowIds
    <2> QED
      BY <1>1, <1>2, <1>4, <2>1 DEF ApartInv, RowsApart
  <1>6. RequestsCurrent'
    <2>1. ASSUME NEW v \in UploadIds, request[v].op # "none"
          PROVE  SendingFor(v)' = {} /\ ReadableRows(v)' = ReadableRows(v)
      <3>1. SendingFor(v) = {}
        BY <2>1 DEF ApartInv, RequestsCurrent
      <3>2. v # u
        BY <1>0, <3>1 DEF SendingFor
      <3>3. SendingFor(v)' = {}
        BY <1>2, <3>1 DEF SendingFor
      <3>4. ReadableRows(v)' = ReadableRows(v)
        BY <1>1, <1>2, <3>2 DEF ReadableRows, RowsOf
      <3> QED
        BY <3>3, <3>4
    <2> QED
      BY <1>2, <2>1 DEF ApartInv, RequestsCurrent
  <1>7. JobsApart'
    BY <1>1, <1>2, <1>3, <1>4 DEF ApartInv, JobsApart
  <1>8. NoSharedMessage'
    <2>1. \A f \in Existing : m \notin PartSet(files[f].parts)
      BY DEF ApartInv, RowsApart
    <2> QED
      BY <1>2, <1>3, <2>1 DEF ApartInv, NoSharedMessage, Existing
  <1> QED
    BY <1>5, <1>6, <1>7, <1>8 DEF ApartInv

\* What a request reads are the ids of rows of its upload, and a file that it
\* is going to update is one of the same user.
LEMMA ReadShape ==
  ASSUME NEW u \in UploadIds,
         \/ FilesCreateRead(u)
         \/ \E f \in DOMAIN files : \E size \in {0, PartCount[u]} : FilesUpdateRead(u, f, size)
  PROVE  \E r : /\ request' = [request EXCEPT ![u] = r]
                /\ r.parts \in InPartOrder(ReadableRows(u))
                /\ PartSet(r.parts) = RowIds(ReadableRows(u))
                /\ r.op = "update" =>
                      r.file \in DOMAIN files /\ files[r.file].user = Owner[u]
  <1>1. \A parts \in InPartOrder(ReadableRows(u)) : PartSet(parts) = RowIds(ReadableRows(u))
    BY DEF InPartOrder
  <1>2. CASE FilesCreateRead(u)
    <2>1. PICK parts \in InPartOrder(ReadableRows(u)) :
            request' = [request EXCEPT ![u] = [op |-> "create", file |-> 0,
                                               size |-> PartCount[u], parts |-> parts]]
      BY <1>2 DEF FilesCreateRead
    <2>2. PICK q : q = [op |-> "create", file |-> 0, size |-> PartCount[u], parts |-> parts]
      OBVIOUS
    <2>3. request' = [request EXCEPT ![u] = q] /\ q.parts = parts /\ q.op = "create"
      BY <2>1, <2>2
    <2> QED
      BY <1>1, <2>3
  <1>3. CASE \E f \in DOMAIN files : \E size \in {0, PartCount[u]} : FilesUpdateRead(u, f, size)
    <2>1. PICK f \in DOMAIN files, size \in {0, PartCount[u]} : FilesUpdateRead(u, f, size)
      BY <1>3
    <2>2. PICK parts \in InPartOrder(ReadableRows(u)) :
            request' = [request EXCEPT ![u] =
                         [op |-> "update", file |-> f,
                          size |-> IF size = 0 THEN Len(parts) ELSE size, parts |-> parts]]
      BY <2>1 DEF FilesUpdateRead
    <2>3. PICK q : q = [op |-> "update", file |-> f,
                        size |-> IF size = 0 THEN Len(parts) ELSE size, parts |-> parts]
      OBVIOUS
    <2>4. request' = [request EXCEPT ![u] = q] /\ q.parts = parts /\ q.file = f
      BY <2>2, <2>3
    <2>5. files[f].user = Owner[u]
      BY <2>1 DEF FilesUpdateRead
    <2> QED
      BY <1>1, <2>4, <2>5
  <1> QED
    BY <1>2, <1>3

\* A client that asks for a file has no part on its way, and the request
\* holds the rows that were readable.
LEMMA ApartRead ==
  ASSUME TypeOK, Disciplined, ApartInv, NEW u \in UploadIds,
         \/ FilesCreateRead(u)
         \/ \E f \in DOMAIN files : \E size \in {0, PartCount[u]} : FilesUpdateRead(u, f, size)
  PROVE  ApartInv'
  <1> USE DEF tgVars, dbVars, handlerVars, jobVars, clientVars
  <1>1. ClientReady(u)
    BY DEF FilesCreateRead, FilesUpdateRead
  <1>2. SendingFor(u) = {}
    BY <1>1 DEF ClientReady, Disciplined
  <1>3. PICK r : /\ request' = [request EXCEPT ![u] = r]
                 /\ PartSet(r.parts) = RowIds(ReadableRows(u))
    BY ReadShape
  <1>4. UNCHANGED <<now, sent, uploads, files, sending, fileJob, uploadJob>>
    BY DEF FilesCreateRead, FilesUpdateRead
  <1>5. RequestsCurrent'
    <2>1. \A v \in UploadIds : /\ SendingFor(v)' = SendingFor(v)
                               /\ ReadableRows(v)' = ReadableRows(v)
      BY <1>4 DEF SendingFor, ReadableRows, RowsOf
    <2>2. request \in [UploadIds -> [op : {"none", "create", "update"}, file : Nat, size : Nat,
                                     parts : Seq(Nat)]]
      BY DEF TypeOK, RequestsOK
    <2>3. \A v \in UploadIds : request'[v] = IF v = u THEN r ELSE request[v]
      BY <1>3, <2>2
    <2> QED
      BY <1>2, <1>3, <2>1, <2>3 DEF ApartInv, RequestsCurrent
  <1>6. RowsApart' /\ JobsApart' /\ NoSharedMessage'
    BY <1>4 DEF ApartInv, RowsApart, JobsApart, NoSharedMessage, Existing, Active, Readable,
      UploadJobGroups, FileJobGroups
  <1> QED
    BY <1>5, <1>6 DEF ApartInv

\* What a commit does to the table of files: row f is new or existed, and it
\* has the parts and the size of the request unless the request has none.
FileWritten(u, f) ==
    /\ DOMAIN files' = DOMAIN files \cup {f}
    /\ \A g \in DOMAIN files : g # f => files'[g] = files[g]
    /\ f \in DOMAIN files =>
          files[f].status # "deleted" /\ files'[f].status = files[f].status
    /\ files'[f].status # "deleted"
    /\ f \in DOMAIN files => files'[f].user = files[f].user
    /\ \/ files'[f].user = Owner[u]
       \/ f \in DOMAIN files /\ request[u].op = "update" /\ f = request[u].file
    /\ \/ /\ files'[f].parts = request[u].parts
          /\ files'[f].size = request[u].size
       \/ /\ f \in DOMAIN files
          /\ files'[f].parts = files[f].parts
          /\ files'[f] = files[f] \/ files'[f].size = 0
          /\ request[u].size = 0 \/ request[u].parts = << >>

LEMMA CommitShape ==
  ASSUME TypeOK, NEW u \in UploadIds, NEW answered \in BOOLEAN,
         FilesCreateCommit(u, answered) \/ FilesUpdateCommit(u, answered)
  PROVE  /\ \E f \in Nat : FileWritten(u, f)
         /\ uploads' = uploads \ RowsOf(u)
         /\ request' = [request EXCEPT ![u] = NoRequest]
         /\ request[u].op # "none"
         /\ UNCHANGED <<now, sent, messages, sending, fileJob, uploadJob, acked, doubt>>
  <1> USE DEF tgVars, dbVars, handlerVars, jobVars, clientVars
  <1>0. PICK r : r = request[u]
    OBVIOUS
  <1>1. /\ r \in [op : {"none", "create", "update"}, file : Nat, size : Nat, parts : Seq(Nat)]
        /\ r.op = "update" => r.file \in DOMAIN files
    BY <1>0 DEF TypeOK, RequestsOK
  <1>2. \E f \in Nat : FileWritten(u, f)
    <2>1. CASE FilesCreateCommit(u, answered)
      <3>1. InsertFile(u, r.parts, r.size, files') /\ r.parts \in Seq(Nat) /\ r.size \in Nat
        BY <1>0, <1>1, <2>1 DEF FilesCreateCommit
      <3>2. PICK f \in Nat : Inserted(u, r.parts, r.size, f)
        BY <3>1, InsertShape
      <3>3. /\ files'[f].status = "active" /\ files'[f].parts = r.parts
            /\ files'[f].size = r.size /\ files'[f].user = Owner[u]
        BY <3>2 DEF Inserted
      <3>4. FileWritten(u, f)
        BY <1>0, <3>2, <3>3 DEF Inserted, FileWritten
      <3> QED
        BY <3>4
    <2>2. CASE FilesUpdateCommit(u, answered)
      <3>1. /\ r.op = "update" /\ r.file \in DOMAIN files
            /\ files[r.file].status # "deleted"
            /\ files' = [files EXCEPT ![r.file] = UpdatedRow(@, r)]
        BY <1>0, <1>1, <2>2 DEF FilesUpdateCommit
      <3>2. PICK old, new : old = files[r.file] /\ new = UpdatedRow(old, r)
        OBVIOUS
      <3>3. /\ DOMAIN files' = DOMAIN files /\ files'[r.file] = new
            /\ \A g \in DOMAIN files : g # r.file => files'[g] = files[g]
        BY <3>1, <3>2
      <3>4. old \in FileRow
        BY <3>1, <3>2, FileFacts
      <3>5. /\ new.status = old.status /\ new.user = old.user
            /\ \/ new.parts = r.parts /\ new.size = r.size
               \/ /\ new.parts = old.parts /\ (r.size = 0 \/ r.parts = << >>)
                  /\ new = old \/ new.size = 0
        BY <1>1, <3>2, <3>4 DEF UpdatedRow, FileRow
      <3>6. FileWritten(u, r.file)
        BY <1>0, <3>1, <3>2, <3>3, <3>5 DEF FileWritten
      <3> QED
        BY <1>1, <3>6
    <2> QED
      BY <2>1, <2>2
  <1> QED
    BY <1>2 DEF FilesCreateCommit, FilesUpdateCommit, ConsumeUploads

LEMMA ApartCommit ==
  ASSUME TypeOK, ApartInv, NEW u \in UploadIds, NEW answered \in BOOLEAN,
         FilesCreateCommit(u, answered) \/ FilesUpdateCommit(u, answered)
  PROVE  ApartInv'
  <1>0. PICK P : P = PartSet(request[u].parts)
    OBVIOUS
  <1>1. PICK f \in Nat : FileWritten(u, f)
    BY CommitShape
  <1>2. /\ uploads' = uploads \ RowsOf(u)
        /\ request' = [request EXCEPT ![u] = NoRequest] /\ request[u].op # "none"
        /\ UNCHANGED <<now, sent, sending, fileJob, uploadJob>>
    BY CommitShape
  <1>3. P = RowIds(ReadableRows(u)) /\ P \subseteq RowIds(uploads)
    <2>1. P = RowIds(ReadableRows(u))
      BY <1>0, <1>2 DEF ApartInv, RequestsCurrent
    <2>2. RowIds(ReadableRows(u)) \subseteq RowIds(uploads)
      BY DEF RowIds, ReadableRows, RowsOf
    <2> QED
      BY <2>1, <2>2
  <1>4. P \cap RowIds(uploads') = {} /\ RowIds(uploads') \subseteq RowIds(uploads)
    <2>1. \A r \in ReadableRows(u), q \in uploads' : r.part_id # q.part_id
      BY <1>2 DEF ReadableRows, RowsOf, ApartInv, RowsApart
    <2> QED
      BY <1>2, <1>3, <2>1 DEF RowIds
  <1>5. P \cap sending = {}
    BY <1>3 DEF TypeOK, RowsOK
  <1>6. \A g \in Existing : P \cap PartSet(files[g].parts) = {}
    BY <1>3 DEF ApartInv, NoSharedMessage, Existing
  <1>7. /\ \A g \in UploadJobGroups : P \cap g.parts = {}
        /\ \A g \in FileJobGroups : P \cap g.parts = {}
    <2>1. \A m \in P : \E r \in uploads : r.part_id = m /\ Readable(r)
      BY <1>3, ReadableFacts DEF RowIds
    <2> QED
      BY <1>3, <2>1 DEF ApartInv, JobsApart
  <1>8. /\ Existing' = Existing \cup {f} /\ Active' \subseteq Active \cup {f}
        /\ UploadJobGroups' = UploadJobGroups /\ FileJobGroups' = FileJobGroups
        /\ f \in Active' /\ f \in DOMAIN files => f \in Active
        /\ f \in DOMAIN files => f \in Existing
    BY <1>1, <1>2 DEF FileWritten, Existing, Active, UploadJobGroups, FileJobGroups
  <1>9. /\ \A g \in Existing' : g # f => g \in Existing /\ files'[g] = files[g]
        /\ \A g \in Active' : g # f => g \in Active /\ files'[g] = files[g]
        /\ \/ PartSet(files'[f].parts) = P
           \/ f \in DOMAIN files /\ PartSet(files'[f].parts) = PartSet(files[f].parts)
    BY <1>0, <1>1, <1>8 DEF FileWritten, Existing, Active
  <1>10. RowsApart'
    BY <1>2, <1>5, <1>8, <1>9 DEF ApartInv, RowsApart
  <1>11. RequestsCurrent'
    <2>1. request \in [UploadIds -> [op : {"none", "create", "update"}, file : Nat, size : Nat,
                                     parts : Seq(Nat)]]
      BY DEF TypeOK, RequestsOK
    <2>2. /\ request'[u].op = "none"
          /\ \A v \in UploadIds : v # u => request'[v] = request[v]
      BY <1>2, <2>1 DEF NoRequest
    <2>3. ASSUME NEW v \in UploadIds, v # u
          PROVE  SendingFor(v)' = SendingFor(v) /\ ReadableRows(v)' = ReadableRows(v)
      BY <1>2, <2>3 DEF SendingFor, ReadableRows, RowsOf
    <2> QED
      BY <2>2, <2>3 DEF ApartInv, RequestsCurrent
  <1>12. JobsApart'
    <2>1. \A r : Readable(r)' = Readable(r)
      BY <1>2 DEF Readable
    <2>2. ASSUME NEW g \in UploadJobGroups, NEW m \in g.parts
          PROVE  /\ m \notin sending' /\ \A r \in uploads' : r.part_id = m => ~Readable(r)'
                 /\ \A h \in Existing' : m \notin PartSet(files'[h].parts)
      <3>1. \A h \in Existing' : h # f => m \notin PartSet(files'[h].parts)
        BY <1>9 DEF ApartInv, JobsApart
      <3>2. m \notin PartSet(files'[f].parts)
        BY <1>7, <1>8, <1>9 DEF ApartInv, JobsApart
      <3> QED
        BY <1>2, <2>1, <3>1, <3>2 DEF ApartInv, JobsApart
    <2>3. ASSUME NEW g \in FileJobGroups, NEW m \in g.parts
          PROVE  /\ m \notin sending' /\ m \notin RowIds(uploads')
                 /\ \A h \in Active' : m \notin PartSet(files'[h].parts)
      <3>1. \A h \in Active' : h # f => m \notin PartSet(files'[h].parts)
        BY <1>9 DEF ApartInv, JobsApart
      <3>2. f \in Active' => m \notin PartSet(files'[f].parts)
        BY <1>7, <1>8, <1>9 DEF ApartInv, JobsApart
      <3> QED
        BY <1>2, <1>4, <3>1, <3>2 DEF ApartInv, JobsApart
    <2> QED
      BY <1>8, <2>2, <2>3 DEF JobsApart
  <1>13. NoSharedMessage'
    <2>1. /\ \A g \in Existing : PartSet(files[g].parts) \cap RowIds(uploads) = {}
          /\ \A g, h \in Existing : g # h =>
                PartSet(files[g].parts) \cap PartSet(files[h].parts) = {}
      BY DEF ApartInv, NoSharedMessage, Existing
    <2>2. \A g \in Existing' : PartSet(files'[g].parts) \cap RowIds(uploads') = {}
      BY <1>4, <1>8, <1>9, <2>1
    <2>3. \A g \in Existing' : g # f =>
             PartSet(files'[g].parts) \cap PartSet(files'[f].parts) = {}
      BY <1>6, <1>8, <1>9, <2>1
    <2>4. \A g, h \in Existing' : g # h =>
             PartSet(files'[g].parts) \cap PartSet(files'[h].parts) = {}
      BY <1>9, <2>1, <2>3
    <2> QED
      BY <2>2, <2>4 DEF NoSharedMessage, Existing
  <1> QED
    BY <1>10, <1>11, <1>12, <1>13 DEF ApartInv

\* A scan finds expired rows, or the parts of files that are not visible.
LEMMA ApartScan ==
  ASSUME TypeOK, ApartInv, CleanFilesScan \/ CleanUploadsScan
  PROVE  ApartInv'
  <1> USE DEF tgVars, dbVars, handlerVars, jobVars, clientVars
  <1>1. UNCHANGED <<now, sent, uploads, files, sending, request>>
    BY DEF CleanFilesScan, CleanUploadsScan
  <1>2. Existing' = Existing /\ Active' = Active /\ (\A r : Readable(r)' = Readable(r))
    BY <1>1 DEF Existing, Active, Readable
  <1>3. RowsApart' /\ RequestsCurrent' /\ NoSharedMessage'
    <2>1. RowsApart' /\ NoSharedMessage'
      BY <1>1, <1>2 DEF ApartInv, RowsApart, NoSharedMessage
    <2>2. \A u : SendingFor(u)' = SendingFor(u) /\ ReadableRows(u)' = ReadableRows(u)
      BY <1>1 DEF ReadableRows, RowsOf, SendingFor
    <2>3. RequestsCurrent'
      BY <1>1, <2>2 DEF ApartInv, RequestsCurrent
    <2> QED
      BY <2>1, <2>3
  <1>4. CASE CleanFilesScan
    <2>1. UploadJobGroups' = UploadJobGroups /\ FileJobGroups' \subseteq FileGroups
      BY <1>4 DEF CleanFilesScan, UploadJobGroups, FileJobGroups, JobWith, IdleJob
    <2>2. ASSUME NEW g \in FileGroups, NEW m \in g.parts
          PROVE  \E f \in Existing : f \notin Active /\ m \in PartSet(files[f].parts)
      <3>1. PICK x \in Users : g.parts = PartsOf(Pending(x))
        BY DEF FileGroups
      <3>2. PICK f \in Pending(x) : m \in PartSet(files[f].parts)
        BY <2>2, <3>1 DEF PartsOf
      <3> QED
        BY <3>2 DEF Pending, Existing, Active
    <2>3. ASSUME NEW g \in FileGroups, NEW m \in g.parts
          PROVE  /\ m \notin sending /\ m \notin RowIds(uploads)
                 /\ \A h \in Active : m \notin PartSet(files[h].parts)
      <3>1. PICK f \in Existing : f \notin Active /\ m \in PartSet(files[f].parts)
        BY <2>2
      <3>2. Active \subseteq Existing
        BY DEF Active, Existing
      <3>3. \A h \in Existing : h # f => PartSet(files[f].parts) \cap PartSet(files[h].parts) = {}
        BY DEF ApartInv, NoSharedMessage, Existing
      <3>4. PartSet(files[f].parts) \cap RowIds(uploads) = {}
        BY DEF ApartInv, NoSharedMessage, Existing
      <3> QED
        BY <3>1, <3>2, <3>3, <3>4 DEF ApartInv, RowsApart
    <2>4. JobsApart'
      BY <1>1, <1>2, <2>1, <2>3 DEF ApartInv, JobsApart
    <2> QED
      BY <1>3, <2>4 DEF ApartInv
  <1>5. CASE CleanUploadsScan
    <2>1. FileJobGroups' = FileJobGroups /\ UploadJobGroups' \subseteq UploadGroups
      BY <1>5 DEF CleanUploadsScan, UploadJobGroups, FileJobGroups, JobWith, IdleJob
    <2>2. ASSUME NEW g \in UploadGroups, NEW m \in g.parts
          PROVE  \E r \in uploads : r.part_id = m /\ ~Readable(r)
      <3>1. PICK x \in Users : g.parts = RowIds(Expired(x))
        BY DEF UploadGroups
      <3>2. PICK r \in uploads : r.part_id = m /\ r.created_at + Retention < now
        BY <2>2, <3>1 DEF RowIds, Expired
      <3>3. r.created_at \in Nat /\ now \in Nat
        BY DEF TypeOK, RowsOK
      <3> QED
        BY <3>2, <3>3 DEF Readable
    <2>3. ASSUME NEW g \in UploadGroups, NEW m \in g.parts
          PROVE  /\ m \notin sending
                 /\ \A r \in uploads : r.part_id = m => ~Readable(r)
                 /\ \A f \in Existing : m \notin PartSet(files[f].parts)
      <3>1. PICK r \in uploads : r.part_id = m /\ ~Readable(r)
        BY <2>2
      <3>2. m \in RowIds(uploads)
        BY <3>1 DEF RowIds
      <3>3. m \notin sending
        BY <3>2 DEF TypeOK, RowsOK
      <3> QED
        BY <3>1, <3>2, <3>3 DEF ApartInv, RowsApart, NoSharedMessage, Existing
    <2>4. JobsApart'
      BY <1>1, <1>2, <2>1, <2>3 DEF ApartInv, JobsApart
    <2> QED
      BY <1>3, <2>4 DEF ApartInv
  <1> QED
    BY <1>4, <1>5

\* Marking or deleting a file changes its status and nothing else.
Marked(old, new) ==
    /\ new.name = old.name
    /\ new.user = old.user
    /\ new.parts = old.parts
    /\ new.size = old.size
    /\ \/ new.status = old.status
       \/ new.status = "deleted"
       \/ old.status = "active" /\ new.status = "pending_deletion"

LEMMA StatusStep ==
  ASSUME TypeOK,
         \/ \E ok \in BOOLEAN : CleanFilesRows(ok)
         \/ \E f \in DOMAIN files : FilesDelete(f)
  PROVE  /\ DOMAIN files' = DOMAIN files
         /\ \A f \in DOMAIN files : Marked(files[f], files'[f])
  <1>1. ASSUME NEW row \in FileRow
        PROVE  /\ Marked(row, row)
               /\ Marked(row, [row EXCEPT !.status = "deleted"])
               /\ row.status = "active"
                  => Marked(row, [row EXCEPT !.status = "pending_deletion"])
    BY DEF FileRow, Marked
  <1>2. \A f \in DOMAIN files : files[f] \in FileRow
    BY FileFacts
  <1>3. CASE \E ok \in BOOLEAN : CleanFilesRows(ok)
    <2>1. PICK ok \in BOOLEAN, g \in fileJob.group :
             files' = [f \in DOMAIN files |->
                         IF ok /\ f \in g.ids
                         THEN [files[f] EXCEPT !.status = "deleted"]
                         ELSE files[f]]
      BY <1>3 DEF CleanFilesRows
    <2>2. DOMAIN files' = DOMAIN files
      BY <2>1
    <2>3. ASSUME NEW f \in DOMAIN files
          PROVE  \/ files'[f] = files[f]
                 \/ files'[f] = [files[f] EXCEPT !.status = "deleted"]
      BY <2>1
    <2>4. ASSUME NEW f \in DOMAIN files
          PROVE  Marked(files[f], files'[f])
      BY <1>1, <1>2, <2>3
    <2> QED
      BY <2>2, <2>4
  <1>4. CASE \E f \in DOMAIN files : FilesDelete(f)
    <2>1. PICK h \in DOMAIN files :
             /\ files[h].status = "active"
             /\ files' = [files EXCEPT ![h].status = "pending_deletion"]
      BY <1>4 DEF FilesDelete
    <2>2. DOMAIN files' = DOMAIN files
      BY <2>1, FileFacts
    <2>3. ASSUME NEW f \in DOMAIN files
          PROVE  \/ files'[f] = files[f]
                 \/ /\ files[f].status = "active"
                    /\ files'[f] = [files[f] EXCEPT !.status = "pending_deletion"]
      BY <2>1, FileFacts
    <2>4. ASSUME NEW f \in DOMAIN files
          PROVE  Marked(files[f], files'[f])
      BY <1>1, <1>2, <2>3
    <2> QED
      BY <2>2, <2>4
  <1> QED
    BY <1>3, <1>4

LEMMA ApartJobs ==
  ASSUME TypeOK, ApartInv,
         \/ \E g \in fileJob.todo : \/ CleanFilesBreak(g) \/ CleanFilesMessages(g)
                                    \/ CleanFilesError(g)
         \/ \E g \in uploadJob.todo : CleanUploadsMessages(g) \/ CleanUploadsError(g)
         \/ \E ok \in BOOLEAN : CleanFilesRows(ok) \/ CleanUploadsRows(ok)
         \/ \E f \in DOMAIN files : FilesDelete(f)
  PROVE  ApartInv'
  <1> USE DEF tgVars, dbVars, handlerVars, jobVars, clientVars
  <1>0. UNCHANGED <<now, sent, sending, request>>
    BY DEF CleanFilesBreak, CleanFilesMessages, CleanFilesError, CleanUploadsMessages,
      CleanUploadsError, CleanFilesRows, CleanUploadsRows, FilesDelete
  <1>1. \A r : Readable(r)' = Readable(r)
    BY <1>0 DEF Readable
  <1>2. UploadJobGroups' \subseteq UploadJobGroups /\ FileJobGroups' \subseteq FileJobGroups
    BY DEF CleanFilesBreak, CleanFilesMessages, CleanFilesError, CleanUploadsMessages,
      CleanUploadsError, CleanFilesRows, CleanUploadsRows, FilesDelete, UploadJobGroups,
      FileJobGroups, JobWith, JobAtRows, IdleJob
  <1>3. CASE files' = files
    <2>1. Existing' = Existing /\ Active' = Active
      BY <1>3 DEF Existing, Active
    <2>2. uploads' \subseteq uploads /\ \A u \in UploadIds : ReadableRows(u)' = ReadableRows(u)
      <3>1. CASE uploads' = uploads
        BY <1>0, <3>1 DEF ReadableRows, RowsOf
      <3>2. CASE \E ok \in BOOLEAN : CleanUploadsRows(ok)
        <4>1. PICK g \in uploadJob.group :
                uploads' = uploads \/ uploads' = {r \in uploads : r.part_id \notin g.parts}
          BY <3>2 DEF CleanUploadsRows
        <4>2. \A r \in uploads : r.part_id \in g.parts => ~Readable(r)
          BY DEF ApartInv, JobsApart, UploadJobGroups
        <4> QED
          BY <1>0, <4>1, <4>2 DEF ReadableRows, RowsOf, Readable
      <3> QED
        BY <3>1, <3>2 DEF CleanFilesBreak, CleanFilesMessages, CleanFilesError,
          CleanUploadsMessages, CleanUploadsError, CleanFilesRows, FilesDelete
    <2> QED
      BY <1>0, <1>1, <1>2, <1>3, <2>1, <2>2, ApartShrink
  <1>4. CASE \/ \E ok \in BOOLEAN : CleanFilesRows(ok)
             \/ \E f \in DOMAIN files : FilesDelete(f)
    <2>1. uploads' = uploads
      BY <1>4 DEF CleanFilesRows, FilesDelete
    <2>2. /\ DOMAIN files' = DOMAIN files
          /\ \A f \in DOMAIN files :
                /\ files'[f].parts = files[f].parts
                /\ \/ files'[f].status = files[f].status
                   \/ files'[f].status = "deleted"
                   \/ files[f].status = "active" /\ files'[f].status = "pending_deletion"
      <3>1. DOMAIN files' = DOMAIN files /\ \A f \in DOMAIN files : Marked(files[f], files'[f])
        BY <1>4, StatusStep
      <3> QED
        BY <3>1 DEF Marked
    <2>3. Existing' \subseteq Existing /\ Active' \subseteq Active
      BY <2>2 DEF Existing, Active
    <2>4. \A u \in UploadIds : ReadableRows(u)' = ReadableRows(u)
      BY <1>0, <2>1 DEF ReadableRows, RowsOf
    <2> QED
      BY <1>0, <1>1, <1>2, <2>1, <2>2, <2>3, <2>4, ApartShrink
  <1> QED
    BY <1>3, <1>4 DEF CleanFilesBreak, CleanFilesMessages, CleanFilesError,
      CleanUploadsMessages, CleanUploadsError, CleanUploadsRows

LEMMA ApartOther ==
  ASSUME TypeOK, Disciplined, ApartInv,
         \/ \E m \in sending : UploadError(m)
         \/ \E u \in UploadIds : UploadsPartsById(u) \/ UploadsDelete(u) \/ RequestError(u)
         \/ \E x \in Users : Logout(x) \/ Login(x)
         \/ Restart \/ Tick \/ UNCHANGED vars
  PROVE  ApartInv'
  <1> USE DEF tgVars, dbVars, handlerVars, jobVars, clientVars
  <1>1. sent' = sent /\ files' = files /\ uploads' \subseteq uploads /\ sending' \subseteq sending
    BY DEF UploadError, UploadsPartsById, UploadsDelete, RequestError, Logout, Login, Restart,
      Tick, vars
  <1>2. Existing' = Existing /\ Active' = Active
    BY <1>1 DEF Existing, Active
  <1>3. UploadJobGroups' \subseteq UploadJobGroups /\ FileJobGroups' \subseteq FileJobGroups
    BY DEF UploadError, UploadsPartsById, UploadsDelete, RequestError, Logout, Login, Restart,
      Tick, vars, UploadJobGroups, FileJobGroups, IdleJob
  <1>4. \A r \in uploads : Readable(r)' => Readable(r)
    <2>1. now \in Nat /\ now' \in Nat /\ now <= now'
      BY DEF UploadError, UploadsPartsById, UploadsDelete, RequestError, Logout, Login, Restart,
        Tick, vars, TypeOK
    <2>2. \A r \in uploads : r.created_at \in Nat
      BY DEF TypeOK, RowsOK
    <2> QED
      BY <2>1, <2>2 DEF Readable
  <1>5. \A u \in UploadIds : \/ request'[u].op = "none"
                             \/ request'[u] = request[u] /\ ReadableRows(u)' = ReadableRows(u)
    <2>0. request \in [UploadIds -> [op : {"none", "create", "update"}, file : Nat, size : Nat,
                                     parts : Seq(Nat)]]
      BY DEF TypeOK, RequestsOK
    <2>1. CASE Restart
      BY <2>1 DEF Restart, NoRequest
    <2>2. CASE Tick
      BY <2>2 DEF Tick, Disciplined, NoRequest
    <2>3. CASE \E u \in UploadIds : UploadsDelete(u)
      <3>1. PICK u \in UploadIds : UploadsDelete(u)
        BY <2>3
      <3>2. request' = request /\ request[u].op = "none" /\ now' = now
            /\ uploads' = uploads \ RowsOf(u)
        BY <3>1 DEF UploadsDelete, NoRequest
      <3> QED
        BY <3>2 DEF ReadableRows, RowsOf
    <2>4. CASE now' = now /\ uploads' = uploads
               /\ (request' = request
                   \/ \E u \in UploadIds : request' = [request EXCEPT ![u] = NoRequest])
      <3>1. \A u \in UploadIds : ReadableRows(u)' = ReadableRows(u)
        BY <2>4 DEF ReadableRows, RowsOf
      <3>2. \A u \in UploadIds : request'[u] = request[u] \/ request'[u] = NoRequest
        BY <2>0, <2>4
      <3> QED
        BY <3>1, <3>2 DEF NoRequest
    <2> QED
      BY <2>1, <2>2, <2>3, <2>4 DEF UploadError, UploadsPartsById, RequestError, Logout, Login,
        vars
  <1> QED
    BY <1>1, <1>2, <1>3, <1>4, <1>5, ApartShrink

LEMMA ApartNext ==
  ASSUME TypeOK, Disciplined, ApartInv, [Next]_vars
  PROVE  ApartInv'
  <1>1. ~ \E u \in UploadIds, answered \in BOOLEAN : FilesCreateByParts(u, answered)
    BY DEF Disciplined, FilesCreateByParts
  <1> QED
    BY <1>1, ApartSend, ApartInsert, ApartRead, ApartCommit, ApartScan, ApartJobs, ApartOther
    DEF Next

LEMMA ApartInvariant ==
  ASSUME Disciplined
  PROVE  Spec => []ApartInv
  <1>1. TypeOK /\ ApartInv /\ [Next]_vars => ApartInv'
    BY ApartNext
  <1> QED
    BY <1>1, ApartInit, StorageTypeCorrect, PTL DEF Spec

\* Whatever the clients do, as long as they name no part ids: what a request
\* has read is of its own upload, not on its way into uploads, and no part of
\* a file.  That is enough for messages not to be shared.
RequestsOwn ==
    \A u \in UploadIds : request[u].op # "none" =>
        \A m \in PartSet(request[u].parts) :
            /\ sent[m].upload_id = u
            /\ m \notin sending
            /\ \A f \in Existing : m \notin PartSet(files[f].parts)

SendingApart == \A f \in Existing : PartSet(files[f].parts) \cap sending = {}

OwnInv == SendingApart /\ RequestsOwn /\ NoSharedMessage

LEMMA OwnInit == Init => OwnInv
  BY DEF Init, OwnInv, SendingApart, RequestsOwn, NoSharedMessage, Existing, NoRequest

\* NoSharedMessage in terms of Existing.
LEMMA SharedFacts ==
  NoSharedMessage <=>
    /\ \A f \in Existing : PartSet(files[f].parts) \cap RowIds(uploads) = {}
    /\ \A f, g \in Existing : f # g =>
          PartSet(files[f].parts) \cap PartSet(files[g].parts) = {}
  BY DEF NoSharedMessage, Existing

\* Steps that add no part to a file, no row and no message.
LEMMA OwnShrink ==
  ASSUME OwnInv,
         sent' = sent, uploads' \subseteq uploads, sending' \subseteq sending,
         DOMAIN files' = DOMAIN files,
         \A f \in DOMAIN files : Marked(files[f], files'[f]),
         \A u \in UploadIds : request'[u].op = "none" \/ request'[u] = request[u]
  PROVE  OwnInv'
  <1>1. RowIds(uploads') \subseteq RowIds(uploads)
    BY DEF RowIds
  <1>2. /\ Existing' \subseteq Existing
        /\ \A f \in Existing' : files'[f].parts = files[f].parts
    BY DEF Existing, Marked
  <1>3. SendingApart'
    BY <1>2 DEF OwnInv, SendingApart
  <1>4. RequestsOwn'
    BY <1>2 DEF OwnInv, RequestsOwn
  <1>5. NoSharedMessage'
    <2>1. \A f \in Existing' : PartSet(files'[f].parts) \cap RowIds(uploads') = {}
      BY <1>1, <1>2, SharedFacts DEF OwnInv
    <2>2. \A f, g \in Existing' : f # g =>
             PartSet(files'[f].parts) \cap PartSet(files'[g].parts) = {}
      BY <1>2, SharedFacts DEF OwnInv
    <2> QED
      BY <2>1, <2>2 DEF NoSharedMessage, Existing
  <1> QED
    BY <1>3, <1>4, <1>5 DEF OwnInv

LEMMA OwnSend ==
  ASSUME TypeOK, OwnInv, NEW u \in UploadIds, NEW p \in PartNos(u), UploadSend(u, p)
  PROVE  OwnInv'
  <1> USE DEF tgVars, dbVars, handlerVars, jobVars, clientVars
  <1>0. PICK new : new = Len(sent) + 1
    OBVIOUS
  <1>1. /\ sending' = sending \cup {new}
        /\ UNCHANGED <<uploads, files, request>>
        /\ new \notin DOMAIN sent
        /\ \A m \in DOMAIN sent : sent'[m] = sent[m]
    <2>1. sent \in Seq(SentRow) /\ [upload_id |-> u, part_no |-> p] \in SentRow
      BY DEF TypeOK, SentOK, SentRow, PartNos
    <2>2. /\ \A m \in 1..Len(sent) : sent'[m] = sent[m]
          /\ DOMAIN sent = 1..Len(sent) /\ Len(sent) \in Nat
      BY <1>0, <2>1, AppendProperties DEF UploadSend
    <2>3. new \notin DOMAIN sent
      BY <1>0, <2>2
    <2> QED
      BY <1>0, <2>2, <2>3 DEF UploadSend
  <1>2. /\ \A f \in Existing : PartSet(files[f].parts) \subseteq DOMAIN sent
        /\ \A v \in UploadIds : PartSet(request[v].parts) \subseteq DOMAIN sent
    BY DEF TypeOK, FilesOK, RequestsOK, Existing
  <1>3. Existing' = Existing
    BY <1>1 DEF Existing
  <1>4. SendingApart'
    BY <1>1, <1>2, <1>3 DEF OwnInv, SendingApart
  <1>5. RequestsOwn'
    BY <1>1, <1>2, <1>3 DEF OwnInv, RequestsOwn
  <1>6. NoSharedMessage'
    BY <1>1 DEF OwnInv, NoSharedMessage
  <1> QED
    BY <1>4, <1>5, <1>6 DEF OwnInv

LEMMA OwnInsert ==
  ASSUME TypeOK, OwnInv, NEW m \in sending, NEW answered \in BOOLEAN,
         UploadInsert(m, answered)
  PROVE  OwnInv'
  <1> USE DEF tgVars, dbVars, handlerVars, jobVars, clientVars
  <1>1. PICK row : row.part_id = m /\ uploads' = uploads \cup {row}
    BY DEF UploadInsert
  <1>2. sending' = sending \ {m} /\ UNCHANGED <<sent, files, request>>
    BY DEF UploadInsert
  <1>3. RowIds(uploads') = RowIds(uploads) \cup {m}
    BY <1>1 DEF RowIds
  <1>4. Existing' = Existing
    BY <1>2 DEF Existing
  <1>5. SendingApart' /\ RequestsOwn'
    BY <1>2, <1>4 DEF OwnInv, SendingApart, RequestsOwn
  <1>6. NoSharedMessage'
    <2>1. \A f \in Existing : m \notin PartSet(files[f].parts)
      BY DEF OwnInv, SendingApart
    <2> QED
      BY <1>2, <1>3, <2>1 DEF OwnInv, NoSharedMessage, Existing
  <1> QED
    BY <1>5, <1>6 DEF OwnInv

LEMMA OwnRead ==
  ASSUME TypeOK, OwnInv, NEW u \in UploadIds,
         \/ FilesCreateRead(u)
         \/ \E f \in DOMAIN files : \E size \in {0, PartCount[u]} : FilesUpdateRead(u, f, size)
  PROVE  OwnInv'
  <1> USE DEF tgVars, dbVars, handlerVars, jobVars, clientVars
  <1>1. PICK r : /\ request' = [request EXCEPT ![u] = r]
                 /\ PartSet(r.parts) = RowIds(ReadableRows(u))
    BY ReadShape
  <1>2. UNCHANGED <<sent, uploads, files, sending>>
    BY DEF FilesCreateRead, FilesUpdateRead
  <1>3. Existing' = Existing
    BY <1>2 DEF Existing
  <1>4. SendingApart' /\ NoSharedMessage'
    BY <1>2, <1>3 DEF OwnInv, SendingApart, NoSharedMessage
  <1>5. ASSUME NEW m \in PartSet(r.parts)
        PROVE  /\ sent[m].upload_id = u /\ m \notin sending
               /\ \A f \in Existing : m \notin PartSet(files[f].parts)
    <2>1. PICK row \in uploads : row.part_id = m /\ row.upload_id = u
      BY <1>1 DEF RowIds, ReadableRows, RowsOf
    <2>2. /\ sent[m] = [upload_id |-> row.upload_id, part_no |-> row.part_no]
          /\ m \in RowIds(uploads)
      BY <2>1 DEF TypeOK, RowsOK, RowIds
    <2>3. sent[m].upload_id = u
      BY <2>1, <2>2
    <2>4. m \notin sending
      BY <2>2 DEF TypeOK, RowsOK
    <2>5. \A f \in Existing : m \notin PartSet(files[f].parts)
      BY <2>2, SharedFacts DEF OwnInv
    <2> QED
      BY <2>3, <2>4, <2>5
  <1>6. RequestsOwn'
    <2>1. request \in [UploadIds -> [op : {"none", "create", "update"}, file : Nat, size : Nat,
                                     parts : Seq(Nat)]]
      BY DEF TypeOK, RequestsOK
    <2>2. \A v \in UploadIds : request'[v] = IF v = u THEN r ELSE request[v]
      BY <1>1, <2>1
    <2> QED
      BY <1>2, <1>3, <1>5, <2>2 DEF OwnInv, RequestsOwn
  <1> QED
    BY <1>4, <1>6 DEF OwnInv

\* The rows of the upload go in the transaction that gives its messages to
\* the file, also those that came after the request had read.
LEMMA OwnCommit ==
  ASSUME TypeOK, OwnInv, NEW u \in UploadIds, NEW answered \in BOOLEAN,
         FilesCreateCommit(u, answered) \/ FilesUpdateCommit(u, answered)
  PROVE  OwnInv'
  <1>0. PICK P : P = PartSet(request[u].parts)
    OBVIOUS
  <1>1. PICK f \in Nat : FileWritten(u, f)
    BY CommitShape
  <1>2. /\ uploads' = uploads \ RowsOf(u)
        /\ request' = [request EXCEPT ![u] = NoRequest] /\ request[u].op # "none"
        /\ UNCHANGED <<sent, sending>>
    BY CommitShape
  <1>3. \A m \in P : /\ sent[m].upload_id = u /\ m \notin sending
                     /\ \A g \in Existing : m \notin PartSet(files[g].parts)
    BY <1>0, <1>2 DEF OwnInv, RequestsOwn
  <1>4. RowIds(uploads') \subseteq RowIds(uploads) /\ P \cap RowIds(uploads') = {}
    <2>1. ASSUME NEW r \in uploads'
          PROVE  r.part_id \in RowIds(uploads) /\ r.part_id \notin P
      <3>1. r \in uploads /\ r.upload_id # u
        BY <1>2 DEF RowsOf
      <3>2. sent[r.part_id] = [upload_id |-> r.upload_id, part_no |-> r.part_no]
        BY <3>1 DEF TypeOK, RowsOK
      <3>3. sent[r.part_id].upload_id # u
        BY <3>1, <3>2
      <3> QED
        BY <1>3, <3>1, <3>3 DEF RowIds
    <2> QED
      BY <2>1 DEF RowIds
  <1>5. /\ Existing' = Existing \cup {f}
        /\ f \in DOMAIN files => f \in Existing
    BY <1>1 DEF FileWritten, Existing
  <1>6. /\ \A g \in Existing' : g # f => g \in Existing /\ files'[g] = files[g]
        /\ \/ PartSet(files'[f].parts) = P
           \/ f \in Existing /\ PartSet(files'[f].parts) = PartSet(files[f].parts)
    BY <1>0, <1>1, <1>5 DEF FileWritten, Existing
  <1>7. SendingApart'
    BY <1>2, <1>3, <1>5, <1>6 DEF OwnInv, SendingApart
  <1>8. RequestsOwn'
    <2>1. request \in [UploadIds -> [op : {"none", "create", "update"}, file : Nat, size : Nat,
                                     parts : Seq(Nat)]]
      BY DEF TypeOK, RequestsOK
    <2>2. /\ request'[u].op = "none"
          /\ \A v \in UploadIds : v # u => request'[v] = request[v]
      BY <1>2, <2>1 DEF NoRequest
    <2>3. ASSUME NEW v \in UploadIds, v # u, request[v].op # "none",
                 NEW m \in PartSet(request[v].parts), NEW g \in Existing'
          PROVE  m \notin PartSet(files'[g].parts)
      <3>1. sent[m].upload_id = v /\ \A h \in Existing : m \notin PartSet(files[h].parts)
        BY <2>3 DEF OwnInv, RequestsOwn
      <3>2. m \notin P
        BY <1>3, <2>3, <3>1
      <3> QED
        BY <1>6, <3>1, <3>2
    <2>4. ASSUME NEW v \in UploadIds, request'[v].op # "none"
          PROVE  /\ request'[v] = request[v]
                 /\ \A m \in PartSet(request[v].parts) :
                       /\ sent[m].upload_id = v /\ m \notin sending
                       /\ \A g \in Existing' : m \notin PartSet(files'[g].parts)
      <3>1. v # u /\ request'[v] = request[v] /\ request[v].op # "none"
        BY <2>2, <2>4
      <3>2. \A m \in PartSet(request[v].parts) : sent[m].upload_id = v /\ m \notin sending
        BY <3>1 DEF OwnInv, RequestsOwn
      <3> QED
        BY <2>3, <3>1, <3>2
    <2> QED
      BY <1>2, <2>4 DEF RequestsOwn
  <1>9. NoSharedMessage'
    <2>1. /\ \A g \in Existing : PartSet(files[g].parts) \cap RowIds(uploads) = {}
          /\ \A g, h \in Existing : g # h =>
                PartSet(files[g].parts) \cap PartSet(files[h].parts) = {}
      BY SharedFacts DEF OwnInv
    <2>2. \A g \in Existing' : PartSet(files'[g].parts) \cap RowIds(uploads') = {}
      BY <1>4, <1>6, <2>1
    <2>3. \A g \in Existing' : g # f =>
             PartSet(files'[g].parts) \cap PartSet(files'[f].parts) = {}
      BY <1>3, <1>6, <2>1
    <2>4. \A g, h \in Existing' : g # h =>
             PartSet(files'[g].parts) \cap PartSet(files'[h].parts) = {}
      BY <1>6, <2>1, <2>3
    <2> QED
      BY <2>2, <2>4 DEF NoSharedMessage, Existing
  <1> QED
    BY <1>7, <1>8, <1>9 DEF OwnInv

\* The steps that only take things away.
OtherStep ==
    \/ \E m \in sending : UploadError(m)
    \/ \E u \in UploadIds : UploadsPartsById(u) \/ UploadsDelete(u) \/ RequestError(u)
    \/ \E f \in DOMAIN files : FilesDelete(f)
    \/ CleanFilesScan \/ CleanUploadsScan
    \/ \E g \in fileJob.todo : \/ CleanFilesBreak(g) \/ CleanFilesMessages(g)
                               \/ CleanFilesError(g)
    \/ \E g \in uploadJob.todo : CleanUploadsMessages(g) \/ CleanUploadsError(g)
    \/ \E ok \in BOOLEAN : CleanFilesRows(ok) \/ CleanUploadsRows(ok)
    \/ \E x \in Users : Logout(x) \/ Login(x)
    \/ Restart \/ Tick \/ UNCHANGED vars

LEMMA OtherShrinks ==
  ASSUME TypeOK, OtherStep
  PROVE  /\ sent' = sent /\ messages' \subseteq messages /\ uploads' \subseteq uploads
         /\ sending' \subseteq sending
         /\ DOMAIN files' = DOMAIN files
         /\ \A f \in DOMAIN files : Marked(files[f], files'[f])
         /\ \A u \in UploadIds : request'[u].op = "none" \/ request'[u] = request[u]
  <1> USE DEF tgVars, dbVars, handlerVars, jobVars, clientVars
  <1>1. /\ sent' = sent /\ messages' \subseteq messages /\ uploads' \subseteq uploads
        /\ sending' \subseteq sending
    BY DEF OtherStep, UploadError, UploadsPartsById, UploadsDelete, RequestError, FilesDelete,
      CleanFilesScan, CleanUploadsScan, CleanFilesBreak, CleanFilesMessages, CleanFilesError,
      CleanUploadsMessages, CleanUploadsError, CleanFilesRows, CleanUploadsRows, Logout, Login,
      Restart, Tick, vars
  <1>2. DOMAIN files' = DOMAIN files /\ \A f \in DOMAIN files : Marked(files[f], files'[f])
    <2>1. CASE files' = files
      BY <2>1 DEF Marked
    <2>2. CASE \/ \E ok \in BOOLEAN : CleanFilesRows(ok)
               \/ \E f \in DOMAIN files : FilesDelete(f)
      BY <2>2, StatusStep
    <2> QED
      BY <2>1, <2>2 DEF OtherStep, UploadError, UploadsPartsById, UploadsDelete, RequestError,
        CleanFilesScan, CleanUploadsScan, CleanFilesBreak, CleanFilesMessages, CleanFilesError,
        CleanUploadsMessages, CleanUploadsError, CleanUploadsRows, Logout, Login, Restart,
        Tick, vars
  <1>3. \A u \in UploadIds : request'[u].op = "none" \/ request'[u] = request[u]
    <2>1. \A u \in UploadIds : request'[u] = NoRequest \/ request'[u] = request[u]
      <3>1. request \in [UploadIds -> [op : {"none", "create", "update"}, file : Nat, size : Nat,
                                       parts : Seq(Nat)]]
        BY DEF TypeOK, RequestsOK
      <3>2. \/ request' = request
            \/ request' = [u \in UploadIds |-> NoRequest]
            \/ \E u \in UploadIds : request' = [request EXCEPT ![u] = NoRequest]
        BY DEF OtherStep, UploadError, UploadsPartsById, UploadsDelete, RequestError, FilesDelete,
          CleanFilesScan, CleanUploadsScan, CleanFilesBreak, CleanFilesMessages,
          CleanFilesError, CleanUploadsMessages, CleanUploadsError, CleanFilesRows,
          CleanUploadsRows, Logout, Login, Restart, Tick, vars
      <3> QED
        BY <3>1, <3>2
    <2> QED
      BY <2>1 DEF NoRequest
  <1> QED
    BY <1>1, <1>2, <1>3

LEMMA OwnOther ==
  ASSUME TypeOK, OwnInv, OtherStep
  PROVE  OwnInv'
  BY OtherShrinks, OwnShrink

LEMMA OwnNext ==
  ASSUME TypeOK, OwnInv, "byparts" \notin Habits, [Next]_vars
  PROVE  OwnInv'
  <1>1. ~ \E u \in UploadIds, answered \in BOOLEAN : FilesCreateByParts(u, answered)
    BY DEF FilesCreateByParts
  <1> QED
    BY <1>1, OwnSend, OwnInsert, OwnRead, OwnCommit, OwnOther DEF Next, OtherStep

\* For any number of users, uploads, parts and files, whatever the clients do
\* as long as none creates a file from part ids: no message is referenced from
\* two places, so neither cleaning job deletes on behalf of one row what
\* another still needs.
THEOREM MessagesNotShared ==
  ASSUME "byparts" \notin Habits
  PROVE  Spec => []NoSharedMessage
  <1>1. TypeOK /\ OwnInv /\ [Next]_vars => OwnInv'
    BY OwnNext
  <1>2. OwnInv => NoSharedMessage
    BY DEF OwnInv
  <1> QED
    BY <1>1, <1>2, OwnInit, StorageTypeCorrect, PTL DEF Spec

\* A sequence of n numbers that is in order and takes each of the values 1..n
\* is the identity: the values up to the i-th one are the first i values.
Onto(h, n) == \A k \in 1..n : \E i \in 1..n : h[i] = k
InOrder(h, n) == \A i, j \in 1..n : i < j => h[i] <= h[j]

LEMMA OrderedIdentity ==
  ASSUME NEW n \in Nat, NEW h \in [1..n -> 1..n], Onto(h, n), InOrder(h, n)
  PROVE  \A i \in 1..n : h[i] = i
  <1>1. h \in Surjection(1..n, 1..n)
    BY DEF Surjection, Onto
  <1>2. IsFiniteSet(1..n)
    BY FS_Interval
  <1>3. h \in Injection(1..n, 1..n)
    BY <1>1, <1>2, FS_SurjSameCardinalityImpliesInj
  <1>4. \A i, j \in 1..n : h[i] = h[j] => i = j
    BY <1>3 DEF Injection, IsInjective
  <1>5. \A i, j \in 1..n : i < j => h[i] < h[j]
    BY <1>4 DEF InOrder
  <1> SUFFICES ASSUME NEW i \in 1..n PROVE h[i] = i
    OBVIOUS
  <1>6. h[i] \in 1..n /\ i \in Int /\ h[i] \in Int
    OBVIOUS
  <1> DEFINE g == [j \in 1..i |-> h[j]]
  <1>7. g \in [1..i -> 1..h[i]]
    <2> SUFFICES ASSUME NEW j \in 1..i PROVE h[j] \in 1..h[i]
      OBVIOUS
    <2>1. j \in 1..n /\ (j < i \/ j = i)
      OBVIOUS
    <2>2. h[j] \in 1..n
      BY <2>1
    <2>3. PICK a \in Int, b \in Int : a = h[j] /\ b = h[i]
      BY <1>6, <2>2
    <2>4. CASE j < i
      <3>1. a < b
        BY <1>5, <2>1, <2>3, <2>4
      <3> QED
        BY <2>2, <2>3, <3>1
    <2>5. CASE j = i
      BY <1>6, <2>5
    <2> QED
      BY <2>1, <2>4, <2>5
  <1>8. g \in Injection(1..i, 1..h[i])
    <2>1. \A j, k \in 1..i : j \in 1..n /\ k \in 1..n
      OBVIOUS
    <2>2. \A j, k \in 1..i : g[j] = g[k] => j = k
      BY <1>4, <2>1
    <2> QED
      BY <1>7, <2>2 DEF Injection, IsInjective
  <1>9. g \in Surjection(1..i, 1..h[i])
    <2> SUFFICES ASSUME NEW k \in 1..h[i] PROVE \E j \in 1..i : g[j] = k
      BY <1>7 DEF Surjection
    <2>0. k \in 1..n
      BY <1>6
    <2>1. PICK j \in 1..n : h[j] = k
      BY <2>0 DEF Onto
    <2>2. j <= i
      BY <1>5, <1>6, <2>1
    <2>3. j \in 1..i
      BY <2>2
    <2> QED
      BY <2>1, <2>3
  <1>10. ExistsBijection(1..i, 1..h[i])
    BY <1>8, <1>9 DEF ExistsBijection, Bijection
  <1>11. /\ IsFiniteSet(1..i) /\ Cardinality(1..i) = i
         /\ Cardinality(1..h[i]) = h[i]
    <2>1. ASSUME NEW k \in Int, k >= 1
          PROVE  IsFiniteSet(1..k) /\ Cardinality(1..k) = k
      <3>0. 1 \in Int
        OBVIOUS
      <3>1. IsFiniteSet(1..k) /\ Cardinality(1..k) = IF 1 > k THEN 0 ELSE k - 1 + 1
        BY <3>0, FS_Interval, Zenon
      <3> QED
        BY <2>1, <3>1
    <2>2. i >= 1 /\ h[i] >= 1
      BY <1>6
    <2> QED
      BY <1>6, <2>1, <2>2
  <1>12. Cardinality(1..h[i]) = Cardinality(1..i)
    BY <1>10, <1>11, FS_Bijection
  <1> QED
    BY <1>11, <1>12

\* Reading the rows of an upload in the order of their part numbers, when
\* each part has exactly one row, gives the whole content.
LEMMA OrderedWhole ==
  ASSUME TypeOK, NEW u \in UploadIds, NEW rows, rows \subseteq uploads,
         \A r \in rows : r.upload_id = u,
         \A r, q \in rows : r.part_no = q.part_no => r = q,
         \A p \in PartNos(u) : \E r \in rows : r.part_no = p,
         NEW s \in InPartOrder(rows)
  PROVE  Whole(sent, u, s) /\ Len(s) = PartCount[u] /\ s \in Seq(Nat)
  <1>0. PICK n \in Nat \ {0} : n = PartCount[u]
    OBVIOUS
  <1>1. PartNos(u) = 1..n
    BY <1>0 DEF PartNos
  <1>2. \A r \in rows : /\ r.part_id \in DOMAIN sent
                        /\ sent[r.part_id] = [upload_id |-> u, part_no |-> r.part_no]
                        /\ r.part_no \in 1..n
    <2> SUFFICES ASSUME NEW r \in rows
                 PROVE  /\ r.part_id \in DOMAIN sent
                        /\ sent[r.part_id] = [upload_id |-> u, part_no |-> r.part_no]
                        /\ r.part_no \in 1..n
      OBVIOUS
    <2>1. /\ r.part_id \in DOMAIN sent
          /\ sent[r.part_id] = [upload_id |-> u, part_no |-> r.part_no]
      BY DEF TypeOK, RowsOK
    <2>2. sent[r.part_id].part_no \in PartNos(sent[r.part_id].upload_id)
      BY <2>1, SentFacts
    <2> QED
      BY <1>1, <2>1, <2>2
  <1>3. IsFiniteSet(rows) /\ RowIds(rows) \subseteq Nat
    <2>1. IsFiniteSet(rows)
      BY RowsFinite, FS_Subset
    <2>2. \A r \in rows : r.part_id \in Nat
      BY <1>2, SentFacts
    <2> QED
      BY <2>1, <2>2 DEF RowIds
  <1>4. Cardinality(rows) = n
    <2> DEFINE f == [p \in 1..n |-> CHOOSE r \in rows : r.part_no = p]
    <2>1. \A p \in 1..n : f[p] \in rows /\ f[p].part_no = p
      BY <1>1
    <2>2. \A r \in rows : f[r.part_no] = r
      BY <1>2, <2>1
    <2> HIDE DEF f
    <2>3. f \in [1..n -> rows]
      BY <2>1 DEF f
    <2>4. f \in Injection(1..n, rows)
      BY <2>1, <2>3 DEF Injection, IsInjective
    <2>5. f \in Surjection(1..n, rows)
      BY <1>2, <2>2, <2>3 DEF Surjection
    <2>6. ExistsBijection(1..n, rows)
      BY <2>4, <2>5 DEF ExistsBijection, Bijection
    <2> QED
      BY <2>6, FS_CountingElements
  <1>5. /\ s \in [1..n -> RowIds(rows)] /\ PartSet(s) = RowIds(rows)
        /\ \A i, j \in 1..n : i < j => sent[s[i]].part_no <= sent[s[j]].part_no
    BY <1>4 DEF InPartOrder
  <1>6. s \in Seq(Nat) /\ Len(s) = n /\ DOMAIN s = 1..n
    BY <1>3, <1>4, <1>5, InPartOrderType
  <1>7. \A i \in 1..n : \E r \in rows : s[i] = r.part_id
    BY <1>5 DEF RowIds
  <1> DEFINE h == [i \in 1..n |-> sent[s[i]].part_no]
  <1>8. h \in [1..n -> 1..n]
    <2> SUFFICES ASSUME NEW i \in 1..n PROVE sent[s[i]].part_no \in 1..n
      OBVIOUS
    <2>1. PICK r \in rows : s[i] = r.part_id
      BY <1>7
    <2>2. sent[s[i]] = [upload_id |-> u, part_no |-> r.part_no] /\ r.part_no \in 1..n
      BY <1>2, <2>1
    <2> QED
      BY <2>2
  <1>9. \A k \in 1..n : \E i \in 1..n : h[i] = k
    <2> SUFFICES ASSUME NEW k \in 1..n PROVE \E i \in 1..n : h[i] = k
      OBVIOUS
    <2>1. PICK r \in rows : r.part_no = k
      BY <1>1
    <2>2. r.part_id \in PartSet(s)
      BY <1>5 DEF RowIds
    <2>3. PICK i \in 1..n : s[i] = r.part_id
      BY <1>6, <2>2 DEF PartSet
    <2>4. sent[s[i]] = [upload_id |-> u, part_no |-> k]
      BY <1>2, <2>1, <2>3
    <2>5. h[i] = k
      BY <2>4
    <2> QED
      BY <2>5
  <1>10. \A i, j \in 1..n : i < j => h[i] <= h[j]
    BY <1>5
  <1>11. \A i \in 1..n : h[i] = i
    <2> HIDE DEF h
    <2> QED
      BY <1>8, <1>9, <1>10, OrderedIdentity DEF Onto, InOrder
  <1>12. \A i \in 1..n : sent[s[i]] = [upload_id |-> u, part_no |-> i]
    <2> SUFFICES ASSUME NEW i \in 1..n
                 PROVE  sent[s[i]] = [upload_id |-> u, part_no |-> i]
      OBVIOUS
    <2>1. PICK r \in rows : s[i] = r.part_id
      BY <1>7
    <2>2. sent[s[i]].part_no = i
      BY <1>11
    <2>3. sent[s[i]] = [upload_id |-> u, part_no |-> r.part_no]
      BY <1>2, <2>1
    <2> QED
      BY <2>2, <2>3
  <1> QED
    BY <1>0, <1>1, <1>6, <1>12 DEF Whole

LEMMA WholeInit == Init => WholeInv
  BY DEF Init, WholeInv, MessagesExist, OneRowPerPart, RowUnique, RowKnown, SendingFresh,
    SendingUnique, AckedTrue, RequestsWhole, FileComplete, Active, NoRequest, PartNos

\* FileComplete in terms of Whole.
LEMMA CompleteFacts ==
  /\ FileComplete <=> \A f \in Active :
        /\ PartSet(files[f].parts) \subseteq messages
        /\ \E u \in UploadIds : files[f].size = PartCount[u] /\ Whole(sent, u, files[f].parts)
  BY DEF FileComplete, Whole

\* Steps that take rows, files and messages away but add none, and take away
\* no message that is in use.
LEMMA WholeShrink ==
  ASSUME WholeInv,
         sent' = sent, acked' = acked, uploads' \subseteq uploads, sending' \subseteq sending,
         doubt \subseteq doubt', sending' = {} \/ doubt' = doubt,
         DOMAIN files' = DOMAIN files,
         \A f \in DOMAIN files :
            files'[f].parts = files[f].parts /\ files'[f].size = files[f].size,
         Active' \subseteq Active,
         \A r \in uploads : Readable(r)' => Readable(r),
         \A u \in UploadIds : request'[u].op = "none" \/ request'[u] = request[u],
         NEW gone, messages' = messages \ gone,
         gone \cap sending = {},
         \A r \in uploads : r.part_id \in gone => ~Readable(r),
         \A f \in Active : PartSet(files[f].parts) \cap gone = {}
  PROVE  WholeInv'
  <1>1. MessagesExist'
    BY DEF WholeInv, MessagesExist
  <1>2. RowUnique'
    BY DEF WholeInv, OneRowPerPart, RowUnique
  <1>3. RowKnown'
    BY DEF WholeInv, OneRowPerPart, RowKnown
  <1>4. SendingFresh' /\ SendingUnique'
    BY DEF WholeInv, OneRowPerPart, SendingFresh, SendingUnique
  <1>5. AckedTrue'
    BY DEF WholeInv, OneRowPerPart, AckedTrue
  <1>6. RequestsWhole'
    BY DEF WholeInv, RequestsWhole, Whole
  <1>7. FileComplete'
    <2>1. \A f \in Active' : f \in Active /\ f \in DOMAIN files
      BY DEF Active
    <2>2. \A f \in Active' :
             /\ PartSet(files'[f].parts) \subseteq messages'
             /\ \E u \in UploadIds :
                   files'[f].size = PartCount[u] /\ Whole(sent', u, files'[f].parts)
      BY <2>1, CompleteFacts DEF WholeInv
    <2> QED
      BY <2>2 DEF FileComplete, Whole
  <1> QED
    BY <1>1, <1>2, <1>3, <1>4, <1>5, <1>6, <1>7 DEF WholeInv, OneRowPerPart

LEMMA WholeOther ==
  ASSUME TypeOK, WholeInv,
         \/ \E m \in sending : UploadError(m)
         \/ \E u \in UploadIds : UploadsDelete(u) \/ RequestError(u)
         \/ \E x \in Users : Logout(x) \/ Login(x)
         \/ Restart \/ Tick \/ UNCHANGED vars
         \/ CleanFilesScan \/ CleanUploadsScan
         \/ \E g \in fileJob.todo : CleanFilesBreak(g)
         \/ \E ok \in BOOLEAN : CleanUploadsRows(ok)
  PROVE  WholeInv'
  <1> USE DEF tgVars, dbVars, handlerVars, jobVars, clientVars
  <1>1. /\ sent' = sent /\ acked' = acked /\ files' = files /\ messages' = messages
        /\ uploads' \subseteq uploads /\ sending' \subseteq sending
        /\ doubt \subseteq doubt' /\ (sending' = {} \/ doubt' = doubt)
    BY DEF UploadError, UploadsDelete, RequestError, Logout, Login, Restart, Tick, vars,
      CleanFilesScan, CleanUploadsScan, CleanFilesBreak, CleanUploadsRows
  <1>2. Active' = Active
    BY <1>1 DEF Active
  <1>3. \A r \in uploads : Readable(r)' => Readable(r)
    <2>1. now \in Nat /\ now' \in Nat /\ now <= now'
      BY DEF UploadError, UploadsDelete, RequestError, Logout, Login, Restart, Tick, vars,
        CleanFilesScan, CleanUploadsScan, CleanFilesBreak, CleanUploadsRows, TypeOK
    <2>2. \A r \in uploads : r.created_at \in Nat
      BY DEF TypeOK, RowsOK
    <2> QED
      BY <2>1, <2>2 DEF Readable
  <1>4. \A u \in UploadIds : request'[u].op = "none" \/ request'[u] = request[u]
    <2>0. request \in [UploadIds -> [op : {"none", "create", "update"}, file : Nat, size : Nat,
                                     parts : Seq(Nat)]]
      BY DEF TypeOK, RequestsOK
    <2>1. CASE Restart
      BY <2>1 DEF Restart, NoRequest
    <2>2. CASE \E u \in UploadIds : request' = [request EXCEPT ![u] = NoRequest]
      BY <2>0, <2>2 DEF NoRequest
    <2> QED
      BY <2>1, <2>2 DEF UploadError, UploadsDelete, RequestError, Logout, Login, Tick, vars,
        CleanFilesScan, CleanUploadsScan, CleanFilesBreak, CleanUploadsRows
  <1>5. /\ messages' = messages \ {} /\ {} \cap sending = {}
        /\ DOMAIN files' = DOMAIN files
        /\ \A f \in DOMAIN files :
              files'[f].parts = files[f].parts /\ files'[f].size = files[f].size
        /\ \A f \in Active : PartSet(files[f].parts) \cap {} = {}
        /\ \A r \in uploads : r.part_id \in {} => ~Readable(r)
    BY <1>1
  <1> QED
    BY <1>1, <1>2, <1>3, <1>4, <1>5, WholeShrink

\* The jobs delete messages that no request and no visible file uses.
LEMMA WholeMessages ==
  ASSUME TypeOK, ApartInv, WholeInv,
         \/ \E g \in fileJob.todo : CleanFilesMessages(g) \/ CleanFilesError(g)
         \/ \E g \in uploadJob.todo : CleanUploadsMessages(g) \/ CleanUploadsError(g)
  PROVE  WholeInv'
  <1> USE DEF tgVars, dbVars, handlerVars, jobVars, clientVars
  <1>1. UNCHANGED <<now, sent, acked, files, uploads, sending, doubt, request>>
    BY DEF CleanFilesMessages, CleanFilesError, CleanUploadsMessages, CleanUploadsError
  <1>2. Active' = Active /\ \A r \in uploads : Readable(r)' => Readable(r)
    BY <1>1 DEF Active, Readable
  <1>3. \E gone : /\ messages' = messages \ gone
                  /\ \/ \E g \in UploadJobGroups : gone \subseteq g.parts
                     \/ \E g \in FileJobGroups : gone \subseteq g.parts
    <2>1. CASE \E g \in fileJob.todo : CleanFilesMessages(g) \/ CleanFilesError(g)
      BY <2>1 DEF CleanFilesMessages, CleanFilesError, FileJobGroups
    <2>2. CASE \E g \in uploadJob.todo : CleanUploadsMessages(g) \/ CleanUploadsError(g)
      <3>1. PICK g \in uploadJob.todo : CleanUploadsMessages(g) \/ CleanUploadsError(g)
        BY <2>2
      <3>2. \E gone \in SUBSET g.parts : messages' = messages \ gone
        <4>1. CASE messages' = messages
          <5>1. messages' = messages \ {}
            BY <4>1
          <5> QED
            BY <5>1
        <4> QED
          BY <3>1, <4>1 DEF CleanUploadsMessages, CleanUploadsError
      <3> QED
        BY <3>1, <3>2 DEF UploadJobGroups
    <2> QED
      BY <2>1, <2>2
  <1>4. PICK gone : /\ messages' = messages \ gone
                    /\ \/ \E g \in UploadJobGroups : gone \subseteq g.parts
                       \/ \E g \in FileJobGroups : gone \subseteq g.parts
    BY <1>3
  <1>5. /\ gone \cap sending = {}
        /\ \A r \in uploads : r.part_id \in gone => ~Readable(r)
        /\ \A f \in Active : PartSet(files[f].parts) \cap gone = {}
    <2>1. Active \subseteq Existing
      BY DEF Active, Existing
    <2>2. CASE \E g \in UploadJobGroups : gone \subseteq g.parts
      BY <2>1, <2>2 DEF ApartInv, JobsApart
    <2>3. CASE \E g \in FileJobGroups : gone \subseteq g.parts
      BY <2>3 DEF ApartInv, JobsApart, RowIds
    <2> QED
      BY <1>4, <2>2, <2>3
  <1> QED
    BY <1>1, <1>2, <1>4, <1>5, WholeShrink

LEMMA WholeStatus ==
  ASSUME TypeOK, WholeInv,
         \/ \E ok \in BOOLEAN : CleanFilesRows(ok)
         \/ \E f \in DOMAIN files : FilesDelete(f)
  PROVE  WholeInv'
  <1> USE DEF tgVars, dbVars, handlerVars, jobVars, clientVars
  <1>1. UNCHANGED <<now, sent, messages, acked, uploads, sending, doubt, request>>
    BY DEF CleanFilesRows, FilesDelete
  <1>2. DOMAIN files' = DOMAIN files /\ \A f \in DOMAIN files : Marked(files[f], files'[f])
    BY StatusStep
  <1>3. \A f \in DOMAIN files : /\ files'[f].parts = files[f].parts
                                /\ files'[f].size = files[f].size
                                /\ files'[f].status = "active" => files[f].status = "active"
    BY <1>2 DEF Marked
  <1>4. Active' \subseteq Active /\ \A r \in uploads : Readable(r)' => Readable(r)
    BY <1>1, <1>2, <1>3 DEF Active, Readable
  <1>5. /\ messages' = messages \ {} /\ {} \cap sending = {}
        /\ \A f \in Active : PartSet(files[f].parts) \cap {} = {}
        /\ \A r \in uploads : r.part_id \in {} => ~Readable(r)
    BY <1>1
  <1> QED
    BY <1>1, <1>2, <1>3, <1>4, <1>5, WholeShrink

\* A part is sent again only when the client knows that the server has no
\* row of it and no request for it is on its way.
LEMMA WholeSend ==
  ASSUME TypeOK, Disciplined, WholeInv,
         NEW u \in UploadIds, NEW p \in PartNos(u), UploadSend(u, p)
  PROVE  WholeInv'
  <1> USE DEF tgVars, dbVars, handlerVars, jobVars, clientVars
  <1>0. PICK new : new = Len(sent) + 1
    OBVIOUS
  <1>1. /\ UNCHANGED <<now, uploads, files, request, acked, doubt>>
        /\ sending' = sending \cup {new} /\ messages' = messages \cup {new}
        /\ acked[u][p] = 0 /\ <<u, p>> \notin doubt
        /\ \A m \in SendingFor(u) : sent[m].part_no # p
        /\ sent' = Append(sent, [upload_id |-> u, part_no |-> p])
    BY <1>0 DEF UploadSend, Disciplined
  <1>2. /\ DOMAIN sent \subseteq Nat /\ new \notin DOMAIN sent
        /\ \A m \in DOMAIN sent : sent'[m] = sent[m]
        /\ sent'[new] = [upload_id |-> u, part_no |-> p]
    <2>1. sent \in Seq(SentRow) /\ p \in Nat
      BY DEF TypeOK, SentOK, SentRow, PartNos
    <2>2. [upload_id |-> u, part_no |-> p] \in SentRow
      BY <2>1 DEF SentRow
    <2> QED
      BY <1>0, <1>1, <2>1, <2>2, AppendProperties
  <1>3. Active' = Active /\ \A r : Readable(r)' = Readable(r)
    BY <1>1 DEF Active, Readable
  <1>4. sending \subseteq DOMAIN sent
    BY DEF TypeOK, RowsOK
  <1>5. MessagesExist' /\ RowUnique' /\ RowKnown'
    BY <1>1, <1>3 DEF WholeInv, MessagesExist, OneRowPerPart, RowUnique, RowKnown
  <1>6. SendingFresh'
    <2>1. sent'[new].upload_id = u /\ sent'[new].part_no = p
      BY <1>2
    <2>2. \A m \in sending : sent'[m] = sent[m]
      BY <1>2, <1>4
    <2> QED
      BY <1>1, <2>1, <2>2 DEF WholeInv, OneRowPerPart, SendingFresh
  <1>7. SendingUnique'
    <2>1. \A m \in sending : sent'[m] = sent[m] /\ sent[m] # [upload_id |-> u, part_no |-> p]
      <3>1. PICK s : s = [upload_id |-> u, part_no |-> p]
        OBVIOUS
      <3>2. s.upload_id = u /\ s.part_no = p
        BY <3>1
      <3>3. \A m \in sending : sent[m] # s
        BY <1>1, <3>2 DEF SendingFor
      <3> QED
        BY <1>2, <1>4, <3>1, <3>3
    <2>2. PICK s : s = [upload_id |-> u, part_no |-> p]
      OBVIOUS
    <2>3. sent'[new] = s /\ \A m \in sending : sent'[m] = sent[m] /\ sent[m] # s
      BY <1>2, <2>1, <2>2
    <2>4. \A m, n \in sending : sent[m] = sent[n] => m = n
      BY DEF WholeInv, OneRowPerPart, SendingUnique
    <2>5. \A m, n \in sending \cup {new} : sent'[m] = sent'[n] => m = n
      BY <2>3, <2>4
    <2> QED
      BY <1>1, <2>5 DEF SendingUnique
  <1>8. AckedTrue'
    <2>1. \A v \in UploadIds : \A q \in PartNos(v) : acked[v][q] # 0 => acked[v][q] \in DOMAIN sent
      BY DEF TypeOK, ClientsOK
    <2> QED
      BY <1>1, <1>2, <2>1 DEF WholeInv, OneRowPerPart, AckedTrue
  <1>9. ASSUME NEW v \in UploadIds, NEW parts, PartSet(parts) \subseteq DOMAIN sent,
               Whole(sent, v, parts)
        PROVE  Whole(sent', v, parts)
    <2>1. \A i \in DOMAIN parts : sent'[parts[i]] = sent[parts[i]]
      BY <1>2, <1>9 DEF PartSet
    <2> QED
      BY <1>9, <2>1 DEF Whole
  <1>10. RequestsWhole'
    <2>1. \A v \in UploadIds : PartSet(request[v].parts) \subseteq DOMAIN sent
      BY DEF TypeOK, RequestsOK
    <2>2. \A v \in UploadIds : request[v].op # "none" =>
             Whole(sent, v, request[v].parts) /\ request[v].size = PartCount[v]
      BY DEF WholeInv, RequestsWhole
    <2>3. ASSUME NEW v \in UploadIds, request'[v].op # "none"
          PROVE  Whole(sent', v, request'[v].parts) /\ request'[v].size = PartCount[v]
      <3>1. request'[v] = request[v]
        BY <1>1
      <3> QED
        BY <1>9, <2>1, <2>2, <2>3, <3>1
    <2> QED
      BY <2>3 DEF RequestsWhole
  <1>11. FileComplete'
    <2>1. \A f \in Active : PartSet(files[f].parts) \subseteq DOMAIN sent
      BY DEF TypeOK, FilesOK, Active
    <2>2. \A f \in Active' :
             /\ PartSet(files'[f].parts) \subseteq messages'
             /\ \E v \in UploadIds :
                   files'[f].size = PartCount[v] /\ Whole(sent', v, files'[f].parts)
      <3> SUFFICES ASSUME NEW f \in Active
                   PROVE  /\ PartSet(files[f].parts) \subseteq messages'
                          /\ \E v \in UploadIds :
                                files[f].size = PartCount[v] /\ Whole(sent', v, files[f].parts)
        BY <1>1, <1>3
      <3>1. PartSet(files[f].parts) \subseteq messages
        BY CompleteFacts DEF WholeInv
      <3>2. PICK v \in UploadIds : files[f].size = PartCount[v] /\ Whole(sent, v, files[f].parts)
        BY CompleteFacts DEF WholeInv
      <3>3. Whole(sent', v, files[f].parts)
        BY <1>1, <1>9, <2>1, <3>2
      <3> QED
        BY <1>1, <3>1, <3>2, <3>3
    <2> QED
      BY <2>2 DEF FileComplete, Whole
  <1> QED
    BY <1>5, <1>6, <1>7, <1>8, <1>10, <1>11 DEF WholeInv, OneRowPerPart

LEMMA WholeInsert ==
  ASSUME TypeOK, WholeInv, NEW m \in sending, NEW answered \in BOOLEAN,
         UploadInsert(m, answered)
  PROVE  WholeInv'
  <1> USE DEF tgVars, dbVars, handlerVars, jobVars, clientVars
  <1>0. PICK u, p : u = sent[m].upload_id /\ p = sent[m].part_no
    OBVIOUS
  <1>1. PICK row : row = [part_id |-> m, upload_id |-> u, part_no |-> p, created_at |-> now]
    OBVIOUS
  <1>2. /\ UNCHANGED <<now, sent, messages, files, request>>
        /\ uploads' = uploads \cup {row} /\ sending' = sending \ {m}
        /\ acked' = IF answered THEN [acked EXCEPT ![u][p] = m] ELSE acked
        /\ doubt' = IF answered THEN doubt ELSE doubt \cup {<<u, p>>}
    BY <1>0, <1>1 DEF UploadInsert
  <1>3. /\ row.part_id = m /\ row.upload_id = u /\ row.part_no = p
    BY <1>1
  <1>4. /\ m \in DOMAIN sent /\ m # 0 /\ u \in UploadIds /\ p \in PartNos(u)
        /\ sent[m] = [upload_id |-> u, part_no |-> p]
    <2>1. m \in DOMAIN sent
      BY DEF TypeOK, RowsOK
    <2> QED
      BY <1>0, <2>1, SentFacts
  <1>5. Active' = Active /\ \A r : Readable(r)' = Readable(r)
    BY <1>2 DEF Active, Readable
  <1>6. acked[u][p] = 0 /\ <<u, p>> \notin doubt
    BY <1>0 DEF WholeInv, OneRowPerPart, SendingFresh
  <1>7. \A r \in uploads : Readable(r) => ~(r.upload_id = u /\ r.part_no = p)
    BY <1>6 DEF WholeInv, OneRowPerPart, RowKnown
  <1>8. /\ DOMAIN acked = UploadIds /\ DOMAIN acked[u] = PartNos(u)
    BY <1>4 DEF TypeOK, ClientsOK
  <1>9. \A v \in UploadIds : \A q \in PartNos(v) :
           acked'[v][q] = IF answered /\ v = u /\ q = p THEN m ELSE acked[v][q]
    <2>1. CASE answered
      BY <1>2, <1>4, <1>8, <2>1
    <2>2. CASE ~answered
      BY <1>2, <2>2
    <2> QED
      BY <2>1, <2>2
  <1>10. ASSUME NEW v, NEW q
         PROVE  <<v, q>> \in doubt' <=> <<v, q>> \in doubt \/ (~answered /\ v = u /\ q = p)
    BY <1>2
  <1>11. MessagesExist'
    BY <1>2, <1>3, <1>5 DEF WholeInv, MessagesExist
  <1>12. RowUnique'
    BY <1>2, <1>3, <1>5, <1>7 DEF WholeInv, OneRowPerPart, RowUnique
  <1>13. RowKnown'
    <2> SUFFICES ASSUME NEW r \in uploads', Readable(r)
                 PROVE  \/ acked'[r.upload_id][r.part_no] # 0
                        \/ <<r.upload_id, r.part_no>> \in doubt'
      BY <1>5 DEF RowKnown
    <2>1. CASE r = row
      BY <1>3, <1>4, <1>9, <1>10, <2>1
    <2>2. CASE r \in uploads
      <3>1. r.upload_id \in UploadIds /\ r.part_no \in PartNos(r.upload_id)
        <4>1. /\ r.part_id \in DOMAIN sent
              /\ sent[r.part_id] = [upload_id |-> r.upload_id, part_no |-> r.part_no]
          BY <2>2 DEF TypeOK, RowsOK
        <4>2. /\ sent[r.part_id].upload_id \in UploadIds
              /\ sent[r.part_id].part_no \in PartNos(sent[r.part_id].upload_id)
          BY <4>1, SentFacts
        <4> QED
          BY <4>1, <4>2
      <3>2. \/ acked[r.upload_id][r.part_no] # 0
            \/ <<r.upload_id, r.part_no>> \in doubt
        BY <2>2 DEF WholeInv, OneRowPerPart, RowKnown
      <3> QED
        BY <1>4, <1>9, <1>10, <3>1, <3>2
    <2> QED
      BY <1>2, <2>1, <2>2
  <1>14. SendingFresh'
    <2> SUFFICES ASSUME NEW n \in sending, n # m
                 PROVE  /\ acked'[sent[n].upload_id][sent[n].part_no] = 0
                        /\ <<sent[n].upload_id, sent[n].part_no>> \notin doubt'
      BY <1>2 DEF SendingFresh
    <2>1. PICK v, q : v = sent[n].upload_id /\ q = sent[n].part_no
      OBVIOUS
    <2>2. /\ v \in UploadIds /\ q \in PartNos(v)
          /\ sent[n] = [upload_id |-> v, part_no |-> q]
      <3>1. n \in DOMAIN sent
        BY DEF TypeOK, RowsOK
      <3> QED
        BY <2>1, <3>1, SentFacts
    <2>3. ~(v = u /\ q = p)
      BY <1>4, <2>2 DEF WholeInv, OneRowPerPart, SendingUnique
    <2>4. acked[v][q] = 0 /\ <<v, q>> \notin doubt
      BY <2>1 DEF WholeInv, OneRowPerPart, SendingFresh
    <2> QED
      BY <1>9, <1>10, <2>1, <2>2, <2>3, <2>4
  <1>15. SendingUnique'
    BY <1>2 DEF WholeInv, OneRowPerPart, SendingUnique
  <1>16. AckedTrue'
    <2> SUFFICES ASSUME NEW v \in UploadIds, NEW q \in PartNos(v), acked'[v][q] # 0
                 PROVE  sent[acked'[v][q]] = [upload_id |-> v, part_no |-> q]
      BY <1>2 DEF AckedTrue
    <2>1. CASE answered /\ v = u /\ q = p
      BY <1>4, <1>9, <2>1
    <2>2. CASE ~(answered /\ v = u /\ q = p)
      <3>1. acked'[v][q] = acked[v][q]
        BY <1>9, <2>2
      <3> QED
        BY <3>1 DEF WholeInv, OneRowPerPart, AckedTrue
    <2> QED
      BY <2>1, <2>2
  <1>17. RequestsWhole' /\ FileComplete'
    BY <1>2, <1>5 DEF WholeInv, RequestsWhole, FileComplete
  <1> QED
    BY <1>11, <1>12, <1>13, <1>14, <1>15, <1>16, <1>17 DEF WholeInv, OneRowPerPart

\* After UploadsPartsById the client knows exactly what the server has.
LEMMA WholeList ==
  ASSUME TypeOK, Disciplined, Hashing, WholeInv, NEW u \in UploadIds, UploadsPartsById(u)
  PROVE  WholeInv'
  <1> USE DEF tgVars, dbVars, handlerVars, jobVars, clientVars
  <1>1. /\ UNCHANGED <<now, sent, messages, uploads, files, sending, request>>
        /\ SendingFor(u) = {}
        /\ doubt' = {d \in doubt : d[1] # u}
    BY DEF UploadsPartsById, Disciplined
  <1>2. PICK known \in [PartNos(u) -> {0} \cup RowIds(ReadableRows(u))] :
          /\ \A p \in PartNos(u) :
                LET found == RowIds({r \in ReadableRows(u) : r.part_no = p}) IN
                IF found = {} THEN known[p] = 0 ELSE known[p] \in found
          /\ acked' = [acked EXCEPT ![u] = known]
    BY DEF UploadsPartsById, ListedRows
  <1>3. \A p \in PartNos(u) :
          /\ known[p] # 0 => \E r \in ReadableRows(u) : r.part_no = p /\ r.part_id = known[p]
          /\ \A r \in ReadableRows(u) : r.part_no = p => \E q \in ReadableRows(u) : known[p] = q.part_id
    <2> SUFFICES ASSUME NEW p \in PartNos(u)
                 PROVE  /\ known[p] # 0 => \E r \in ReadableRows(u) :
                                              r.part_no = p /\ r.part_id = known[p]
                        /\ \A r \in ReadableRows(u) : r.part_no = p =>
                              \E q \in ReadableRows(u) : known[p] = q.part_id
      OBVIOUS
    <2>1. PICK found : found = {r \in ReadableRows(u) : r.part_no = p}
      OBVIOUS
    <2>2. IF RowIds(found) = {} THEN known[p] = 0 ELSE known[p] \in RowIds(found)
      BY <1>2, <2>1
    <2>3. known[p] # 0 => \E r \in found : r.part_id = known[p]
      BY <2>2 DEF RowIds
    <2>4. \A r \in found : \E q \in found : known[p] = q.part_id
      BY <2>2 DEF RowIds
    <2> QED
      BY <2>1, <2>3, <2>4
  <1>4. DOMAIN acked = UploadIds
    BY DEF TypeOK, ClientsOK
  <1>5. acked'[u] = known /\ \A v \in UploadIds : v # u => acked'[v] = acked[v]
    BY <1>2, <1>4
  <1>6. Active' = Active /\ \A r : Readable(r)' = Readable(r)
    BY <1>1 DEF Active, Readable
  <1>7. ASSUME NEW r \in uploads
        PROVE  /\ r.upload_id \in UploadIds /\ r.part_no \in PartNos(r.upload_id)
               /\ r.part_id # 0
               /\ sent[r.part_id] = [upload_id |-> r.upload_id, part_no |-> r.part_no]
    <2>1. /\ r.part_id \in DOMAIN sent
          /\ sent[r.part_id] = [upload_id |-> r.upload_id, part_no |-> r.part_no]
      BY <1>7 DEF TypeOK, RowsOK
    <2>2. /\ sent[r.part_id].upload_id \in UploadIds /\ r.part_id # 0
          /\ sent[r.part_id].part_no \in PartNos(sent[r.part_id].upload_id)
      BY <2>1, SentFacts
    <2> QED
      BY <2>1, <2>2
  <1>8. MessagesExist' /\ RowUnique' /\ SendingUnique'
    BY <1>1, <1>6 DEF WholeInv, MessagesExist, OneRowPerPart, RowUnique, SendingUnique
  <1>9. RowKnown'
    <2> SUFFICES ASSUME NEW r \in uploads, Readable(r)
                 PROVE  \/ acked'[r.upload_id][r.part_no] # 0
                        \/ <<r.upload_id, r.part_no>> \in doubt'
      BY <1>1, <1>6 DEF RowKnown
    <2>1. CASE r.upload_id = u
      <3>1. r \in ReadableRows(u)
        BY <2>1, ReadableFacts
      <3>2. PICK q \in ReadableRows(u) : known[r.part_no] = q.part_id
        BY <1>3, <1>7, <2>1, <3>1
      <3>3. q \in uploads
        BY <3>2, ReadableFacts
      <3> QED
        BY <1>5, <1>7, <2>1, <3>2, <3>3
    <2>2. CASE r.upload_id # u
      <3>1. \/ acked[r.upload_id][r.part_no] # 0
            \/ <<r.upload_id, r.part_no>> \in doubt
        BY DEF WholeInv, OneRowPerPart, RowKnown
      <3> QED
        BY <1>1, <1>5, <1>7, <2>2, <3>1
    <2> QED
      BY <2>1, <2>2
  <1>10. SendingFresh'
    <2> SUFFICES ASSUME NEW m \in sending
                 PROVE  /\ acked'[sent[m].upload_id][sent[m].part_no] = 0
                        /\ <<sent[m].upload_id, sent[m].part_no>> \notin doubt'
      BY <1>1 DEF SendingFresh
    <2>1. sent[m].upload_id # u
      BY <1>1 DEF SendingFor
    <2>2. sent[m].upload_id \in UploadIds
      <3>1. m \in DOMAIN sent
        BY DEF TypeOK, RowsOK
      <3> QED
        BY <3>1, SentFacts
    <2>3. acked[sent[m].upload_id][sent[m].part_no] = 0
          /\ <<sent[m].upload_id, sent[m].part_no>> \notin doubt
      BY DEF WholeInv, OneRowPerPart, SendingFresh
    <2> QED
      BY <1>1, <1>5, <2>1, <2>2, <2>3
  <1>11. AckedTrue'
    <2> SUFFICES ASSUME NEW v \in UploadIds, NEW p \in PartNos(v), acked'[v][p] # 0
                 PROVE  sent[acked'[v][p]] = [upload_id |-> v, part_no |-> p]
      BY <1>1 DEF AckedTrue
    <2>1. CASE v = u
      <3>1. PICK r \in ReadableRows(u) : r.part_no = p /\ r.part_id = acked'[v][p]
        BY <1>3, <1>5, <2>1
      <3>2. r \in uploads /\ r.upload_id = u
        BY <3>1, ReadableFacts
      <3> QED
        BY <1>7, <2>1, <3>1, <3>2
    <2>2. CASE v # u
      <3>1. acked'[v] = acked[v]
        BY <1>5, <2>2
      <3> QED
        BY <3>1 DEF WholeInv, OneRowPerPart, AckedTrue
    <2> QED
      BY <2>1, <2>2
  <1>12. RequestsWhole' /\ FileComplete'
    BY <1>1, <1>6 DEF WholeInv, RequestsWhole, FileComplete
  <1> QED
    BY <1>8, <1>9, <1>10, <1>11, <1>12 DEF WholeInv, OneRowPerPart

\* A request that a ready client makes reads the whole content of its upload.
LEMMA WholeRead ==
  ASSUME TypeOK, Disciplined, WholeInv, NEW u \in UploadIds,
         \/ FilesCreateRead(u)
         \/ \E f \in DOMAIN files, size \in {0, PartCount[u]} : FilesUpdateRead(u, f, size)
  PROVE  WholeInv'
  <1> USE DEF tgVars, dbVars, handlerVars, jobVars, clientVars
  <1>1. /\ UNCHANGED <<now, sent, messages, uploads, files, sending, acked, doubt>>
        /\ ClientReady(u)
    BY DEF FilesCreateRead, FilesUpdateRead
  <1>2. \E parts \in InPartOrder(ReadableRows(u)) :
           \E op \in {"create", "update"} : \E f, size :
              /\ size = PartCount[u] \/ size = Len(parts)
              /\ request' = [request EXCEPT ![u] = [op |-> op, file |-> f, size |-> size,
                                                    parts |-> parts]]
    BY DEF FilesCreateRead, FilesUpdateRead
  <1>3. PICK parts \in InPartOrder(ReadableRows(u)), op \in {"create", "update"} :
           \E f, size :
              /\ size = PartCount[u] \/ size = Len(parts)
              /\ request' = [request EXCEPT ![u] = [op |-> op, file |-> f, size |-> size,
                                                    parts |-> parts]]
    BY <1>2
  <1>3a. PICK f, size :
              /\ size = PartCount[u] \/ size = Len(parts)
              /\ request' = [request EXCEPT ![u] = [op |-> op, file |-> f, size |-> size,
                                                    parts |-> parts]]
    BY <1>3
  <1>4. PICK rows : rows = ReadableRows(u)
    OBVIOUS
  <1>5. /\ rows \subseteq uploads
        /\ \A r \in rows : r.upload_id = u /\ Readable(r)
    BY <1>4, ReadableFacts
  <1>6. \A r, q \in rows : r.part_no = q.part_no => r = q
    BY <1>5 DEF WholeInv, OneRowPerPart, RowUnique
  <1>7. \A p \in PartNos(u) : \E r \in rows : r.part_no = p
    <2> SUFFICES ASSUME NEW p \in PartNos(u) PROVE \E r \in rows : r.part_no = p
      OBVIOUS
    <2>1. acked[u][p] # 0 /\ acked[u][p] \in RowIds(rows)
      BY <1>1, <1>4 DEF ClientReady, Disciplined
    <2>2. PICK r \in rows : r.part_id = acked[u][p]
      BY <2>1 DEF RowIds
    <2>3. sent[r.part_id] = [upload_id |-> u, part_no |-> p]
      BY <2>1, <2>2 DEF WholeInv, OneRowPerPart, AckedTrue
    <2>4. sent[r.part_id] = [upload_id |-> r.upload_id, part_no |-> r.part_no]
      BY <1>5 DEF TypeOK, RowsOK
    <2>5. r.part_no = p
      BY <2>3, <2>4
    <2> QED
      BY <2>5
  <1>8. Whole(sent, u, parts) /\ Len(parts) = PartCount[u]
    BY <1>3a, <1>4, <1>5, <1>6, <1>7, OrderedWhole
  <1>9. RequestsWhole'
    <2>1. request \in [UploadIds -> [op : {"none", "create", "update"}, file : Nat, size : Nat,
                                     parts : Seq(Nat)]]
      BY DEF TypeOK, RequestsOK
    <2>2. PICK q : q = [op |-> op, file |-> f, size |-> size, parts |-> parts]
      OBVIOUS
    <2>3. request'[u] = q /\ \A v \in UploadIds : v # u => request'[v] = request[v]
      BY <1>3a, <2>1, <2>2
    <2>4. q.parts = parts /\ q.size = PartCount[u]
      BY <1>3a, <1>8, <2>2
    <2> QED
      BY <1>1, <1>8, <2>3, <2>4 DEF WholeInv, RequestsWhole
  <1>10. Active' = Active /\ \A r : Readable(r)' = Readable(r)
    BY <1>1 DEF Active, Readable
  <1>11. MessagesExist' /\ OneRowPerPart' /\ FileComplete'
    <2>1. MessagesExist' /\ RowUnique' /\ RowKnown'
      BY <1>1, <1>10 DEF WholeInv, MessagesExist, OneRowPerPart, RowUnique, RowKnown
    <2>2. SendingFresh' /\ SendingUnique' /\ AckedTrue'
      BY <1>1 DEF WholeInv, OneRowPerPart, SendingFresh, SendingUnique, AckedTrue
    <2>3. FileComplete'
      BY <1>1, <1>10 DEF WholeInv, FileComplete
    <2> QED
      BY <2>1, <2>2, <2>3 DEF OneRowPerPart
  <1> QED
    BY <1>9, <1>11 DEF WholeInv

\* A commit writes the whole content into one file and leaves the others.
LEMMA WholeCommit ==
  ASSUME TypeOK, ApartInv, WholeInv, NEW u \in UploadIds, NEW answered \in BOOLEAN,
         FilesCreateCommit(u, answered) \/ FilesUpdateCommit(u, answered)
  PROVE  WholeInv'
  <1>1. PICK f \in Nat : FileWritten(u, f)
    BY CommitShape
  <1>2. /\ uploads' = uploads \ RowsOf(u)
        /\ request' = [request EXCEPT ![u] = NoRequest]
        /\ request[u].op # "none"
        /\ UNCHANGED <<now, sent, messages, sending, fileJob, uploadJob, acked, doubt>>
    BY CommitShape
  <1>3. \A r : Readable(r)' = Readable(r)
    BY <1>2 DEF Readable
  <1>4. Whole(sent, u, request[u].parts) /\ request[u].size = PartCount[u]
    BY <1>2 DEF WholeInv, RequestsWhole
  <1>5. request[u].size # 0 /\ request[u].parts # << >>
    <2>1. PartCount[u] \in Nat \ {0}
      OBVIOUS
    <2>2. DOMAIN request[u].parts = 1..PartCount[u]
      BY <1>4 DEF Whole, PartNos
    <2>3. 1 \in DOMAIN request[u].parts
      BY <2>1, <2>2
    <2> QED
      BY <1>4, <2>1, <2>3
  <1>6. files'[f].parts = request[u].parts /\ files'[f].size = request[u].size
    BY <1>1, <1>5 DEF FileWritten
  <1>7. PartSet(request[u].parts) \subseteq messages
    <2>1. PartSet(request[u].parts) = RowIds(ReadableRows(u))
      BY <1>2 DEF ApartInv, RequestsCurrent
    <2>2. \A r \in ReadableRows(u) : r.part_id \in messages
      BY ReadableFacts DEF WholeInv, MessagesExist
    <2> QED
      BY <2>1, <2>2 DEF RowIds
  <1>8. FileComplete'
    <2>1. ASSUME NEW g \in Active'
          PROVE  /\ PartSet(files'[g].parts) \subseteq messages
                 /\ \E v \in UploadIds :
                       files'[g].size = PartCount[v] /\ Whole(sent, v, files'[g].parts)
      <3>1. CASE g = f
        BY <1>4, <1>6, <1>7, <3>1
      <3>2. CASE g # f
        <4>1. g \in Active /\ files'[g] = files[g]
          BY <1>1, <2>1, <3>2 DEF FileWritten, Active
        <4> QED
          BY <4>1, CompleteFacts DEF WholeInv
      <3> QED
        BY <3>1, <3>2
    <2> QED
      BY <1>2, <2>1 DEF FileComplete, Whole
  <1>9. RequestsWhole'
    <2>1. request \in [UploadIds -> [op : {"none", "create", "update"}, file : Nat, size : Nat,
                                     parts : Seq(Nat)]]
      BY DEF TypeOK, RequestsOK
    <2>2. \A v \in UploadIds : request'[v] = request[v] \/ request'[v].op = "none"
      BY <1>2, <2>1 DEF NoRequest
    <2> QED
      BY <1>2, <2>2 DEF WholeInv, RequestsWhole
  <1>10. MessagesExist' /\ RowUnique' /\ RowKnown'
    BY <1>2, <1>3 DEF WholeInv, MessagesExist, OneRowPerPart, RowUnique, RowKnown
  <1>11. SendingFresh' /\ SendingUnique' /\ AckedTrue'
    BY <1>2 DEF WholeInv, OneRowPerPart, SendingFresh, SendingUnique, AckedTrue
  <1> QED
    BY <1>8, <1>9, <1>10, <1>11 DEF WholeInv, OneRowPerPart

LEMMA WholeNext ==
  ASSUME TypeOK, Disciplined, Hashing, ApartInv, WholeInv, [Next]_vars
  PROVE  WholeInv'
  <1>1. ~ \E u \in UploadIds, answered \in BOOLEAN : FilesCreateByParts(u, answered)
    BY DEF Disciplined, FilesCreateByParts
  <1> QED
    BY <1>1, WholeSend, WholeInsert, WholeList, WholeRead, WholeCommit, WholeMessages,
      WholeStatus, WholeOther
    DEF Next

\* For any number of users, uploads, parts and files, when the clients are
\* disciplined and ask for block hashes: a file that users can see consists
\* of all the parts of one upload in order, has the declared size and lacks
\* no message, whatever requests, jobs, errors and restarts interleave.
THEOREM FilesComplete ==
  ASSUME Disciplined, Hashing
  PROVE  Spec => []FileComplete
  <1>1. TypeOK /\ ApartInv /\ WholeInv /\ [Next]_vars => WholeInv'
    BY WholeNext
  <1>2. WholeInv => FileComplete
    BY DEF WholeInv
  <1> QED
    BY <1>1, <1>2, WholeInit, ApartInvariant, StorageTypeCorrect, PTL DEF Spec

----------------------------------------------------------------------------
(***************************************************************************)
(* The check command beside requests and jobs.                             *)
(***************************************************************************)
USE CheckAssumption

CheckPlaces == {"idle", "files", "count", "messages", "uploads", "pending", "missing",
                "orphans"}
CheckRow == [id : Nat, parts : Seq(Nat), size : Nat]
CheckShape ==
    check \in [at : CheckPlaces, user : Users \cup {"none"}, last : Nat,
               files : SUBSET CheckRow, total : Nat, msgs : SUBSET Nat, cut : BOOLEAN,
               missing : SUBSET Nat, orphans : SUBSET Nat, opt : Flags]

CheckAction ==
    \/ \E x \in Users, opt \in Options : CheckStart(x, opt)
    \/ CheckStep
    \/ CheckError

\* Marking is all that the command does to a file.
LEMMA CheckMarks ==
  ASSUME TypeOK, CheckAction
  PROVE  /\ DOMAIN files' = DOMAIN files /\ files' \in Seq(FileRow)
         /\ \A f \in DOMAIN files : Marked(files[f], files'[f])
  <1>1. ASSUME NEW row \in FileRow
        PROVE  /\ Marked(row, row)
               /\ [row EXCEPT !.status = "deleted"] \in FileRow
               /\ Marked(row, [row EXCEPT !.status = "deleted"])
               /\ [row EXCEPT !.status = "pending_deletion"] \in FileRow
               /\ row.status # "deleted"
                  => Marked(row, [row EXCEPT !.status = "pending_deletion"])
    BY DEF FileRow, FileStatus, Marked
  <1>2. \A f \in DOMAIN files : files[f] \in FileRow
    BY FileFacts
  <1>3. CASE files' = files
    BY <1>1, <1>2, <1>3, FileFacts
  <1>4. CASE CheckCleanPending
    <2>1. PICK gone : files' = [f \in DOMAIN files |->
                                  IF f \in gone THEN [files[f] EXCEPT !.status = "deleted"]
                                  ELSE files[f]]
      BY <1>4 DEF CheckCleanPending
    <2>2. DOMAIN files' = DOMAIN files
      BY <2>1
    <2>3. \A f \in DOMAIN files :
             files'[f] = files[f] \/ files'[f] = [files[f] EXCEPT !.status = "deleted"]
      BY <2>1
    <2>4. ASSUME NEW f \in DOMAIN files
          PROVE  files'[f] \in FileRow /\ Marked(files[f], files'[f])
      <3>1. PICK row \in FileRow : row = files[f]
        BY <1>2
      <3>2. files'[f] = row \/ files'[f] = [row EXCEPT !.status = "deleted"]
        BY <2>3, <3>1
      <3> QED
        BY <1>1, <3>1, <3>2
    <2>5. files' \in Seq(FileRow)
      BY <2>1, <2>4, FileFacts
    <2> QED
      BY <2>2, <2>4, <2>5
  <1>5. CASE CheckMarkMissing
    <2>1. files' = [f \in DOMAIN files |->
                      IF f \in check.missing /\ files[f].status # "deleted"
                      THEN [files[f] EXCEPT !.status = "pending_deletion"]
                      ELSE files[f]]
      BY <1>5 DEF CheckMarkMissing
    <2>2. DOMAIN files' = DOMAIN files
      BY <2>1
    <2>3. \A f \in DOMAIN files :
             \/ files'[f] = files[f]
             \/ /\ files[f].status # "deleted"
                /\ files'[f] = [files[f] EXCEPT !.status = "pending_deletion"]
      BY <2>1
    <2>4. ASSUME NEW f \in DOMAIN files
          PROVE  files'[f] \in FileRow /\ Marked(files[f], files'[f])
      <3>1. PICK row \in FileRow : row = files[f]
        BY <1>2
      <3>2. \/ files'[f] = row
            \/ row.status # "deleted" /\ files'[f] = [row EXCEPT !.status = "pending_deletion"]
        BY <2>3, <3>1
      <3> QED
        BY <1>1, <3>1, <3>2
    <2>5. files' \in Seq(FileRow)
      BY <2>1, <2>4, FileFacts
    <2> QED
      BY <2>2, <2>4, <2>5
  <1>6. CheckCleanPending \/ CheckMarkMissing \/ files' = files
    BY DEF CheckAction, CheckStart, CheckStep, CheckLoadPage, CheckCount, CheckLoadMessages,
      CheckJudge, CheckDeleteOrphans, CheckError, vars, dbVars
  <1> QED
    BY <1>3, <1>4, <1>5, <1>6

\* What the command leaves to others.
LEMMA CheckFrame ==
  ASSUME TypeOK, CheckAction
  PROVE  /\ UNCHANGED <<now, restarts, sent, sessions, sending, request, fileJob, uploadJob,
                        acked, doubt, outcome>>
         /\ messages' \subseteq messages
         /\ uploads' \subseteq uploads
         /\ abandoned' \subseteq DOMAIN sent
  <1> USE DEF tgVars, dbVars, handlerVars, jobVars, clientVars, vars
  <1>1. CASE \E x \in Users, opt \in Options : CheckStart(x, opt)
    <2>1. PICK dropped \in SUBSET uploads :
            uploads' = uploads \ dropped /\ abandoned' = abandoned \cup RowIds(dropped)
      BY <1>1 DEF CheckStart, UploadsOf
    <2>2. abandoned' \subseteq DOMAIN sent
      BY <2>1 DEF TypeOK, SentOK, RowsOK, RowIds
    <2> QED
      BY <1>1, <2>1, <2>2 DEF CheckStart
  <1>2. CASE CheckCleanPending
    <2>1. PICK gone \in SUBSET DOMAIN files : abandoned' = abandoned \cup PartsOf(gone)
      BY <1>2 DEF CheckCleanPending, FilesOf
    <2>2. abandoned' \subseteq DOMAIN sent
      BY <2>1 DEF TypeOK, SentOK, FilesOK, PartsOf
    <2> QED
      BY <1>2, <2>2 DEF CheckCleanPending
  <1>3. CASE CheckMarkMissing
    BY <1>3 DEF CheckMarkMissing, TypeOK, SentOK
  <1>4. CASE \E gone \in SUBSET check.orphans : CheckDeleteOrphans(gone)
    BY <1>4 DEF CheckDeleteOrphans, TypeOK, SentOK
  <1>5. CASE UNCHANGED vars
    BY <1>5 DEF TypeOK, SentOK
  <1> QED
    BY <1>1, <1>2, <1>3, <1>4, <1>5 DEF CheckAction, CheckStep, CheckLoadPage, CheckCount,
      CheckLoadMessages, CheckJudge, CheckError

LEMMA CheckKeepsTypes ==
  ASSUME TypeOK, CheckAction
  PROVE  TypeOK'
  <1>1. SentOK' /\ RowsOK'
    <2>1. RowIds(uploads') \subseteq RowIds(uploads)
      BY CheckFrame DEF RowIds
    <2>2. SentOK'
      BY CheckFrame DEF TypeOK, SentOK
    <2>3. RowsOK'
      BY CheckFrame, <2>1 DEF TypeOK, RowsOK
    <2> QED
      BY <2>2, <2>3
  <1>2. FilesOK'
    <2>1. \A f \in DOMAIN files' : /\ files'[f].parts = files[f].parts
                                   /\ files'[f].name = files[f].name
                                   /\ files'[f].user = files[f].user
                                   /\ files'[f].status = "active" => files[f].status = "active"
      BY CheckMarks DEF Marked
    <2> QED
      BY CheckFrame, CheckMarks, <2>1 DEF TypeOK, FilesOK, FileRow
  <1>3. RequestsOK' /\ JobsOK'
    BY CheckFrame, CheckMarks, FilesGrow DEF jobVars
  <1> QED
    BY <1>1, <1>2, <1>3, CheckFrame, Frames DEF TypeOK

\* Nobody who writes rows has the message in hand.
Loose(m) ==
    /\ m \in DOMAIN sent
    /\ m \notin sending
    /\ m \notin RowIds(uploads)
    /\ \A u \in UploadIds : request[u].op # "none" => m \notin PartSet(request[u].parts)

\* Clients that neither name part ids nor ask for a file whose parts they have
\* not seen with the server just before.
Plain == Habits \cap {"byparts", "stale", "retry"} = {}

\* A request that has just read.
NewRequest(u, r) ==
    /\ r.parts \in InPartOrder(ReadableRows(u))
    /\ PartSet(r.parts) \subseteq RowIds(uploads)
    /\ Plain => PartSet(r.parts) # {}
    /\ r.op = "update" => r.file \in DOMAIN files /\ files[r.file].user = Owner[u]

\* What a step may do to messages, rows and requests.
StepShape ==
    /\ DOMAIN sent \subseteq DOMAIN sent' /\ \A m \in DOMAIN sent : sent'[m] = sent[m]
    /\ messages' \cap DOMAIN sent \subseteq messages
    /\ sending' \cap DOMAIN sent \subseteq sending
    /\ \A r \in uploads' \ uploads : r.part_id \in sending
    /\ \A r, q \in uploads' \ uploads : r = q
    /\ \A u \in UploadIds : request'[u].op # "none" =>
          request'[u] = request[u] \/ NewRequest(u, request'[u])

\* A file that exists is as it was, or marked, or made from a request.
FilesShape ==
    /\ DOMAIN files \subseteq DOMAIN files'
    /\ \A f \in DOMAIN files' :
          \/ f \in DOMAIN files /\ Marked(files[f], files'[f])
          \/ \E u \in UploadIds : request[u].op # "none" /\ FileWritten(u, f)

ShrinkShape ==
    /\ sent' = sent /\ messages' \subseteq messages /\ sending' \subseteq sending
    /\ uploads' \subseteq uploads
    /\ \A u \in UploadIds : request'[u].op = "none" \/ request'[u] = request[u]

LEMMA ShrinkIsStep == ShrinkShape => StepShape
  BY DEF ShrinkShape, StepShape, RowIds

LEMMA CommitSteps ==
  ASSUME TypeOK, NEW u \in UploadIds, NEW answered \in BOOLEAN,
         FilesCreateCommit(u, answered) \/ FilesUpdateCommit(u, answered)
  PROVE  StepShape /\ FilesShape
  <1>1. PICK f \in Nat : FileWritten(u, f)
    BY CommitShape
  <1>2. /\ uploads' = uploads \ RowsOf(u)
        /\ request' = [request EXCEPT ![u] = NoRequest] /\ request[u].op # "none"
        /\ UNCHANGED <<sent, messages, sending>>
    BY CommitShape
  <1>3. request \in [UploadIds -> [op : {"none", "create", "update"}, file : Nat, size : Nat,
                                   parts : Seq(Nat)]]
    BY DEF TypeOK, RequestsOK
  <1>4. ShrinkShape
    BY <1>2, <1>3 DEF ShrinkShape, NoRequest
  <1>5. FilesShape
    <2>1. DOMAIN files' = DOMAIN files \cup {f}
          /\ \A g \in DOMAIN files : g # f => files'[g] = files[g]
      BY <1>1 DEF FileWritten
    <2>2. \A g \in DOMAIN files : g # f => Marked(files[g], files'[g])
      BY <2>1 DEF Marked
    <2> QED
      BY <1>1, <1>2, <2>1, <2>2 DEF FilesShape
  <1> QED
    BY <1>4, <1>5, ShrinkIsStep

LEMMA SendSteps ==
  ASSUME TypeOK, NEW u \in UploadIds, NEW p \in PartNos(u), UploadSend(u, p)
  PROVE  StepShape
  <1> USE DEF tgVars, dbVars, handlerVars, jobVars, clientVars
  <1>0. PICK new : new = Len(sent) + 1
    OBVIOUS
  <1>1. sent \in Seq(SentRow) /\ [upload_id |-> u, part_no |-> p] \in SentRow
    BY DEF TypeOK, SentOK, SentRow, PartNos
  <1>2. /\ \A m \in 1..Len(sent) : sent'[m] = sent[m]
        /\ DOMAIN sent = 1..Len(sent) /\ Len(sent) \in Nat
        /\ DOMAIN sent' = 1..(Len(sent) + 1)
    BY <1>0, <1>1, AppendProperties DEF UploadSend
  <1>3. new \notin DOMAIN sent /\ DOMAIN sent \subseteq DOMAIN sent'
    BY <1>0, <1>2
  <1>4. /\ messages' = messages \cup {new} /\ sending' = sending \cup {new}
        /\ UNCHANGED <<uploads, request>>
    BY <1>0 DEF UploadSend
  <1> QED
    BY <1>2, <1>3, <1>4 DEF StepShape

LEMMA ReadSteps ==
  ASSUME TypeOK, NEW u \in UploadIds,
         \/ FilesCreateRead(u)
         \/ \E f \in DOMAIN files : \E size \in {0, PartCount[u]} : FilesUpdateRead(u, f, size)
  PROVE  StepShape
  <1> USE DEF tgVars, dbVars, handlerVars, jobVars, clientVars
  <1>1. PICK r : /\ request' = [request EXCEPT ![u] = r]
                 /\ r.parts \in InPartOrder(ReadableRows(u))
                 /\ PartSet(r.parts) = RowIds(ReadableRows(u))
                 /\ r.op = "update" => r.file \in DOMAIN files /\ files[r.file].user = Owner[u]
    BY ReadShape
  <1>2. UNCHANGED <<sent, messages, uploads, sending>>
    BY DEF FilesCreateRead, FilesUpdateRead
  <1>3. RowIds(ReadableRows(u)) \subseteq RowIds(uploads)
    BY DEF RowIds, ReadableRows, RowsOf
  <1>6. ASSUME Plain
        PROVE  RowIds(ReadableRows(u)) # {}
    <2>1. ClientReady(u)
      BY DEF FilesCreateRead, FilesUpdateRead
    <2>2. \A p \in PartNos(u) : acked[u][p] \in RowIds(ReadableRows(u))
      BY <1>6, <2>1 DEF ClientReady, Plain
    <2>3. 1 \in PartNos(u)
      BY DEF PartNos
    <2> QED
      BY <2>2, <2>3
  <1>7. NewRequest(u, r)
    BY <1>1, <1>3, <1>6 DEF NewRequest
  <1>4. request \in [UploadIds -> [op : {"none", "create", "update"}, file : Nat, size : Nat,
                                   parts : Seq(Nat)]]
    BY DEF TypeOK, RequestsOK
  <1>5. \A v \in UploadIds : request'[v] = IF v = u THEN r ELSE request[v]
    BY <1>1, <1>4
  <1> QED
    BY <1>2, <1>5, <1>7 DEF StepShape


LEMMA PlainSteps ==
  ASSUME TypeOK, [Next]_vars,
         ~ \E u \in UploadIds, answered \in BOOLEAN : FilesCreateByParts(u, answered)
  PROVE  StepShape /\ FilesShape
  <1> USE DEF tgVars, dbVars, handlerVars, jobVars, clientVars
  <1>1. files' = files => FilesShape
    BY DEF FilesShape, Marked
  <1>2. ASSUME NEW u \in UploadIds, NEW p \in PartNos(u), UploadSend(u, p)
        PROVE  StepShape /\ FilesShape
    BY <1>1, <1>2, SendSteps DEF UploadSend
  <1>3. ASSUME NEW m \in sending, NEW answered \in BOOLEAN, UploadInsert(m, answered)
        PROVE  StepShape /\ FilesShape
    <2>1. PICK row : row.part_id = m /\ uploads' = uploads \cup {row}
      BY <1>3 DEF UploadInsert
    <2>2. \A r \in uploads' \ uploads : r = row
      BY <2>1
    <2>3. /\ sending' = sending \ {m}
          /\ UNCHANGED <<sent, messages, files, request>>
      BY <1>3 DEF UploadInsert
    <2> QED
      BY <1>1, <2>1, <2>2, <2>3 DEF StepShape
  <1>4. ASSUME NEW u \in UploadIds,
               \/ FilesCreateRead(u)
               \/ \E f \in DOMAIN files : \E size \in {0, PartCount[u]} :
                     FilesUpdateRead(u, f, size)
        PROVE  StepShape /\ FilesShape
    <2>1. files' = files
      BY <1>4 DEF FilesCreateRead, FilesUpdateRead
    <2> QED
      BY <1>1, <1>4, <2>1, ReadSteps
  <1>5. CASE OtherStep
    BY <1>5, OtherShrinks, ShrinkIsStep DEF ShrinkShape, FilesShape
  <1> QED
    BY <1>2, <1>3, <1>4, <1>5, CommitSteps DEF Next, OtherStep

LEMMA CheckSteps ==
  ASSUME TypeOK, CheckAction
  PROVE  StepShape /\ FilesShape
  <1>1. ShrinkShape
    BY CheckFrame DEF ShrinkShape
  <1> QED
    BY <1>1, CheckMarks, ShrinkIsStep DEF FilesShape

LEMMA AllSteps ==
  ASSUME TypeOK, "byparts" \notin Habits, [CheckNext]_allVars
  PROVE  StepShape /\ FilesShape
  BY PlainSteps, CheckSteps DEF CheckNext, CheckAction, allVars, FilesCreateByParts

\* A message that nobody has in hand stays so, and if it is part of no file
\* it becomes part of none.
LEMMA LooseStays ==
  ASSUME StepShape, NEW m, Loose(m)
  PROVE  Loose(m)' /\ sent'[m] = sent[m] /\ (m \in messages' => m \in messages)
  <1>1. m \notin RowIds(uploads')
    BY DEF StepShape, Loose, RowIds
  <1> QED
    BY <1>1 DEF StepShape, Loose, NewRequest

InNoFile(m) == \A f \in Existing : m \notin PartSet(files[f].parts)

LEMMA FreeStays ==
  ASSUME FilesShape, NEW m, Loose(m), InNoFile(m)
  PROVE  InNoFile(m)'
  <1> SUFFICES ASSUME NEW f \in Existing' PROVE m \notin PartSet(files'[f].parts)
    BY DEF InNoFile
  <1>1. CASE f \in DOMAIN files /\ Marked(files[f], files'[f])
    <2>1. f \in Existing /\ files'[f].parts = files[f].parts
      BY <1>1 DEF Existing, Marked
    <2> QED
      BY <2>1 DEF InNoFile
  <1>2. ASSUME NEW u \in UploadIds, request[u].op # "none", FileWritten(u, f)
        PROVE  m \notin PartSet(files'[f].parts)
    <2>1. CASE files'[f].parts = request[u].parts
      BY <1>2, <2>1 DEF Loose
    <2>2. CASE f \in DOMAIN files /\ files'[f].parts = files[f].parts
      BY <1>2, <2>2 DEF FileWritten, InNoFile, Existing
    <2> QED
      BY <1>2, <2>1, <2>2 DEF FileWritten
  <1> QED
    BY <1>1, <1>2 DEF FilesShape, Existing

----------------------------------------------------------------------------
(* The type of the processor.                                              *)

CheckInv == TypeOK /\ CheckShape /\ CheckTypeOK

\* Every set of numbers that is not empty has a least one.
LEMMA LeastNumber ==
  ASSUME NEW S \in SUBSET Nat, S # {}
  PROVE  \E n \in S : \A m \in S : n <= m
  <1> DEFINE R == OpToRel(<, Nat)
  <1>1. IsWellFoundedOn(R, Nat)
    BY NatLessThanWellFounded
  <1>2. R = {p \in Nat \X Nat : p[1] < p[2]}
    BY DEF OpToRel
  <1>3. \A x, y \in Nat : <<x, y>> \in R <=> x < y
    BY <1>2
  <1> HIDE DEF R
  <1>4. PICK n \in S : \A m \in S : ~(<<m, n>> \in R)
    BY <1>1, WFMin
  <1>5. \A m \in S : ~(m < n)
    BY <1>3, <1>4
  <1> QED
    BY <1>5

\* The greatest of some numbers up to n.
LEMMA MaxOf ==
  ASSUME NEW n \in Nat, NEW S \in SUBSET (1..n), S # {}
  PROVE  Max(S) \in S /\ \A i \in S : i <= Max(S)
  <1> DEFINE bounds == {k \in Nat : \A i \in S : i <= k}
  <1>1. n \in bounds
    OBVIOUS
  <1>2. PICK k \in bounds : \A j \in bounds : k <= j
    BY <1>1, LeastNumber
  <1>3. k \in S
    <2>1. PICK i \in S : TRUE
      OBVIOUS
    <2>2. k >= 1
      BY <1>2, <2>1
    <2>3. k - 1 \in Nat /\ k - 1 \notin bounds
      BY <1>2, <2>2
    <2>4. PICK j \in S : ~(j <= k - 1)
      BY <2>3
    <2>5. j = k
      BY <1>2, <2>4
    <2> QED
      BY <2>5
  <1>4. \E x \in S : \A y \in S : x >= y
    BY <1>2, <1>3
  <1> QED
    BY <1>4 DEF Max

\* What a processor may look like.
ProcOK(p) ==
    /\ p \in [at : CheckPlaces, user : Users \cup {"none"}, last : Nat,
              files : SUBSET CheckRow, total : Nat, msgs : SUBSET Nat, cut : BOOLEAN,
              missing : SUBSET Nat, orphans : SUBSET Nat, opt : Flags]
    /\ p.last \in {0} \cup DOMAIN files
    /\ \A f \in p.files : f.id \in DOMAIN files
    /\ p.missing \subseteq DOMAIN files
    /\ p.total <= MaxMessages
    /\ p.msgs \subseteq DOMAIN sent
    /\ p.orphans \subseteq DOMAIN sent

LEMMA ProcFacts ==
  CheckInv <=> TypeOK /\ ProcOK(check) /\ litter \subseteq DOMAIN sent
  BY DEF CheckInv, CheckShape, CheckTypeOK, ProcOK, CheckPlaces

LEMMA EndedOK == ProcOK(Ended)
  BY DEF ProcOK, Ended, CheckPlaces, Flags

LEMMA CountTo ==
  ASSUME NEW n \in Nat
  PROVE  IsFiniteSet(1..n) /\ Cardinality(1..n) = n
  <1>1. 1 \in Int /\ n \in Int
    OBVIOUS
  <1>2. /\ IsFiniteSet(1..n)
        /\ Cardinality(1..n) = IF 1 > n THEN 0 ELSE n - 1 + 1
    BY <1>1, FS_Interval, Zenon
  <1> QED
    BY <1>2

LEMMA ChannelFacts ==
  ASSUME TypeOK, NEW x
  PROVE  /\ Channel(x) \subseteq DOMAIN sent /\ DOMAIN sent \subseteq Nat
         /\ IsFiniteSet(Channel(x)) /\ Cardinality(Channel(x)) \in Nat
         /\ Cardinality(Channel(x)) <= MaxMessages
  <1>1. /\ Channel(x) \subseteq DOMAIN sent /\ DOMAIN sent = 1..Len(sent)
        /\ Len(sent) \in Nat /\ Len(sent) <= MaxMessages
    BY DEF Channel, TypeOK, SentOK
  <1>2. IsFiniteSet(1..Len(sent)) /\ Cardinality(1..Len(sent)) = Len(sent)
    BY <1>1, CountTo
  <1>3. /\ IsFiniteSet(Channel(x)) /\ Cardinality(Channel(x)) <= Len(sent)
        /\ Cardinality(Channel(x)) \in Nat
    BY <1>1, <1>2, FS_Subset, FS_CardinalityType
  <1> QED
    BY <1>1, <1>3

LEMMA PageFacts ==
  ASSUME TypeOK, NEW x, NEW statuses
  PROVE  /\ Page(FilesOf(x, statuses)) \subseteq FilesOf(x, statuses)
         /\ FilesOf(x, statuses) \subseteq 1..Len(files) /\ Len(files) \in Nat
         /\ Page(FilesOf(x, statuses)) # {} =>
               Max(Page(FilesOf(x, statuses))) \in Page(FilesOf(x, statuses))
  <1>1. /\ Page(FilesOf(x, statuses)) \subseteq FilesOf(x, statuses)
        /\ FilesOf(x, statuses) \subseteq 1..Len(files) /\ Len(files) \in Nat
    BY FileFacts DEF Page, FilesOf
  <1> QED
    BY <1>1, MaxOf

LEMMA StartProc ==
  ASSUME CheckInv, NEW x \in Users, NEW opt \in Options, CheckStart(x, opt)
  PROVE  ProcOK(check') /\ litter' \subseteq DOMAIN sent
  <1>1. opt \in Flags
    BY DEF CheckAssumption
  <1>2. check' = [Ended EXCEPT !.at = "files", !.user = x, !.opt = opt]
    BY DEF CheckStart
  <1>3. check' = [at |-> "files", user |-> x, last |-> 0, files |-> {}, total |-> 0,
                  msgs |-> {}, cut |-> FALSE, missing |-> {}, orphans |-> {}, opt |-> opt]
    BY <1>2 DEF Ended
  <1>4. ProcOK(check')
    BY <1>1, <1>3 DEF ProcOK, CheckPlaces
  <1>5. litter' \subseteq DOMAIN sent
    BY ChannelFacts DEF CheckStart, CheckInv
  <1> QED
    BY <1>4, <1>5

LEMMA LoadProc ==
  ASSUME CheckInv, CheckLoadPage
  PROVE  ProcOK(check')
  <1>0. ProcOK(check) /\ TypeOK
    BY ProcFacts
  <1>1. PICK wanted : wanted = IF check.opt.cleanPending /\ check.opt.dryRun
                               THEN {"active", "pending_deletion"} ELSE {"active"}
    OBVIOUS
  <1>2. PICK page : page = Page(FilesOf(check.user, wanted))
    OBVIOUS
  <1>3. PICK rows : rows = {[id |-> f, parts |-> files[f].parts, size |-> files[f].size] :
                              f \in page}
    OBVIOUS
  <1>4. PICK last : last = IF page = {} THEN check.last ELSE Max(page)
    OBVIOUS
  <1>5. PICK at : at = IF Cardinality(page) < BatchSize THEN "count" ELSE "files"
    OBVIOUS
  <1>6. check' = [check EXCEPT !.files = @ \cup rows, !.last = last, !.at = at]
    BY <1>1, <1>2, <1>3, <1>4, <1>5 DEF CheckLoadPage, GoesOn
  <1>7. page \subseteq DOMAIN files /\ DOMAIN files \subseteq Nat
        /\ (page # {} => Max(page) \in page)
    BY <1>0, <1>2, PageFacts, FileFacts
  <1>8. rows \subseteq CheckRow /\ \A r \in rows : r.id \in DOMAIN files
    <2>1. ASSUME NEW f \in page
          PROVE  files[f].parts \in Seq(Nat) /\ files[f].size \in Nat /\ f \in Nat
      BY <1>0, <1>7, FileFacts DEF FileRow
    <2> QED
      BY <1>3, <1>7, <2>1 DEF CheckRow
  <1>9. last \in {0} \cup DOMAIN files /\ last \in Nat
    BY <1>0, <1>4, <1>7 DEF ProcOK
  <1>10. at \in CheckPlaces
    BY <1>5 DEF CheckPlaces
  <1> QED
    BY <1>0, <1>6, <1>8, <1>9, <1>10 DEF ProcOK

LEMMA CountProc ==
  ASSUME CheckInv, CheckCount
  PROVE  ProcOK(check')
  <1>0. ProcOK(check) /\ TypeOK
    BY ProcFacts
  <1>1. PICK n \in Nat : n = Cardinality(Channel(check.user)) /\ n <= MaxMessages
    BY <1>0, ChannelFacts
  <1>2. \/ check' = Ended
        \/ check' = [check EXCEPT !.total = n, !.at = "messages"]
    BY <1>1 DEF CheckCount, GoesOn
  <1> QED
    BY <1>0, <1>1, <1>2, EndedOK DEF ProcOK, CheckPlaces

LEMMA MessagesProc ==
  ASSUME CheckInv, NEW got \in SUBSET Channel(check.user), CheckLoadMessages(got)
  PROVE  ProcOK(check')
  <1>0. ProcOK(check) /\ TypeOK
    BY ProcFacts
  <1>1. PICK cut \in BOOLEAN : cut = (got # Channel(check.user))
    OBVIOUS
  <1>2. got \subseteq DOMAIN sent /\ got \subseteq Nat
    BY <1>0, ChannelFacts
  <1>3. \/ check' = Ended
        \/ check' = [check EXCEPT !.msgs = got, !.at = "uploads", !.cut = cut]
    BY <1>1 DEF CheckLoadMessages, GoesOn
  <1> QED
    BY <1>0, <1>2, <1>3, EndedOK DEF ProcOK, CheckPlaces

\* What CheckJudge finds.
Known == check.msgs \ PendingParts
MissingFound == {f.id : f \in {g \in check.files : Incomplete(g, Known)}}
OrphansFound == Known \ UNION {SeenParts(f, Known) : f \in check.files}

LEMMA JudgeShape ==
  ASSUME CheckJudge
  PROVE  \/ check' = Ended
         \/ check' = [check EXCEPT !.missing = MissingFound, !.orphans = OrphansFound,
                                   !.files = {}, !.msgs = {}, !.last = 0, !.total = 0,
                                   !.at = "pending"]
  BY DEF CheckJudge, GoesOn, Known, MissingFound, OrphansFound

LEMMA JudgeProc ==
  ASSUME CheckInv, CheckJudge
  PROVE  ProcOK(check')
  <1>0. ProcOK(check) /\ TypeOK
    BY ProcFacts
  <1>1. MissingFound \subseteq DOMAIN files /\ MissingFound \subseteq Nat
    BY <1>0, FileFacts DEF MissingFound, ProcOK
  <1>2. OrphansFound \subseteq DOMAIN sent /\ OrphansFound \subseteq Nat
    BY <1>0 DEF OrphansFound, Known, ProcOK
  <1>3. PICK missing \in SUBSET Nat, orphans \in SUBSET Nat :
          missing = MissingFound /\ orphans = OrphansFound
    BY <1>1, <1>2
  <1>4. \/ check' = Ended
        \/ check' = [check EXCEPT !.missing = missing, !.orphans = orphans,
                                  !.files = {}, !.msgs = {}, !.last = 0, !.total = 0,
                                  !.at = "pending"]
    BY <1>3, JudgeShape
  <1>5. ASSUME check' = [check EXCEPT !.missing = missing, !.orphans = orphans,
                                      !.files = {}, !.msgs = {}, !.last = 0, !.total = 0,
                                      !.at = "pending"]
        PROVE  ProcOK(check')
    <2>1. check' = [check EXCEPT !.missing = missing, !.orphans = orphans,
                                 !.files = {}, !.msgs = {}, !.last = 0, !.total = 0,
                                 !.at = "pending"]
      BY <1>5
    <2>2. /\ check' \in [at : CheckPlaces, user : Users \cup {"none"}, last : Nat,
                         files : SUBSET CheckRow, total : Nat, msgs : SUBSET Nat,
                         cut : BOOLEAN, missing : SUBSET Nat, orphans : SUBSET Nat,
                         opt : Flags]
          /\ check'.last = 0 /\ check'.files = {} /\ check'.missing = missing
          /\ check'.total = 0 /\ check'.msgs = {} /\ check'.orphans = orphans
      BY <1>0, <2>1 DEF ProcOK, CheckPlaces
    <2> QED
      BY <1>1, <1>2, <1>3, <2>2 DEF ProcOK
  <1> QED
    BY <1>4, <1>5, EndedOK

LEMMA EndProc ==
  ASSUME CheckInv,
         \/ CheckCleanPending \/ CheckMarkMissing \/ CheckError
         \/ \E gone \in SUBSET check.orphans : CheckDeleteOrphans(gone)
  PROVE  ProcOK(check')
  <1>1. ProcOK(check)
    BY ProcFacts
  <1>2. \/ check' = Ended
        \/ \E at \in CheckPlaces : check' = [check EXCEPT !.at = at]
    BY DEF CheckCleanPending, CheckMarkMissing, CheckError, CheckDeleteOrphans, GoesOn,
      CheckPlaces
  <1> QED
    BY <1>1, <1>2, EndedOK DEF ProcOK

LEMMA ProcSteps ==
  ASSUME CheckInv, CheckAction
  PROVE  ProcOK(check') /\ litter' \subseteq DOMAIN sent
  <1>1. CASE CheckStep \/ CheckError
    <2>1. litter' \subseteq DOMAIN sent
      BY <1>1, ProcFacts DEF CheckStep, CheckLoadPage, CheckCount, CheckLoadMessages,
        CheckJudge, CheckCleanPending, CheckMarkMissing, CheckDeleteOrphans, CheckError, GoesOn
    <2> QED
      BY <1>1, <2>1, LoadProc, CountProc, MessagesProc, JudgeProc, EndProc DEF CheckStep
  <1> QED
    BY <1>1, StartProc DEF CheckAction

\* No row and no message goes away, whatever the clients do.
LEMMA TablesGrow ==
  ASSUME TypeOK, [CheckNext]_allVars
  PROVE  DOMAIN files \subseteq DOMAIN files' /\ DOMAIN sent \subseteq DOMAIN sent'
  <1>1. ASSUME NEW u \in UploadIds, NEW answered \in BOOLEAN, FilesCreateByParts(u, answered)
        PROVE  DOMAIN files \subseteq DOMAIN files' /\ sent' = sent
    <2>1. acked[u] \in Seq(Nat) /\ PartCount[u] \in Nat
      BY <1>1, AckedParts DEF FilesCreateByParts
    <2>2. InsertFile(u, acked[u], PartCount[u], files') /\ sent' = sent
      BY <1>1 DEF FilesCreateByParts, tgVars
    <2>3. PICK f \in Nat : Inserted(u, acked[u], PartCount[u], f)
      BY <2>1, <2>2, InsertShape
    <2> QED
      BY <2>2, <2>3 DEF Inserted
  <1>2. CASE [Next]_vars
    <2>1. CASE \E u \in UploadIds, answered \in BOOLEAN : FilesCreateByParts(u, answered)
      BY <1>1, <2>1
    <2>2. CASE ~ \E u \in UploadIds, answered \in BOOLEAN : FilesCreateByParts(u, answered)
      BY <1>2, <2>2, PlainSteps DEF StepShape, FilesShape
    <2> QED
      BY <2>1, <2>2
  <1> QED
    BY <1>2, CheckSteps DEF CheckNext, CheckAction, allVars, StepShape, FilesShape

LEMMA ProcGrows ==
  ASSUME ProcOK(check), DOMAIN files \subseteq DOMAIN files', DOMAIN sent \subseteq DOMAIN sent',
         check' = check
  PROVE  ProcOK(check)'
  BY DEF ProcOK

LEMMA CheckInvInit == CheckInit => CheckInv
  <1>1. CheckInit => TypeOK /\ check = Ended /\ litter = {}
    BY TypeInit DEF CheckInit
  <1> QED
    BY <1>1, EndedOK, ProcFacts

LEMMA CheckInvNext ==
  ASSUME CheckInv, [CheckNext]_allVars
  PROVE  CheckInv'
  <1>0. TypeOK /\ ProcOK(check) /\ litter \subseteq DOMAIN sent
    BY ProcFacts
  <1>1. DOMAIN files \subseteq DOMAIN files' /\ DOMAIN sent \subseteq DOMAIN sent'
    BY <1>0, TablesGrow
  <1>2. CASE CheckAction
    <2>1. TypeOK' /\ ProcOK(check') /\ litter' \subseteq DOMAIN sent
      BY <1>0, <1>2, CheckKeepsTypes, ProcSteps
    <2>2. ProcOK(check)'
      BY <1>1, <2>1 DEF ProcOK
    <2> QED
      BY <1>1, <2>1, <2>2 DEF CheckInv, CheckShape, CheckTypeOK, ProcOK, CheckPlaces
  <1>3. CASE [Next]_vars /\ UNCHANGED checkVars
    <2>1. TypeOK' /\ check' = check /\ litter' = litter
      BY <1>0, <1>3, TypeNext DEF checkVars
    <2>2. ProcOK(check)'
      BY <1>0, <1>1, <2>1, ProcGrows
    <2> QED
      BY <1>0, <1>1, <2>1, <2>2 DEF CheckInv, CheckShape, CheckTypeOK, ProcOK, CheckPlaces
  <1> QED
    BY <1>2, <1>3 DEF CheckNext, CheckAction, allVars

\* Whatever requests, jobs and clients do beside it, the command knows rows
\* and messages that exist or existed, in the numbers that it counts with.
THEOREM CheckTypeCorrect == CheckSpec => []CheckTypeOK
  <1>1. CheckInv /\ [CheckNext]_allVars => CheckInv'
    BY CheckInvNext
  <1>2. CheckInv => CheckTypeOK
    BY DEF CheckInv
  <1> QED
    BY <1>1, <1>2, CheckInvInit, PTL DEF CheckSpec

----------------------------------------------------------------------------
(* What the command may rely on, and the litter that it sweeps.            *)

OwnerOf(m) == Owner[sent[m].upload_id]

\* A file has parts of its user's uploads, and is updated by its user.
OwnersAgree ==
    /\ \A f \in Existing : \A m \in PartSet(files[f].parts) : OwnerOf(m) = files[f].user
    /\ \A u \in UploadIds : request[u].op = "update" =>
          files[request[u].file].user = Owner[u]

LEMMA OwnUnderCheck ==
  ASSUME TypeOK, OwnInv, "byparts" \notin Habits, [CheckNext]_allVars
  PROVE  OwnInv'
  <1>1. CASE CheckAction
    BY <1>1, CheckFrame, CheckMarks, OwnShrink
  <1>2. CASE [Next]_vars
    BY <1>2, OwnNext
  <1> QED
    BY <1>1, <1>2 DEF CheckNext, CheckAction, allVars

LEMMA OwnersNext ==
  ASSUME TypeOK, OwnInv, OwnersAgree, StepShape, FilesShape
  PROVE  OwnersAgree'
  <1>1. \A f \in DOMAIN files : f \in DOMAIN files' /\ files'[f].user = files[f].user
    BY DEF FilesShape, FileWritten, Marked
  <1>2. ASSUME NEW m \in DOMAIN sent
        PROVE  OwnerOf(m)' = OwnerOf(m)
    BY DEF StepShape, OwnerOf
  <1>3. /\ \A f \in Existing : PartSet(files[f].parts) \subseteq DOMAIN sent
        /\ \A u \in UploadIds : PartSet(request[u].parts) \subseteq DOMAIN sent
        /\ \A u \in UploadIds : request[u].op = "update" => request[u].file \in DOMAIN files
    BY DEF TypeOK, FilesOK, RequestsOK, Existing
  <1>4. ASSUME NEW f \in Existing', NEW m \in PartSet(files'[f].parts)
        PROVE  OwnerOf(m)' = files'[f].user
    <2>1. CASE f \in DOMAIN files /\ Marked(files[f], files'[f])
      <3>1. f \in Existing /\ files'[f].parts = files[f].parts
        BY <1>4, <2>1 DEF Existing, Marked
      <3> QED
        BY <1>1, <1>2, <1>3, <2>1, <3>1 DEF OwnersAgree
    <2>2. ASSUME NEW u \in UploadIds, request[u].op # "none", FileWritten(u, f)
          PROVE  OwnerOf(m)' = files'[f].user
      <3>1. files'[f].user = Owner[u]
        BY <1>1, <2>2 DEF FileWritten, OwnersAgree
      <3>2. CASE files'[f].parts = request[u].parts
        <4>1. m \in DOMAIN sent /\ sent[m].upload_id = u
          BY <1>3, <1>4, <2>2, <3>2 DEF OwnInv, RequestsOwn
        <4> QED
          BY <1>2, <3>1, <4>1 DEF OwnerOf
      <3>3. CASE f \in DOMAIN files /\ files'[f].parts = files[f].parts
        <4>1. f \in Existing
          BY <2>2, <3>3 DEF FileWritten, Existing
        <4> QED
          BY <1>1, <1>2, <1>3, <3>3, <4>1 DEF OwnersAgree
      <3> QED
        BY <2>2, <3>2, <3>3 DEF FileWritten
    <2> QED
      BY <1>4, <2>1, <2>2 DEF FilesShape, Existing
  <1>5. ASSUME NEW u \in UploadIds, request'[u].op = "update"
        PROVE  files'[request'[u].file].user = Owner[u]
    <2>1. request'[u] = request[u] \/ NewRequest(u, request'[u])
      BY <1>5 DEF StepShape
    <2>2. CASE request'[u] = request[u]
      BY <1>1, <1>3, <1>5, <2>2 DEF OwnersAgree
    <2>3. CASE NewRequest(u, request'[u])
      BY <1>1, <1>5, <2>3 DEF NewRequest
    <2> QED
      BY <2>1, <2>2, <2>3
  <1> QED
    BY <1>4, <1>5 DEF OwnersAgree

\* What holds of every state in which no client names part ids.
RaceInv == CheckInv /\ OwnInv /\ OwnersAgree

LEMMA RaceInit == CheckInit => RaceInv
  <1> SUFFICES ASSUME CheckInit PROVE RaceInv
    OBVIOUS
  <1>1. CheckInv
    BY CheckInvInit
  <1>2. OwnInv
    BY OwnInit DEF CheckInit
  <1>3. OwnersAgree
    BY DEF CheckInit, Init, OwnersAgree, Existing, NoRequest
  <1> QED
    BY <1>1, <1>2, <1>3 DEF RaceInv

LEMMA RaceNext ==
  ASSUME RaceInv, "byparts" \notin Habits, [CheckNext]_allVars
  PROVE  RaceInv'
  BY CheckInvNext, OwnUnderCheck, OwnersNext, AllSteps, ProcFacts DEF RaceInv

\* A message of litter is in nobody's hands and in no file, and the command
\* has not taken it for a part.
Swept(m) ==
    /\ Loose(m)
    /\ InNoFile(m)
    /\ OwnerOf(m) = check.user
    /\ \A f \in check.files : m \notin PartSet(f.parts)

Judged == check.at \in {"pending", "missing", "orphans"}

LitterInv ==
    /\ \A m \in litter : Swept(m)
    /\ ~check.cut /\ check.at = "uploads" => litter \cap messages \subseteq check.msgs
    /\ ~check.cut /\ Judged => litter \cap messages \subseteq check.orphans

LEMMA LitterStart ==
  ASSUME RaceInv, NEW x \in Users, NEW opt \in Options, CheckStart(x, opt)
  PROVE  LitterInv'
  <1>1. /\ check'.user = x /\ check'.files = {} /\ check'.at = "files"
        /\ UNCHANGED <<sent, messages, files, sending, request>>
    BY DEF CheckStart, Ended, tgVars, handlerVars
  <1>2. litter' = Channel(x) \ (sending \cup RowIds(uploads') \cup InRequests
                                 \cup PartsOf(FilesOf(x, FileStatus \ {"deleted"})))
    BY DEF CheckStart
  <1>3. ASSUME NEW m \in litter'
        PROVE  Swept(m)'
    <2>1. m \in Channel(x) /\ OwnerOf(m) = x /\ m \in DOMAIN sent
      BY <1>2, <1>3 DEF Channel, OwnerOf, RaceInv, CheckInv, TypeOK, SentOK
    <2>2. Loose(m)'
      BY <1>1, <1>2, <1>3, <2>1 DEF Loose, InRequests
    <2>3. InNoFile(m)
      <3> SUFFICES ASSUME NEW f \in Existing, m \in PartSet(files[f].parts) PROVE FALSE
        BY DEF InNoFile
      <3>1. files[f].user = x
        BY <2>1 DEF RaceInv, OwnersAgree
      <3>2. f \in FilesOf(x, FileStatus \ {"deleted"})
        BY <3>1, FileFacts DEF FilesOf, Existing, FileRow, RaceInv, CheckInv
      <3> QED
        BY <1>2, <1>3, <3>2 DEF PartsOf
    <2>4. InNoFile(m)'
      BY <1>1, <2>3 DEF InNoFile, Existing
    <2>5. OwnerOf(m)' = check'.user
      BY <1>1, <2>1 DEF OwnerOf
    <2> QED
      BY <1>1, <2>2, <2>4, <2>5 DEF Swept
  <1> QED
    BY <1>1, <1>3 DEF LitterInv, Judged

\* What a page adds to the files that are loaded.
Entry(f) == [id |-> f, parts |-> files[f].parts, size |-> files[f].size]
Loaded(wanted, page) ==
    /\ page = Page(FilesOf(check.user, wanted))
    /\ check'.user = check.user
    /\ check'.files = check.files \cup {Entry(f) : f \in page}
    /\ check'.last = IF page = {} THEN check.last ELSE Max(page)
    /\ check'.at = IF Cardinality(page) < BatchSize THEN "count" ELSE "files"

LEMMA LoadShape ==
  ASSUME ProcOK(check), CheckLoadPage
  PROVE  \E wanted, page :
            "active" \in wanted /\ "deleted" \notin wanted /\ Loaded(wanted, page)
  <1>1. PICK wanted : wanted = IF check.opt.cleanPending /\ check.opt.dryRun
                               THEN {"active", "pending_deletion"} ELSE {"active"}
    OBVIOUS
  <1>2. PICK page : page = Page(FilesOf(check.user, wanted))
    OBVIOUS
  <1>3. PICK rows : rows = {Entry(f) : f \in page}
    OBVIOUS
  <1>4. PICK last : last = IF page = {} THEN check.last ELSE Max(page)
    OBVIOUS
  <1>5. PICK at : at = IF Cardinality(page) < BatchSize THEN "count" ELSE "files"
    OBVIOUS
  <1>6. check' = [check EXCEPT !.files = @ \cup rows, !.last = last, !.at = at]
    BY <1>1, <1>2, <1>3, <1>4, <1>5 DEF CheckLoadPage, GoesOn, Entry
  <1>7. Loaded(wanted, page)
    BY <1>2, <1>3, <1>4, <1>5, <1>6 DEF Loaded, ProcOK
  <1> QED
    BY <1>1, <1>7

\* What a step of the command does to the litter that it has not judged yet.
LEMMA LitterLoads ==
  ASSUME RaceInv, LitterInv, CheckStep \/ CheckError, NEW m \in litter
  PROVE  \/ check' = Ended
         \/ check'.user = check.user /\ \A f \in check'.files : m \notin PartSet(f.parts)
  <1>0. ProcOK(check) /\ TypeOK
    BY ProcFacts DEF RaceInv
  <1>1. \A f \in check.files : m \notin PartSet(f.parts)
    BY DEF LitterInv, Swept
  <1>2. CASE CheckLoadPage
    <2>1. PICK wanted, page : "deleted" \notin wanted /\ Loaded(wanted, page)
      BY <1>0, <1>2, LoadShape
    <2>2. \A f \in page : m \notin PartSet(files[f].parts)
      BY <2>1 DEF Loaded, Page, LitterInv, Swept, InNoFile, FilesOf, Existing
    <2> QED
      BY <1>1, <2>1, <2>2 DEF Loaded, Entry
  <1>3. CASE CheckJudge
    <2>1. \/ check' = Ended
          \/ check'.user = check.user /\ check'.files = {}
      BY <1>0, <1>3, JudgeShape DEF ProcOK
    <2> QED
      BY <2>1
  <1>4. CASE ~(CheckLoadPage \/ CheckJudge)
    <2>1. \/ check' = Ended
          \/ check'.user = check.user /\ check'.files = check.files
      BY <1>0, <1>4 DEF CheckStep, CheckError, CheckCount, CheckLoadMessages, CheckCleanPending,
        CheckMarkMissing, CheckDeleteOrphans, GoesOn, ProcOK
    <2> QED
      BY <1>1, <2>1
  <1> QED
    BY <1>2, <1>3, <1>4

LEMMA SweptStays ==
  ASSUME StepShape, FilesShape, NEW m, Swept(m),
         check'.user = check.user, \A f \in check'.files : m \notin PartSet(f.parts)
  PROVE  Swept(m)' /\ (m \in messages' => m \in messages)
  BY LooseStays, FreeStays DEF Swept, OwnerOf

\* What each step of the command knows of the messages that it has to sweep.
LEMMA LitterFound ==
  ASSUME RaceInv, LitterInv, CheckStep \/ CheckError, check' # Ended
  PROVE  /\ ~check'.cut /\ check'.at = "uploads" => litter \cap messages \subseteq check'.msgs
         /\ ~check'.cut /\ Judged' => litter \cap messages \subseteq check'.orphans
  <1>0. ProcOK(check) /\ TypeOK
    BY ProcFacts DEF RaceInv
  <1>1. CASE \E got \in SUBSET Channel(check.user) : CheckLoadMessages(got)
    <2>1. PICK got \in SUBSET Channel(check.user) : CheckLoadMessages(got)
      BY <1>1
    <2>2. PICK cut \in BOOLEAN : cut = (got # Channel(check.user))
      OBVIOUS
    <2>3. check' = [check EXCEPT !.msgs = got, !.at = "uploads", !.cut = cut]
      BY <2>1, <2>2 DEF CheckLoadMessages, GoesOn
    <2>4. check'.at = "uploads" /\ check'.msgs = got /\ check'.cut = cut
      BY <1>0, <2>3 DEF ProcOK
    <2>5. litter \cap messages \subseteq Channel(check.user)
      BY DEF LitterInv, Swept, OwnerOf, Channel
    <2> QED
      BY <2>2, <2>4, <2>5 DEF Judged
  <1>2. CASE CheckJudge
    <2>1. PICK missing, orphans : missing = MissingFound /\ orphans = OrphansFound
      OBVIOUS
    <2>2. check' = [check EXCEPT !.missing = missing, !.orphans = orphans,
                                 !.files = {}, !.msgs = {}, !.last = 0, !.total = 0,
                                 !.at = "pending"]
      BY <1>2, <2>1, JudgeShape
    <2>3. check'.at = "pending" /\ check'.orphans = OrphansFound /\ check'.cut = check.cut
      BY <1>0, <2>1, <2>2 DEF ProcOK
    <2>4. ASSUME NEW m \in litter, m \in check.msgs
          PROVE  m \in OrphansFound
      <3>1. m \in Known
        <4>1. PendingParts \subseteq RowIds(uploads)
          BY DEF PendingParts, UploadsOf, RowIds
        <4> QED
          BY <2>4, <4>1 DEF Known, LitterInv, Swept, Loose
      <3>2. \A f \in check.files : m \notin SeenParts(f, Known)
        BY DEF LitterInv, Swept, SeenParts, PartSet
      <3> QED
        BY <3>1, <3>2 DEF OrphansFound
    <2>5. check.at = "uploads"
      BY <1>2 DEF CheckJudge
    <2> QED
      BY <2>3, <2>4, <2>5 DEF LitterInv
  <1>3. CASE CheckLoadPage \/ CheckCount
    <2>1. check'.at \in {"files", "count", "messages"}
      BY <1>0, <1>3 DEF CheckLoadPage, CheckCount, GoesOn, ProcOK
    <2> QED
      BY <2>1 DEF Judged
  <1>4. CASE CheckCleanPending \/ CheckMarkMissing
    <2>1. /\ Judged /\ check'.at \in {"missing", "orphans"}
          /\ check'.orphans = check.orphans /\ check'.cut = check.cut
      BY <1>0, <1>4 DEF CheckCleanPending, CheckMarkMissing, GoesOn, ProcOK, Judged
    <2> QED
      BY <2>1 DEF LitterInv
  <1>5. ~CheckError /\ ~ \E gone \in SUBSET check.orphans : CheckDeleteOrphans(gone)
    BY DEF CheckError, CheckDeleteOrphans, GoesOn
  <1> QED
    BY <1>1, <1>2, <1>3, <1>4, <1>5 DEF CheckStep

\* The ghosts stay until the command ends.
LEMMA GhostsStay ==
  ASSUME CheckStep \/ CheckError
  PROVE  IF check' = Ended THEN litter' = {} /\ intact' = {}
                           ELSE litter' = litter /\ intact' = intact
  <1>1. \E p : GoesOn(p)
    BY DEF CheckStep, CheckError, CheckLoadPage, CheckCount, CheckLoadMessages, CheckJudge,
      CheckCleanPending, CheckMarkMissing, CheckDeleteOrphans
  <1> QED
    BY <1>1 DEF GoesOn

LEMMA LitterNext ==
  ASSUME RaceInv, LitterInv, "byparts" \notin Habits, [CheckNext]_allVars
  PROVE  LitterInv'
  <1>0. StepShape /\ FilesShape
    BY AllSteps DEF RaceInv, CheckInv
  <1>1. CASE \E x \in Users, opt \in Options : CheckStart(x, opt)
    BY <1>1, LitterStart
  <1>2. CASE CheckStep \/ CheckError
    <2>1. CASE check' = Ended
      <3>1. litter' = {}
        BY <1>2, <2>1, GhostsStay
      <3> QED
        BY <3>1 DEF LitterInv
    <2>2. CASE ~(check' = Ended)
      <3>1. litter' = litter
        BY <1>2, <2>2, GhostsStay
      <3>2. ASSUME NEW m \in litter
            PROVE  Swept(m)' /\ (m \in messages' => m \in messages)
        <4>1. check'.user = check.user /\ \A f \in check'.files : m \notin PartSet(f.parts)
          BY <1>2, <2>2, LitterLoads
        <4> QED
          BY <1>0, <4>1, SweptStays DEF LitterInv
      <3> QED
        BY <1>2, <2>2, <3>1, <3>2, LitterFound DEF LitterInv
    <2> QED
      BY <2>1, <2>2
  <1>3. CASE UNCHANGED checkVars
    <2>1. check' = check /\ litter' = litter
      BY <1>3 DEF checkVars
    <2>2. ASSUME NEW m \in litter
          PROVE  Swept(m)' /\ (m \in messages' => m \in messages)
      BY <1>0, <2>1, SweptStays DEF LitterInv, Swept
    <2> QED
      BY <2>1, <2>2 DEF LitterInv, Judged
  <1> QED
    BY <1>1, <1>2, <1>3 DEF CheckNext, allVars

\* For any number of users, uploads and files, beside any clients that name no
\* part ids, whatever requests, jobs and restarts do meanwhile: a run that
\* gets through and whose list of messages was not cut short removes every
\* message that nothing referred to when it began.
THEOREM LitterIsSwept ==
  ASSUME "byparts" \notin Habits
  PROVE  CheckSpec => LitterSwept
  <1>1. RaceInv /\ [CheckNext]_allVars => RaceInv'
    BY RaceNext
  <1>2. RaceInv /\ LitterInv /\ [CheckNext]_allVars => LitterInv'
    BY LitterNext
  <1>3. CheckInit => LitterInv
    BY DEF CheckInit, LitterInv, Ended, Judged
  <1>4. LitterInv /\ CheckDeleteOrphans(check.orphans) /\ ~check.cut
        => litter \cap messages' = {}
    BY DEF LitterInv, Judged, CheckDeleteOrphans
  <1> QED
    BY <1>1, <1>2, <1>3, <1>4, RaceInit, PTL DEF CheckSpec, LitterSwept

----------------------------------------------------------------------------
(* Rows that were complete when the command began.                         *)

\* No part is listed twice.
Proper(s) == \A j, k \in DOMAIN s : s[j] = s[k] => j = k

\* A message has one row, so that requests and files list no message twice.
Built ==
    /\ \A r, q \in uploads : r.part_id = q.part_id => r = q
    /\ \A u \in UploadIds : request[u].op # "none" => Proper(request[u].parts)
    /\ \A f \in Existing : Proper(files[f].parts)

\* As many rows as ids: a list of all their ids lists none twice.
LEMMA OrderedProper ==
  ASSUME NEW rows, IsFiniteSet(rows), RowIds(rows) \subseteq Nat,
         \A r, q \in rows : r.part_id = q.part_id => r = q,
         NEW s \in InPartOrder(rows)
  PROVE  Proper(s)
  <1> DEFINE n == Cardinality(rows)
  <1>1. s \in [1..n -> RowIds(rows)] /\ PartSet(s) = RowIds(rows) /\ n \in Nat
    BY FS_CardinalityType DEF InPartOrder
  <1>2. Cardinality(RowIds(rows)) = n /\ IsFiniteSet(RowIds(rows))
    <2> DEFINE id == [r \in rows |-> r.part_id]
    <2>1. id \in Bijection(rows, RowIds(rows))
      <3>1. id \in [rows -> RowIds(rows)] /\ IsInjective(id)
        BY DEF RowIds, IsInjective
      <3>2. \A m \in RowIds(rows) : \E r \in rows : id[r] = m
        BY DEF RowIds
      <3> QED
        BY <3>1, <3>2 DEF Bijection, Injection, Surjection
    <2>2. ExistsBijection(rows, RowIds(rows))
      BY <2>1 DEF ExistsBijection
    <2> QED
      BY <2>2, FS_Bijection
  <1>3. Cardinality(1..n) = n /\ IsFiniteSet(1..n)
    BY <1>1, CountTo
  <1>4. s \in Surjection(1..n, RowIds(rows))
    BY <1>1 DEF Surjection, PartSet
  <1>5. s \in Injection(1..n, RowIds(rows))
    BY <1>2, <1>3, <1>4, FS_SurjSameCardinalityImpliesInj
  <1> QED
    BY <1>1, <1>5 DEF Proper, Injection, IsInjective

LEMMA BuiltInit == CheckInit => Built
  BY DEF CheckInit, Init, Built, Existing, NoRequest

LEMMA BuiltNext ==
  ASSUME TypeOK, Built, StepShape, FilesShape
  PROVE  Built'
  <1>1. ASSUME NEW r \in uploads', NEW q \in uploads', r.part_id = q.part_id
        PROVE  r = q
    <2>1. \A a \in uploads : a.part_id \notin sending
      BY DEF TypeOK, RowsOK, RowIds
    <2> QED
      BY <1>1, <2>1 DEF StepShape, Built
  <1>2. ASSUME NEW u \in UploadIds, request'[u].op # "none"
        PROVE  Proper(request'[u].parts)
    <2>1. CASE request'[u] = request[u]
      BY <1>2, <2>1 DEF Built
    <2>2. CASE NewRequest(u, request'[u])
      <3>1. ReadableRows(u) \subseteq uploads /\ IsFiniteSet(ReadableRows(u))
        <4>1. ReadableRows(u) \subseteq uploads
          BY DEF ReadableRows, RowsOf
        <4> QED
          BY <4>1, RowsFinite, FS_Subset
      <3>2. RowIds(ReadableRows(u)) \subseteq Nat
        <4>1. RowIds(uploads) \subseteq DOMAIN sent /\ DOMAIN sent = 1..Len(sent)
          BY DEF TypeOK, RowsOK, SentOK, RowIds
        <4> QED
          BY <3>1, <4>1 DEF RowIds
      <3>3. request'[u].parts \in InPartOrder(ReadableRows(u))
        BY <2>2 DEF NewRequest
      <3>4. \A r, q \in ReadableRows(u) : r.part_id = q.part_id => r = q
        BY <3>1 DEF Built
      <3> QED
        BY <3>1, <3>2, <3>3, <3>4, OrderedProper
    <2> QED
      BY <1>2, <2>1, <2>2 DEF StepShape
  <1>3. ASSUME NEW f \in Existing'
        PROVE  Proper(files'[f].parts)
    <2>1. CASE f \in DOMAIN files /\ Marked(files[f], files'[f])
      <3>1. f \in Existing /\ files'[f].parts = files[f].parts
        BY <1>3, <2>1 DEF Existing, Marked
      <3> QED
        BY <3>1 DEF Built
    <2>2. ASSUME NEW u \in UploadIds, request[u].op # "none", FileWritten(u, f)
          PROVE  Proper(files'[f].parts)
      <3>1. CASE files'[f].parts = request[u].parts
        BY <2>2, <3>1 DEF Built
      <3>2. CASE f \in DOMAIN files /\ files'[f].parts = files[f].parts
        <4>1. f \in Existing
          BY <2>2, <3>2 DEF FileWritten, Existing
        <4> QED
          BY <3>2, <4>1 DEF Built
      <3> QED
        BY <2>2, <3>1, <3>2 DEF FileWritten
    <2> QED
      BY <1>3, <2>1, <2>2 DEF FilesShape, Existing
  <1> QED
    BY <1>1, <1>2, <1>3 DEF Built

\* A row that was complete when the command began, and the messages in it.
Filled(i) == i.row.parts # << >>
IntactRow(i) ==
    /\ i.id \in DOMAIN files
    /\ i.row \in FileRow
    /\ i.row.user = check.user
    /\ i.row.status = "active"
    /\ i.row.size = Len(i.row.parts)
    /\ Proper(i.row.parts) /\ Filled(i)
    /\ \A m \in PartSet(i.row.parts) : Loose(m) /\ OwnerOf(m) = check.user

Recorded(i) == \E f \in check.files : f.id = i.id

\* As long as the row has not changed, what the command has loaded of it is
\* the row as it is ...
IntactLoaded(i) ==
    files[i.id] = i.row =>
        /\ \A f \in check.files :
              f.id = i.id => f.parts = i.row.parts /\ f.size = i.row.size
        /\ check.at = "files" /\ i.id <= check.last => Recorded(i)
        /\ check.at \in {"count", "messages", "uploads"} => Recorded(i)

\* ... and it judges neither the row nor its messages to be superfluous.
IntactJudged(i) ==
    /\ files[i.id] = i.row
    /\ PartSet(i.row.parts) \subseteq messages
    /\ ~check.cut
    => /\ check.at = "uploads" => PartSet(i.row.parts) \subseteq check.msgs
       /\ Judged => /\ i.id \notin check.missing
                    /\ PartSet(i.row.parts) \cap check.orphans = {}

IntactInv ==
    \A i \in intact : Filled(i) => IntactRow(i) /\ IntactLoaded(i) /\ IntactJudged(i)

\* A row that has changed does not become again what it was.  (One without
\* parts may: a new size of zero is all that it takes.)
LEMMA IntactRowStays ==
  ASSUME TypeOK, StepShape, FilesShape, NEW i, IntactRow(i), check'.user = check.user
  PROVE  /\ IntactRow(i)'
         /\ files'[i.id] = i.row => files[i.id] = i.row
         /\ PartSet(i.row.parts) \subseteq messages' => PartSet(i.row.parts) \subseteq messages
  <1>1. \A m \in PartSet(i.row.parts) :
           Loose(m)' /\ sent'[m] = sent[m] /\ (m \in messages' => m \in messages)
    BY LooseStays DEF IntactRow
  <1>2. IntactRow(i)'
    BY <1>1 DEF IntactRow, FilesShape, OwnerOf
  <1>3. ASSUME files'[i.id] = i.row
        PROVE  files[i.id] = i.row
    <2>1. PICK f, row, old : f = i.id /\ row = i.row /\ old = files[f]
      OBVIOUS
    <2>2. /\ row \in FileRow /\ old \in FileRow /\ f \in DOMAIN files /\ files'[f] = row
          /\ row.status = "active" /\ row.size = Len(row.parts)
      BY <1>3, <2>1, FileFacts DEF IntactRow
    <2>3. CASE Marked(old, row)
      <3>1. old.name = row.name /\ old.user = row.user /\ old.parts = row.parts
            /\ old.size = row.size /\ old.status = row.status
        BY <2>2, <2>3 DEF Marked
      <3>2. \A a \in FileRow : a = [name |-> a.name, user |-> a.user, status |-> a.status,
                                    parts |-> a.parts, size |-> a.size]
        BY DEF FileRow
      <3>3. old = [name |-> old.name, user |-> old.user, status |-> old.status,
                   parts |-> old.parts, size |-> old.size]
        BY <2>2, <3>2
      <3>4. row = [name |-> row.name, user |-> row.user, status |-> row.status,
                   parts |-> row.parts, size |-> row.size]
        BY <2>2, <3>2
      <3> QED
        BY <2>1, <3>1, <3>3, <3>4
    <2>4. ASSUME NEW u \in UploadIds, request[u].op # "none", FileWritten(u, f)
          PROVE  old = row
      <3>1. PICK m : m \in PartSet(row.parts)
        <4>1. row.parts \in Seq(Nat) /\ row.parts # << >>
          BY <2>1, <2>2 DEF IntactRow, Filled, FileRow
        <4>2. 1 \in DOMAIN row.parts
          BY <4>1
        <4> QED
          BY <4>2 DEF PartSet
      <3>2. row.parts # request[u].parts
        BY <2>1, <2>4, <3>1 DEF IntactRow, Loose
      <3>3. files'[f] = files[f] \/ files'[f].size = 0
        BY <2>2, <2>4, <3>2 DEF FileWritten
      <3>4. row.size # 0
        <4>1. DOMAIN row.parts # {}
          BY <3>1 DEF PartSet
        <4>2. row.parts \in Seq(Nat)
          BY <2>2 DEF FileRow
        <4>3. Len(row.parts) # 0
          BY <4>1, <4>2
        <4> QED
          BY <2>2, <4>3
      <3> QED
        BY <2>1, <2>2, <3>3, <3>4
    <2> QED
      BY <2>1, <2>2, <2>3, <2>4 DEF FilesShape
  <1> QED
    BY <1>1, <1>2, <1>3

LEMMA IntactStart ==
  ASSUME RaceInv, Built, NEW x \in Users, NEW opt \in Options, CheckStart(x, opt)
  PROVE  IntactInv'
  <1>1. /\ check'.user = x /\ check'.files = {} /\ check'.at = "files" /\ check'.last = 0
        /\ UNCHANGED <<sent, messages, files, sending, request>>
    BY DEF CheckStart, Ended, tgVars, handlerVars
  <1>2. TypeOK /\ OwnInv /\ OwnersAgree
    BY DEF RaceInv, CheckInv
  <1> SUFFICES ASSUME NEW i \in intact', Filled(i)
               PROVE  (IntactRow(i) /\ IntactLoaded(i) /\ IntactJudged(i))'
    BY DEF IntactInv, Filled
  <1>3. PICK f \in FilesOf(x, {"active"}) :
          /\ i = [id |-> f, row |-> files[f]]
          /\ files[f].size = Len(files[f].parts)
          /\ PartSet(files[f].parts) \cap RowIds(uploads') = {}
    BY DEF CheckStart
  <1>4. PICK row : row = files[f]
    OBVIOUS
  <1>5. i.id = f /\ i.row = row
    BY <1>3, <1>4
  <1>6. /\ f \in Existing /\ f \in DOMAIN files /\ f \in Nat /\ f # 0
        /\ row \in FileRow /\ row.user = x /\ row.status = "active"
    BY <1>2, <1>3, <1>4, FileFacts DEF FilesOf, Existing
  <1>7. Proper(row.parts)
    BY <1>4, <1>6 DEF Built
  <1>8. ASSUME NEW m \in PartSet(row.parts)
        PROVE  Loose(m)' /\ OwnerOf(m)' = x
    <2>1. m \in DOMAIN sent /\ m \notin sending
      BY <1>2, <1>4, <1>6 DEF TypeOK, FilesOK, OwnInv, SendingApart
    <2>2. \A u \in UploadIds : request[u].op # "none" => m \notin PartSet(request[u].parts)
      BY <1>2, <1>4, <1>6 DEF OwnInv, RequestsOwn
    <2>3. OwnerOf(m) = x
      BY <1>2, <1>4, <1>6 DEF OwnersAgree
    <2>4. OwnerOf(m)' = x
      BY <1>1, <2>3 DEF OwnerOf
    <2>5. m \notin RowIds(uploads')
      BY <1>3, <1>4
    <2> QED
      BY <1>1, <2>1, <2>2, <2>4, <2>5 DEF Loose
  <1>9. IntactRow(i)'
    BY <1>1, <1>3, <1>4, <1>5, <1>6, <1>7, <1>8 DEF IntactRow, Filled
  <1>10. IntactLoaded(i)' /\ IntactJudged(i)'
    BY <1>1, <1>5, <1>6 DEF IntactLoaded, IntactJudged, Judged
  <1> QED
    BY <1>9, <1>10

\* A page holds every wanted row up to its last one, and a short page all
\* that are left.
LEMMA PageWhole ==
  ASSUME TypeOK, ProcOK(check), NEW x, NEW statuses, NEW f \in FilesOf(x, statuses),
         f > check.last,
         \/ \E p \in Page(FilesOf(x, statuses)) : f <= p
         \/ Cardinality(Page(FilesOf(x, statuses))) < BatchSize
  PROVE  f \in Page(FilesOf(x, statuses))
  <1>1. PICK ids, last, n : ids = FilesOf(x, statuses) /\ last = check.last /\ n = Len(files)
    OBVIOUS
  <1>2. ids \subseteq 1..n /\ n \in Nat /\ last \in Nat /\ BatchSize \in Nat
    BY <1>1, PageFacts DEF ProcOK, CheckAssumption
  <1> DEFINE between(k) == {g \in ids : last < g /\ g < k}
  <1>3. Page(ids) = {k \in ids : k > last /\ Cardinality(between(k)) < BatchSize}
    BY <1>1 DEF Page
  <1>4. IsFiniteSet(1..n)
    BY <1>2, FS_Interval
  <1>5. \A S \in SUBSET ids : IsFiniteSet(S) /\ Cardinality(S) \in Nat
    BY <1>2, <1>4, FS_Subset, FS_CardinalityType
  <1>6. \A S, T \in SUBSET ids : S \subseteq T => Cardinality(S) <= Cardinality(T)
    BY <1>5, FS_Subset
  <1>7. \A S, T \in SUBSET ids :
           S \subseteq T /\ Cardinality(T) < BatchSize => Cardinality(S) < BatchSize
    BY <1>2, <1>5, <1>6
  <1>8. CASE \E p \in Page(ids) : f <= p
    <2>1. PICK p \in Page(ids) : f <= p
      BY <1>8
    <2>2. p \in ids /\ Cardinality(between(p)) < BatchSize
      BY <1>3, <2>1
    <2>3. between(f) \subseteq between(p)
      BY <1>1, <1>2, <2>1, <2>2
    <2>4. Cardinality(between(f)) < BatchSize
      BY <1>7, <2>2, <2>3
    <2> QED
      BY <1>1, <1>3, <2>4
  <1>9. CASE Cardinality(Page(ids)) < BatchSize
    <2>1. SUFFICES ASSUME f \notin Page(ids) PROVE FALSE
      BY <1>1
    <2> DEFINE left == {k \in ids : k > last /\ k \notin Page(ids)}
    <2>2. f \in left /\ left \subseteq Nat
      BY <1>1, <1>2, <2>1
    <2>3. PICK k \in left : \A j \in left : k <= j
      BY <2>2, LeastNumber
    <2>4. between(k) \subseteq Page(ids)
      <3> SUFFICES ASSUME NEW g \in between(k), g \notin Page(ids) PROVE FALSE
        OBVIOUS
      <3>1. g \in left /\ g < k /\ g \in Nat /\ k \in Nat
        BY <1>2, <2>2
      <3> QED
        BY <2>3, <3>1
    <2>5. Cardinality(between(k)) < BatchSize
      <3>1. Page(ids) \subseteq ids
        BY <1>3
      <3> QED
        BY <1>7, <1>9, <2>4, <3>1
    <2>6. k \in Page(ids)
      BY <1>3, <2>3, <2>5
    <2> QED
      BY <2>3, <2>6
  <1> QED
    BY <1>1, <1>8, <1>9

\* What an intact row is to CheckLoadPage.
LEMMA IntactLoads ==
  ASSUME RaceInv, CheckLoadPage, NEW i, IntactRow(i), IntactLoaded(i),
         files'[i.id] = i.row => files[i.id] = i.row
  PROVE  IntactLoaded(i)'
  <1>0. ProcOK(check) /\ TypeOK
    BY ProcFacts DEF RaceInv
  <1>1. PICK wanted, page : "active" \in wanted /\ Loaded(wanted, page)
    BY <1>0, LoadShape
  <1> SUFFICES ASSUME files[i.id] = i.row
               PROVE  /\ \A f \in check'.files :
                            f.id = i.id => f.parts = i.row.parts /\ f.size = i.row.size
                      /\ check'.at = "files" /\ i.id <= check'.last => Recorded(i)'
                      /\ check'.at \in {"count", "messages", "uploads"} => Recorded(i)'
    BY DEF IntactLoaded
  <1>2. check.at = "files"
    BY DEF CheckLoadPage
  <1>3. ASSUME NEW f \in check'.files, f.id = i.id
        PROVE  f.parts = i.row.parts /\ f.size = i.row.size
    BY <1>1, <1>3 DEF Loaded, Entry, IntactLoaded
  <1>4. Recorded(i) => Recorded(i)'
    BY <1>1 DEF Loaded, Recorded
  <1>5. i.id \in page => Recorded(i)'
    <2>1. i.id \in page => Entry(i.id) \in check'.files
      BY <1>1 DEF Loaded
    <2>2. Entry(i.id).id = i.id
      BY DEF Entry
    <2> QED
      BY <2>1, <2>2 DEF Recorded
  <1>6. i.id \in FilesOf(check.user, wanted) /\ i.id \in Nat /\ check.last \in Nat
    BY <1>0, <1>1, FileFacts DEF FilesOf, IntactRow, ProcOK
  <1>7. CASE i.id <= check.last
    BY <1>2, <1>3, <1>4, <1>7 DEF IntactLoaded
  <1>8. CASE i.id > check.last
    <2>1. check'.at # "files" => i.id \in page
      BY <1>0, <1>1, <1>6, <1>8, PageWhole DEF Loaded
    <2>2. i.id <= check'.last => i.id \in page
      <3>1. page # {} => check'.last \in page
        BY <1>0, <1>1, PageFacts DEF Loaded
      <3>2. page = {} => ~(i.id <= check'.last)
        BY <1>1, <1>6, <1>8 DEF Loaded
      <3> QED
        BY <1>0, <1>1, <1>6, <1>8, <3>1, <3>2, PageWhole DEF Loaded
    <2> QED
      BY <1>3, <1>5, <2>1, <2>2
  <1> QED
    BY <1>6, <1>7, <1>8

\* A list without repetitions is as long as the set of its members is large.
LEMMA ProperCount ==
  ASSUME NEW s \in Seq(Nat), Proper(s)
  PROVE  Cardinality(PartSet(s)) = Len(s)
  <1>1. DOMAIN s = 1..Len(s) /\ Len(s) \in Nat
    OBVIOUS
  <1>2. IsFiniteSet(1..Len(s)) /\ Cardinality(1..Len(s)) = Len(s)
    BY <1>1, CountTo
  <1>3. s \in [1..Len(s) -> PartSet(s)] /\ IsInjective(s)
    BY <1>1 DEF PartSet, Proper, IsInjective
  <1>4. \A m \in PartSet(s) : \E j \in 1..Len(s) : s[j] = m
    BY <1>1 DEF PartSet
  <1>5. ExistsBijection(1..Len(s), PartSet(s))
    BY <1>3, <1>4 DEF ExistsBijection, Bijection, Injection, Surjection
  <1> QED
    BY <1>2, <1>5, FS_Bijection

\* Nothing is missing from an intact row, and no part of it is an orphan.
LEMMA IntactSpared ==
  ASSUME RaceInv, NEW i, IntactRow(i), IntactLoaded(i), IntactJudged(i),
         check.at = "uploads", ~check.cut, files[i.id] = i.row,
         PartSet(i.row.parts) \subseteq messages
  PROVE  i.id \notin MissingFound /\ PartSet(i.row.parts) \cap OrphansFound = {}
  <1>1. PICK s : s = i.row.parts
    OBVIOUS
  <1>2. s \in Seq(Nat) /\ Proper(s) /\ i.row.size = Len(s)
    BY <1>1 DEF IntactRow, FileRow
  <1>3. PartSet(s) \subseteq Known
    <2>1. PendingParts \subseteq RowIds(uploads)
      BY DEF PendingParts, UploadsOf, RowIds
    <2>2. PartSet(s) \subseteq check.msgs
      BY <1>1 DEF IntactJudged
    <2>3. \A m \in PartSet(s) : m \notin RowIds(uploads)
      BY <1>1 DEF IntactRow, Loose
    <2> QED
      BY <2>1, <2>2, <2>3 DEF Known
  <1>4. ASSUME NEW f \in check.files, f.id = i.id
        PROVE  SeenParts(f, Known) = PartSet(s) /\ ~Incomplete(f, Known)
    <2>1. f.parts = s /\ f.size = Len(s)
      BY <1>1, <1>2, <1>4 DEF IntactLoaded
    <2>2. \A j \in DOMAIN s : \A k \in 1..(j - 1) : s[k] \in Known
      <3>1. \A j \in DOMAIN s : \A k \in 1..(j - 1) : k \in DOMAIN s
        BY <1>2
      <3> QED
        BY <1>3, <3>1 DEF PartSet
    <2>3. SeenParts(f, Known) = PartSet(s)
      BY <2>1, <2>2 DEF SeenParts, PartSet
    <2>4. PartSet(s) \cap Known = PartSet(s)
      BY <1>3
    <2>5. ~Incomplete(f, Known)
      BY <1>2, <1>3, <2>1, <2>3, <2>4, ProperCount DEF Incomplete
    <2> QED
      BY <2>3, <2>5
  <1>5. i.id \notin MissingFound
    BY <1>4 DEF MissingFound
  <1>6. PICK f \in check.files : f.id = i.id
    BY DEF IntactLoaded, Recorded
  <1> QED
    BY <1>1, <1>4, <1>5, <1>6 DEF OrphansFound

LEMMA StepUser ==
  ASSUME RaceInv, CheckStep \/ CheckError, check' # Ended
  PROVE  check'.user = check.user
  <1>0. ProcOK(check)
    BY ProcFacts DEF RaceInv
  <1>1. CASE CheckLoadPage
    BY <1>0, <1>1, LoadShape DEF Loaded
  <1>2. CASE CheckJudge
    BY <1>0, <1>2, JudgeShape DEF ProcOK
  <1>3. CASE ~(CheckLoadPage \/ CheckJudge)
    BY <1>0, <1>3 DEF CheckStep, CheckError, CheckCount, CheckLoadMessages, CheckCleanPending,
      CheckMarkMissing, CheckDeleteOrphans, GoesOn, ProcOK
  <1> QED
    BY <1>1, <1>2, <1>3

LEMMA IntactStep ==
  ASSUME RaceInv, CheckStep \/ CheckError, check' # Ended,
         NEW i, IntactRow(i), IntactLoaded(i), IntactJudged(i),
         files'[i.id] = i.row => files[i.id] = i.row,
         PartSet(i.row.parts) \subseteq messages' => PartSet(i.row.parts) \subseteq messages
  PROVE  IntactLoaded(i)' /\ IntactJudged(i)'
  <1>0. ProcOK(check) /\ TypeOK
    BY ProcFacts DEF RaceInv
  <1>1. CASE CheckLoadPage
    <2>1. PICK wanted, page : Loaded(wanted, page)
      BY <1>0, <1>1, LoadShape
    <2>2. check'.user = check.user /\ check'.at \in {"files", "count"}
      BY <2>1 DEF Loaded
    <2>3. IntactJudged(i)'
      BY <2>2 DEF IntactJudged, Judged
    <2> QED
      BY <1>1, <2>2, <2>3, IntactLoads
  <1>2. CASE CheckCount
    <2>1. /\ check'.user = check.user /\ check'.files = check.files
          /\ check.at = "count" /\ check'.at = "messages"
      BY <1>0, <1>2 DEF CheckCount, GoesOn, ProcOK
    <2> QED
      BY <2>1 DEF IntactLoaded, IntactJudged, Judged, Recorded
  <1>3. CASE \E got \in SUBSET Channel(check.user) : CheckLoadMessages(got)
    <2>1. PICK got \in SUBSET Channel(check.user) : CheckLoadMessages(got)
      BY <1>3
    <2>2. PICK cut \in BOOLEAN : cut = (got # Channel(check.user))
      OBVIOUS
    <2>3. check' = [check EXCEPT !.msgs = got, !.at = "uploads", !.cut = cut]
      BY <2>1, <2>2 DEF CheckLoadMessages, GoesOn
    <2>4. /\ check.at = "messages" /\ check'.at = "uploads" /\ check'.msgs = got
          /\ check'.cut = cut /\ check'.user = check.user /\ check'.files = check.files
      BY <1>0, <2>1, <2>3 DEF ProcOK, CheckLoadMessages
    <2>5. PartSet(i.row.parts) \cap messages \subseteq Channel(check.user)
      BY DEF IntactRow, OwnerOf, Channel
    <2>6. IntactLoaded(i)'
      BY <2>4 DEF IntactLoaded, Recorded
    <2>7. IntactJudged(i)'
      BY <2>2, <2>4, <2>5 DEF IntactJudged, Judged
    <2> QED
      BY <2>4, <2>6, <2>7
  <1>4. CASE CheckJudge
    <2>1. PICK missing, orphans : missing = MissingFound /\ orphans = OrphansFound
      OBVIOUS
    <2>2. check' = [check EXCEPT !.missing = missing, !.orphans = orphans,
                                 !.files = {}, !.msgs = {}, !.last = 0, !.total = 0,
                                 !.at = "pending"]
      BY <1>4, <2>1, JudgeShape
    <2>3. /\ check'.at = "pending" /\ check'.orphans = OrphansFound /\ check'.cut = check.cut
          /\ check'.missing = MissingFound /\ check'.files = {} /\ check'.user = check.user
      BY <1>0, <2>1, <2>2 DEF ProcOK
    <2>4. check.at = "uploads"
      BY <1>4 DEF CheckJudge
    <2>5. IntactLoaded(i)'
      BY <2>3 DEF IntactLoaded
    <2>6. IntactJudged(i)'
      BY <2>3, <2>4, IntactSpared DEF IntactJudged
    <2> QED
      BY <2>3, <2>5, <2>6
  <1>5. CASE CheckCleanPending \/ CheckMarkMissing
    <2>1. /\ Judged /\ check'.at \in {"missing", "orphans"} /\ check'.cut = check.cut
          /\ check'.orphans = check.orphans /\ check'.missing = check.missing
          /\ check'.files = check.files /\ check'.user = check.user
      BY <1>0, <1>5 DEF CheckCleanPending, CheckMarkMissing, GoesOn, ProcOK, Judged
    <2> QED
      BY <2>1 DEF IntactLoaded, IntactJudged
  <1>6. ~CheckError /\ ~ \E gone \in SUBSET check.orphans : CheckDeleteOrphans(gone)
    BY DEF CheckError, CheckDeleteOrphans, GoesOn
  <1> QED
    BY <1>1, <1>2, <1>3, <1>4, <1>5, <1>6 DEF CheckStep

LEMMA IntactNext ==
  ASSUME RaceInv, Built, IntactInv, "byparts" \notin Habits, [CheckNext]_allVars
  PROVE  IntactInv'
  <1>0. TypeOK /\ StepShape /\ FilesShape
    BY AllSteps DEF RaceInv, CheckInv
  <1>1. CASE \E x \in Users, opt \in Options : CheckStart(x, opt)
    BY <1>1, IntactStart
  <1>2. CASE CheckStep \/ CheckError
    <2>1. CASE check' = Ended
      BY <1>2, <2>1, GhostsStay DEF IntactInv
    <2>2. CASE ~(check' = Ended)
      <3>1. intact' = intact
        BY <1>2, <2>2, GhostsStay
      <3>2. ASSUME NEW i \in intact, Filled(i)
            PROVE  (IntactRow(i) /\ IntactLoaded(i) /\ IntactJudged(i))'
        <4>1. IntactRow(i) /\ IntactLoaded(i) /\ IntactJudged(i)
          BY <3>2 DEF IntactInv
        <4>2. check'.user = check.user
          BY <1>2, <2>2, <4>1, StepUser
        <4> QED
          BY <1>0, <1>2, <2>2, <4>1, <4>2, IntactRowStays, IntactStep
      <3> QED
        BY <3>1, <3>2 DEF IntactInv, Filled
    <2> QED
      BY <2>1, <2>2
  <1>3. CASE UNCHANGED checkVars
    <2>1. check' = check /\ intact' = intact
      BY <1>3 DEF checkVars
    <2>2. ASSUME NEW i \in intact, Filled(i)
          PROVE  (IntactRow(i) /\ IntactLoaded(i) /\ IntactJudged(i))'
      <3>1. IntactRow(i) /\ IntactLoaded(i) /\ IntactJudged(i)
        BY <2>2 DEF IntactInv
      <3>2. /\ IntactRow(i)'
            /\ files'[i.id] = i.row => files[i.id] = i.row
            /\ PartSet(i.row.parts) \subseteq messages'
               => PartSet(i.row.parts) \subseteq messages
        BY <1>0, <2>1, <3>1, IntactRowStays
      <3>3. IntactLoaded(i)' /\ IntactJudged(i)'
        BY <2>1, <3>1, <3>2 DEF IntactLoaded, IntactJudged, Judged, Recorded
      <3> QED
        BY <3>2, <3>3
    <2> QED
      BY <2>1, <2>2 DEF IntactInv, Filled
  <1> QED
    BY <1>1, <1>2, <1>3 DEF CheckNext, allVars

\* What IntactKept says of one row.
Untouched(i) ==
    /\ check' # check /\ check.at # "idle" /\ ~check.cut
    /\ files[i.id] = i.row
    /\ PartSet(i.row.parts) \subseteq messages
    => files'[i.id] = i.row /\ PartSet(i.row.parts) \subseteq messages'

LEMMA IntactUntouched ==
  ASSUME IntactInv, [CheckNext]_allVars, NEW i \in intact, Filled(i)
  PROVE  Untouched(i)
  <1> SUFFICES ASSUME check' # check, check.at # "idle", ~check.cut, files[i.id] = i.row,
                      PartSet(i.row.parts) \subseteq messages
               PROVE  files'[i.id] = i.row /\ PartSet(i.row.parts) \subseteq messages'
    BY DEF Untouched
  <1>1. IntactRow(i) /\ IntactJudged(i)
    BY DEF IntactInv
  <1>2. CheckStep \/ CheckError
    BY DEF CheckNext, CheckStart, allVars, checkVars
  <1>3. CASE CheckCleanPending
    <2>1. /\ messages' = messages
          /\ \A f \in DOMAIN files :
                f \notin FilesOf(check.user, {"pending_deletion"}) => files'[f] = files[f]
      BY <1>3 DEF CheckCleanPending, tgVars
    <2>2. i.id \in DOMAIN files /\ i.id \notin FilesOf(check.user, {"pending_deletion"})
      BY <1>1 DEF IntactRow, FilesOf
    <2> QED
      BY <2>1, <2>2
  <1>4. CASE CheckMarkMissing
    <2>1. /\ messages' = messages
          /\ \A f \in DOMAIN files : f \notin check.missing => files'[f] = files[f]
      BY <1>4 DEF CheckMarkMissing, tgVars
    <2>2. i.id \in DOMAIN files /\ i.id \notin check.missing
      BY <1>1, <1>4 DEF IntactRow, IntactJudged, Judged, CheckMarkMissing
    <2> QED
      BY <2>1, <2>2
  <1>5. ASSUME NEW gone \in SUBSET check.orphans, CheckDeleteOrphans(gone)
        PROVE  files'[i.id] = i.row /\ PartSet(i.row.parts) \subseteq messages'
    <2>1. files' = files /\ messages' = messages \ gone /\ Judged
      BY <1>5 DEF CheckDeleteOrphans, dbVars, Judged
    <2>2. PartSet(i.row.parts) \cap check.orphans = {}
      BY <1>1, <2>1 DEF IntactJudged
    <2> QED
      BY <2>1, <2>2
  <1>6. CASE UNCHANGED vars
    BY <1>6 DEF vars, tgVars, dbVars
  <1> QED
    BY <1>2, <1>3, <1>4, <1>5, <1>6 DEF CheckStep, CheckError, CheckLoadPage, CheckCount,
      CheckLoadMessages, CheckJudge

\* For any number of users, uploads, files and pages, beside any clients that
\* name no part ids: no step of the command takes anything away from a file
\* with parts that was complete when it began and whose row has not changed
\* since, unless the list of messages was cut short.
THEOREM FilledIsKept ==
  ASSUME "byparts" \notin Habits
  PROVE  CheckSpec => [][\A i \in intact : i.row.parts # << >> => Untouched(i)]_allVars
  <1>1. RaceInv /\ [CheckNext]_allVars => RaceInv'
    BY RaceNext
  <1>2. RaceInv /\ Built /\ [CheckNext]_allVars => Built'
    BY AllSteps, BuiltNext DEF RaceInv, CheckInv
  <1>3. RaceInv /\ Built /\ IntactInv /\ [CheckNext]_allVars => IntactInv'
    BY IntactNext
  <1>4. CheckInit => IntactInv
    BY DEF CheckInit, IntactInv
  <1>5. IntactInv /\ [CheckNext]_allVars
        => \A i \in intact : i.row.parts # << >> => Untouched(i)
    BY IntactUntouched DEF Filled
  <1> QED
    BY <1>1, <1>2, <1>3, <1>4, <1>5, RaceInit, BuiltInit, PTL DEF CheckSpec

\* Plain clients make no file without parts.
NoneEmpty ==
    /\ \A u \in UploadIds : request[u].op # "none" => request[u].parts # << >>
    /\ \A f \in Existing : files[f].parts # << >>
    /\ \A i \in intact : Filled(i)

LEMMA NoneEmptyNext ==
  ASSUME NoneEmpty, StepShape, FilesShape, Plain, [CheckNext]_allVars
  PROVE  NoneEmpty'
  <1>1. ASSUME NEW u \in UploadIds, request'[u].op # "none"
        PROVE  request'[u].parts # << >>
    BY <1>1, PartSetEmpty DEF StepShape, NewRequest, NoneEmpty
  <1>2. ASSUME NEW f \in Existing'
        PROVE  files'[f].parts # << >>
    <2>1. CASE f \in DOMAIN files /\ Marked(files[f], files'[f])
      <3>1. f \in Existing /\ files'[f].parts = files[f].parts
        BY <1>2, <2>1 DEF Existing, Marked
      <3> QED
        BY <3>1 DEF NoneEmpty
    <2>2. ASSUME NEW u \in UploadIds, request[u].op # "none", FileWritten(u, f)
          PROVE  files'[f].parts # << >>
      BY <2>2 DEF FileWritten, Existing, NoneEmpty
    <2> QED
      BY <1>2, <2>1, <2>2 DEF FilesShape, Existing
  <1>3. ASSUME NEW i \in intact'
        PROVE  Filled(i)
    <2>1. CASE \E x \in Users, opt \in Options : CheckStart(x, opt)
      <3>1. PICK f : f \in Existing /\ i = [id |-> f, row |-> files[f]]
        BY <1>3, <2>1 DEF CheckStart, FilesOf, Existing
      <3> QED
        BY <3>1 DEF NoneEmpty, Filled
    <2>2. CASE CheckStep \/ CheckError
      BY <1>3, <2>2, GhostsStay DEF NoneEmpty
    <2>3. CASE UNCHANGED checkVars
      BY <1>3, <2>3 DEF NoneEmpty, checkVars
    <2> QED
      BY <2>1, <2>2, <2>3 DEF CheckNext, allVars
  <1> QED
    BY <1>1, <1>2, <1>3 DEF NoneEmpty, Filled

\* The same for every file that was complete, if clients also do not repeat a
\* request whose answer they lost and look at the age of the parts before
\* they ask for a file.
THEOREM IntactIsKept ==
  ASSUME Plain
  PROVE  CheckSpec => IntactKept
  <1>0. "byparts" \notin Habits
    BY DEF Plain
  <1>1. RaceInv /\ [CheckNext]_allVars => RaceInv'
    BY <1>0, RaceNext
  <1>2. RaceInv /\ Built /\ [CheckNext]_allVars => Built'
    BY <1>0, AllSteps, BuiltNext DEF RaceInv, CheckInv
  <1>3. RaceInv /\ Built /\ IntactInv /\ [CheckNext]_allVars => IntactInv'
    BY <1>0, IntactNext
  <1>4. RaceInv /\ NoneEmpty /\ [CheckNext]_allVars => NoneEmpty'
    BY <1>0, AllSteps, NoneEmptyNext DEF RaceInv, CheckInv
  <1>5. CheckInit => IntactInv /\ NoneEmpty
    BY DEF CheckInit, Init, IntactInv, NoneEmpty, Existing, NoRequest
  <1>6. IntactInv /\ NoneEmpty /\ [CheckNext]_allVars => \A i \in intact : Untouched(i)
    BY IntactUntouched DEF NoneEmpty
  <1> QED
    BY <1>1, <1>2, <1>3, <1>4, <1>5, <1>6, RaceInit, BuiltInit, PTL
    DEF CheckSpec, IntactKept, Untouched
=============================================================================
