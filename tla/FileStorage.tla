---------------------------- MODULE FileStorage ----------------------------
(***************************************************************************)
(* Where the content of a file lives and who may throw it away.            *)
(*                                                                         *)
(* Content is held in Telegram messages.  UploadsUpload sends a message    *)
(* and then inserts a row into "uploads"; FilesCreate or FilesUpdate reads *)
(* the rows of an upload id and then, in one transaction, writes the parts *)
(* into a row of "files" and deletes the upload rows.  FilesDelete marks a *)
(* file; the cron jobs cleanFiles and cleanUploads take a snapshot, delete *)
(* the messages of a group of rows and then the rows.  Telegram and the    *)
(* database share no transaction, and the server may restart between any   *)
(* two steps.                                                              *)
(*                                                                         *)
(* Sources: pkg/services/upload.go, pkg/services/file.go, pkg/cron/cron.go *)
(* and DeleteMessages of internal/tgc/helpers.go.  Each user has one       *)
(* channel, a part has size 1, and names stand for (name, parent) pairs.   *)
(***************************************************************************)
EXTENDS Naturals, Sequences, FiniteSets

CONSTANTS
    Users,          \* accounts, each with one channel
    UploadIds,      \* upload ids that clients use
    Owner,          \* the user of an upload id
    Name,           \* the file name an upload id is meant for
    PartCount,      \* PartCount[u]: parts that the file of upload u is cut into
    Hashing,        \* whether the client asks for block hashes
    Retention,      \* TG.Uploads.Retention
    Habits,         \* what clients and the environment may do, see below
    MaxTime, MaxMessages, MaxFiles, MaxRestarts     \* bounds

(* "overlap": a part is sent again while its last request may still run.   *)
(* "stale":   a file is created from parts whose age was not looked at.    *)
(* "retry":   FilesCreate/FilesUpdate is called again after a lost answer. *)
(* "byparts": the client passes the part ids itself and calls              *)
(*            UploadsDelete afterwards, or never does.                     *)
(* "slow":    time passes between the read and the commit of a request.    *)
(* "logout":  users end their last session.                                *)
AllHabits == {"overlap", "stale", "retry", "byparts", "slow", "logout"}

ASSUME StorageAssumption ==
    /\ Owner \in [UploadIds -> Users]
    /\ PartCount \in [UploadIds -> Nat \ {0}]
    /\ Hashing \in BOOLEAN
    /\ Retention \in Nat
    /\ Habits \subseteq AllHabits
    /\ {MaxTime, MaxMessages, MaxFiles, MaxRestarts} \subseteq Nat

PartNos(u) == 1..PartCount[u]
Names == {Name[u] : u \in UploadIds}

VARIABLES
    now,        \* the clock
    restarts,   \* how often the server has restarted (bounded)
    sent,       \* sent[m]: what message m carries (ghost, never shrinks)
    messages,   \* the messages that exist in Telegram
    uploads,    \* rows of teldrive.uploads
    files,      \* rows of teldrive.files by id; "deleted" is no row
    sessions,   \* users with a row in teldrive.sessions
    sending,    \* UploadsUpload between the message and the insert
    request,    \* FilesCreate/FilesUpdate between the read and the commit
    fileJob,    \* cleanFiles
    uploadJob,  \* cleanUploads
    acked,      \* client: the part id it was told for a part, 0 for none
    doubt,      \* client: parts whose answer was lost
    outcome,    \* client: "open", "done" or "doubt" for each upload
    abandoned   \* messages that no cleaning will ever find (ghost)

dbVars == <<uploads, files, sessions>>
tgVars == <<sent, messages>>
handlerVars == <<sending, request>>
jobVars == <<fileJob, uploadJob>>
clientVars == <<acked, doubt, outcome>>
vars == <<now, restarts, tgVars, dbVars, handlerVars, jobVars, clientVars,
          abandoned>>

MessageIds == 1..MaxMessages
FileStatus == {"active", "pending_deletion", "deleted"}

NoRequest == [op |-> "none", file |-> 0, size |-> 0, parts |-> << >>]
IdleJob == [at |-> "idle", todo |-> {}, group |-> {}]

PartSet(parts) == {parts[i] : i \in DOMAIN parts}
PartsOf(fs) == UNION {PartSet(files[f].parts) : f \in fs}
RowIds(rows) == {r.part_id : r \in rows}

RowsOf(u) == {r \in uploads : r.upload_id = u}

\* Fault: the retention window is not looked at.
AnyRows(u) == RowsOf(u)

\* Where("created_at > ?", now - Retention): what FilesCreate and
\* FilesUpdate read.
ReadableRows(u) == {r \in RowsOf(u) : r.created_at + Retention > now}

\* Order("part_no"): rows of equal number come in any order.
InPartOrder(rows) ==
    {s \in [1..Cardinality(rows) -> RowIds(rows)] :
        /\ PartSet(s) = RowIds(rows)
        /\ \A i, j \in DOMAIN s :
              i < j => sent[s[i]].part_no <= sent[s[j]].part_no}

\* What UploadsPartsById returns: it also asks for block hashes.
ListedRows(u) == IF Hashing THEN ReadableRows(u) ELSE {}

\* What a job keeps of its scan: the groups, one for each user.
FileGroup == [user : Users, session : BOOLEAN, ids : SUBSET DOMAIN files,
              parts : SUBSET DOMAIN sent]
UploadGroup == [user : Users, session : BOOLEAN, parts : SUBSET DOMAIN sent]

SendingFor(u) == {m \in sending : sent[m].upload_id = u}

SentOK ==
    /\ sent \in Seq([upload_id : UploadIds, part_no : Nat])
    /\ Len(sent) <= MaxMessages
    /\ \A m \in DOMAIN sent : sent[m].part_no \in PartNos(sent[m].upload_id)
    /\ messages \subseteq DOMAIN sent
    /\ abandoned \subseteq DOMAIN sent

RowsOK ==
    /\ uploads \subseteq [part_id : DOMAIN sent, upload_id : UploadIds,
                          part_no : Nat, created_at : 0..now]
    /\ \A r \in uploads : sent[r.part_id] =
                             [upload_id |-> r.upload_id, part_no |-> r.part_no]
    /\ sending \subseteq DOMAIN sent \ RowIds(uploads)

\* The unique index on (name, parent, user) of the active files included.
FilesOK ==
    /\ files \in Seq([name : Names, user : Users, status : FileStatus,
                      parts : Seq(Nat), size : Nat])
    /\ \A f \in DOMAIN files : PartSet(files[f].parts) \subseteq DOMAIN sent
    /\ \A f, g \in DOMAIN files :
          /\ files[f].status = "active" /\ files[g].status = "active"
          /\ files[f].name = files[g].name /\ files[f].user = files[g].user
          => f = g

RequestsOK ==
    /\ request \in [UploadIds -> [op : {"none", "create", "update"},
                                  file : Nat, size : Nat, parts : Seq(Nat)]]
    /\ \A u \in UploadIds :
          /\ PartSet(request[u].parts) \subseteq DOMAIN sent
          /\ request[u].op = "update" => request[u].file \in DOMAIN files
          /\ request[u].op # "none" /\ request[u].size = 0
             => request[u].parts = << >>

JobsOK ==
    /\ fileJob \in [at : {"idle", "groups", "rows"},
                    todo : SUBSET FileGroup, group : SUBSET FileGroup]
    /\ uploadJob \in [at : {"idle", "groups", "rows"},
                      todo : SUBSET UploadGroup, group : SUBSET UploadGroup]

ClientsOK ==
    /\ DOMAIN acked = UploadIds
    /\ \A u \in UploadIds : acked[u] \in [PartNos(u) -> {0} \cup DOMAIN sent]
    /\ doubt \subseteq UNION {{u} \X PartNos(u) : u \in UploadIds}
    /\ outcome \in [UploadIds -> {"open", "done", "doubt"}]

TypeOK ==
    /\ now \in 0..MaxTime
    /\ restarts \in 0..MaxRestarts
    /\ sessions \subseteq Users
    /\ SentOK /\ RowsOK /\ FilesOK /\ RequestsOK /\ JobsOK /\ ClientsOK

Init ==
    /\ now = 0
    /\ restarts = 0
    /\ sent = << >>
    /\ messages = {}
    /\ uploads = {}
    /\ files = << >>
    /\ sessions = Users
    /\ sending = {}
    /\ request = [u \in UploadIds |-> NoRequest]
    /\ fileJob = IdleJob
    /\ uploadJob = IdleJob
    /\ acked = [u \in UploadIds |-> [p \in PartNos(u) |-> 0]]
    /\ doubt = {}
    /\ outcome = [u \in UploadIds |-> "open"]
    /\ abandoned = {}

----------------------------------------------------------------------------
(* UploadsUpload.                                                          *)

\* The message is sent (uploadToTelegram).  A client that does not overlap
\* its requests sends a part once more only after an error answer, or after
\* it has found with UploadsPartsById that the server does not have it.
UploadSend(u, p) ==
    /\ Len(sent) < MaxMessages
    /\ outcome[u] = "open"
    /\ request[u] = NoRequest
    /\ acked[u][p] = 0
    /\ \/ "overlap" \in Habits
       \/ /\ <<u, p>> \notin doubt
          /\ \A m \in SendingFor(u) : sent[m].part_no # p
    /\ sent' = Append(sent, [upload_id |-> u, part_no |-> p])
    /\ messages' = messages \cup {Len(sent) + 1}
    /\ sending' = sending \cup {Len(sent) + 1}
    /\ UNCHANGED <<now, restarts, dbVars, request, jobVars, clientVars,
                   abandoned>>

\* db.Create(partUpload) and the answer, which may be lost on its way.
UploadInsert(m, answered) ==
    LET u == sent[m].upload_id
        p == sent[m].part_no IN
    /\ m \in sending
    /\ uploads' = uploads \cup {[part_id |-> m, upload_id |-> u,
                                 part_no |-> p, created_at |-> now]}
    /\ sending' = sending \ {m}
    /\ acked' = IF answered THEN [acked EXCEPT ![u][p] = m] ELSE acked
    /\ doubt' = IF answered THEN doubt ELSE doubt \cup {<<u, p>>}
    /\ UNCHANGED <<now, restarts, tgVars, files, sessions, request, jobVars,
                   outcome, abandoned>>

\* Any error after the message was sent: the document check, the hasher's
\* context or the insert.  Nobody deletes the message.
UploadError(m) ==
    /\ m \in sending
    /\ sending' = sending \ {m}
    /\ abandoned' = abandoned \cup {m}
    /\ UNCHANGED <<now, restarts, tgVars, dbVars, request, jobVars,
                   clientVars>>

\* The client asks which parts the server has, to resume an upload.
UploadsPartsById(u) ==
    /\ outcome[u] = "open"
    /\ "overlap" \in Habits \/ SendingFor(u) = {}
    /\ \E known \in [PartNos(u) -> {0} \cup RowIds(ListedRows(u))] :
          /\ \A p \in PartNos(u) :
                LET found == RowIds({r \in ListedRows(u) : r.part_no = p}) IN
                IF found = {} THEN known[p] = 0 ELSE known[p] \in found
          /\ acked' = [acked EXCEPT ![u] = known]
    /\ doubt' = {d \in doubt : d[1] # u}
    /\ UNCHANGED <<now, restarts, tgVars, dbVars, handlerVars, jobVars,
                   outcome, abandoned>>

\* Called to discard an upload, or to end one whose file was created from
\* part ids.  The rows go, the messages stay.
UploadsDelete(u) ==
    /\ request[u] = NoRequest
    /\ outcome[u] = "open" \/ "byparts" \in Habits
    /\ uploads' = uploads \ RowsOf(u)
    /\ abandoned' = abandoned \cup RowIds(RowsOf(u))
    /\ outcome' = [outcome EXCEPT ![u] = "done"]
    /\ UNCHANGED <<now, restarts, tgVars, files, sessions, handlerVars,
                   jobVars, acked, doubt>>

----------------------------------------------------------------------------
(* FilesCreate and FilesUpdate with content.                               *)

\* When a client asks for the file: it holds an answer for every part, and
\* one that is not "stale" has seen with UploadsPartsById, just before,
\* that the server would still read each of them.
ClientReady(u) ==
    /\ request[u] = NoRequest
    /\ outcome[u] = "open" \/ (outcome[u] = "doubt" /\ "retry" \in Habits)
    /\ \A p \in PartNos(u) : acked[u][p] # 0
    /\ \/ "stale" \in Habits
       \/ outcome[u] = "doubt"
       \/ /\ SendingFor(u) = {}
          /\ \A p \in PartNos(u) : acked[u][p] \in RowIds(ReadableRows(u))

\* FilesCreate up to the transaction: whatever rows there are become the
\* parts, and the size is the one the client declares.
FilesCreateRead(u) ==
    /\ ClientReady(u)
    /\ \E parts \in InPartOrder(ReadableRows(u)) :
          request' = [request EXCEPT ![u] =
                        [op |-> "create", file |-> 0, size |-> PartCount[u],
                         parts |-> parts]]
    /\ UNCHANGED <<now, restarts, tgVars, dbVars, sending, jobVars,
                   clientVars, abandoned>>

\* FilesUpdate up to the transaction; a size of 0 in the request is replaced
\* by the sum of the sizes of the rows.
FilesUpdateRead(u, f, size) ==
    /\ ClientReady(u)
    /\ f \in DOMAIN files
    /\ files[f].status = "active"
    /\ files[f].user = Owner[u]
    /\ \E parts \in InPartOrder(ReadableRows(u)) :
          request' = [request EXCEPT ![u] =
                        [op |-> "update", file |-> f,
                         size |-> IF size = 0 THEN Len(parts) ELSE size,
                         parts |-> parts]]
    /\ UNCHANGED <<now, restarts, tgVars, dbVars, sending, jobVars,
                   clientVars, abandoned>>

\* INSERT ... ON CONFLICT (name, parent, user) WHERE status = 'active' DO
\* UPDATE: "next" is files with the row of upload u in it.
InsertFile(u, parts, size, next) ==
    LET row == [name |-> Name[u], user |-> Owner[u], status |-> "active",
                parts |-> parts, size |-> size]
        conflict == {f \in DOMAIN files :
                        /\ files[f].status = "active"
                        /\ files[f].name = row.name
                        /\ files[f].user = row.user} IN
    \/ /\ conflict = {}
       /\ Len(files) < MaxFiles
       /\ next = Append(files, row)
    \/ \E f \in conflict : next = [files EXCEPT ![f] = row]

\* The messages that were parts of a file before and are not afterwards.
Replaced(next) ==
    UNION {PartSet(files[f].parts) \ PartSet(next[f].parts) :
             f \in DOMAIN files}

\* Fault: the upload rows are left to the cron job.
KeepUploads(u, parts) ==
    /\ uploads' = uploads
    /\ abandoned' = abandoned \cup Replaced(files')

\* Delete(&models.Upload{}) by upload id, in the same transaction.  Rows
\* that the read left out, because they had expired or came later, go too.
ConsumeUploads(u, parts) ==
    /\ uploads' = uploads \ RowsOf(u)
    /\ abandoned' = abandoned \cup Replaced(files')
                              \cup (RowIds(RowsOf(u)) \ PartSet(parts))

Answer(u, answered) ==
    outcome' = [outcome EXCEPT ![u] = IF answered THEN "done" ELSE "doubt"]

FilesCreateCommit(u, answered) ==
    /\ request[u].op = "create"
    /\ InsertFile(u, request[u].parts, request[u].size, files')
    /\ ConsumeUploads(u, request[u].parts)
    /\ request' = [request EXCEPT ![u] = NoRequest]
    /\ Answer(u, answered)
    /\ UNCHANGED <<now, restarts, tgVars, sessions, sending, jobVars, acked,
                   doubt>>

\* What gorm's Updates(updateDb) sets: parts and size together, or a size of
\* zero alone, or neither.
UpdatedRow(row, r) ==
    IF r.size # 0 /\ r.parts # << >>
    THEN [row EXCEPT !.parts = r.parts, !.size = r.size]
    ELSE IF r.size = 0 THEN [row EXCEPT !.size = 0] ELSE row

\* The update looks at the id only, so a file that is pending deletion is
\* updated as well; a row that is gone makes First fail and rolls back.
FilesUpdateCommit(u, answered) ==
    LET r == request[u] IN
    /\ r.op = "update"
    /\ files[r.file].status # "deleted"
    /\ files' = [files EXCEPT ![r.file] = UpdatedRow(@, r)]
    /\ ConsumeUploads(u, r.parts)
    /\ request' = [request EXCEPT ![u] = NoRequest]
    /\ Answer(u, answered)
    /\ UNCHANGED <<now, restarts, tgVars, sessions, sending, jobVars, acked,
                   doubt>>

\* The transaction fails and is rolled back; the client is told.
RequestError(u) ==
    /\ request[u] # NoRequest
    /\ request' = [request EXCEPT ![u] = NoRequest]
    /\ UNCHANGED <<now, restarts, tgVars, dbVars, sending, jobVars,
                   clientVars, abandoned>>

\* FilesCreate with the parts in the request: uploadId stays empty, so the
\* transaction deletes no upload row.
FilesCreateByParts(u, answered) ==
    /\ "byparts" \in Habits
    /\ request[u] = NoRequest
    /\ outcome[u] = "open"
    /\ \A p \in PartNos(u) : acked[u][p] # 0
    /\ InsertFile(u, acked[u], PartCount[u], files')
    /\ abandoned' = abandoned \cup Replaced(files')
    /\ Answer(u, answered)
    /\ UNCHANGED <<now, restarts, tgVars, uploads, sessions, handlerVars,
                   jobVars, acked, doubt>>

\* deleteFilesBulk for a file.
FilesDelete(f) ==
    /\ f \in DOMAIN files
    /\ files[f].status = "active"
    /\ files' = [files EXCEPT ![f].status = "pending_deletion"]
    /\ UNCHANGED <<now, restarts, tgVars, uploads, sessions, handlerVars,
                   jobVars, clientVars, abandoned>>

----------------------------------------------------------------------------
(* The cron jobs.  A job scans once and then works through the groups in   *)
(* the order in which the database returned them.                          *)

Pending(x) ==
    {f \in DOMAIN files : files[f].status = "pending_deletion"
                          /\ files[f].user = x}

Expired(x) ==
    {r \in uploads : r.created_at + Retention < now
                     /\ Owner[r.upload_id] = x}

FileGroups ==
    {[user |-> x, session |-> x \in sessions, ids |-> Pending(x),
      parts |-> PartsOf(Pending(x))] :
        x \in {y \in Users : Pending(y) # {}}}

UploadGroups ==
    {[user |-> x, session |-> x \in sessions, parts |-> RowIds(Expired(x))] :
        x \in {y \in Users : Expired(y) # {}}}

\* The job between two groups; after the last one it has ended.
JobWith(todo) ==
    IF todo = {} THEN IdleJob
    ELSE [at |-> "groups", todo |-> todo, group |-> {}]

\* The job at the row deletion of group g.
JobAtRows(job, g) ==
    [at |-> "rows", todo |-> job.todo \ {g}, group |-> {g}]

CleanFilesScan ==
    /\ fileJob.at = "idle"
    /\ FileGroups # {}
    /\ fileJob' = JobWith(FileGroups)
    /\ UNCHANGED <<now, restarts, tgVars, dbVars, handlerVars, uploadJob,
                   clientVars, abandoned>>

\* if row.Session == "" { break }: the groups that follow wait as well.
CleanFilesBreak(g) ==
    /\ fileJob.at = "groups"
    /\ g \in fileJob.todo
    /\ ~g.session
    /\ fileJob' = IdleJob
    /\ UNCHANGED <<now, restarts, tgVars, dbVars, handlerVars, uploadJob,
                   clientVars, abandoned>>

CleanFilesMessages(g) ==
    /\ fileJob.at = "groups"
    /\ g \in fileJob.todo
    /\ g.session
    /\ messages' = messages \ g.parts
    /\ fileJob' = JobAtRows(fileJob, g)
    /\ UNCHANGED <<now, restarts, sent, dbVars, handlerVars, uploadJob,
                   clientVars, abandoned>>

\* Fault: the error is logged and the rows are deleted nevertheless.
CleanFilesErrorIgnored(g) ==
    /\ fileJob.at = "groups"
    /\ g \in fileJob.todo
    /\ g.session
    /\ \E gone \in SUBSET g.parts : messages' = messages \ gone
    /\ fileJob' = JobAtRows(fileJob, g)
    /\ UNCHANGED <<now, restarts, sent, dbVars, handlerVars, uploadJob,
                   clientVars, abandoned>>

\* DeleteMessages fails: some batches may have been deleted, and the job
\* returns.
CleanFilesError(g) ==
    /\ fileJob.at = "groups"
    /\ g \in fileJob.todo
    /\ g.session
    /\ \E gone \in SUBSET g.parts : messages' = messages \ gone
    /\ fileJob' = IdleJob
    /\ UNCHANGED <<now, restarts, sent, dbVars, handlerVars, uploadJob,
                   clientVars, abandoned>>

\* Fault: the job does not delete the rows of its first group.
CleanFilesRowsStuck(ok) ==
    /\ fileJob.at = "rows"
    /\ abandoned' = abandoned \cup UNION {g.parts : g \in fileJob.group}
    /\ UNCHANGED <<now, restarts, tgVars, dbVars, handlerVars, jobVars,
                   clientVars>>

\* Delete by id.  An error of this statement is ignored; the rows are found
\* again by the next run.  Parts that an update gave to the row after the
\* scan lose their last reference here.
CleanFilesRows(ok) ==
    /\ fileJob.at = "rows"
    /\ \E g \in fileJob.group :
          /\ files' = [f \in DOMAIN files |->
                         IF ok /\ f \in g.ids
                         THEN [files[f] EXCEPT !.status = "deleted"]
                         ELSE files[f]]
          /\ abandoned' = IF ok
                          THEN abandoned \cup (PartsOf(g.ids) \ g.parts)
                          ELSE abandoned
    /\ fileJob' = JobWith(fileJob.todo)
    /\ UNCHANGED <<now, restarts, tgVars, uploads, sessions, handlerVars,
                   uploadJob, clientVars>>

CleanUploadsScan ==
    /\ uploadJob.at = "idle"
    /\ UploadGroups # {}
    /\ uploadJob' = JobWith(UploadGroups)
    /\ UNCHANGED <<now, restarts, tgVars, dbVars, handlerVars, fileJob,
                   clientVars, abandoned>>

\* Fault: after the messages the job turns to the next group.
CleanUploadsMessagesOnly(g) ==
    /\ uploadJob.at = "groups"
    /\ g \in uploadJob.todo
    /\ messages' = IF g.session THEN messages \ g.parts ELSE messages
    /\ uploadJob' = JobWith(uploadJob.todo \ {g})
    /\ UNCHANGED <<now, restarts, sent, dbVars, handlerVars, fileJob,
                   clientVars, abandoned>>

\* Without a session the messages are left and the rows go all the same.
CleanUploadsMessages(g) ==
    /\ uploadJob.at = "groups"
    /\ g \in uploadJob.todo
    /\ messages' = IF g.session THEN messages \ g.parts ELSE messages
    /\ uploadJob' = JobAtRows(uploadJob, g)
    /\ UNCHANGED <<now, restarts, sent, dbVars, handlerVars, fileJob,
                   clientVars, abandoned>>

CleanUploadsError(g) ==
    /\ uploadJob.at = "groups"
    /\ g \in uploadJob.todo
    /\ g.session
    /\ \E gone \in SUBSET g.parts : messages' = messages \ gone
    /\ uploadJob' = IdleJob
    /\ UNCHANGED <<now, restarts, sent, dbVars, handlerVars, fileJob,
                   clientVars, abandoned>>

CleanUploadsRows(ok) ==
    /\ uploadJob.at = "rows"
    /\ \E g \in uploadJob.group :
          /\ uploads' = IF ok THEN {r \in uploads : r.part_id \notin g.parts}
                        ELSE uploads
          /\ abandoned' = IF ok /\ ~g.session THEN abandoned \cup g.parts
                          ELSE abandoned
    /\ uploadJob' = JobWith(uploadJob.todo)
    /\ UNCHANGED <<now, restarts, tgVars, files, sessions, handlerVars,
                   fileJob, clientVars>>

----------------------------------------------------------------------------
(* The environment.                                                        *)

Logout(x) ==
    /\ "logout" \in Habits
    /\ x \in sessions
    /\ sessions' = sessions \ {x}
    /\ UNCHANGED <<now, restarts, tgVars, uploads, files, handlerVars,
                   jobVars, clientVars, abandoned>>

Login(x) ==
    /\ x \notin sessions
    /\ sessions' = sessions \cup {x}
    /\ UNCHANGED <<now, restarts, tgVars, uploads, files, handlerVars,
                   jobVars, clientVars, abandoned>>

\* The server stops and starts again: handlers and jobs are forgotten.
Restart ==
    /\ restarts < MaxRestarts
    /\ restarts' = restarts + 1
    /\ sending' = {}
    /\ abandoned' = abandoned \cup sending
    /\ doubt' = doubt \cup {<<sent[m].upload_id, sent[m].part_no>> :
                              m \in sending}
    /\ request' = [u \in UploadIds |-> NoRequest]
    /\ outcome' = [u \in UploadIds |->
                     IF request[u] # NoRequest THEN "doubt" ELSE outcome[u]]
    /\ fileJob' = IdleJob
    /\ uploadJob' = IdleJob
    /\ UNCHANGED <<now, tgVars, dbVars, acked>>

Tick ==
    /\ now < MaxTime
    /\ "slow" \in Habits \/ \A u \in UploadIds : request[u] = NoRequest
    /\ now' = now + 1
    /\ UNCHANGED <<restarts, tgVars, dbVars, handlerVars, jobVars,
                   clientVars, abandoned>>

Next ==
    \/ \E u \in UploadIds : \E p \in PartNos(u) : UploadSend(u, p)
    \/ \E m \in sending, answered \in BOOLEAN : UploadInsert(m, answered)
    \/ \E m \in sending : UploadError(m)
    \/ \E u \in UploadIds : UploadsPartsById(u)
    \/ \E u \in UploadIds : UploadsDelete(u)
    \/ \E u \in UploadIds : FilesCreateRead(u)
    \/ \E u \in UploadIds, f \in DOMAIN files :
          \E size \in {0, PartCount[u]} : FilesUpdateRead(u, f, size)
    \/ \E u \in UploadIds, answered \in BOOLEAN : FilesCreateCommit(u, answered)
    \/ \E u \in UploadIds, answered \in BOOLEAN : FilesUpdateCommit(u, answered)
    \/ \E u \in UploadIds : RequestError(u)
    \/ \E u \in UploadIds, answered \in BOOLEAN : FilesCreateByParts(u, answered)
    \/ \E f \in DOMAIN files : FilesDelete(f)
    \/ CleanFilesScan
    \/ \E g \in fileJob.todo : CleanFilesBreak(g)
    \/ \E g \in fileJob.todo : CleanFilesMessages(g)
    \/ \E g \in fileJob.todo : CleanFilesError(g)
    \/ \E ok \in BOOLEAN : CleanFilesRows(ok)
    \/ CleanUploadsScan
    \/ \E g \in uploadJob.todo : CleanUploadsMessages(g)
    \/ \E g \in uploadJob.todo : CleanUploadsError(g)
    \/ \E ok \in BOOLEAN : CleanUploadsRows(ok)
    \/ \E x \in Users : Logout(x) \/ Login(x)
    \/ Restart
    \/ Tick

(* The scheduler runs both jobs for ever, and neither Telegram nor the     *)
(* database fails for ever.                                                *)
Fairness ==
    /\ WF_vars(CleanFilesScan)
    /\ WF_vars(\E g \in fileJob.todo : CleanFilesBreak(g))
    /\ SF_vars(\E g \in fileJob.todo : CleanFilesMessages(g))
    /\ SF_vars(CleanFilesRows(TRUE))
    /\ WF_vars(CleanUploadsScan)
    /\ SF_vars(\E g \in uploadJob.todo : CleanUploadsMessages(g))
    /\ SF_vars(CleanUploadsRows(TRUE))

Spec == Init /\ [][Next]_vars /\ Fairness

----------------------------------------------------------------------------
(* Properties.                                                             *)

Active == {f \in DOMAIN files : files[f].status = "active"}

\* A file that users can see consists of the parts 1..PartCount[u] of one
\* upload, in order, has the size that was declared, and every one of its
\* messages exists: neither a racing request, a restart, an error nor one
\* of the cleaning jobs takes a part away or adds one.
FileComplete ==
    \A f \in Active :
        /\ PartSet(files[f].parts) \subseteq messages
        /\ \E u \in UploadIds :
              /\ files[f].size = PartCount[u]
              /\ [i \in DOMAIN files[f].parts |-> sent[files[f].parts[i]]]
                 = [p \in PartNos(u) |-> [upload_id |-> u, part_no |-> p]]

\* A message is referenced from one place only, so that no job can delete
\* it on behalf of one row while another still needs it: two rows of files
\* have no part in common, and no part of a file is left in uploads.
NoSharedMessage ==
    \A f \in DOMAIN files :
        files[f].status # "deleted" =>
            /\ PartSet(files[f].parts) \cap RowIds(uploads) = {}
            /\ \A g \in DOMAIN files :
                  g # f /\ files[g].status # "deleted" =>
                      PartSet(files[f].parts) \cap PartSet(files[g].parts) = {}

\* No message is lost sight of silently: one that exists is held by a
\* request, by an upload row or by a file row, or it was dropped at one of
\* the places that add to "abandoned".
MessageAccounted ==
    messages \subseteq
        sending \cup abandoned \cup RowIds(uploads)
        \cup PartsOf({f \in DOMAIN files : files[f].status # "deleted"})

\* A deleted file is eventually purged, messages and row, even if Telegram
\* or the database fails now and then or the server restarts, as long as
\* every user has a session.
PendingPurged ==
    \A f \in 1..MaxFiles :
        (f \in DOMAIN files /\ files[f].status = "pending_deletion")
        ~> (\/ /\ f \in DOMAIN files
               /\ files[f].status = "deleted"
               /\ PartSet(files[f].parts) \cap messages \subseteq abandoned
            \/ sessions # Users)

\* The row of an upload that was never completed does not stay for ever.
ExpiredPurged ==
    \A m \in MessageIds :
        (\E r \in uploads : r.part_id = m /\ r.created_at + Retention < now)
        ~> (m \notin RowIds(uploads))
=============================================================================
