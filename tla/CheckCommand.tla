---------------------------- MODULE CheckCommand ----------------------------
(***************************************************************************)
(* "teldrive check" beside a running server.                               *)
(*                                                                         *)
(* The command compares the rows of "files" with the messages of a channel *)
(* and removes what does not match.  It is a process of its own: it loads  *)
(* the files page by page, counts and then loads the messages, reads the   *)
(* pending uploads, and only then deletes rows and messages, while the     *)
(* handlers and cron jobs of FileStorage go on.                            *)
(*                                                                         *)
(* Source: cmd/check.go.  A user has one channel, so one channelProcessor  *)
(* stands for the command; the message with id 1, which Telegram writes    *)
(* when a channel is made, and the report on the terminal are left out.    *)
(***************************************************************************)
EXTENDS FileStorage, FiniteSetsExt

CONSTANTS
    BatchSize,      \* rows of a page of loadFiles
    Options,        \* flags the command is started with
    MaxChecks       \* bound on the number of runs of the command

Flags == [dryRun : BOOLEAN, cleanPending : BOOLEAN, cleanUploads : BOOLEAN]

ASSUME CheckAssumption ==
    /\ BatchSize \in Nat \ {0}
    /\ Options \subseteq Flags
    /\ MaxChecks \in Nat

VARIABLES
    check,      \* the channelProcessor
    checks,     \* how often the command was started (bounded)
    intact,     \* rows that were complete when the command began (ghost)
    litter      \* messages that nothing referred to then (ghost)

checkVars == <<check, checks, intact, litter>>
allVars == <<vars, checkVars>>

Ended == [at |-> "idle", user |-> "none", last |-> 0, files |-> {}, total |-> 0,
          msgs |-> {}, cut |-> FALSE, missing |-> {}, orphans |-> {},
          opt |-> [dryRun |-> TRUE, cleanPending |-> FALSE,
                   cleanUploads |-> FALSE]]

CheckInit ==
    /\ Init
    /\ check = Ended
    /\ checks = 0
    /\ intact = {}
    /\ litter = {}

Channel(x) == {m \in messages : Owner[sent[m].upload_id] = x}
UploadsOf(x) == {r \in uploads : Owner[r.upload_id] = x}
FilesOf(x, statuses) ==
    {f \in DOMAIN files : files[f].user = x /\ files[f].status \in statuses}
InRequests == UNION {PartSet(request[u].parts) : u \in UploadIds}

\* The processor goes on with p; at the end the ghosts are forgotten.
GoesOn(p) ==
    /\ check' = p
    /\ intact' = IF p = Ended THEN {} ELSE intact
    /\ litter' = IF p = Ended THEN {} ELSE litter
    /\ checks' = checks

\* The command needs a session of the user.  With --clean-uploads it first
\* deletes the upload rows of the channel.
CheckStart(x, opt) ==
    LET dropped == IF opt.cleanUploads /\ ~opt.dryRun THEN UploadsOf(x) ELSE {} IN
    /\ check.at = "idle"
    /\ checks < MaxChecks
    /\ x \in sessions
    /\ checks' = checks + 1
    /\ uploads' = uploads \ dropped
    /\ abandoned' = abandoned \cup RowIds(dropped)
    /\ check' = [Ended EXCEPT !.at = "files", !.user = x, !.opt = opt]
    /\ intact' = {[id |-> f, row |-> files[f]] :
                    f \in {g \in FilesOf(x, {"active"}) :
                             /\ files[g].size = Len(files[g].parts)
                             /\ PartSet(files[g].parts) \subseteq messages
                             /\ PartSet(files[g].parts) \cap RowIds(uploads') = {}}}
    /\ litter' = Channel(x) \ (sending \cup RowIds(uploads') \cup InRequests
                                 \cup PartsOf(FilesOf(x, FileStatus \ {"deleted"})))
    /\ UNCHANGED <<now, restarts, tgVars, files, sessions, handlerVars, jobVars,
                   clientVars>>

\* Fault: every page starts with the row that ended the last one.
PageAgain(ids) ==
    {f \in ids : f >= check.last
                 /\ Cardinality({g \in ids : check.last <= g /\ g < f}) < BatchSize}

\* Fault: the page starts one row too late.
PageLate(ids) ==
    {f \in ids : f > check.last + 1
                 /\ Cardinality({g \in ids : check.last < g /\ g < f}) <= BatchSize}

\* Order("id"), id > lastID, Limit(batchSize).
Page(ids) ==
    {f \in ids : f > check.last
                 /\ Cardinality({g \in ids : check.last < g /\ g < f}) < BatchSize}

\* One page of loadFiles; a short page is the last.
CheckLoadPage ==
    LET wanted == IF check.opt.cleanPending /\ check.opt.dryRun
                  THEN {"active", "pending_deletion"} ELSE {"active"}
        page == Page(FilesOf(check.user, wanted)) IN
    /\ check.at = "files"
    /\ GoesOn([check EXCEPT
                   !.files = @ \cup {[id |-> f, parts |-> files[f].parts,
                                      size |-> files[f].size] : f \in page},
                   !.last = IF page = {} THEN @ ELSE Max(page),
                   !.at = IF Cardinality(page) < BatchSize THEN "count" ELSE "files"])
    /\ UNCHANGED vars

\* countIter.Total; an empty channel ends the command.
CheckCount ==
    /\ check.at = "count"
    /\ GoesOn(IF Channel(check.user) = {} THEN Ended
              ELSE [check EXCEPT !.total = Cardinality(Channel(check.user)),
                                 !.at = "messages"])
    /\ UNCHANGED vars

\* if len(msgs) < total: an error.
Enough(got) == Cardinality(got) >= check.total

\* The iterator returns the newest messages first.  When a page fails Next
\* returns false and nobody asks for the error, so the list is cut short.
CheckLoadMessages(got) ==
    /\ check.at = "messages"
    /\ got \subseteq Channel(check.user)
    /\ \A m \in got, n \in Channel(check.user) \ got : n < m
    /\ GoesOn(IF Enough(got)
              THEN [check EXCEPT !.msgs = got, !.at = "uploads",
                                 !.cut = got # Channel(check.user)]
              ELSE Ended)
    /\ UNCHANGED vars

\* Parts of f up to the first that is not in known (the loop breaks there).
SeenParts(f, known) ==
    {f.parts[i] : i \in {j \in DOMAIN f.parts :
                            \A k \in 1..(j - 1) : f.parts[k] \in known}}

\* A part without a message, or a sum of sizes that is not the file's.
Incomplete(f, known) ==
    \/ ~(PartSet(f.parts) \subseteq known)
    \/ f.size # Cardinality(SeenParts(f, known) \cap known)

\* uploadPartMap: not read in a dry run.
PendingParts ==
    IF check.opt.dryRun \/ check.opt.cleanUploads THEN {}
    ELSE RowIds(UploadsOf(check.user))

\* The pending uploads are read and everything is judged.  A message that
\* has an upload row counts neither as a part nor as an orphan.
CheckJudge ==
    LET known == check.msgs \ PendingParts
        used == UNION {SeenParts(f, known) : f \in check.files} IN
    /\ check.at = "uploads"
    /\ GoesOn(IF check.opt.dryRun THEN Ended
              ELSE [check EXCEPT
                      !.missing = {f.id : f \in {g \in check.files :
                                                     Incomplete(g, known)}},
                      !.orphans = known \ used,
                      !.files = {}, !.msgs = {}, !.last = 0, !.total = 0,
                      !.at = "pending"])
    /\ UNCHANGED vars

\* With --clean-pending the rows of deleted files go before their messages.
CheckCleanPending ==
    LET gone == IF check.opt.cleanPending
                THEN FilesOf(check.user, {"pending_deletion"}) ELSE {} IN
    /\ check.at = "pending"
    /\ files' = [f \in DOMAIN files |->
                   IF f \in gone THEN [files[f] EXCEPT !.status = "deleted"]
                   ELSE files[f]]
    /\ abandoned' = abandoned \cup PartsOf(gone)
    /\ GoesOn([check EXCEPT !.at = "missing"])
    /\ UNCHANGED <<now, restarts, tgVars, uploads, sessions, handlerVars, jobVars,
                   clientVars>>

\* deleteFilesBulk marks the missing files by id, whatever they are by now.
CheckMarkMissing ==
    /\ check.at = "missing"
    /\ files' = [f \in DOMAIN files |->
                   IF f \in check.missing /\ files[f].status # "deleted"
                   THEN [files[f] EXCEPT !.status = "pending_deletion"]
                   ELSE files[f]]
    /\ GoesOn([check EXCEPT !.at = "orphans"])
    /\ UNCHANGED <<now, restarts, tgVars, uploads, sessions, handlerVars, jobVars,
                   clientVars, abandoned>>

\* Fault: orphans are deleted only if no file is missing.
CheckDeleteOrphansElse(gone) ==
    /\ check.at = "orphans"
    /\ gone \subseteq check.orphans
    /\ messages' = IF check.missing = {} THEN messages \ gone ELSE messages
    /\ GoesOn(Ended)
    /\ UNCHANGED <<now, restarts, sent, dbVars, handlerVars, jobVars, clientVars,
                   abandoned>>

\* deleteOrphanMessages, which may fail after some batches.
CheckDeleteOrphans(gone) ==
    /\ check.at = "orphans"
    /\ gone \subseteq check.orphans
    /\ messages' = messages \ gone
    /\ GoesOn(Ended)
    /\ UNCHANGED <<now, restarts, sent, dbVars, handlerVars, jobVars, clientVars,
                   abandoned>>

\* Any query or call fails, or the command is interrupted.
CheckError ==
    /\ check.at # "idle"
    /\ GoesOn(Ended)
    /\ UNCHANGED vars

CheckStep ==
    \/ CheckLoadPage
    \/ CheckCount
    \/ \E got \in SUBSET Channel(check.user) : CheckLoadMessages(got)
    \/ CheckJudge
    \/ CheckCleanPending
    \/ CheckMarkMissing
    \/ \E gone \in SUBSET check.orphans : CheckDeleteOrphans(gone)

CheckNext ==
    \/ Next /\ UNCHANGED checkVars
    \/ \E x \in Users, opt \in Options : CheckStart(x, opt)
    \/ CheckStep
    \/ CheckError

(* The command does not stop by itself.                                    *)
CheckSpec == CheckInit /\ [][CheckNext]_allVars /\ WF_allVars(CheckStep)

----------------------------------------------------------------------------
(* Properties.                                                             *)

CheckTypeOK ==
    /\ TypeOK
    /\ check.at \in {"idle", "files", "count", "messages", "uploads", "pending",
                     "missing", "orphans"}
    /\ check.opt \in Flags
    /\ check.last \in {0} \cup DOMAIN files
    /\ {f.id : f \in check.files} \cup check.missing \subseteq DOMAIN files
    /\ check.total \in 0..MaxMessages
    /\ check.msgs \cup check.orphans \cup litter \subseteq DOMAIN sent

\* Whatever requests and jobs do meanwhile, the command takes nothing away
\* from a file that was complete when it began, whose row has not changed
\* since and whose parts have no upload row.  The one exception is a list
\* of messages that was cut short although it is as long as the total that
\* was counted before (a message came in between).
IntactKept ==
    [][\A i \in intact :
          /\ check' # check /\ check.at # "idle" /\ ~check.cut
          /\ files[i.id] = i.row
          /\ PartSet(i.row.parts) \subseteq messages
          => files'[i.id] = i.row /\ PartSet(i.row.parts) \subseteq messages']_allVars

\* A run that gets through leaves no litter: a message that no row, handler
\* or request referred to when the command began is gone, unless the list
\* of messages was cut short.
LitterSwept ==
    [][CheckDeleteOrphans(check.orphans) /\ ~check.cut =>
          litter \cap messages' = {}]_allVars

\* The command ends, however many files are created while it runs.
CheckEnds == check.at # "idle" ~> check.at = "idle"

\* "Identifies and removes missing file parts and orphan messages": what is
\* removed as an orphan is not a part of a file users can see.
OrphansUnused ==
    [][\A gone \in SUBSET check.orphans :
          CheckDeleteOrphans(gone) => gone \cap PartsOf(Active) = {}]_allVars
=============================================================================
