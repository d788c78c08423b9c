----------------------------- MODULE FileTree -----------------------------
(***************************************************************************)
(* The folders and files of one user as rows of teldrive.files.            *)
(*                                                                         *)
(* Every operation is one statement or one transaction.  A destination is  *)
(* given as a path, resolved beforehand, or as an id that is used as it    *)
(* stands; in both cases the row may be gone, or a file, or beneath what   *)
(* is moved, when the statement runs, and nothing in the schema ties       *)
(* parent_id to a row.  The recursive queries follow parent_id without     *)
(* looking out for a cycle: on one they do not end, which is an error.     *)
(*                                                                         *)
(* Sources: pkg/services/file.go, create_directories of the migrations and *)
(* updateFolderSize of pkg/cron/cron.go.  A file has size 1.  Clients leave *)
(* the root itself alone.                                                  *)
(***************************************************************************)
EXTENDS Naturals, Sequences, FiniteSets, FiniteSetsExt

CONSTANTS
    Names,          \* names of files and folders
    Trees,          \* tables to begin with
    MaxNodes,       \* bound: rows that are ever inserted
    MaxOperations   \* bound

ASSUME TreeAssumption ==
    /\ MaxNodes \in Nat \ {0}
    /\ MaxOperations \in Nat

Ids == 1..MaxNodes
Root == 1

VARIABLES
    nodes,      \* nodes[i]: the row with id i
    created,    \* how many ids have been given out
    operations, \* how many operations there have been
    history     \* placements that the code does not look at (ghost)

vars == <<nodes, created, operations, history>>

Gone == [type |-> "none", name |-> "", parent |-> 0, status |-> "gone",
         size |-> 0]
Row(type, name, parent) ==
    [type |-> type, name |-> name, parent |-> parent, status |-> "active",
     size |-> IF type = "file" THEN 1 ELSE 0]

\* The root, and rows that were made after the folders they are in.
ASSUME TreesAssumption ==
    \A t \in Trees : \E n \in 1..MaxNodes :
        /\ DOMAIN t = 1..n
        /\ t[Root] = Row("folder", "root", 0)
        /\ \A i \in 2..n :
              \E type \in {"folder", "file"}, name \in Names, p \in 1..(i - 1) :
                 t[i] = Row(type, name, p) /\ t[p].type = "folder"

Active(N) == {i \in Ids : N[i].status = "active"}
Kids(N, S) == {i \in Ids : N[i].status # "gone" /\ N[i].parent \in S}
IsFolder(N, i) == i \in Active(N) /\ N[i].type = "folder"

\* WITH RECURSIVE: the rows of S and all that is beneath them.
Below(N, S) ==
    LET reach[k \in 0..MaxNodes] ==
            IF k = 0 THEN {i \in S : N[i].status # "gone"}
            ELSE LET last == reach[k - 1] IN last \cup Kids(N, last)
    IN  reach[MaxNodes]

\* The recursion from S ends.
Ends(N, S) == \A i \in Below(N, S) : i \notin Below(N, Kids(N, {i}))

\* The unique index on (name, parent_id, user_id) WHERE status = 'active'.
Unique(N) ==
    \A i, j \in Active(N) :
        N[i].name = N[j].name /\ N[i].parent = N[j].parent => i = j

\* Why a row with parent p would be out of reach.
Placed(N, i, p) ==
    (IF IsFolder(N, p) THEN {} ELSE {"lostparent"}) \cup
    (IF p \in Below(N, {i}) THEN {"loop"} ELSE {})

TypeOK ==
    /\ DOMAIN nodes = Ids
    /\ \A i \in Ids :
          /\ nodes[i].type \in {"none", "folder", "file"}
          /\ nodes[i].status \in {"active", "pending_deletion", "gone"}
          /\ nodes[i].type = "folder" => nodes[i].status = "active"
          /\ nodes[i].parent \in 0..created
          /\ nodes[i].status = "gone" => nodes[i] = Gone
    /\ created \in 1..MaxNodes
    /\ operations \in 0..MaxOperations
    /\ Unique(nodes)

Init ==
    /\ \E t \in Trees :
          /\ nodes = [i \in Ids |-> IF i \in DOMAIN t THEN t[i] ELSE Gone]
          /\ created = Cardinality(DOMAIN t)
    /\ operations = 0
    /\ history = {}

----------------------------------------------------------------------------
(* Operations.                                                             *)

\* FilesCreate: INSERT ... ON CONFLICT (name, parent) DO UPDATE.  A row of
\* the other type is turned into one of this type.
FilesCreate(type, name, p) ==
    LET same == {i \in Active(nodes) :
                    nodes[i].name = name /\ nodes[i].parent = p}
    IN  \/ /\ same = {}
           /\ created < MaxNodes
           /\ created' = created + 1
           /\ nodes' = [nodes EXCEPT ![created + 1] = Row(type, name, p)]
           /\ history' = history \cup Placed(nodes, created + 1, p)
        \/ \E i \in same :
              /\ nodes' = [nodes EXCEPT ![i] = Row(type, name, p)]
              /\ history' = IF type = "file" /\ Kids(nodes, {i}) # {}
                            THEN history \cup {"overwritten"} ELSE history
              /\ UNCHANGED created

\* FilesMkdir by create_directories(path): every name is looked for among
\* all rows below the last one, files and deleted ones included.
FilesMkdir(p, name) ==
    /\ p \in Below(nodes, {Root})
    /\ Kids(nodes, {p}) \cap {i \in Ids : nodes[i].name = name} = {}
    /\ created < MaxNodes
    /\ created' = created + 1
    /\ nodes' = [nodes EXCEPT ![created + 1] = Row("folder", name, p)]
    /\ history' = IF IsFolder(nodes, p) THEN history
                  ELSE history \cup {"underfile"}

\* target_folders
Targets(N, ids) == Below(N, ids)

\* deleteFilesBulk: files beneath the ids are marked, folders are deleted.
DeleteFilesBulk(N, ids) ==
    LET t == Targets(N, ids)
    IN  [i \in Ids |->
           CASE N[i].type = "file" /\ (i \in ids \/ N[i].parent \in t) ->
                    [N[i] EXCEPT !.status = "pending_deletion"]
             [] N[i].type = "folder" /\ i \in t -> Gone
             [] OTHER -> N[i]]

\* Fault: the folder goes, and of what is in it only the files directly there.
FilesDeleteFlat(i) ==
    /\ i # Root
    /\ nodes[i].status # "gone"
    /\ nodes' = [j \in Ids |->
                    CASE nodes[j].type = "file" /\ (j = i \/ nodes[j].parent = i) ->
                             [nodes[j] EXCEPT !.status = "pending_deletion"]
                      [] nodes[j].type = "folder" /\ j = i -> Gone
                      [] OTHER -> nodes[j]]
    /\ UNCHANGED <<created, history>>

FilesDelete(i) ==
    /\ i # Root
    /\ nodes[i].status # "gone"
    /\ Ends(nodes, {i})
    /\ nodes' = DeleteFilesBulk(nodes, {i})
    /\ UNCHANGED <<created, history>>

\* Fault: what the replaced folder holds goes with it.
NotReparented(N, src, e) == N

\* Both are folders: the children of the one that is replaced move over,
\* except those whose name is taken.
Reparented(N, src, e) ==
    LET taken == {N[k].name : k \in Kids(N, {src}) \cap Active(N)}
    IN  [i \in Ids |->
           IF i \in Kids(N, {e}) \cap Active(N) /\ N[i].name \notin taken
           THEN [N[i] EXCEPT !.parent = src] ELSE N[i]]

\* The row that a move of src to p under this name would replace.
Existing(N, p, name) ==
    {e \in Active(N) : N[e].name = name /\ N[e].parent = p}

\* Row e is about to make room for src.
Merged(N, src, e) ==
    IF N[src].type = "folder" /\ N[e].type = "folder"
    THEN Reparented(N, src, e) ELSE N

\* UPDATE ... WHERE id = src, which may be gone by now.
Moved(N, src, p, name) ==
    IF N[src].status = "gone" THEN N
    ELSE [N EXCEPT ![src].parent = p, ![src].name = name]

\* The table after row e has made room for src.
Replaced(N, src, e, p, name) ==
    Moved(DeleteFilesBulk(Merged(N, src, e), {e}), src, p, name)

\* FilesMove of one row with a new name.  An error of the index rolls back.
FilesMoveNamed(src, p, name) ==
    /\ src # Root
    /\ nodes[src].status # "gone"
    /\ \/ /\ Existing(nodes, p, name) = {}
          /\ nodes' = Moved(nodes, src, p, name)
       \/ \E e \in Existing(nodes, p, name) :
             /\ Ends(Merged(nodes, src, e), {e})
             /\ nodes' = Replaced(nodes, src, e, p, name)
    /\ Unique(nodes')
    /\ history' = IF nodes'[src].status = "gone" THEN history
                  ELSE history \cup Placed(nodes', src, p)
    /\ UNCHANGED created

\* FilesMove of several rows: UPDATE parent_id, all or none.
FilesMoveBulk(ids, p) ==
    /\ Root \notin ids
    /\ nodes' = [i \in Ids |-> IF i \in ids /\ nodes[i].status # "gone"
                               THEN [nodes[i] EXCEPT !.parent = p]
                               ELSE nodes[i]]
    /\ nodes' # nodes
    /\ Unique(nodes')
    /\ history' = history \cup UNION {Placed(nodes', i, p) : i \in ids}
    /\ UNCHANGED created

\* FilesUpdate of the name and the parent.
FilesUpdate(i, p, name) ==
    /\ i # Root
    /\ nodes[i].status # "gone"
    /\ nodes' = Moved(nodes, i, p, name)
    /\ nodes' # nodes
    /\ Unique(nodes')
    /\ history' = history \cup Placed(nodes', i, p)
    /\ UNCHANGED created

\* cleanFiles has deleted the messages of a file and deletes its row.
CleanFiles(i) ==
    /\ nodes[i].status = "pending_deletion"
    /\ nodes' = [nodes EXCEPT ![i] = Gone]
    /\ UNCHANGED <<created, history>>

FilesBelow(N, i) == {f \in Below(N, {i}) \cap Active(N) : N[f].type = "file"}

\* Fault: files that wait for deletion are counted.
SizedFilesAll(N, i) == {f \in Below(N, {i}) : N[f].type = "file"}

\* folder_sizes
SizedFiles(N, i) == FilesBelow(N, i)

\* The table after the UPDATE: a folder without files keeps its size.
Sized(N) ==
    [i \in Ids |->
        IF N[i].type = "folder" /\ SizedFiles(N, i) # {}
        THEN [N[i] EXCEPT !.size = Cardinality(SizedFiles(N, i))]
        ELSE N[i]]

UpdateFolderSize ==
    /\ Ends(nodes, {i \in Ids : nodes[i].type = "folder"})
    /\ nodes' = Sized(nodes)
    /\ UNCHANGED <<created, history>>

Operation ==
    \/ \E type \in {"file", "folder"}, name \in Names, p \in 1..created :
          FilesCreate(type, name, p)
    \/ \E p \in Ids, name \in Names : FilesMkdir(p, name)
    \/ \E i \in Ids : FilesDelete(i)
    \/ \E src \in Ids, p \in 1..created, name \in Names :
          FilesMoveNamed(src, p, name)
    \/ \E ids \in SUBSET Ids, p \in 1..created :
          Cardinality(ids) \in 1..2 /\ FilesMoveBulk(ids, p)
    \/ \E i \in Ids, p \in 1..created, name \in Names : FilesUpdate(i, p, name)
    \/ \E i \in Ids : CleanFiles(i)
    \/ UpdateFolderSize

\* Nothing is claimed of a tree after a placement that nothing looks at, so
\* behaviours stop there.
Next ==
    /\ history = {}
    /\ operations < MaxOperations
    /\ operations' = operations + 1
    /\ Operation

Spec == Init /\ [][Next]_vars

----------------------------------------------------------------------------
(* Properties.                                                             *)

\* Whatever is moved, merged, deleted and purged, a row that users can see
\* hangs in the tree: its parent is a folder and the root is above it.
\* Excepted are the placements that the code does not look at: under an id
\* that is no folder (any more), under itself, by create_directories under a
\* file of the same name, a file created over a folder with contents.
Attached ==
    history = {} =>
        \A i \in Active(nodes) \ {Root} :
            /\ IsFolder(nodes, nodes[i].parent)
            /\ i \in Below(nodes, {Root})

\* What is lost with row e when src takes its place: e itself and, of two
\* folders, the children whose names src has too; everything in e if src is
\* beneath one of those, if one of the two is no folder, or if src is moved
\* onto itself.
Doomed(src, e) ==
    LET taken == {nodes[k].name : k \in Kids(nodes, {src}) \cap Active(nodes)}
        stay == {k \in Kids(nodes, {e}) :
                    k \notin Active(nodes) \/ nodes[k].name \in taken}
    IN  IF /\ src # e
           /\ nodes[src].type = "folder" /\ nodes[e].type = "folder"
           /\ src \notin Below(nodes, stay)
        THEN {e} \cup Below(nodes, stay)
        ELSE Below(nodes, {e})

\* A move loses what its destination shadows and nothing else, for whatever
\* row FilesMove might be called with now.
MoveLosesOnlyShadowed ==
    history = {} =>
        \A src \in Active(nodes) \ {Root}, e \in Active(nodes) \ {Root} :
            Active(nodes) \ Active(Replaced(nodes, src, e, nodes[e].parent,
                                            nodes[e].name))
            = Active(nodes) \cap Doomed(src, e)

\* Were updateFolderSize to run now, the size of a folder would be the sum
\* of the sizes of what it shows, unless there is a folder without files
\* somewhere in it (which keeps the size of the files it once had).
SizesAdd ==
    history = {} =>
        \A i \in Ids :
            /\ IsFolder(nodes, i)
            /\ \A j \in Below(nodes, {i}) :
                  IsFolder(nodes, j) => FilesBelow(nodes, j) # {}
            => Sized(nodes)[i].size =
                  MapThenSumSet(LAMBDA k : Sized(nodes)[k].size,
                                Kids(nodes, {i}) \cap Active(nodes))
=============================================================================
