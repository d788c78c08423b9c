--------------------------- MODULE MCCheckCommand ---------------------------
(* An instance of CheckCommand for TLC.                                    *)
EXTENDS CheckCommand

CONSTANTS ann, report

\* All uploads are those of one user, for one file name.
MCOwner == [u \in UploadIds |-> ann]
MCName == [u \in UploadIds |-> report]
MCOnePart == [u \in UploadIds |-> 1]

\* A plain run, a run that cleans everything, and a dry run.
MCOptions == {o \in Flags : o.cleanPending = o.cleanUploads}
=============================================================================
