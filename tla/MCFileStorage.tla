--------------------------- MODULE MCFileStorage ---------------------------
(* Instances of FileStorage for TLC.                                       *)
EXTENDS FileStorage, TLC

CONSTANTS ann, a, b, report

\* All uploads are those of one user.
MCOneOwner == [u \in UploadIds |-> ann]

\* All uploads are meant for the same file name.
MCName == [u \in UploadIds |-> report]

\* Files of one part, and one of two parts beside one of one part.
MCOnePart == [u \in UploadIds |-> 1]
MCParts == [u \in UploadIds |-> IF u = a THEN 2 ELSE 1]
=============================================================================
