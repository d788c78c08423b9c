--------------------------- MODULE MCStreamReader ---------------------------
(* An instance of StreamReader for TLC.                                    *)
EXTENDS StreamReader

CONSTANTS MCSize, MCPartSize

MCFiles ==
    {[size |-> n, partSize |-> MCPartSize, encrypted |-> e] :
        n \in {0, 1, 2, MCPartSize, MCSize}, e \in BOOLEAN}

\* Numbers around the ends of the file, of its parts and of their boxes.
Points ==
    {0, 1, MCPartSize - 1, MCPartSize, MCPartSize + 3, MCSize - 1, MCSize, MCSize + 1}

Values == [lo : {None} \cup Points, hi : {None} \cup Points]

MCNonces == {<<0, 0, 0>>, <<1, 1, 0>>, <<1, 0, 1>>}

MCHeaders ==
    {NoHeader, BadHeader, <<[lo |-> NoDash, hi |-> None]>>}
    \cup {<<v>> : v \in Values}
    \cup {<<[lo |-> 1, hi |-> 2], v>> : v \in {[lo |-> 3, hi |-> 4],
                                                [lo |-> None, hi |-> None],
                                                [lo |-> 4, hi |-> 3]}}
=============================================================================
