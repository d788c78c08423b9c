---------------------------- MODULE MCFileTree ----------------------------
(* Instances of FileTree for TLC.                                          *)
EXTENDS FileTree, TLC

\* All tables of n rows, in one numbering of each, that hang together: every
\* parent is a folder, no two rows of one folder have the same name.
TreesOf(n) ==
    {t \in {(1 :> Row("folder", "root", 0)) @@
            [i \in 2..n |-> Row(type[i], name[i], parent[i])] :
               type \in [2..n -> {"folder", "file"}],
               name \in [2..n -> Names],
               parent \in {f \in [2..n -> 1..n] :
                             \A i \in 2..n : f[i] < i /\
                                \A j \in i..n : f[i] <= f[j]}} :
        \A i \in 2..n :
            /\ t[t[i].parent].type = "folder"
            /\ \A j \in 2..i - 1 :
                  ~(t[i].name = t[j].name /\ t[i].parent = t[j].parent)}

\* /x and /y, with x and y in the one and x in the other.
TwoFolders ==
    {<<Row("folder", "root", 0), Row("folder", "x", 1), Row("folder", "y", 1),
       Row(type[1], "x", 2), Row(type[2], "y", 2), Row(type[3], "x", 3)>> :
        type \in [1..3 -> {"folder", "file"}]}

\* /x/x/y/x: what is moved may be inside what it replaces.
Chain ==
    {<<Row("folder", "root", 0), Row("folder", "x", 1), Row("folder", "x", 2),
       Row("folder", "y", 3), Row(type, "x", 4)>> :
        type \in {"folder", "file"}}

MCTrees == TreesOf(4) \cup TwoFolders \cup Chain
=============================================================================
