---------------------------- MODULE MCLiveIndex -----------------------------
\* Model values of the index: a directory, alone or with a file in it.
EXTENDS LiveIndex

DirAlone == (1 :> [name |-> 1, parent |-> Root])
DirAndFile == DirAlone @@ (2 :> [name |-> 2, parent |-> 1])
EitherTree == {DirAlone, DirAndFile}
=============================================================================
