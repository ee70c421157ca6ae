---------------------------- MODULE EventStoreMC ----------------------------
(***************************************************************************)
(* Model-checking instances of EventStore.                                 *)
(***************************************************************************)
EXTENDS EventStore, TLC

\* A path nobody has written to, or a file the store itself created.
OwnFiles == {EmptyFile, CreatedFile}

\* Every kind of file an open may find.
AnyFiles == {EmptyFile, CreatedFile, ForeignFile, UnmarkedFile, NewerFile}

StoreSymmetry ==
    Permutations(Conns) \cup Permutations(Streams) \cup Permutations(EventIds)
=============================================================================
