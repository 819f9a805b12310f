---------------------------- MODULE MCFileSystem ----------------------------
(* The file system on a small disk. *)
EXTENDS FileSystem, TLC
FsSymmetry == Permutations(FileNames) \cup Permutations(FsProcs)
MCMaxCalls == [solo |-> 5, nested |-> 4, shared |-> 3, free |-> 2]
MCFreeCalls == [free |-> 3]
MCElems == [s \in {"solo", "nested", "shared", "free"} |->
              IF s \in {"solo", "shared"} THEN FileNames ELSE FileNames \cup {DotDot}]
=============================================================================
