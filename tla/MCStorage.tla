----------------------------- MODULE MCStorage ------------------------------
(* The file system, the log below it as an atomic disk, and the set-up of    *)
(* the card that holds them, each by itself: part says which one runs.       *)
EXTENDS MCFileSystem, BlockLogRefinement, SdCard

VARIABLE part

\* A card of version 2 with high capacity, and an old one with a narrow bus.
MCCardKind == <<[v2 |-> TRUE, hc |-> TRUE, can4 |-> TRUE], [v2 |-> FALSE, hc |-> FALSE, can4 |-> FALSE]>>

StorageInit ==
  /\ part \in {"fs", "log", "card"}
  /\ FsInit /\ Init /\ SdInit0
  /\ part # "fs" => setup = "solo" /\ th[CHOOSE p \in FsProcs : TRUE].pc = "idle"
  /\ part # "log" => \A b \in Blocks : disk[b] = Zero
  /\ part # "card" => card.cid = 1
StorageNext ==
  /\ UNCHANGED part
  /\ \/ part = "fs" /\ FsNext /\ UNCHANGED <<vars, sdvars>>
     \/ part = "log" /\ Next /\ UNCHANGED <<fsvars, sdvars>>
     \/ part = "card" /\ SdNext /\ UNCHANGED <<fsvars, vars>>
StorageSpec == StorageInit /\ [][StorageNext]_<<fsvars, vars, sdvars, part>>

\* File names, processes and the threads of the log differ only in name.
StorageSymmetry == FsSymmetry \cup Permutations(Threads)
=============================================================================
