----------------------------- MODULE AtomicDisk -----------------------------
(***************************************************************************)
(* What the log of the block cache promises its callers: the file system   *)
(* sees one current content per block, and a power failure takes it back   *)
(* to a content at which no operation was running.  All operations that    *)
(* ended before a commit survive it together; no part of a running one     *)
(* does.                                                                   *)
(***************************************************************************)
CONSTANTS Threads, Blocks, Values

VARIABLES
  current,   \* content seen by cache_acquire
  stable,    \* content a power failure would leave
  open       \* threads whose atomic operation is running

vars == <<current, stable, open>>

Init ==
  /\ stable \in [Blocks -> Values]
  /\ current = stable
  /\ open = {}

Begin(t) ==
  /\ t \notin open
  /\ open' = open \cup {t}
  /\ UNCHANGED <<current, stable>>

Modify(t, b, v) ==
  /\ t \in open
  /\ current' = [current EXCEPT ![b] = v]
  /\ UNCHANGED <<stable, open>>

End(t) ==
  /\ t \in open
  /\ open' = open \ {t}
  /\ UNCHANGED <<current, stable>>

Checkpoint ==
  /\ open = {}
  /\ stable' = current
  /\ UNCHANGED <<current, open>>

PowerFailure ==
  /\ current' = stable
  /\ open' = {}
  /\ UNCHANGED stable

Next ==
  \/ \E t \in Threads : Begin(t) \/ End(t)
  \/ \E t \in Threads, b \in Blocks, v \in Values : Modify(t, b, v)
  \/ Checkpoint
  \/ PowerFailure

Spec == Init /\ [][Next]_vars
=============================================================================
