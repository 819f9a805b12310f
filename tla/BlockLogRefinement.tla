------------------------- MODULE BlockLogRefinement -------------------------
(***************************************************************************)
(* BlockLog implements AtomicDisk.                                         *)
(***************************************************************************)
EXTENDS BlockLog

\* What the replay of init_bcache makes of home blocks d, given a header hdr and
\* log blocks l.
Replayed(hdr, l, d) ==
  [b \in Blocks |->
     IF b \in Logged(hdr)
       THEN l[CHOOSE k \in 1 .. Len(hdr) : hdr[k] = b]
       ELSE d[b]]

\* The content a power failure would leave, and the one cache_acquire shows.
Recovered == Replayed(dheader, dlog, disk)
Seen == [b \in Blocks |-> Content(b)]

\* While the machine is not up, and after a PANIC, no operation runs and what
\* counts is the device.
Current == IF mode = "up" THEN Seen ELSE Recovered
Open == IF mode = "up" THEN Running ELSE {}

Abstract ==
  INSTANCE AtomicDisk WITH
    current <- Current,
    stable <- Recovered,
    open <- Open

\* Loop 225-232 has copied the blocks before number n to their log blocks.
CopiedToLog(n) ==
  \A k \in 1 .. Len(header) : k < n => dlog[k] = Content(header[k])

\* Loop 237-245, or the replay, has copied those before number n home.
CopiedHome(n) ==
  \A k \in 1 .. Len(header) :
    k < n => disk[header[k]] = dlog[k] /\ ~pinned[header[k]]

\* Why a power failure at any step of cache_end_op or of init_bcache is
\* harmless.  A block that differs from its home location is pinned and in the
\* log; the header on the device is empty except while a commit installs, and
\* then it names log blocks that hold what cache_acquire returns; a commit and
\* a replay have done what their loop index says; and between a power failure
\* and the end of the replay nothing is pinned and no cached copy is newer than
\* the device.
DurableInv ==
  /\ DirtyIsPinned
  /\ mode = "up" =>
       /\ (\A t \in Threads : pc[t] # "install") => dheader = <<>>
       /\ \A t \in Threads :
            /\ pc[t] = "write_log" => CopiedToLog(next)
            /\ pc[t] = "install" =>
                 dheader = header /\ CopiedToLog(Len(header) + 1) /\ CopiedHome(next)
  /\ mode = "replay" => header = dheader /\ CopiedHome(next)
  /\ mode \in {"down", "replay"} =>
       \A b \in Blocks : ~pinned[b] /\ Content(b) = disk[b]

\* Crash atomicity of the log: group commit, log before header before home
\* blocks, and the replay of init_bcache, together behave as an atomic disk.
ImplementsAtomicDisk == Abstract!Spec
=============================================================================
