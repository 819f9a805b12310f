---------------------------- MODULE IndirectRead ----------------------------
(***************************************************************************)
(* The log together with a reader of a file that has an indirect block.    *)
(* inode_read calls inode_map without a context, and inode_map hands the   *)
(* indirect block to cache_sync whether or not it changed it.  filewrite   *)
(* unlocks the inode before it calls end_op, so the reader may come        *)
(* between the two.                                                        *)
(***************************************************************************)
EXTENDS BlockLog

\* cache_sync(NULL, block) of a block that another operation has modified, or
\* of one nobody has: device_write at once.
ReadThrough(b) ==
  /\ mode = "up"
  /\ cached' = [cached EXCEPT ![b] = Content(b)]
  /\ disk' = [disk EXCEPT ![b] = Content(b)]
  /\ UNCHANGED <<dlog, dheader, pinned, header, outstanding, committing,
                 real_use, rm, pc, next, mode, crashes, unsaved>>

ReadNext == Next \/ \E b \in Blocks : ReadThrough(b)

ReadSpec == Init /\ [][ReadNext]_vars
=============================================================================
