----------------------------- MODULE FileSystem -----------------------------
(***************************************************************************)
(* The inode layer (fs/inode.c), the open files (fs/file.c), the block     *)
(* bitmap (cache_alloc and cache_free of fs/cache.c) and the system calls  *)
(* of kernel/sysfile.c on top of them.                                     *)
(*                                                                         *)
(* A process runs one system call at a time.  A step of a call goes from   *)
(* one lock operation to the next: the spin lock of the inode table makes  *)
(* get, share and the first half of put atomic, the sleep lock of an inode *)
(* covers the rest, and the block a bitmap or inode entry lives in is held *)
(* while it is changed.  The transaction around a call (begin_op, end_op,  *)
(* crashes) is in BlockLog.                                                *)
(*                                                                         *)
(* Sizes and offsets count blocks, the bytes of a file are left out, and   *)
(* an allocation takes the first free number.  The entry "." is left out:  *)
(* it names the directory itself.                                          *)
(***************************************************************************)
EXTENDS Integers, Sequences, FiniteSets, FiniteSetsExt, Functions

CONSTANTS
  FsProcs,   \* processes; one of them exists in the beginning
  NumInodes, \* inode numbers are 1..NumInodes, 1 is the root directory
  NumBlocks, \* data blocks are 1..NumBlocks
  NDirect,   \* INODE_NUM_DIRECT
  NIndirect, \* INODE_NUM_INDIRECT
  NFile,     \* size of the system's file table
  NOFile,    \* size of a process's descriptor table
  FileNames, \* names a directory entry can have
  DotDot,    \* the name ".."
  Elems,     \* path elements a program uses, by setup: FileNames, and DotDot or not
  Depth,     \* longest path, bound
  MaxCalls,  \* bound on the number of system calls, by setup
  Setups     \* initial situations, see MayCreate and MayFork

ASSUME FsAssumption ==
  /\ NumInodes > 2 /\ NumBlocks > 2 /\ NDirect > 0 /\ NIndirect > 0
  /\ Setups \subseteq {"solo", "nested", "shared", "free"}
  /\ \A s \in Setups : Elems[s] \subseteq FileNames \cup {DotDot}

VARIABLES
  setup,   \* which calls are made
  dinodes, \* InodeEntry of every inode number, as the block cache has it
  mem,     \* the in-memory inodes of the list `head`
  blocks,  \* the bitmap and the contents of data blocks
  files,   \* ftable.file
  th,      \* the processes
  strays,  \* inodes entered into a directory that was already unlinked
  calls,   \* system calls made
  fsstop   \* "" or why the kernel stopped

fsvars == <<setup, dinodes, mem, blocks, files, th, strays, calls, fsstop>>

Inos == 1..NumInodes
Root == 1
Fds == 1..NOFile
Indexes == 0..(NIndirect - 1)
Slots == FileNames \cup {DotDot} \cup Indexes
MaxSize == NDirect + NIndirect
Creates == {"creat", "mkdir", "mknod"}
ParentOps == Creates \cup {"unlink"}
PathOps == {"open", "stat", "chdir"} \cup ParentOps

(* Entries and blocks. *)
NoAddrs == [n \in 0..(NDirect - 1) |-> 0]
FreeEntry == [type |-> "free", links |-> 0, size |-> 0, addrs |-> NoAddrs, indirect |-> 0]
NoInode == [in |-> FALSE, rc |-> 0, lock |-> 0, entry |-> FreeEntry]
ZeroBlock == [s \in Slots |-> 0]

(* The blocks an entry owns: its data blocks and its indirect block. *)
BlocksOf(e) ==
  LET behind == IF e.indirect = 0 THEN {} ELSE {blocks.data[e.indirect][k] : k \in Indexes}
  IN  (Range(e.addrs) \cup {e.indirect} \cup behind) \ {0}
EntryOf(i) == IF mem[i].in THEN mem[i].entry ELSE dinodes[i]

-----------------------------------------------------------------------------
(* cache_alloc: the first clear bit of the bitmap, set, and the block zeroed. *)
CacheAlloc(B) ==
  LET b == Min((1..NumBlocks) \ B.used)
  IN  [no |-> b, B |-> [B EXCEPT !.used = @ \cup {b}, !.data[b] = ZeroBlock]]

(* inode_map: the block at offset off of entry e, allocated on demand together  *)
(* with the indirect block.                                                     *)
InodeMap(B, e, off) ==
  IF off < NDirect
  THEN IF e.addrs[off] # 0 THEN [no |-> e.addrs[off], B |-> B, e |-> e]
       ELSE LET a == CacheAlloc(B) IN [no |-> a.no, B |-> a.B, e |-> [e EXCEPT !.addrs[off] = a.no]]
  ELSE LET i == IF e.indirect # 0 THEN [no |-> e.indirect, B |-> B] ELSE CacheAlloc(B)
           k == off - NDirect
           a == IF i.B.data[i.no][k] # 0 THEN [no |-> i.B.data[i.no][k], B |-> i.B] ELSE CacheAlloc(i.B)
       IN  [no |-> a.no, B |-> [a.B EXCEPT !.data[i.no][k] = a.no], e |-> [e EXCEPT !.indirect = i.no]]
MapFits(e, off) ==  \* cache_alloc finds the blocks inode_map asks for
  LET wanted == IF off < NDirect THEN IF e.addrs[off] = 0 THEN 1 ELSE 0
                ELSE IF e.indirect = 0 THEN 2 ELSE IF blocks.data[e.indirect][off - NDirect] = 0 THEN 1 ELSE 0
  IN  Cardinality(blocks.used) + wanted =< NumBlocks

(* inode_lookup; the entries of a directory fit one block. *)
DirBlock(e) == IF e.addrs[0] = 0 THEN ZeroBlock ELSE blocks.data[e.addrs[0]]
InodeLookup(i, name) == DirBlock(mem[i].entry)[name]
(* isdirempty: nothing behind "." and "..". *)
IsDirEmpty(i) == \A n \in FileNames : DirBlock(mem[i].entry)[n] = 0

(* inode_insert and inode_remove: entry name of the directory with entry e. *)
InodeInsert(B, e, name, i) == [B EXCEPT !.data[e.addrs[0]][name] = i]
InodeRemove(B, e, name) == InodeInsert(B, e, name, 0)

(* inode_alloc: an entry of the given type on disk. *)
FreeInodes == {i \in Inos : dinodes[i].type = "free"}
InodeAlloc(type) == [dinodes EXCEPT ![Min(FreeInodes)] = [FreeEntry EXCEPT !.type = type]]

(* inode_sync with do_write. *)
InodeSync(D, i, e) == [D EXCEPT ![i] = e]

(* inode_share, and inode_get with init_inode, on the table M. *)
InodeShare(M, i) == [M EXCEPT ![i].rc = @ + 1]
InodeGet(M, i) == IF M[i].in THEN InodeShare(M, i)
                  ELSE [M EXCEPT ![i] = [in |-> TRUE, rc |-> 1, lock |-> 1, entry |-> dinodes[i]]]
GetAsserts(i) == mem[i].in \/ dinodes[i].type # "free"
(* inode_unlock, when nobody is inside of inode_lock meanwhile: see UnlockRaces. *)
InodeUnlock(M, i) == [M EXCEPT ![i].lock = @ + 1]

-----------------------------------------------------------------------------
(* A process between calls, and inside of one. *)
Rest(t) == [t EXCEPT !.pc = "idle", !.op = "", !.path = <<>>, !.ip = 0, !.dp = 0,
                     !.put = 0, !.then = "", !.fd = 0]
PutThen(t, i, pc) == [t EXCEPT !.pc = "put", !.put = i, !.then = pc]
Resume(t) == IF t.then = "idle" THEN Rest(t)
             ELSE IF t.then = "off" THEN [Rest(t) EXCEPT !.pc = "off"] ELSE [t EXCEPT !.pc = t.then, !.put = 0, !.then = ""]
Stop(why) == fsstop = "" /\ fsstop' = why /\ UNCHANGED <<setup, dinodes, mem, blocks, files, th, strays, calls>>
Step(p, t) == fsstop = "" /\ th' = [th EXCEPT ![p] = t] /\ UNCHANGED <<setup, calls, fsstop>>
Call(p, t) == /\ fsstop = "" /\ th[p].pc = "idle" /\ calls < MaxCalls[setup]
              /\ th' = [th EXCEPT ![p] = t] /\ calls' = calls + 1 /\ UNCHANGED <<setup, fsstop>>

Image(tree, leaf, name) ==  \* what mkfs leaves: the root, a directory in it and a leaf in that
  LET Entry(type, links, b) == [FreeEntry EXCEPT !.type = type, !.links = links, !.size = 1, !.addrs[0] = b]
      up == [ZeroBlock EXCEPT ![DotDot] = Root]
  IN  /\ dinodes = [i \in Inos |-> IF i = Root THEN Entry("dir", IF tree THEN 2 ELSE 1, 1)
                                ELSE IF tree /\ i = 2 THEN Entry("dir", IF leaf = "dir" THEN 2 ELSE 1, 2)
                                ELSE IF leaf # "none" /\ i = 3 THEN Entry(leaf, 1, 3) ELSE FreeEntry]
      /\ blocks = [used |-> {1} \cup (IF tree THEN {2} ELSE {}) \cup (IF leaf # "none" THEN {3} ELSE {}),
                   data |-> [b \in 1..NumBlocks |->
                      IF b = 1 THEN [up EXCEPT ![name] = IF tree THEN 2 ELSE 0]
                      ELSE IF tree /\ b = 2 THEN [up EXCEPT ![name] = IF leaf # "none" THEN 3 ELSE 0]
                      ELSE IF leaf = "dir" /\ b = 3 THEN [up EXCEPT ![DotDot] = 2] ELSE ZeroBlock]]

(* init_inodes takes the reference inodes.root, which the first process uses as *)
(* its cwd.                                                                     *)
Leaf == [solo |-> "none", nested |-> "dir", shared |-> "file", free |-> "none"]
FsInit ==
  /\ setup \in Setups
  /\ \E name \in FileNames : Image(setup # "solo", Leaf[setup], name)
  /\ mem = [i \in Inos |-> IF i = Root THEN [in |-> TRUE, rc |-> 1, lock |-> 1, entry |-> dinodes[Root]]
                            ELSE NoInode]
  /\ files = [f \in 1..NFile |-> [ref |-> 0, ip |-> 0, off |-> 0]]
  /\ \E first \in FsProcs : th = [p \in FsProcs |->
       [pc |-> IF p = first THEN "idle" ELSE "off", op |-> "", path |-> <<>>, ip |-> 0, dp |-> 0,
        put |-> 0, then |-> "", fd |-> 0, cwd |-> Root, fds |-> [d \in Fds |-> 0]]]
  /\ strays = {} /\ calls = 0 /\ fsstop = ""

(* The inodes a process has locked. *)
Holds(p) ==
  LET t == th[p]
  IN  (IF t.pc \in {"walkin", "body", "pbody", "cbody", "ebody", "drop"} \/ t.then = "drop" THEN {t.ip} ELSE {})
        \cup (IF t.pc \in {"child", "cget", "cbody", "bad"} \/ t.then = "bad" THEN {t.dp} ELSE {})
        \cup (IF t.pc \in {"clear", "free"} THEN {t.put} ELSE {})

(* One process on an empty disk ("solo") or on a disk with a directory in a        *)
(* directory ("nested"), several processes that create nothing on a disk with a    *)
(* file in a directory ("shared"), and several that do, with a directory ("free"). *)
MayCreate == setup \in {"solo", "free"}
MayFork == setup \in {"shared", "free"}

Paths == UNION {[1..n -> Elems[setup]] : n \in 1..Depth}

(* namex begins: inode_get of the root, or inode_share of the cwd. *)
Begin(p) ==
  /\ th[p].pc = "idle"
  /\ \E op \in PathOps, path \in Paths, start \in {Root, th[p].cwd} :
       /\ op \in Creates => MayCreate
       /\ mem' = InodeGet(mem, start)
       /\ Call(p, [th[p] EXCEPT !.pc = "walk", !.op = op, !.path = path, !.ip = start])
       /\ UNCHANGED <<dinodes, blocks, files, strays>>

(* inode_lock, wherever a call waits for the inode it has come to: the wait and the *)
(* hand-over of Semaphore, in one step.                                             *)
LockedPc == [walk |-> "walkin", found |-> "body", parent |-> "pbody", child |-> "cbody", exists |-> "ebody"]
InodeLock(p) ==
  /\ th[p].pc \in DOMAIN LockedPc
  /\ mem[th[p].ip].lock > 0
  /\ mem' = [mem EXCEPT ![th[p].ip].lock = @ - 1]
  /\ Step(p, [th[p] EXCEPT !.pc = LockedPc[@]])
  /\ UNCHANGED <<dinodes, blocks, files, strays>>

(* inode_unlock calls _post_sem without the lock of the semaphore, and so races with *)
(* an inode_lock that is changing the count or the list.  What can come of that      *)
(* (InodeSem) is not followed here: the file system is given up.                     *)
UnlockRaces(p) ==
  /\ \E q \in FsProcs \ {p} :
       /\ th[q].pc \in DOMAIN LockedPc
       /\ th[q].ip \in Holds(p) \/ (th[p].pc = "created" /\ th[q].ip = th[p].ip)
  /\ Stop("race")

(* One round of namex with the directory locked. *)
WalkStep(p) ==
  /\ th[p].pc = "walkin"
  /\ LET t == th[p]
         last == t.op \in ParentOps /\ Len(t.path) = 1
         isdir == mem[t.ip].entry.type = "dir"
         next == IF isdir THEN InodeLookup(t.ip, Head(t.path)) ELSE 0
         fail == IF t.op \in Creates THEN "null" ELSE "idle"
     IN  \/ /\ isdir /\ last
            /\ mem' = InodeUnlock(mem, t.ip)
            /\ Step(p, [t EXCEPT !.pc = "parent"])
            /\ UNCHANGED <<dinodes, blocks, files, strays>>
         \/ /\ next = 0 /\ ~(isdir /\ last)
            /\ mem' = InodeUnlock(mem, t.ip)
            /\ Step(p, PutThen(t, t.ip, fail))
            /\ UNCHANGED <<dinodes, blocks, files, strays>>
         \/ /\ next # 0 /\ ~last /\ GetAsserts(next)
            /\ mem' = InodeUnlock(InodeGet(mem, next), t.ip)
            /\ Step(p, PutThen([t EXCEPT !.ip = next, !.path = Tail(@)], t.ip,
                               IF Len(t.path) = 1 THEN "found" ELSE "walk"))
            /\ UNCHANGED <<dinodes, blocks, files, strays>>
         \/ /\ next # 0 /\ ~last /\ ~GetAsserts(next)
            /\ Stop("assert")

(* inode_put: the reference is dropped under the lock of the table.  The last   *)
(* one takes the inode off the list, after it has been cleared if no directory  *)
(* names it; the wait for the inode's lock holds the lock of the table.         *)
PutRef(p) ==
  /\ th[p].pc = "put"
  /\ LET i == th[p].put
         gone == mem[i].rc = 1
         dead == gone /\ mem[i].entry.links = 0
     IN  /\ dead => mem[i].lock > 0
         /\ mem' = [mem EXCEPT ![i] = IF dead THEN [@ EXCEPT !.rc = 0, !.lock = @ - 1]
                                      ELSE IF gone THEN NoInode ELSE [@ EXCEPT !.rc = @ - 1]]
         /\ Step(p, IF dead THEN [th[p] EXCEPT !.pc = "clear"] ELSE Resume(th[p]))
  /\ UNCHANGED <<dinodes, blocks, files, strays>>

(* inode_clear and the erasure of the inode's entry on disk. *)
PutClear(p) ==
  /\ th[p].pc = "clear"
  /\ LET owned == BlocksOf(mem[th[p].put].entry)
     IN  IF owned \subseteq blocks.used
         THEN /\ blocks' = [blocks EXCEPT !.used = @ \ owned]
              /\ dinodes' = [dinodes EXCEPT ![th[p].put] = FreeEntry]
              /\ mem' = [mem EXCEPT ![th[p].put].entry = [FreeEntry EXCEPT !.type = mem[th[p].put].entry.type]]
              /\ Step(p, [th[p] EXCEPT !.pc = "free"])
              /\ strays' = strays \ {th[p].put}
              /\ UNCHANGED files
         ELSE Stop("assert")
PutFree(p) ==
  /\ th[p].pc = "free"
  /\ mem' = [mem EXCEPT ![th[p].put] = NoInode]
  /\ Step(p, Resume(th[p]))
  /\ UNCHANGED <<dinodes, blocks, files, strays>>

-----------------------------------------------------------------------------
(* openat, behind namei or create: filealloc, fdalloc, the unlock that follows  *)
(* create's own, and the fields of the file.                                    *)
FreeFiles == {f \in 1..NFile : files[f].ref = 0}
FreeFds(p) == {d \in Fds : th[p].fds[d] = 0}
OpenFile(p) ==
  /\ \/ th[p].pc = "body" /\ th[p].op = "open"
     \/ th[p].pc = "created" /\ th[p].op = "creat"
  /\ mem' = InodeUnlock(mem, th[p].ip)
  /\ IF FreeFiles = {} \/ FreeFds(p) = {}
     THEN Step(p, PutThen(th[p], th[p].ip, "idle")) /\ UNCHANGED files
     ELSE LET f == Min(FreeFiles)
          IN  /\ files' = [files EXCEPT ![f] = [ref |-> 1, ip |-> th[p].ip, off |-> 0]]
              /\ Step(p, Rest([th[p] EXCEPT !.fds[Min(FreeFds(p))] = f]))
  /\ UNCHANGED <<dinodes, blocks, strays>>

\* Mutant of StatPath: the inode is unlocked twice.
StatPathTwice(p) ==
  /\ th[p].pc = "body" /\ th[p].op = "stat"
  /\ mem' = InodeUnlock(InodeUnlock(mem, th[p].ip), th[p].ip)
  /\ Step(p, PutThen(th[p], th[p].ip, "idle"))
  /\ UNCHANGED <<dinodes, blocks, files, strays>>
(* newfstatat. *)
StatPath(p) ==
  /\ th[p].pc = "body" /\ th[p].op = "stat"
  /\ mem' = InodeUnlock(mem, th[p].ip)
  /\ Step(p, PutThen(th[p], th[p].ip, "idle"))
  /\ UNCHANGED <<dinodes, blocks, files, strays>>

\* Mutant of Chdir: the new directory is put in place of the old one.
ChdirKeepsOld(p) ==
  /\ th[p].pc = "body" /\ th[p].op = "chdir"
  /\ mem' = InodeUnlock(mem, th[p].ip)
  /\ Step(p, PutThen([th[p] EXCEPT !.cwd = th[p].ip], th[p].ip, "idle"))
  /\ UNCHANGED <<dinodes, blocks, files, strays>>
(* chdir: the old cwd is put; a file is refused, and its reference kept. *)
Chdir(p) ==
  /\ th[p].pc = "body" /\ th[p].op = "chdir"
  /\ mem' = InodeUnlock(mem, th[p].ip)
  /\ IF mem[th[p].ip].entry.type = "dir"
     THEN Step(p, PutThen([th[p] EXCEPT !.cwd = th[p].ip], th[p].cwd, "idle"))
     ELSE Step(p, Rest(th[p]))
  /\ UNCHANGED <<dinodes, blocks, files, strays>>

(* unlinkat with its directory locked: the lookup, and the reference to the child. *)
UnlinkLookup(p) ==
  /\ th[p].pc = "pbody" /\ th[p].op = "unlink"
  /\ LET t == th[p]
         n == IF Head(t.path) = DotDot THEN 0 ELSE InodeLookup(t.ip, Head(t.path))
     IN  \/ /\ n = 0
            /\ mem' = InodeUnlock(mem, t.ip)
            /\ Step(p, PutThen(t, t.ip, "idle"))
            /\ UNCHANGED <<dinodes, blocks, files, strays>>
         \/ /\ n # 0 /\ GetAsserts(n)
            /\ mem' = InodeGet(mem, n)
            /\ Step(p, [t EXCEPT !.pc = "child", !.ip = n, !.dp = t.ip])
            /\ UNCHANGED <<dinodes, blocks, files, strays>>
         \/ /\ n # 0 /\ ~GetAsserts(n)
            /\ Stop("assert")

(* With both locked: a directory that is not empty stays; otherwise the entry   *)
(* goes, and the directory loses the link of the child's "..".                  *)
UnlinkEntry(p) ==
  /\ th[p].pc = "cbody" /\ th[p].op = "unlink"
  /\ LET t == th[p]
         child == mem[t.ip].entry
         dir == [mem[t.dp].entry EXCEPT !.links = IF child.type = "dir" THEN @ - 1 ELSE @]
     IN  \/ /\ child.links < 1
            /\ Stop("assert")
         \/ /\ child.links > 0 /\ child.type = "dir" /\ ~IsDirEmpty(t.ip)
            /\ mem' = InodeUnlock(mem, t.ip)
            /\ Step(p, PutThen(t, t.ip, "bad"))
            /\ UNCHANGED <<dinodes, blocks, files, strays>>
         \/ /\ child.links > 0 /\ (child.type = "dir" => IsDirEmpty(t.ip))
            /\ blocks' = InodeRemove(blocks, dir, Head(t.path))
            /\ dinodes' = InodeSync(dinodes, t.dp, dir)
            /\ mem' = InodeUnlock([mem EXCEPT ![t.dp].entry = dir], t.dp)
            /\ Step(p, PutThen(t, t.dp, "drop"))
            /\ UNCHANGED <<files, strays>>
\* Mutant of UnlinkBad: the directory stays locked.
UnlinkBadLocked(p) ==
  /\ th[p].pc = "bad"
  /\ Step(p, PutThen(th[p], th[p].dp, "idle"))
  /\ UNCHANGED <<dinodes, mem, blocks, files, strays>>
UnlinkBad(p) ==
  /\ th[p].pc = "bad"
  /\ mem' = InodeUnlock(mem, th[p].dp)
  /\ Step(p, PutThen(th[p], th[p].dp, "idle"))
  /\ UNCHANGED <<dinodes, blocks, files, strays>>
UnlinkDrop(p) ==
  /\ th[p].pc = "drop"
  /\ LET i == th[p].ip
         e == [mem[i].entry EXCEPT !.links = @ - 1]
     IN  /\ dinodes' = InodeSync(dinodes, i, e)
         /\ mem' = InodeUnlock([mem EXCEPT ![i].entry = e], i)
         /\ Step(p, PutThen(th[p], i, "idle"))
  /\ UNCHANGED <<blocks, files, strays>>

-----------------------------------------------------------------------------
(* create uses the result of nameiparent without a test. *)
CreateNull(p) == th[p].pc = "null" /\ Stop("null")

(* create with its directory locked: the name exists, or inode_alloc. *)
TypeOfOp == [creat |-> "file", mkdir |-> "dir", mknod |-> "dev"]
CreateLookup(p) ==
  /\ th[p].pc = "pbody" /\ th[p].op \in Creates
  /\ LET t == th[p]
         n == InodeLookup(t.ip, Head(t.path))
     IN  \/ /\ n # 0 /\ GetAsserts(n)
            /\ mem' = InodeUnlock(InodeGet(mem, n), t.ip)
            /\ Step(p, PutThen([t EXCEPT !.ip = n], t.ip, "exists"))
            /\ UNCHANGED <<dinodes, blocks, files, strays>>
         \/ /\ n # 0 /\ ~GetAsserts(n) /\ Stop("assert")
         \/ /\ n = 0 /\ FreeInodes = {} /\ Stop("full")
         \/ /\ n = 0 /\ FreeInodes # {}
            /\ dinodes' = InodeAlloc(TypeOfOp[t.op])
            /\ Step(p, [t EXCEPT !.pc = "cget", !.ip = Min(FreeInodes), !.dp = t.ip])
            /\ UNCHANGED <<mem, blocks, files, strays>>
CreateExists(p) ==
  /\ th[p].pc = "ebody"
  /\ mem' = InodeUnlock(mem, th[p].ip)
  /\ IF th[p].op = "creat" /\ mem[th[p].ip].entry.type \in {"file", "dev"}
     THEN Step(p, [th[p] EXCEPT !.pc = "created"])
     ELSE Step(p, PutThen(th[p], th[p].ip, "idle"))
  /\ UNCHANGED <<dinodes, blocks, files, strays>>
CreateGet(p) ==
  /\ th[p].pc = "cget"
  /\ mem' = InodeGet(mem, th[p].ip)
  /\ Step(p, [th[p] EXCEPT !.pc = "child"])
  /\ UNCHANGED <<dinodes, blocks, files, strays>>

\* Mutant of CreateInode: the directory is not written back with its new link.
CreateNoSync(p) ==
  /\ th[p].pc = "cbody" /\ th[p].op = "mkdir"
  /\ LET t == th[p]
         m == InodeMap(blocks, [mem[t.ip].entry EXCEPT !.links = 1, !.size = 1], 0)
         dir == [mem[t.dp].entry EXCEPT !.links = @ + 1]
     IN  /\ blocks' = InodeInsert(InodeInsert(m.B, m.e, DotDot, t.dp), dir, Head(t.path), t.ip)
         /\ dinodes' = InodeSync(dinodes, t.ip, m.e)
         /\ mem' = InodeUnlock(InodeUnlock([mem EXCEPT ![t.ip].entry = m.e, ![t.dp].entry = dir], t.ip), t.dp)
         /\ Step(p, PutThen(t, t.dp, "created"))
  /\ UNCHANGED <<files, strays>>
(* The new inode gets its link, a directory its "..", and the directory the     *)
(* entry; inode_insert writes the directory's entry back with its new link.     *)
CreateInode(p) ==
  /\ th[p].pc = "cbody" /\ th[p].op \in Creates
  /\ LET t == th[p]
         new == [mem[t.ip].entry EXCEPT !.links = 1]
         isdir == t.op = "mkdir"
         m == IF isdir THEN InodeMap(blocks, [new EXCEPT !.size = 1], 0) ELSE [B |-> blocks, e |-> new, no |-> 0]
         B == IF isdir THEN InodeInsert(m.B, m.e, DotDot, t.dp) ELSE m.B
         dir == [mem[t.dp].entry EXCEPT !.links = IF isdir THEN @ + 1 ELSE @]
     IN  \/ /\ isdir /\ ~MapFits(new, 0)
            /\ Stop("full")
         \/ /\ isdir => MapFits(new, 0)
            /\ blocks' = InodeInsert(B, dir, Head(t.path), t.ip)
            /\ dinodes' = InodeSync(InodeSync(dinodes, t.ip, m.e), t.dp, dir)
            /\ mem' = InodeUnlock(InodeUnlock([mem EXCEPT ![t.ip].entry = m.e, ![t.dp].entry = dir], t.ip), t.dp)
            /\ strays' = IF mem[t.dp].entry.links = 0 \/ t.dp \in strays THEN strays \cup {t.ip, t.dp} ELSE strays
            /\ Step(p, PutThen(t, t.dp, "created"))
            /\ UNCHANGED files
(* mkdirat and mknodat unlock the inode that create has already unlocked. *)
Created(p) ==
  /\ th[p].pc = "created" /\ th[p].op \in {"mkdir", "mknod"}
  /\ mem' = InodeUnlock(mem, th[p].ip)
  /\ Step(p, PutThen(th[p], th[p].ip, "idle"))
  /\ UNCHANGED <<dinodes, blocks, files, strays>>

-----------------------------------------------------------------------------
(* read, write, writev and fstat: fd2file, then the file's inode is locked.  A   *)
(* file whose mode refuses the call returns at once.                             *)
FdBegin(p) ==
  /\ \E op \in {"read", "write", "fstat"}, d \in Fds :
       LET f == files[th[p].fds[d]]
       IN  /\ th[p].fds[d] # 0
           /\ Call(p, [th[p] EXCEPT !.pc = "found", !.op = op, !.fd = d, !.ip = f.ip])
  /\ UNCHANGED <<dinodes, mem, blocks, files, strays>>

(* inode_read, of one block at most, goes up to the end of the file; inode_write   *)
(* allocates the block and makes the file longer, if it ends there.                *)
InodeRead(e, off) == IF off < e.size THEN 1 ELSE 0
InodeWrite(e, off) ==
  LET m == InodeMap(blocks, e, off)
  IN  [B |-> m.B, e |-> [m.e EXCEPT !.size = IF off = @ THEN off + 1 ELSE @]]

(* filestat and fileread. *)
FileRead(p) ==
  /\ th[p].pc = "body" /\ th[p].op \in {"read", "fstat"}
  /\ LET f == th[p].fds[th[p].fd]
         e == mem[th[p].ip].entry
     IN  /\ files' = IF th[p].op = "read" THEN [files EXCEPT ![f].off = @ + InodeRead(e, @)] ELSE files
         /\ mem' = InodeUnlock(mem, th[p].ip)
         /\ Step(p, Rest(th[p]))
  /\ UNCHANGED <<dinodes, blocks, strays>>
(* filewrite: one block at the file's offset; a device has no blocks.  The code    *)
(* lets a directory be opened for writing: what the program writes becomes its     *)
(* entries, and the file system is given up.                                       *)
FileWrite(p) ==
  /\ th[p].pc = "body" /\ th[p].op = "write"
  /\ LET f == th[p].fds[th[p].fd]
         off == files[f].off
         e == mem[th[p].ip].entry
         w == InodeWrite(e, off)
     IN  \/ /\ e.type = "dev"
            /\ mem' = InodeUnlock(mem, th[p].ip)
            /\ Step(p, Rest(th[p]))
            /\ UNCHANGED <<dinodes, blocks, files, strays>>
         \/ /\ e.type = "dir"
            /\ Stop("overwritten")
         \/ /\ e.type = "file"
            /\ ~(off < MaxSize /\ MapFits(e, off))
            /\ Stop("full")
         \/ /\ e.type = "file" /\ off < MaxSize /\ off > e.size
            /\ Stop("assert")
         \/ /\ e.type = "file" /\ off < MaxSize /\ off =< e.size /\ MapFits(e, off)
            /\ blocks' = w.B
            /\ dinodes' = InodeSync(dinodes, th[p].ip, w.e)
            /\ mem' = InodeUnlock([mem EXCEPT ![th[p].ip].entry = w.e], th[p].ip)
            /\ files' = [files EXCEPT ![f].off = @ + 1]
            /\ Step(p, Rest(th[p]))
            /\ UNCHANGED strays

(* filedup, and fileclose: it drops the file's reference, the last one puts the inode. *)
FileDup(F, f) == [F EXCEPT ![f].ref = @ + 1]
FileClose(F, f) == [F EXCEPT ![f] = IF @.ref > 1 THEN [@ EXCEPT !.ref = @ - 1] ELSE [ref |-> 0, ip |-> 0, off |-> 0]]

Close(p) ==
  /\ \E d \in Fds :
       LET f == th[p].fds[d]
           t == [th[p] EXCEPT !.fds[d] = 0]
       IN  /\ f # 0
           /\ files' = FileClose(files, f)
           /\ Call(p, IF files[f].ref > 1 THEN t ELSE PutThen(t, files[f].ip, "idle"))
  /\ UNCHANGED <<dinodes, mem, blocks, strays>>

(* dup: fdalloc, then filedup. *)
Dup(p) ==
  /\ FreeFds(p) # {}
  /\ \E d \in Fds :
       /\ th[p].fds[d] # 0
       /\ files' = FileDup(files, th[p].fds[d])
       /\ Call(p, [th[p] EXCEPT !.fds[Min(FreeFds(p))] = th[p].fds[d]])
  /\ UNCHANGED <<dinodes, mem, blocks, strays>>

(* fork: the child gets the parent's files and shares its cwd. *)
Fork(p) ==
  /\ th[p].pc = "idle" /\ MayFork
  /\ \E q \in FsProcs :
       /\ th[q].pc = "off"
       /\ files' = [f \in 1..NFile |->
                      [files[f] EXCEPT !.ref = @ + Cardinality({d \in Fds : th[p].fds[d] = f})]]
       /\ mem' = InodeShare(mem, th[p].cwd)
       /\ Step(q, [th[p] EXCEPT !.pc = "idle"])
  /\ UNCHANGED <<dinodes, blocks, strays>>

(* exit, with plock held from its beginning to the end: every file is closed, then *)
(* the cwd is put.                                                                 *)
Exit(p) ==
  /\ \A q \in FsProcs : th[q].op # "exit"
  /\ Call(p, [th[p] EXCEPT !.pc = "exit", !.op = "exit"])
  /\ UNCHANGED <<dinodes, mem, blocks, files, strays>>
ExitStep(p) ==
  /\ th[p].pc = "exit"
  /\ LET open == {d \in Fds : th[p].fds[d] # 0}
         f == th[p].fds[Min(open)]
         t == [th[p] EXCEPT !.fds[Min(open)] = 0]
     IN  IF open = {} THEN Step(p, PutThen([th[p] EXCEPT !.cwd = 0], th[p].cwd, "off")) /\ UNCHANGED files
         ELSE /\ files' = FileClose(files, f)
              /\ Step(p, IF files[f].ref > 1 THEN t ELSE PutThen(t, files[f].ip, "exit"))
  /\ UNCHANGED <<dinodes, mem, blocks, strays>>

Continue(p) ==
  \/ WalkStep(p) \/ PutRef(p) \/ PutClear(p) \/ PutFree(p)
  \/ OpenFile(p) \/ StatPath(p) \/ Chdir(p)
  \/ UnlinkLookup(p) \/ UnlinkEntry(p) \/ UnlinkBad(p) \/ UnlinkDrop(p)
  \/ CreateNull(p) \/ CreateLookup(p) \/ CreateExists(p) \/ CreateGet(p) \/ CreateInode(p) \/ Created(p)
  \/ FileRead(p) \/ FileWrite(p) \/ ExitStep(p)
FsNext ==
  \E p \in FsProcs :
     \/ Begin(p) \/ FdBegin(p) \/ Close(p) \/ Dup(p) \/ Fork(p) \/ Exit(p)
     \/ InodeLock(p) \/ UnlockRaces(p) \/ Continue(p)
FsSpec == FsInit /\ [][FsNext]_fsvars

-----------------------------------------------------------------------------
(* The references a process holds. *)
RefsOf(p) ==
  LET t == th[p]
      inPut == t.pc \in {"put", "clear", "free"}
      ip == /\ t.op \in PathOps /\ t.pc \notin {"idle", "off", "null", "cget", "bad"}
            /\ inPut => t.then \in {"walk", "found", "exists", "created", "drop"}
  IN  (IF ip THEN <<t.ip>> ELSE <<>>)
        \o (IF t.pc \in {"child", "cget", "cbody", "bad"} \/ t.then = "bad" THEN <<t.dp>> ELSE <<>>)
        \o (IF t.pc = "put" THEN <<t.put>> ELSE <<>>)
        \o (IF t.pc # "off" THEN <<t.cwd>> ELSE <<>>)
HeldRefs(i) ==
  MapThenSumSet(LAMBDA p : Cardinality({k \in DOMAIN RefsOf(p) : RefsOf(p)[k] = i}), FsProcs)
    + Cardinality({f \in 1..NFile : files[f].ref > 0 /\ files[f].ip = i})

(* The state has the types the code declares; a lock of an inode in memory is   *)
(* never negative, and the kernel's stops are the ones listed.                  *)
FsTypeOK ==
  /\ \A i \in Inos : /\ dinodes[i].type \in {"free", "dir", "file", "dev"} /\ dinodes[i].size \in 0..MaxSize
                      /\ dinodes[i].links \in 0..NumInodes /\ mem[i].rc \in Nat /\ mem[i].lock \in Nat
  /\ blocks.used \subseteq 1..NumBlocks
  /\ \A f \in 1..NFile : files[f].ref \in 0..(NOFile * Cardinality(FsProcs)) /\ files[f].off \in 0..MaxSize
  /\ \A p \in FsProcs : th[p].ip \in 0..NumInodes /\ Range(th[p].fds) \subseteq 0..NFile

(* The ASSERTs and PANICs of inode_get, inode_write, unlinkat and cache_free fail  *)
(* in one case only: ".." is looked up in a directory that has been unlinked (it   *)
(* is still somebody's cwd), after its parent was unlinked and freed as well       *)
(* (inode.c:127).  Otherwise a number found in a directory is an allocated inode   *)
(* ("caller should guarantee inode_no points to an allocated inode", inode.h).     *)
FailsOnlyBehindDotDot ==
  fsstop = "assert" => \E p \in FsProcs : /\ th[p].pc = "walkin" /\ Head(th[p].path) = DotDot
                                          /\ mem[th[p].ip].entry.links = 0

(* No use after free: an inode somebody refers to (a walk, an open file, a cwd)  *)
(* is in memory, and counts at least these references.                           *)
RefsCovered == \A i \in Inos : HeldRefs(i) > 0 => mem[i].in /\ mem[i].rc >= HeldRefs(i)

(* f->ref of the file table counts the descriptors that point to the file, over   *)
(* all processes, across dup, fork, close and failing opens.                      *)
FileRefsExact ==
  \A f \in 1..NFile :
     files[f].ref = Cardinality({pd \in FsProcs \X Fds : th[pd[1]].pc # "off" /\ th[pd[1]].fds[pd[2]] = f})

(* inode.h: "lock protects: 1. metadata of inode, 2. file content managed by this  *)
(* inode": two processes are never inside the lock of one inode.  It fails in the  *)
(* setup "free", where the unlock after create's own (sysfile.c:352, 382, 405)     *)
(* leaves the new inode's lock with two units.                                     *)
LockExcludes == \A p, q \in FsProcs : p # q => Holds(p) \cap Holds(q) = {}

(* LockExcludes, whatever several processes do that look up, open, read, write,    *)
(* unlink, fork and exit, and whatever one process does that creates files too:    *)
(* every error path gives back what it locked, once.  It speaks of the states      *)
(* before an unlock races with a lock (UnlockRaces).                               *)
InodeLockExclusive == setup # "free" => LockExcludes

(* No deadlock over inode locks, also between two processes that create files and   *)
(* follow "..": among any processes that wait for one, one waits for a process      *)
(* outside of them, and a lock is never lost on an error path.  unlinkat and create *)
(* lock a directory before its child, and inode_put waits under the spin lock of    *)
(* the table.  It speaks of the states before an unlock races with a lock, and of   *)
(* inodes that are in memory.                                                       *)
WaitsFor(p) ==
  LET t == th[p]
      want == IF t.pc \in DOMAIN LockedPc THEN t.ip
              ELSE IF t.pc = "put" /\ mem[t.put].rc = 1 /\ mem[t.put].entry.links = 0 THEN t.put ELSE 0
  IN  IF want # 0 /\ mem[want].in /\ mem[want].lock = 0 THEN {want} ELSE {}
NoLockDeadlock ==
  \A S \in SUBSET {p \in FsProcs : WaitsFor(p) # {}} \ {{}} :
     \E p \in S, q \in FsProcs \ S : WaitsFor(p) \subseteq Holds(q)

(* Outside of its lock an inode in memory equals its entry on disk: every change  *)
(* of links, size or addresses has been synced, by inode_sync or inode_write.     *)
MemoryMatchesDisk ==
  \A i \in Inos : mem[i].in /\ (\A p \in FsProcs : i \notin Holds(p)) => mem[i].entry = dinodes[i]

(* The bitmap is exact: a block is marked used iff exactly one inode owns it, as  *)
(* data or as its indirect block.                                                 *)
BitmapExact ==
  /\ blocks.used = UNION {BlocksOf(EntryOf(i)) : i \in Inos}
  /\ \A i, j \in Inos : i # j => BlocksOf(EntryOf(i)) \cap BlocksOf(EntryOf(j)) = {}

(* Link counts are exact: num_links is the number of directory entries that name  *)
(* the inode, plus the ".." of its subdirectories, plus one for the root; while   *)
(* an unlink is between the entry and the count it is one more.  A freed inode is *)
(* named nowhere.                                                                 *)
Dropping(i) == \E p \in FsProcs : th[p].ip = i /\ "drop" \in {th[p].pc, th[p].then}
Dirs == {d \in Inos : EntryOf(d).type = "dir"}
Named(i) == Cardinality({dn \in Dirs \X FileNames : DirBlock(EntryOf(dn[1]))[dn[2]] = i})
Subdirs(i) == {d \in Dirs \ ({Root} \cup strays) :
                 EntryOf(d).links > 0 /\ ~Dropping(d) /\ DirBlock(EntryOf(d))[DotDot] = i}
LinksExact ==
  \A i \in Inos \ strays :
     EntryOf(i).links = Named(i) + Cardinality(Subdirs(i)) + (IF i = Root THEN 1 ELSE 0)
                          + (IF Dropping(i) THEN 1 ELSE 0)

(* The offset of an open file stays within the file: what inode_write asserts.    *)
OffsetInFile ==
  \A f \in 1..NFile : files[f].ref > 0 /\ mem[files[f].ip].entry.type = "file"
                        => files[f].off =< mem[files[f].ip].entry.size

(* Both reference counts, of inodes (inode_get, inode_share, inode_put) and of     *)
(* open files (filedup, fileclose), cover or equal the references that exist.  Not *)
(* in the setup "free": there create may be given the number of an inode that      *)
(* inode_put is still taking apart (inode.c:60, 187), and ends with one that is     *)
(* freed under it.                                                                 *)
RefsExact == setup # "free" => RefsCovered /\ FileRefsExact

(* The tree is consistent at every step of every call of sysfile.c: memory and     *)
(* disk, bitmap, link counts and offsets agree, and no ASSERT fails on the way but *)
(* the one behind "..".  It speaks of the states before a program writes into a    *)
(* directory or an unlock races with a lock, and not of the setup "free", where    *)
(* two processes can be inside one inode.                                          *)
FsConsistent ==
  setup # "free" => /\ FsTypeOK /\ FailsOnlyBehindDotDot /\ MemoryMatchesDisk
                    /\ BitmapExact /\ LinksExact /\ OffsetInFile
=============================================================================
