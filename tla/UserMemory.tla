----------------------------- MODULE UserMemory -----------------------------
(***************************************************************************)
(* Address spaces: the page tables of kernel/pt.c, the sections of         *)
(* kernel/paging.c, execve (kernel/exec.c) and what fork, exit and wait    *)
(* (kernel/proc.c) do with them.  Addresses are counted in units, some to  *)
(* a page, so that a segment may begin and end inside of one.  Other       *)
(* processes run while execve reads the file, between its segments.        *)
(***************************************************************************)
EXTENDS Integers, Sequences, FiniteSets, FiniteSetsExt, SequencesExt, TLC

CONSTANTS
  VmProcs, FirstProc,
  NumFrames,          \* pages of memory
  PageUnits,          \* units in a page
  Fan,                \* N_PTE_PER_TABLE
  MaxVmCalls,         \* bound on the calls of execve and fork
  Images,             \* the files that are executed: their program headers
  StackPage,          \* the page number of STACK_BASE
  IcodePage, IcodeSection   \* where create_user_proc maps icode, and what it calls its section

Frames == 1 .. NumFrames
PageRange(begin, end) == [i \in 1 .. end - begin |-> begin + i - 1]
PageBase(u) == u \div PageUnits
PageUp(u) == (u + PageUnits - 1) \div PageUnits

\* execve looks for one text and one data segment, which share no page.
Loaded(im, flags) == {i \in DOMAIN im : im[i].type = "load" /\ im[i].flags = flags}
ASSUME ImagesAssumption ==
  \A im \in Images :
    /\ \A f \in {"rx", "rw"} : Cardinality(Loaded(im, f)) <= 1
    /\ \A i \in Loaded(im, "rx"), j \in Loaded(im, "rw") :
         PageUp(im[i].va + im[i].filesz) <= PageBase(im[j].va)
    /\ \A i \in Loaded(im, "rw") : PageUp(im[i].va + im[i].memsz) <= StackPage

\* ram: the contents of the pages in use; a file is its offsets, 0 is a zero and
\* Junk what was there before.  vm: each process's address space, kernel stack,
\* image and the state of its execve.  twice: a page was freed that was free.  halt:
\* execve has ended in a state that is not modelled further.
VARIABLES ram, vm, twice, halt, vmcalls
uservars == <<ram, vm, twice, halt, vmcalls>>

Junk == -1
Icode == 0
Fresh == [i \in 0 .. PageUnits - 1 |-> Junk]
Zeroed == [i \in 0 .. PageUnits - 1 |-> 0]
NoPgdir == [pt |-> <<>>, pte |-> <<>>, secs |-> <<>>]
NotExec == [image |-> <<>>, next |-> 0, pd |-> NoPgdir]
NoVm == [state |-> "none", pgdir |-> NoPgdir, kstack |-> 0, image |-> <<>>, exec |-> NotExec]

FreeFrame(m) == Min(Frames \ DOMAIN m)

-----------------------------------------------------------------------------
(* Page tables.  A pair [m, pd] is the memory with an address space.         *)

\* The tables on the way to an address, from the root down.
Path(va) == {<<k, va \div Fan^(4 - k)>> : k \in 0 .. 3}

\* get_pte with alloc.
WithTables(st, va) ==
  FoldSet(LAMBDA t, s : [m |-> s.m @@ (FreeFrame(s.m) :> Zeroed),
                         pd |-> [s.pd EXCEPT !.pt = @ @@ (t :> FreeFrame(s.m))]],
          st, Path(va) \ DOMAIN st.pd.pt)

vmmap(st, va, f) ==
  LET s == WithTables(st, va) IN [s EXCEPT !.pd.pte = (va :> f) @@ @]

\* alloc_page_for_user, the contents, and vmmap.
UserPage(st, va, content) ==
  LET f == FreeFrame(st.m) IN vmmap([st EXCEPT !.m = @ @@ (f :> content)], va, f)

init_pgdir(m) ==
  [m |-> m @@ (FreeFrame(m) :> Zeroed), pd |-> [NoPgdir EXCEPT !.pt = (<<0, 0>> :> FreeFrame(m))]]

\* The pages that free_sections frees, section by section.
SectionPages(pd) ==
  FlattenSeq([i \in DOMAIN pd.secs |->
    SelectSeq(PageRange(pd.secs[i].begin, pd.secs[i].end), LAMBDA va : va \in DOMAIN pd.pte)])
Freed(pd) == {pd.pte[va] : va \in Range(SectionPages(pd))} \cup {pd.pt[t] : t \in DOMAIN pd.pt}

\* free_sections, and traverse_free of the tables.
free_pgdir(m, pd) == [f \in DOMAIN m \ Freed(pd) |-> m[f]]
FreesTwice(m, pd) ==
  Cardinality(Freed(pd) \cap DOMAIN m) # Len(SectionPages(pd)) + Cardinality(DOMAIN pd.pt)

\* Every section, and a copy of each of its pages.
copy_pgdir(m, from, to) ==
  LET one(s, sec) ==
        FoldLeft(LAMBDA t, va : UserPage(t, va, t.m[from.pte[va]]),
                 [s EXCEPT !.pd.secs = <<sec>> \o @], PageRange(sec.begin, sec.end))
  IN  FoldLeft(one, [m |-> m, pd |-> to], from.secs)

Section(flags, begin, end) == [flags |-> flags, begin |-> begin, end |-> end]

create_stack_section(st, va) ==
  UserPage([st EXCEPT !.pd.secs = <<Section("stack", va, va + 1)>> \o @], va, Zeroed)

\* Each new section goes to the head of the list.
create_file_sections(st) ==
  [st EXCEPT !.pd.secs = <<Section("data", 0, 0), Section("text", 0, 0)>> \o @]

-----------------------------------------------------------------------------
(* execve.                                                                   *)

FirstWith(secs, flags) == SelectInSeq(secs, LAMBDA s : s.flags = flags)

\* What load_seg reads into the page p of a segment.
FileUnits(ph, p) ==
  LET at == p * PageUnits
      end == ph.va + ph.filesz
      file_off == IF at < ph.va THEN 0 ELSE at - ph.va
      page_off == IF at < ph.va THEN ph.va - at ELSE 0
      n == IF at + PageUnits > end THEN end - at - page_off ELSE PageUnits - page_off
  IN  [i \in 0 .. PageUnits - 1 |->
         IF i \in page_off .. page_off + n - 1 THEN ph.off + file_off + i - page_off ELSE Junk]

\* load_seg, whose read of a page after the first good ones fails.
load_seg(st, ph, flags, good) ==
  LET begin == PageBase(ph.va)
      end == PageUp(ph.va + ph.filesz)
      sec == FirstWith(st.pd.secs, flags)
      start == [st EXCEPT !.pd.secs[sec].begin = begin, !.pd.secs[sec].end = end]
  IN  FoldLeft(LAMBDA s, p : UserPage(s, p, IF p < begin + good THEN FileUnits(ph, p) ELSE Fresh),
               start, PageRange(begin, Min({end, begin + good + 1})))

\* Mutant of fill_bss: the section is not made longer.
fill_bss_short(st, va, sz) ==
  FoldLeft(LAMBDA s, p :
             IF p * PageUnits < va
             THEN [s EXCEPT !.m[s.pd.pte[p]] = [i \in DOMAIN @ |-> IF i >= va - p * PageUnits THEN 0 ELSE @[i]]]
             ELSE UserPage(s, p, Zeroed),
           st, PageRange(PageBase(va), PageUp(va + sz)))

\* fill_bss: zeros from va, at first in the last page of the file's part.
fill_bss(st, va, sz) ==
  LET sec == FirstWith(st.pd.secs, "data")   \* ST_BSS is ST_DATA
  IN  FoldLeft(LAMBDA s, p :
                 IF p * PageUnits < va
                 THEN [s EXCEPT !.m[s.pd.pte[p]] = [i \in DOMAIN @ |-> IF i >= va - p * PageUnits THEN 0 ELSE @[i]]]
                 ELSE UserPage(s, p, Zeroed),
               [st EXCEPT !.pd.secs[sec].end = PageUp(va + sz)],
               PageRange(PageBase(va), PageUp(va + sz)))

Running(p) == vm[p].state \in {"boot", "run"}

\* The path is not found, or the file is not an ELF file: nothing has happened yet.
\* If its header cannot be read, bad frees a pgdir that was never initialised.
ExecOpen(p, im) ==
  /\ Running(p) /\ vm[p].exec = NotExec
  /\ vmcalls < MaxVmCalls /\ vmcalls' = vmcalls + 1
  /\ \/ halt' = "wild" /\ UNCHANGED <<ram, vm>>
     \/ LET st == create_file_sections(init_pgdir(ram))
        IN  /\ ram' = st.m
            /\ vm' = [vm EXCEPT ![p].exec = [image |-> im, next |-> 1, pd |-> st.pd]]
            /\ UNCHANGED halt
  /\ UNCHANGED twice

\* bad, while the inode is still locked: the new address space is freed.
ExecBad(p, st) ==
  /\ ram' = free_pgdir(st.m, st.pd)
  /\ twice' = (twice \/ FreesTwice(st.m, st.pd))
  /\ vm' = [vm EXCEPT ![p].exec = NotExec]

ExecContinue(p, st) ==
  /\ ram' = st.m
  /\ vm' = [vm EXCEPT ![p].exec.next = @ + 1, ![p].exec.pd = st.pd]
  /\ UNCHANGED twice

\* One program header: skipped, loaded, or not loaded because it cannot be read,
\* is of another kind, or one of its pages cannot be read.
ExecSegment(p) ==
  LET x == vm[p].exec
      ph == x.image[x.next]
      st == [m |-> ram, pd |-> x.pd]
      flags == IF ph.flags = "rx" THEN "text" ELSE "data"
      count == PageUp(ph.va + ph.filesz) - PageBase(ph.va)
      full == load_seg(st, ph, flags, count)
      new == IF ph.flags = "rx" THEN full ELSE fill_bss(full, ph.va + ph.filesz, ph.memsz - ph.filesz)
  IN  /\ x # NotExec /\ x.next <= Len(x.image)
      /\ \/ ExecBad(p, st)
         \/ ph.type # "load" /\ ExecContinue(p, st)
         \/ /\ ph.type = "load" /\ ph.flags \in {"rx", "rw"}
            /\ \/ ExecContinue(p, new)
               \/ \E good \in 0 .. count - 1 : ExecBad(p, load_seg(st, ph, flags, good))
      /\ UNCHANGED <<halt, vmcalls>>

\* The stack and the arguments.  If they do not fit, bad unlocks, puts and ends what
\* has been unlocked, put and ended; otherwise the new address space is copied.
ExecFinish(p) ==
  LET x == vm[p].exec
      st == create_stack_section([m |-> ram, pd |-> x.pd], StackPage)
      old == vm[p].pgdir
      clean == init_pgdir(free_pgdir(st.m, old))
      new == copy_pgdir(clean.m, st.pd, clean.pd)
  IN  /\ x # NotExec /\ x.next > Len(x.image)
      /\ \/ ExecBad(p, st) /\ halt' = "given back twice"
         \/ /\ ram' = free_pgdir(new.m, st.pd)
            /\ twice' = (twice \/ FreesTwice(st.m, old) \/ FreesTwice(new.m, st.pd))
            /\ vm' = [vm EXCEPT ![p].state = "run", ![p].pgdir = new.pd, ![p].image = x.image,
                                ![p].exec = NotExec]
            /\ UNCHANGED halt
      /\ UNCHANGED vmcalls

-----------------------------------------------------------------------------
(* Processes.                                                                *)

\* create_proc and create_user_proc: icode is part of the kernel, not a page of the
\* allocator, and the section is that of its kernel address.
UserInit ==
  LET st == init_pgdir(<<>>)
      k == FreeFrame(st.m)
      up == vmmap([st EXCEPT !.m = @ @@ (k :> Fresh)], IcodePage, Icode)
  IN  /\ ram = up.m
      /\ vm = [p \in VmProcs |-> IF p # FirstProc THEN NoVm ELSE
                [NoVm EXCEPT !.state = "boot", !.kstack = k, !.pgdir =
                   [up.pd EXCEPT !.secs = <<Section("text", IcodeSection, IcodeSection + 1)>>]]]
      /\ twice = FALSE /\ halt = "no" /\ vmcalls = 0

\* fork: create_proc, and a copy of the address space.  icode does not fork.
VmFork(p, q) ==
  LET st == init_pgdir(ram)
      k == FreeFrame(st.m)
      new == copy_pgdir(st.m @@ (k :> Fresh), vm[p].pgdir, st.pd)
  IN  /\ vm[p].state = "run" /\ vm[p].exec = NotExec /\ vm[q].state = "none"
      /\ vmcalls < MaxVmCalls /\ vmcalls' = vmcalls + 1
      /\ ram' = new.m
      /\ vm' = [vm EXCEPT ![q] = [NoVm EXCEPT !.state = "run", !.pgdir = new.pd,
                                              !.kstack = k, !.image = vm[p].image]]
      /\ UNCHANGED <<twice, halt>>

\* exit frees the address space, and wait the kernel stack.
VmExit(p) ==
  /\ vm[p].state = "run" /\ vm[p].exec = NotExec
  /\ ram' = free_pgdir(ram, vm[p].pgdir)
  /\ twice' = (twice \/ FreesTwice(ram, vm[p].pgdir))
  /\ vm' = [vm EXCEPT ![p] = [NoVm EXCEPT !.state = "zombie", !.kstack = vm[p].kstack]]
  /\ UNCHANGED <<halt, vmcalls>>

VmWait(p) ==
  /\ vm[p].state = "zombie"
  /\ ram' = [f \in DOMAIN ram \ {vm[p].kstack} |-> ram[f]]
  /\ vm' = [vm EXCEPT ![p] = NoVm]
  /\ UNCHANGED <<twice, halt, vmcalls>>

UserNext ==
  /\ halt = "no"
  /\ \E p \in VmProcs :
       \/ \E im \in Images : ExecOpen(p, im)
       \/ ExecSegment(p) \/ ExecFinish(p)
       \/ \E q \in VmProcs : VmFork(p, q)
       \/ VmExit(p) \/ VmWait(p)
UserSpec == UserInit /\ [][UserNext]_uservars

-----------------------------------------------------------------------------
Used(pd) == {pd.pt[t] : t \in DOMAIN pd.pt} \cup ({pd.pte[va] : va \in DOMAIN pd.pte} \ {Icode})
Places(pd) == Cardinality(DOMAIN pd.pt) + Cardinality({va \in DOMAIN pd.pte : pd.pte[va] # Icode})

\* Every page in use is in one place: a table, a page of one address space or a
\* kernel stack; none is lost and none is freed twice (pt.c:88-111, paging.c:80-111).
FramesOwnedOnce ==
  LET stacks == {vm[p].kstack : p \in VmProcs} \ {0}
      count(p) == Places(vm[p].pgdir) + Places(vm[p].exec.pd) + (IF vm[p].kstack = 0 THEN 0 ELSE 1)
  IN  /\ ~twice
      /\ DOMAIN ram = stacks \cup UNION {Used(vm[p].pgdir) \cup Used(vm[p].exec.pd) : p \in VmProcs}
      /\ Cardinality(DOMAIN ram) = FoldSet(LAMBDA p, n : n + count(p), 0, VmProcs)

\* What is mapped is what the sections say, with no tables but those it needs.
SectionsMapped ==
  \A p \in VmProcs : \A pd \in {vm[p].exec.pd} \cup (IF vm[p].state = "boot" THEN {} ELSE {vm[p].pgdir}) :
    /\ DOMAIN pd.pte = UNION {Range(PageRange(s.begin, s.end)) : s \in Range(pd.secs)}
    /\ DOMAIN pd.pt \ {<<0, 0>>} = UNION {Path(va) : va \in DOMAIN pd.pte} \ {<<0, 0>>}

\* A process sees its file where the program headers say, and zeros after it.
ImageLoaded ==
  \A p \in VmProcs : \A i \in DOMAIN vm[p].image :
    LET ph == vm[p].image[i]
        unit(u) == ram[vm[p].pgdir.pte[u \div PageUnits]][u % PageUnits]
    IN  ph.type = "load" =>
          \A u \in ph.va .. ph.va + ph.memsz - 1 :
            unit(u) = IF u < ph.va + ph.filesz THEN ph.off + u - ph.va ELSE 0

\* Through any sequence of fork, execve with its failures, exit and wait.
AddressSpacesExact == FramesOwnedOnce /\ SectionsMapped /\ ImageLoaded
=============================================================================
