------------------------------ MODULE PageAlloc ------------------------------
(***************************************************************************)
(* The allocator of kernel/mem.c: pages on a lock-free stack (the          *)
(* QueueNode of common/list.c), taken and returned by all CPUs at once,    *)
(* and below kalloc and kfree slabs of objects, each a page, under         *)
(* mem_lock.  Kernel code is not preempted, so that a CPU is one thread.   *)
(***************************************************************************)
EXTENDS Integers, Sequences, FiniteSets, SequencesExt

CONSTANTS
  KCpus,      \* the CPUs
  NumPages,   \* the pages below PHYSTOP; 0 is the null pointer
  Orders,     \* the orders of the sizes asked for, below SLAB_MAX + 1
  PageSize, SlabHeader,   \* PAGE_SIZE and sizeof(slab_t)
  NoCpu
ASSUME PageAllocAssumption == NumPages \in Nat /\ Orders \subseteq Nat

Pages == 1 .. NumPages

\* stack is the variable pages of mem.c, next the first word of each page on it.
\* ref and left are pages_info and left_page_num.  slab, partial and full are the
\* slabs and their lists; objects that callers hold are in out, pages in held.
\* kc is what each CPU is doing.  aba records that a fetch took a page whose
\* successor had changed since it was read.
VARIABLES stack, next, ref, left, slab, partial, full, memlock, held, out, kc, aba, oom
memvars == <<stack, next, ref, left, slab, partial, full, memlock, held, out, kc, aba, oom>>

NoSlab == [order |-> 0, used |-> 0, objs |-> <<>>]
AtRest == [pc |-> "idle", node |-> 0, succ |-> 0, order |-> -1]

\* define_early_init(pages): add_to_queue, from the first page to the last.
MemInit ==
  /\ stack = NumPages /\ next = [p \in Pages |-> p - 1]
  /\ ref = [p \in Pages |-> 0] /\ left = NumPages
  /\ slab = [p \in Pages |-> NoSlab]
  /\ partial = [o \in Orders |-> <<>>] /\ full = [o \in Orders |-> <<>>]
  /\ memlock = NoCpu /\ held = {} /\ out = {}
  /\ kc = [c \in KCpus |-> AtRest] /\ aba = FALSE /\ oom = FALSE

Slabs == {p \in Pages : slab[p] # NoSlab}
slabvars == <<slab, partial, full>>
InTransit(pcs) == {c \in KCpus : kc[c].pc \in pcs}

\* What init_slab cuts a page into: the offsets of its objects, the last one first,
\* as each is put in front of the others.
Offsets(o) ==
  Reverse(SetToSortSeq({SlabHeader + k * 2^o : k \in {j \in 0 .. PageSize :
            SlabHeader + j * 2^o < PageSize - 2^o}}, <))

-----------------------------------------------------------------------------
(* fetch_from_queue and add_to_queue, with the ends of kalloc_page and        *)
(* kfree_page.                                                                *)

\* node = *head.  On an empty stack kalloc_page goes on with a null page.
FetchHead(c) ==
  /\ kc[c].pc = "fetch"
  /\ oom' = (stack = 0)
  /\ kc' = IF stack = 0 THEN kc ELSE [kc EXCEPT ![c].pc = "succ", ![c].node = stack]
  /\ UNCHANGED <<stack, next, ref, left, slabvars, memlock, held, out, aba>>

\* node->next, which is anything if the page has been taken since.
FetchSucc(c) ==
  LET taken == held \cup Slabs \cup {kc[d].node : d \in InTransit({"got", "put"})}
  IN  /\ kc[c].pc = "succ"
      /\ \E s \in IF kc[c].node \in taken THEN Pages \cup {0} ELSE {next[kc[c].node]} :
            kc' = [kc EXCEPT ![c].pc = "take", ![c].succ = s]
      /\ UNCHANGED <<stack, next, ref, left, slabvars, memlock, held, out, aba, oom>>

\* The exchange, which may fail for no reason.
FetchTake(c) ==
  /\ kc[c].pc = "take"
  /\ \/ /\ stack = kc[c].node
        /\ stack' = kc[c].succ
        /\ aba' = (kc[c].succ # next[kc[c].node])
        /\ kc' = [kc EXCEPT ![c].pc = "got"]
     \/ kc' = [kc EXCEPT ![c].pc = "fetch"] /\ UNCHANGED <<stack, aba>>
  /\ UNCHANGED <<next, ref, left, slabvars, memlock, held, out, oom>>

\* The rest of kalloc_page, and of init_slab if that called it: one object is used
\* at once and the slab goes to the list of its order.  The page belongs to the
\* caller now, and so does what was its link.
Got(c) ==
  LET p == kc[c].node
      o == kc[c].order
      objs == Offsets(o)
  IN  /\ kc[c].pc = "got"
      /\ ref' = [ref EXCEPT ![p] = 1] /\ left' = left - 1
      /\ kc' = [kc EXCEPT ![c] = AtRest]
      /\ \/ /\ o = -1 /\ held' = held \cup {p} /\ UNCHANGED <<slabvars, memlock, out>>
         \/ /\ o # -1 /\ memlock' = NoCpu
            /\ slab' = [slab EXCEPT ![p] = [order |-> o, used |-> 1, objs |-> Tail(objs)]]
            /\ out' = out \cup {<<p, Head(objs)>>}
            /\ IF Len(objs) = 1
               THEN full' = [full EXCEPT ![o] = <<p>> \o @] /\ UNCHANGED partial
               ELSE partial' = [partial EXCEPT ![o] = <<p>> \o @] /\ UNCHANGED full
            /\ UNCHANGED held
      /\ next' = [next EXCEPT ![p] = 0]
      /\ UNCHANGED <<stack, aba, oom>>

\* node->next = *head.
PutSucc(c) ==
  /\ kc[c].pc = "put"
  /\ next' = [next EXCEPT ![kc[c].node] = stack]
  /\ kc' = [kc EXCEPT ![c].pc = "push"]
  /\ UNCHANGED <<stack, ref, left, slabvars, memlock, held, out, aba, oom>>

PutPush(c) ==
  /\ kc[c].pc = "push"
  /\ \/ stack = next[kc[c].node] /\ stack' = kc[c].node /\ kc' = [kc EXCEPT ![c].pc = "gone"]
     \/ kc' = [kc EXCEPT ![c].pc = "put"] /\ UNCHANGED stack
  /\ UNCHANGED <<next, ref, left, slabvars, memlock, held, out, aba, oom>>

\* The rest of kfree_page, and of kfree.
Gone(c) ==
  /\ kc[c].pc = "gone"
  /\ left' = left + 1
  /\ memlock' = IF memlock = c THEN NoCpu ELSE memlock
  /\ kc' = [kc EXCEPT ![c] = AtRest]
  /\ UNCHANGED <<stack, next, ref, slabvars, held, out, aba, oom>>
-----------------------------------------------------------------------------
(* The calls.                                                                *)

KallocPage(c) ==
  /\ kc[c].pc = "idle"
  /\ kc' = [kc EXCEPT ![c].pc = "fetch"]
  /\ UNCHANGED <<stack, next, ref, left, slabvars, memlock, held, out, aba, oom>>

\* kfree_page of a page a caller holds: back on the stack when nobody refers to it.
KfreePage(c, p) ==
  /\ kc[c].pc = "idle" /\ p \in held
  /\ held' = held \ {p}
  /\ ref' = [ref EXCEPT ![p] = @ - 1]
  /\ kc' = IF ref[p] <= 1 THEN [kc EXCEPT ![c].pc = "put", ![c].node = p] ELSE kc
  /\ UNCHANGED <<stack, next, left, slabvars, memlock, out, aba, oom>>

\* Mutant of Kalloc: a slab whose last object is taken stays on slabs_partial.
KallocStaysPartial(c, o) ==
  /\ kc[c].pc = "idle" /\ memlock = NoCpu
  /\ \/ /\ partial[o] = <<>>
        /\ memlock' = c
        /\ kc' = [kc EXCEPT ![c].pc = "fetch", ![c].order = o]
        /\ UNCHANGED <<slabvars, out>>
     \/ /\ partial[o] # <<>>
        /\ LET s == Head(partial[o]) IN
           /\ slab' = [slab EXCEPT ![s].used = @ + 1, ![s].objs = Tail(@)]
           /\ out' = out \cup {<<s, Head(slab[s].objs)>>}
        /\ UNCHANGED <<partial, full, memlock, kc>>
  /\ UNCHANGED <<stack, next, ref, left, held, aba, oom>>

\* kalloc: find_in_slab, or init_slab while mem_lock is held.
Kalloc(c, o) ==
  /\ kc[c].pc = "idle" /\ memlock = NoCpu
  /\ \/ /\ partial[o] = <<>>
        /\ memlock' = c
        /\ kc' = [kc EXCEPT ![c].pc = "fetch", ![c].order = o]
        /\ UNCHANGED <<slabvars, out>>
     \/ /\ partial[o] # <<>>
        /\ LET s == Head(partial[o]) IN
           /\ slab' = [slab EXCEPT ![s].used = @ + 1, ![s].objs = Tail(@)]
           /\ out' = out \cup {<<s, Head(slab[s].objs)>>}
           /\ IF Len(slab[s].objs) = 1
              THEN /\ partial' = [partial EXCEPT ![o] = Tail(@)]
                   /\ full' = [full EXCEPT ![o] = <<s>> \o @]
              ELSE UNCHANGED <<partial, full>>
        /\ UNCHANGED <<memlock, kc>>
  /\ UNCHANGED <<stack, next, ref, left, held, aba, oom>>

\* kfree of an object: its slab leaves the list it is on; it goes to slabs_partial,
\* or its page is freed while mem_lock is held.
Kfree(c, x) ==
  LET s == x[1]
      o == slab[s].order
      without(list) == SelectSeq(list, LAMBDA q : q # s)
  IN  /\ kc[c].pc = "idle" /\ memlock = NoCpu /\ x \in out
      /\ out' = out \ {x}
      /\ full' = [full EXCEPT ![o] = without(@)]
      /\ \/ /\ slab[s].used = 1
            /\ slab' = [slab EXCEPT ![s] = NoSlab]
            /\ partial' = [partial EXCEPT ![o] = without(@)]
            /\ memlock' = c /\ ref' = [ref EXCEPT ![s] = @ - 1]
            /\ kc' = [kc EXCEPT ![c].pc = "put", ![c].node = s]
         \/ /\ slab[s].used # 1
            /\ slab' = [slab EXCEPT ![s].used = @ - 1, ![s].objs = <<x[2]>> \o @]
            /\ partial' = [partial EXCEPT ![o] = <<s>> \o without(@)]
            /\ UNCHANGED <<memlock, ref, kc>>
      /\ UNCHANGED <<stack, next, left, held, aba, oom>>

\* A corrupted stack, or a null page in use, is the end of what is modelled.
MemNext ==
  /\ ~aba /\ ~oom
  /\ \E c \in KCpus :
       \/ FetchHead(c) \/ FetchSucc(c) \/ FetchTake(c) \/ Got(c)
       \/ PutSucc(c) \/ PutPush(c) \/ Gone(c)
       \/ KallocPage(c) \/ \E p \in Pages : KfreePage(c, p)
       \/ \E o \in Orders : Kalloc(c, o)
       \/ \E x \in out : Kfree(c, x)
MemSpec == MemInit /\ [][MemNext]_memvars

-----------------------------------------------------------------------------
(* The pages that can be reached from the top of the stack. *)
Stacked ==
  LET down[k \in 0 .. NumPages] ==
        IF k = 0 THEN {stack} ELSE down[k - 1] \cup {next[p] : p \in down[k - 1] \ {0}}
  IN  down[NumPages] \ {0}

\* Every page is in one place (on the stack, with a caller, a slab, or on its way
\* with one CPU), counts one reference exactly while it is in use, and
\* left_page_num is right up to the CPUs that have not counted yet: however the
\* exchanges of list.c:46-62 interleave, unless one of them succeeds on a page
\* whose successor changed in between.
PagesOwnedOnce ==
  LET moving == InTransit({"got", "put", "push"}) IN
  /\ Cardinality(Stacked) + Cardinality(held) + Cardinality(Slabs) + Cardinality(moving) = NumPages
  /\ Stacked \cup held \cup Slabs \cup {kc[c].node : c \in moving} = Pages
  /\ \A p \in Pages : ref[p] = IF p \in held \cup Slabs THEN 1 ELSE 0
  /\ left = Cardinality(Stacked) + Cardinality(InTransit({"got"})) - Cardinality(InTransit({"gone"}))

\* An object belongs to one caller or is free in its slab, used counts the former,
\* and a slab is on slabs_partial or slabs_full of its order, once, according to
\* whether it has a free object; an unused slab is not kept (mem.c:109-160).
SlabsExact ==
  /\ \A x \in out : x[1] \in Slabs
  /\ \A s \in Slabs :
       LET o == slab[s].order
           objs == slab[s].objs
           taken == {x[2] : x \in {y \in out : y[1] = s}}
           times(list) == Cardinality({i \in DOMAIN list : list[i] = s})
       IN  /\ slab[s].used = Cardinality(taken) /\ taken # {}
           /\ taken \cup Range(objs) = Range(Offsets(o))
           /\ Cardinality(taken) + Len(objs) = Len(Offsets(o))
           /\ times(partial[o]) = (IF objs = <<>> THEN 0 ELSE 1)
           /\ times(full[o]) = (IF objs = <<>> THEN 1 ELSE 0)
  /\ \A o \in Orders : Range(partial[o]) \cup Range(full[o]) \subseteq Slabs

\* What kalloc_page and kalloc give out is given to one caller, and nothing is lost.
MemoryExact == ~aba => PagesOwnedOnce /\ SlabsExact
=============================================================================
