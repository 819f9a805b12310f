------------------------------ MODULE SdQueue -------------------------------
(***************************************************************************)
(* The request queue of the SD driver (driver/sd.c) and its users sd_read  *)
(* and sd_write (fs/block_device.c).                                       *)
(*                                                                         *)
(* A request is a buf on the stack of the thread that makes it, so it is   *)
(* named after the thread.  Interrupts of the controller go to CPU 0, and  *)
(* are taken there only in user mode or when the CPU is idle: while the    *)
(* handler runs, no thread of CPU 0 does.  The queue is only touched in    *)
(* critical sections of its lock that call nothing, so each is one step;   *)
(* sd_lock is held over several steps.  unalertable_wait_sem is the one of *)
(* module Semaphore, as seen from here: it returns once the semaphore was  *)
(* posted.                                                                 *)
(***************************************************************************)
EXTENDS Naturals, Sequences

CONSTANTS
  DiskThreads, \* threads that use the disk
  OtherCpus,   \* those that run on other CPUs than CPU 0
  Sectors, Values,
  MaxReqs,     \* bound: requests in all
  Nobody

ASSUME SdqAssumption ==
  /\ OtherCpus \subseteq DiskThreads /\ Nobody \notin DiskThreads /\ Nobody # "intr"
  /\ Sectors # {} /\ Values # {}

VARIABLES
  q,       \* buf_queue: front first
  sdlock,  \* holder of sd_lock
  dpc,     \* where each thread is in sdrw
  buf,     \* its buf: sector, write (B_DIRTY), valid (the flags changed), data
  posted,  \* its semaphore
  hpc,     \* where sd_intr is, "idle" when it does not run
  hb,      \* the buf sd_intr works on
  xfer,    \* the buf whose transfer the controller does: external
  irq,     \* the controller's interrupt is pending: external
  medium,  \* contents of the card: external
  saw,     \* history: contents of the sector since the request was made
  reqs, stopped

sdqvars == <<q, sdlock, dpc, buf, posted, hpc, hb, xfer, irq, medium, saw, reqs, stopped>>

\* sd_intr posts a thread before it takes the buf off the queue, so that a thread of
\* another CPU can return meanwhile: the buf was on its stack.  What the queue then
\* becomes depends on what the stack is used for, and the model stops.
ReturnedEarly == \E i \in DOMAIN q : dpc[q[i]] = "idle"
Going == ~stopped /\ ~ReturnedEarly
Runs(t) == Going /\ (t \in OtherCpus \/ hpc = "idle")

SdqInit ==
  /\ q = <<>> /\ sdlock = Nobody /\ hpc = "idle" /\ hb = Nobody /\ xfer = Nobody /\ irq = FALSE
  /\ dpc = [t \in DiskThreads |-> "idle"] /\ posted = [t \in DiskThreads |-> FALSE]
  /\ medium = [s \in Sectors |-> CHOOSE v \in Values : TRUE]
  /\ buf = [t \in DiskThreads |-> [sector |-> CHOOSE s \in Sectors : TRUE, write |-> FALSE, valid |-> TRUE,
                                   data |-> CHOOSE v \in Values : TRUE]]
  /\ saw = [t \in DiskThreads |-> {}] /\ reqs = 0 /\ stopped = FALSE

-----------------------------------------------------------------------------
(* sd_start, with sd_lock: PANIC when an interrupt is still pending. *)
SdStart(b) ==
  IF irq THEN stopped' = TRUE /\ UNCHANGED <<xfer, irq>>
  ELSE xfer' = b /\ UNCHANGED <<irq, stopped>>

(* sd_read and sd_write up to the loop of sdrw. *)
SdCall(t) ==
  /\ Runs(t) /\ dpc[t] = "idle" /\ reqs < MaxReqs /\ reqs' = reqs + 1
  /\ \E s \in Sectors, w \in BOOLEAN, v \in Values :
       /\ w \/ v = buf[t].data
       /\ buf' = [buf EXCEPT ![t] = [sector |-> s, write |-> w, valid |-> FALSE, data |-> v]]
       /\ saw' = [saw EXCEPT ![t] = {medium[s]}]
  /\ dpc' = [dpc EXCEPT ![t] = "push"]
  /\ UNCHANGED <<q, sdlock, posted, hpc, hb, xfer, irq, medium, stopped>>

\* Mutant of SdPush: every request is started at once.
SdPushAlwaysStarts(t) ==
  /\ Runs(t) /\ dpc[t] = "push" /\ q' = Append(q, t)
  /\ dpc' = [dpc EXCEPT ![t] = "start"]
  /\ posted' = [posted EXCEPT ![t] = FALSE]
  /\ UNCHANGED <<sdlock, buf, hpc, hb, xfer, irq, medium, saw, reqs, stopped>>
(* sdrw: init_sem and queue_push; the first in the queue starts the transfer. *)
SdPush(t) ==
  /\ Runs(t) /\ dpc[t] = "push" /\ q' = Append(q, t)
  /\ dpc' = [dpc EXCEPT ![t] = IF Len(q') = 1 THEN "start" ELSE "wait"]
  /\ posted' = [posted EXCEPT ![t] = FALSE]
  /\ UNCHANGED <<sdlock, buf, hpc, hb, xfer, irq, medium, saw, reqs, stopped>>

SdStartFirst(t) ==
  /\ Runs(t) /\ dpc[t] = "start" /\ sdlock = Nobody /\ SdStart(t)
  /\ dpc' = [dpc EXCEPT ![t] = "wait"]
  /\ UNCHANGED <<q, sdlock, buf, posted, hpc, hb, medium, saw, reqs>>

(* The wait is over; the loop of sdrw ends when the flags have changed. *)
SdWoken(t) ==
  /\ Runs(t) /\ dpc[t] = "wait" /\ posted[t]
  /\ dpc' = [dpc EXCEPT ![t] = IF buf[t].valid THEN "idle" ELSE "push"]
  /\ posted' = [posted EXCEPT ![t] = FALSE]
  /\ UNCHANGED <<q, sdlock, buf, hpc, hb, xfer, irq, medium, saw, reqs, stopped>>

-----------------------------------------------------------------------------
(* The controller ends the transfer in hand. *)
Transfer ==
  /\ Going /\ xfer # Nobody /\ ~irq /\ irq' = TRUE
  /\ IF buf[xfer].write
     THEN LET s == buf[xfer].sector
          IN  /\ medium' = [medium EXCEPT ![s] = buf[xfer].data]
              /\ saw' = [t \in DiskThreads |->
                           IF dpc[t] # "idle" /\ buf[t].sector = s THEN saw[t] \cup {buf[xfer].data}
                           ELSE saw[t]]
     ELSE UNCHANGED <<medium, saw>>
  /\ UNCHANGED <<q, sdlock, dpc, buf, posted, hpc, hb, xfer, reqs, stopped>>

\* Mutant of IntrEnter: the handler runs before the transfer has ended.
IntrEnterEarly ==
  /\ Going /\ hpc = "idle" /\ xfer # Nobody /\ sdlock = Nobody
  /\ \A t \in DiskThreads \ OtherCpus : dpc[t] \in {"idle", "wait"}
  /\ sdlock' = "intr" /\ hb' = Head(q) /\ hpc' = "move"
  /\ UNCHANGED <<q, dpc, buf, posted, xfer, irq, medium, saw, reqs, stopped>>
(* sd_intr: PANIC on an empty queue, else take sd_lock and the first buf. *)
IntrEnter ==
  /\ Going /\ hpc = "idle" /\ irq
  /\ \A t \in DiskThreads \ OtherCpus : dpc[t] \in {"idle", "wait"}
  /\ IF q = <<>> THEN stopped' = TRUE /\ UNCHANGED <<sdlock, hpc, hb>>
     ELSE sdlock = Nobody /\ sdlock' = "intr" /\ hb' = Head(q) /\ hpc' = "move" /\ UNCHANGED stopped
  /\ UNCHANGED <<q, dpc, buf, posted, xfer, irq, medium, saw, reqs>>

(* The data of a read is fetched and the interrupts are cleared; the flags change  *)
(* unless they already say that nothing is to be done.                             *)
IntrMove ==
  /\ Going /\ hpc = "move" /\ hpc' = "post"
  /\ LET b == buf[hb]
     IN  buf' = [buf EXCEPT ![hb] = [b EXCEPT !.valid = TRUE,
                                              !.data = IF b.write THEN b.data ELSE medium[buf[xfer].sector]]]
  /\ irq' = FALSE /\ xfer' = Nobody
  /\ UNCHANGED <<q, sdlock, dpc, posted, hb, medium, saw, reqs, stopped>>

\* Mutant of IntrPost: the waiter is not posted.
IntrPostNot ==
  /\ Going /\ hpc = "post" /\ hpc' = "pop"
  /\ UNCHANGED <<q, sdlock, dpc, buf, posted, hb, xfer, irq, medium, saw, reqs, stopped>>
(* post_sem, while the buf is still in the queue. *)
IntrPost ==
  /\ Going /\ hpc = "post" /\ hpc' = "pop" /\ posted' = [posted EXCEPT ![hb] = TRUE]
  /\ UNCHANGED <<q, sdlock, dpc, buf, hb, xfer, irq, medium, saw, reqs, stopped>>

(* queue_lock, release of sd_lock, queue_pop. *)
IntrPop ==
  /\ Going /\ hpc = "pop" /\ sdlock' = Nobody /\ q' = Tail(q)
  /\ hpc' = (IF q' = <<>> THEN "idle" ELSE "next") /\ hb' = Nobody
  /\ UNCHANGED <<dpc, buf, posted, xfer, irq, medium, saw, reqs, stopped>>

(* The next buf, if there is one. *)
IntrNext ==
  /\ Going /\ hpc = "next" /\ sdlock = Nobody /\ SdStart(Head(q)) /\ hpc' = "idle"
  /\ UNCHANGED <<q, sdlock, dpc, buf, posted, hb, medium, saw, reqs>>

SdrwStep(t) == SdPush(t) \/ SdStartFirst(t) \/ SdWoken(t)
SdIntr == IntrEnter \/ IntrMove \/ IntrPost \/ IntrPop \/ IntrNext
SdqNext == Transfer \/ SdIntr \/ \E t \in DiskThreads : SdCall(t) \/ SdrwStep(t)
(* The controller ends every transfer, CPU 0 comes back to user mode or to idle    *)
(* and takes its interrupt, and a thread that is not waiting runs.                 *)
SdqFairness == WF_sdqvars(Transfer) /\ WF_sdqvars(SdIntr) /\ \A t \in DiskThreads : WF_sdqvars(SdrwStep(t))
SdqSpec == SdqInit /\ [][SdqNext]_sdqvars /\ SdqFairness

-----------------------------------------------------------------------------
(* Type invariant; sd_lock is held over steps by sd_intr alone. *)
SdqTypeOK ==
  /\ q \in Seq(DiskThreads) /\ sdlock \in {Nobody, "intr"} /\ hb \in DiskThreads \cup {Nobody}
  /\ dpc \in [DiskThreads -> {"idle", "push", "start", "wait"}]
  /\ hpc \in {"idle", "move", "post", "pop", "next"} /\ xfer \in DiskThreads \cup {Nobody}
  /\ sdlock = "intr" <=> hpc \in {"move", "post", "pop"}
  /\ buf \in [DiskThreads -> [sector : Sectors, write : BOOLEAN, valid : BOOLEAN, data : Values]]
  /\ medium \in [Sectors -> Values] /\ posted \in [DiskThreads -> BOOLEAN] /\ irq \in BOOLEAN

(* sd_start never meets a pending interrupt and sd_intr never an empty queue: both *)
(* PANIC.                                                                          *)
NoSdPanic == ~stopped

(* One transfer at a time, always that of the first buf, and the first buf of a    *)
(* queue that is not being worked on has its transfer started or about to be:      *)
(* sdrw and sd_intr neither both start a buf nor leave it to each other.           *)
FirstIsStarted ==
  /\ xfer # Nobody => q # <<>> /\ xfer = Head(q)
  /\ q # <<>> /\ hpc = "idle" => xfer = Head(q) \/ dpc[Head(q)] = "start"
  /\ \A t \in DiskThreads : dpc[t] = "start" => q # <<>> /\ t = Head(q) /\ xfer = Nobody

(* A buf in the queue is there once, and is one whose sdrw has not returned, as    *)
(* sd_read and sd_write keep it on their stack: except the first one while sd_intr *)
(* has posted and not popped it (sd.c:207-211), and then only on another CPU.      *)
QueuedBufsLive ==
  /\ \A i \in DOMAIN q :
       \/ dpc[q[i]] \in {"start", "wait"}
       \/ i = 1 /\ hpc = "pop" /\ q[i] \in OtherCpus /\ dpc[q[i]] = "idle"
  /\ \A i, j \in DOMAIN q : q[i] = q[j] => i = j

(* sd_intr works on the first buf from the interrupt to the pop, nobody starts a   *)
(* transfer meanwhile, and a thread is posted when its request is done and not     *)
(* before (sd.c:180-220).                                                          *)
HandlerServesFirst ==
  /\ irq => xfer # Nobody
  /\ xfer # Nobody => hpc \in {"idle", "move"}
  /\ hpc = "move" => irq
  /\ hpc # "idle" => q # <<>> /\ \A t \in DiskThreads : dpc[t] # "start"
  /\ hpc \in {"move", "post", "pop"} => hb = Head(q)
  /\ hpc \in {"post", "pop"} => buf[hb].valid
  /\ hpc = "pop" => posted[hb] \/ dpc[hb] = "idle"
  /\ \A t \in DiskThreads : posted[t] =>
       /\ dpc[t] = "wait" /\ buf[t].valid
       /\ (\E i \in DOMAIN q : q[i] = t) => hpc = "pop" /\ t = hb

(* A thread that waits in sdrw is in the queue or has been posted: none is         *)
(* forgotten between sd_intr's post, pop and start of the next (sd.c:207-220).     *)
WaitersQueued ==
  \A t \in DiskThreads : dpc[t] = "wait" => posted[t] \/ \E i \in DOMAIN q : q[i] = t

(* sdrw, sd_start and sd_intr work on one queue of live bufs, one transfer at a     *)
(* time, forget nobody and meet no PANIC: the facts above and the types.           *)
SdqInv == SdqTypeOK /\ NoSdPanic /\ FirstIsStarted /\ QueuedBufsLive /\ HandlerServesFirst /\ WaitersQueued

(* Each sector is a register: a read returns what the sector held at some moment   *)
(* since the call, and a write that returned was on the card at some moment.       *)
SectorIsRegister ==
  [][\A t \in DiskThreads : dpc[t] = "wait" /\ dpc'[t] = "idle" => buf[t].data \in saw[t]]_sdqvars

(* Every request is served: nobody waits forever in sdrw, unless somebody's buf was *)
(* lost while it was queued.                                                        *)
RequestsServed == \A t \in DiskThreads : dpc[t] # "idle" ~> dpc[t] = "idle" \/ ReturnedEarly
=============================================================================
