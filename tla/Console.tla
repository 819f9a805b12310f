------------------------------ MODULE Console -------------------------------
(***************************************************************************)
(* The console of kernel/console.c: console_intr edits the line that is    *)
(* typed and commits it, console_read hands committed characters out.      *)
(* input.lock is a spinlock that does not know its holder: a release       *)
(* clears it, whoever took it.  A reader that has slept goes on without    *)
(* the lock (the acquire after _wait_sem is commented out) and still       *)
(* releases it at the end.                                                 *)
(***************************************************************************)
EXTENDS Integers, Sequences, FiniteSets, SequencesExt, FiniteSetsExt

CONSTANTS
  ConProcs,    \* processes that read or write the console
  InputBuf,    \* INPUT_BUF
  ConCounts,   \* the lengths that are read
  MaxKeys,     \* bound on the keys typed
  Nobody

Printed == {"x", "nl", "eof"}             \* a character, '\n', C('D')
KeyStrokes == Printed \cup {"bs", "line", "break"}   \* '\b', C('U'), C('C')

\* buf, ir, iw and ie are the fields of input, ilock who took input.lock last, or
\* Nobody.  con is what each process is doing, ci what console_intr is doing, dead
\* the killed processes.  typed, got: the committed characters and the ones handed
\* out.  torn: a slot was written while a reader was reading it.  raced: two readers
\* were between the tests of their loops and their returns at once, where they share
\* input.r without a lock; typed and got end there.
VARIABLES buf, ir, iw, ie, ilock, con, ci, dead, typed, got, torn, raced, keys
convars == <<buf, ir, iw, ie, ilock, con, ci, dead, typed, got, torn, raced, keys>>

Outside == [pc |-> "out", n |-> 0, target |-> 0, at |-> 0, blind |-> FALSE]

ConInit ==
  /\ buf = [i \in 0 .. InputBuf - 1 |-> "x"] /\ ir = 0 /\ iw = 0 /\ ie = 0
  /\ ilock = Nobody /\ con = [p \in ConProcs |-> Outside]
  /\ ci = [pc |-> "out", key |-> "x"]
  /\ dead = {} /\ typed = <<>> /\ got = <<>> /\ torn = FALSE /\ raced = FALSE /\ keys = 0

Goes(p, pc) == con' = [con EXCEPT ![p].pc = pc]
Leaves(p) == con' = [con EXCEPT ![p] = Outside] /\ ilock' = Nobody

Reading == {"test", "sleep", "take", "store", "load", "back"}
Readers2(c) == \E p, q \in ConProcs : p # q /\ {c[p].pc, c[q].pc} \subseteq Reading
Histories(t, g) ==
  /\ raced' = (raced \/ Readers2(con'))
  /\ typed' = (IF raced' THEN <<>> ELSE t) /\ got' = (IF raced' THEN <<>> ELSE g)

-----------------------------------------------------------------------------
(* console_write and console_read.                                           *)

ConWrite(p) ==
  /\ \/ con[p].pc = "out" /\ p \notin dead /\ ilock = Nobody /\ ilock' = p /\ Goes(p, "write")
     \/ con[p].pc = "write" /\ Leaves(p)
  /\ UNCHANGED <<buf, ir, iw, ie, ci, dead, typed, got, torn, raced, keys>>

\* Bound: after a race, when r may have passed w and the calls would find characters
\* without end, those in progress go on and none begins.
ReadBegin(p, n) ==
  /\ con[p].pc = "out" /\ p \notin dead /\ ilock = Nobody /\ ~raced
  /\ ilock' = p
  /\ con' = [con EXCEPT ![p] = [Outside EXCEPT !.pc = "test", !.n = n, !.target = n]]
  /\ Histories(typed, got)
  /\ UNCHANGED <<buf, ir, iw, ie, ci, dead, torn, keys>>

\* The conditions of the two loops.
ReadTest(p) ==
  /\ con[p].pc = "test"
  /\ \/ con[p].n = 0 /\ Leaves(p)
     \/ con[p].n > 0 /\ ir # iw /\ Goes(p, "take") /\ UNCHANGED ilock
     \/ con[p].n > 0 /\ ir = iw /\ p \in dead /\ Leaves(p)
     \/ con[p].n > 0 /\ ir = iw /\ p \notin dead /\ Goes(p, "sleep") /\ UNCHANGED ilock
  /\ UNCHANGED <<buf, ir, iw, ie, ci, dead, typed, got, torn, raced, keys>>

\* _lock_sem, the release and _wait_sem: post_all_sem waits until the process is on
\* the list.  val is never positive, so that get_all_sem takes nothing.  A process
\* killed since the test does not sleep.  blind: console_intr was not kept out.
ReadSleep(p) ==
  /\ con[p].pc = "sleep"
  /\ ilock' = Nobody
  /\ con' = [con EXCEPT ![p].pc = IF p \in dead THEN "test" ELSE "asleep",
                        ![p].blind = (ilock # p \/ ci.pc # "out")]
  /\ UNCHANGED <<buf, ir, iw, ie, ci, dead, typed, got, torn, raced, keys>>

\* input.r++, a load and a store, and then the slot is read.
ReadTake(p) ==
  /\ \/ /\ con[p].pc = "take"
        /\ con' = [con EXCEPT ![p].pc = "store", ![p].at = ir] /\ UNCHANGED ir
     \/ con[p].pc = "store" /\ Goes(p, "load") /\ ir' = con[p].at + 1
  /\ UNCHANGED <<buf, iw, ie, ilock, ci, dead, typed, got, torn, raced, keys>>

\* C('D') ends the call, and is left for the next one unless it came first.
ReadLoad(p) ==
  LET c == buf[con[p].at % InputBuf]
      back == c = "eof" /\ con[p].n < con[p].target
  IN  /\ con[p].pc = "load"
      /\ IF back THEN con' = [con EXCEPT ![p].pc = "back", ![p].at = ir] /\ UNCHANGED ilock
         ELSE IF c \in {"eof", "nl"} THEN Leaves(p)
         ELSE con' = [con EXCEPT ![p].pc = "test", ![p].n = @ - 1] /\ UNCHANGED ilock
      /\ Histories(typed, IF back THEN got ELSE Append(got, c))
      /\ UNCHANGED <<buf, ir, iw, ie, ci, dead, torn, keys>>

\* input.r--, loaded before.
ReadBack(p) ==
  /\ con[p].pc = "back" /\ ir' = con[p].at - 1 /\ Leaves(p)
  /\ UNCHANGED <<buf, iw, ie, ci, dead, typed, got, torn, raced, keys>>

-----------------------------------------------------------------------------
(* console_intr.                                                             *)

IntrBegin(c) ==
  /\ ci.pc = "out" /\ ilock = Nobody /\ keys < MaxKeys
  /\ ilock' = "intr" /\ ci' = [pc |-> "key", key |-> c] /\ keys' = keys + 1
  /\ UNCHANGED <<buf, ir, iw, ie, con, dead, typed, got, torn, raced>>


\* Where C('U') stops.
LineStart == Max({iw} \cup {i \in iw + 1 .. ie : buf[(i - 1) % InputBuf] = "nl"})

\* The keys that edit, and C('C'), which kills the process that was interrupted: one
\* of these, outside of the kernel, or another.
IntrEdit ==
  /\ ci.pc = "key" /\ ci.key \notin Printed
  /\ ci' = [ci EXCEPT !.pc = "end"]
  /\ \/ ci.key = "bs" /\ ie' = (IF ie > iw THEN ie - 1 ELSE ie) /\ UNCHANGED dead
     \/ ci.key = "line" /\ ie' = LineStart /\ UNCHANGED dead
     \/ /\ ci.key = "break" /\ UNCHANGED ie
        /\ \E P \in SUBSET {p \in ConProcs : con[p].pc = "out"} :
              Cardinality(P) <= 1 /\ dead' = dead \cup P
  /\ UNCHANGED <<buf, ir, iw, ilock, con, typed, got, torn, raced, keys>>

\* The character goes into the buffer if there is room; e - r is unsigned.
IntrPut ==
  /\ ci.pc = "key" /\ ci.key \in Printed
  /\ IF ie - ir \in 0 .. InputBuf - 1
     THEN /\ buf' = [buf EXCEPT ![ie % InputBuf] = ci.key] /\ ie' = ie + 1
          /\ ci' = [ci EXCEPT !.pc = "commit"]
          /\ torn' = (torn \/ \E p \in ConProcs : con[p].pc = "load" /\ con[p].at + InputBuf = ie)
     ELSE ci' = [ci EXCEPT !.pc = "end"] /\ UNCHANGED <<buf, ie, torn>>
  /\ UNCHANGED <<ir, iw, ilock, con, dead, typed, got, raced, keys>>

IntrCommit ==
  /\ ci.pc = "commit"
  /\ IF ci.key \in {"nl", "eof"} \/ ie - ir = InputBuf
     THEN /\ iw' = ie /\ ci' = [ci EXCEPT !.pc = "post"]
          /\ UNCHANGED con
          /\ Histories(typed \o [i \in 1 .. ie - iw |-> buf[(iw + i - 1) % InputBuf]], got)
     ELSE ci' = [ci EXCEPT !.pc = "end"] /\ UNCHANGED <<iw, con, typed, got, raced>>
  /\ UNCHANGED <<buf, ir, ie, ilock, dead, torn, keys>>

\* post_all_sem: everyone asleep goes on, without the lock.
IntrPost ==
  /\ ci.pc = "post"
  /\ con' = [p \in ConProcs |-> [con[p] EXCEPT !.pc = IF @ = "asleep" THEN "test" ELSE @]]
  /\ ci' = [ci EXCEPT !.pc = "end"]
  /\ Histories(typed, got)
  /\ UNCHANGED <<buf, ir, iw, ie, ilock, dead, torn, keys>>

IntrEnd ==
  /\ ci.pc = "end"
  /\ ilock' = Nobody /\ ci' = [pc |-> "out", key |-> "x"]
  /\ UNCHANGED <<buf, ir, iw, ie, con, dead, typed, got, torn, raced, keys>>

\* kill, called by another process.  A process that is killed outside of the kernel
\* does not come back.
ConKill(p) ==
  /\ p \notin dead /\ dead' = dead \cup {p}
  /\ UNCHANGED <<buf, ir, iw, ie, ilock, con, ci, typed, got, torn, raced, keys>>

ConNext ==
  \/ \E p \in ConProcs :
       \/ ConWrite(p) \/ ConKill(p) \/ ReadTest(p) \/ ReadSleep(p) \/ ReadTake(p) \/ ReadLoad(p)
       \/ ReadBack(p) \/ \E n \in ConCounts : ReadBegin(p, n)
  \/ \E c \in KeyStrokes : IntrBegin(c)
  \/ IntrEdit \/ IntrPut \/ IntrCommit \/ IntrPost \/ IntrEnd
ConSpec == ConInit /\ [][ConNext]_convars

-----------------------------------------------------------------------------
=============================================================================
