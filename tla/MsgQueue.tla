------------------------------ MODULE MsgQueue ------------------------------
(* Message queues (common/ipc.c).  msg_ids.lock covers every call from its    *)
(* lookup to its return or sleep, so a call is one step, and one more step    *)
(* when it slept.  The bytes of a message are left out; its number, type and  *)
(* size are kept.  A killed thread wakes from its sleep here with the node on *)
(* its stack still linked; the model stops where that node is used again, or  *)
(* left behind, or where an unset pointer is followed.                        *)
EXTENDS ListOps, FiniteSets, FiniteSetsExt

CONSTANTS MsgThreads,
          Keys,        \* keys of msgget; 0 is IPC_PRIVATE
          NumIds,      \* msg_ids.size
          U16,         \* 2^16, the modulus of msg_ids.seq
          MaxMsg,      \* max_msg
          MsgTypes, RcvTypes, MsgSizes,
          MaxQueues, MaxSends,   \* bounds of the model
          NoQueue      \* NULL in msg_ids.entries

ASSUME MsgAssumption ==
    /\ NumIds \in Nat \ {0} /\ U16 \in Nat \ {0} /\ MaxMsg \in Nat \ {0}
    /\ MsgTypes \subseteq Nat \ {0} /\ RcvTypes \subseteq Int /\ MsgSizes \subseteq Nat
    /\ MaxQueues \in Nat /\ MaxSends \in Nat

VARIABLES
    entries,   \* msg_ids.entries: NoQueue or [key, seq, born, msgs, receivers, senders]
    seq,       \* msg_ids.seq
    handles,   \* message queue ids given out, with the queue each was given for
    created,   \* queues created so far
    sends,     \* messages built so far
    th,        \* what each thread is doing
    mkilled,   \* the threads whose proc->killed is set
    done,      \* numbers of the messages delivered or destroyed
    fault      \* "none", "spin" (pipeline_send never ends), "wild" (r_msg read unset),
               \* "dangling" (a node is used or left although its frame is gone)

msgvars == <<entries, seq, handles, created, sends, th, mkilled, done, fault>>

IdleThread == [pc |-> "idle"]
Ids == 0 .. NumIds - 1
NullMsg == [n |-> -1, type |-> 0, size |-> 0]   \* NULL
WildMsg == [n |-> -2, type |-> 0, size |-> 0]   \* a pointer that was never set

\* msg_msg, the id of a queue, and msg_queue; NULL is none of the latter.
Msgs == [n : 0 .. MaxSends - 1, type : MsgTypes, size : MsgSizes]
Handles == [id : Ids, seq : 0 .. U16 - 1, born : 0 .. MaxQueues - 1]
MsgQueues ==
    [key : Keys, seq : 0 .. U16 - 1, born : 0 .. MaxQueues - 1,
     msgs : Seq(Msgs), receivers : Seq(MsgThreads), senders : Seq(MsgThreads)]

ASSUME NoQueueIsNone == NoQueue \notin MsgQueues

\* A thread in a call: asleep as a sender (on is the queue it joined), woken as one,
\* asleep as a receiver, or about to copy out the message it has got.
CallStates ==
    {IdleThread} \cup [pc : {"full", "retry"}, h : Handles, m : Msgs, on : 0 .. MaxQueues - 1]
        \cup [pc : {"empty"}, h : Handles, type : RcvTypes, size : MsgSizes]
        \cup [pc : {"woken"}, type : RcvTypes, rmsg : Msgs \cup {NullMsg, WildMsg}]

MsgInit ==
    /\ entries = [i \in Ids |-> NoQueue]
    /\ seq = 0 /\ handles = {} /\ created = 0 /\ sends = 0
    /\ th = [t \in MsgThreads |-> IdleThread]
    /\ mkilled = {} /\ done = {} /\ fault = "none"

\* testmsg.
TestMsg(rqtype, type) ==
    \/ rqtype = 0
    \/ rqtype < 0 /\ rqtype + type <= 0
    \/ rqtype = type

\* Mutant of GetMsgq: the sequence number is not compared.
GetMsgqAnySeq(h) == entries[h.id]

\* get_msgq: the slot of the handle, if it still has the handle's sequence number.
GetMsgq(h) == IF entries[h.id] # NoQueue /\ entries[h.id].seq = h.seq THEN entries[h.id] ELSE NoQueue

Queues == {entries[i] : i \in {j \in Ids : entries[j] # NoQueue}}

-----------------------------------------------------------------------------
(* msgget and msgctl.                                                         *)

\* ipc_findkey: the slots with the key, of which the first counts.
IpcFindkey(key) == {i \in Ids : entries[i] # NoQueue /\ entries[i].key = key}

\* ipc_addid: the slots of which the first is taken.
FreeIds == {i \in Ids : entries[i] = NoQueue}

\* What ipc_buildin makes of the slot i and the sequence number of queue q.
IpcBuildin(i, q) == [id |-> i, seq |-> q.seq, born |-> q.born]

\* newque.
NewQue(key) ==
    [key |-> key, seq |-> seq, born |-> created, msgs |-> <<>>, receivers |-> <<>>, senders |-> <<>>]

\* A full table, a missing key without IPC_CREATE or an existing one with IPC_EXCL
\* changes nothing.
SysMsgget(key) ==
    LET found == IpcFindkey(key) IN
    \/ /\ key # 0 /\ found # {}
       /\ handles' = handles \cup {IpcBuildin(Min(found), entries[Min(found)])}
       /\ UNCHANGED <<entries, seq, created, sends, th, mkilled, done, fault>>
    \/ /\ key = 0 \/ found = {}
       /\ FreeIds # {} /\ created < MaxQueues
       /\ entries' = [entries EXCEPT ![Min(FreeIds)] = NewQue(key)]
       /\ handles' = handles \cup {IpcBuildin(Min(FreeIds), NewQue(key))}
       /\ seq' = (seq + 1) % U16
       /\ created' = created + 1
       /\ UNCHANGED <<sends, th, mkilled, done, fault>>

\* free_msg, for each of a list of messages.
FreeMsgs(msgs) == done \cup {msgs[i].n : i \in DOMAIN msgs}

\* freeque: ss_wakeup is given the receivers, so it wakes them without setting
\* their r_msg, which then holds whatever their stack held; the senders stay asleep.
Freeque(h) ==
    LET q == GetMsgq(h) IN
    /\ q # NoQueue
    /\ entries' = [entries EXCEPT ![h.id] = NoQueue]
    /\ \E garbage \in [Listed(q.receivers) -> {NullMsg, WildMsg}] :
        th' = [t \in MsgThreads |->
                IF t \in Listed(q.receivers) THEN [pc |-> "woken", type |-> th[t].type, rmsg |-> garbage[t]]
                ELSE th[t]]
    /\ done' = FreeMsgs(q.msgs)
    /\ UNCHANGED <<seq, handles, created, sends, mkilled, fault>>

-----------------------------------------------------------------------------
(* msgsnd.                                                                    *)

\* Mutant of FirstTaker: the message is queued although a receiver waits for it.
NoTaker(q, m) == 0

\* pipeline_send looks for the first receiver that wants the message.  One whose
\* buffer is too small is taken off the list, and the walk, which goes on from
\* the node just made single, never ends.
FirstTaker(q, m) ==
    LET takers == {i \in DOMAIN q.receivers : TestMsg(th[q.receivers[i]].type, m.type)}
    IN  IF takers = {} THEN 0 ELSE Min(takers)

\* The body of msgsnd after retry: the queue is gone (EIDRM), or full (EAGAIN with
\* IPC_NOWAIT, else the thread joins the senders and sleeps), or takes the message.
Send(t, h, m, nowait) ==
    LET q == GetMsgq(h)
        i == FirstTaker(q, m)
        r == q.receivers[i] IN
    \/ /\ q = NoQueue \/ (q # NoQueue /\ nowait /\ Len(q.msgs) + 1 > MaxMsg)
       /\ th' = [th EXCEPT ![t] = IdleThread]
       /\ done' = FreeMsgs(<<m>>)
       /\ UNCHANGED <<entries, fault>>
    \/ /\ q # NoQueue /\ Len(q.msgs) + 1 > MaxMsg /\ ~nowait
       /\ entries' = [entries EXCEPT ![h.id].senders = Append(@, t)]
       /\ th' = [th EXCEPT ![t] = [pc |-> "full", h |-> h, m |-> m, on |-> q.born]]
       /\ UNCHANGED <<done, fault>>
    \/ /\ q # NoQueue /\ Len(q.msgs) + 1 <= MaxMsg /\ i = 0
       /\ entries' = [entries EXCEPT ![h.id].msgs = Append(@, m)]
       /\ th' = [th EXCEPT ![t] = IdleThread]
       /\ UNCHANGED <<done, fault>>
    \/ /\ q # NoQueue /\ Len(q.msgs) + 1 <= MaxMsg /\ i # 0 /\ m.size <= th[r].size
       /\ entries' = [entries EXCEPT ![h.id].receivers = Detach(@, r)]
       /\ th' = [th EXCEPT ![t] = IdleThread,
                             ![r] = [pc |-> "woken", type |-> th[r].type, rmsg |-> m]]
       /\ UNCHANGED <<done, fault>>
    \/ /\ q # NoQueue /\ Len(q.msgs) + 1 <= MaxMsg /\ i # 0 /\ m.size > th[r].size
       /\ fault' = "spin"
       /\ th' = [th EXCEPT ![t] = [pc |-> "retry", h |-> h, m |-> m, on |-> q.born]]
       /\ UNCHANGED <<entries, done>>

\* What load_msg builds: message number sends, in one page or a chain of them.
LoadMsg == [n : {sends}, type : MsgTypes, size : MsgSizes]

\* A thread killed on its way into a call does what one killed after the first step
\* of the call does: the flag is looked at only by the _sched of its sleep.
SysMsgsnd(t, h) ==
    /\ th[t].pc = "idle" /\ t \notin mkilled /\ sends < MaxSends
    /\ sends' = sends + 1
    /\ \E m \in LoadMsg, nowait \in BOOLEAN : Send(t, h, m, nowait)
    /\ UNCHANGED <<seq, handles, created, mkilled>>

\* A sender that was woken, or killed in its sleep, tries again.  A killed one whose
\* node is still on the list of a queue links it a second time, or returns from the
\* frame that holds it.
RetrySend(t) ==
    LET linked == \E q \in Queues : t \in Listed(q.senders) IN
    /\ th[t].pc = "retry" \/ (th[t].pc = "full" /\ t \in mkilled)
    /\ \/ linked /\ fault' = "dangling" /\ UNCHANGED <<entries, th, done>>
       \/ ~linked /\ Send(t, th[t].h, th[t].m, FALSE)
    /\ UNCHANGED <<seq, handles, created, sends, mkilled>>

-----------------------------------------------------------------------------
(* msgrcv.                                                                    *)

\* The search for a message: with mtype below -1 a match raises mtype by one and
\* the search goes on, otherwise the first match ends it.  0 if there is none.
FindMsg(msgs, mtype) ==
    LET walk[i \in 0 .. Len(msgs)] ==
            IF i = 0 THEN [found |-> 0, mtype |-> mtype, stop |-> FALSE]
            ELSE LET acc == walk[i - 1] IN
                 IF acc.stop \/ ~TestMsg(acc.mtype, msgs[i].type) THEN acc
                 ELSE IF acc.mtype < -1 THEN [found |-> i, mtype |-> acc.mtype + 1, stop |-> FALSE]
                 ELSE [found |-> i, mtype |-> acc.mtype, stop |-> TRUE]
    IN  walk[Len(msgs)].found

\* Mutant of SysMsgrcv: the message stays linked.
SysMsgrcvKeeps(t, h) ==
    LET q == GetMsgq(h) IN
    /\ th[t].pc = "idle" /\ t \notin mkilled /\ q # NoQueue
    /\ \E mtype \in RcvTypes, size \in MsgSizes :
        LET i == FindMsg(q.msgs, mtype) IN
        /\ i # 0 /\ q.msgs[i].size <= size /\ q.senders = <<>>
        /\ th' = [th EXCEPT ![t] = [pc |-> "woken", type |-> mtype, rmsg |-> q.msgs[i]]]
    /\ UNCHANGED <<entries, seq, handles, created, sends, mkilled, done, fault>>

\* ss_wakeup: every thread on the list runs again.
SsWakeup(senders) ==
    [s \in MsgThreads |-> IF s \in Listed(senders) THEN [th[s] EXCEPT !.pc = "retry"] ELSE th[s]]

\* A message is unlinked and every waiting sender woken, or the thread joins the
\* receivers and sleeps.  A message too big for the buffer stays (E2BIG); that, and
\* no message with IPC_NOWAIT (ENOMSG), changes nothing.
SysMsgrcv(t, h) ==
    LET q == GetMsgq(h) IN
    /\ th[t].pc = "idle" /\ t \notin mkilled /\ q # NoQueue
    /\ \E mtype \in RcvTypes, size \in MsgSizes :
        LET i == FindMsg(q.msgs, mtype) IN
        \/ /\ i # 0 /\ q.msgs[i].size <= size
           /\ entries' = [entries EXCEPT ![h.id].msgs = Detach(@, q.msgs[i]), ![h.id].senders = <<>>]
           /\ th' = [SsWakeup(q.senders) EXCEPT ![t] = [pc |-> "woken", type |-> mtype, rmsg |-> q.msgs[i]]]
        \/ /\ i = 0
           /\ entries' = [entries EXCEPT ![h.id].receivers = Append(@, t)]
           /\ th' = [th EXCEPT ![t] = [pc |-> "empty", h |-> h, type |-> mtype, size |-> size]]
    /\ UNCHANGED <<seq, handles, created, sends, mkilled, done, fault>>

\* The end of msgrcv, without the lock: the message found or handed over is copied
\* out and freed; after a sleep r_msg may also be NULL (E2BIG) or garbage.
Received(t) ==
    /\ th[t].pc = "woken"
    /\ th' = [th EXCEPT ![t] = IdleThread]
    /\ \/ th[t].rmsg = NullMsg /\ UNCHANGED <<done, fault>>
       \/ th[t].rmsg = WildMsg /\ fault' = "wild" /\ UNCHANGED done
       \/ th[t].rmsg.n >= 0 /\ done' = FreeMsgs(<<th[t].rmsg>>) /\ UNCHANGED fault
    /\ UNCHANGED <<entries, seq, handles, created, sends, mkilled>>

\* A receiver killed in its sleep reads an r_msg that nobody has set: garbage, or
\* NULL, and then it returns with its node on the list.
ReceiveKilled(t) ==
    /\ th[t].pc = "empty" /\ t \in mkilled
    /\ fault' \in {"wild", "dangling"}
    /\ UNCHANGED <<entries, seq, handles, created, sends, th, mkilled, done>>

\* kill, of a thread that may be asleep here: both sleeps are alertable.
KillThread(t) ==
    /\ t \notin mkilled
    /\ mkilled' = mkilled \cup {t}
    /\ UNCHANGED <<entries, seq, handles, created, sends, th, done, fault>>

MsgNext ==
    /\ fault = "none"
    /\ \/ \E key \in Keys : SysMsgget(key)
       \/ \E h \in handles : Freeque(h)
       \/ \E t \in MsgThreads, h \in handles : SysMsgsnd(t, h) \/ SysMsgrcv(t, h)
       \/ \E t \in MsgThreads : RetrySend(t) \/ Received(t) \/ ReceiveKilled(t) \/ KillThread(t)

MsgSpec == MsgInit /\ [][MsgNext]_msgvars

-----------------------------------------------------------------------------
(* Properties.                                                                *)

\* Type invariant; only built messages are delivered or freed (ipc.c:255).
MsgTypeOK ==
    /\ entries \in [Ids -> MsgQueues \cup {NoQueue}] /\ handles \subseteq Handles
    /\ seq \in 0 .. U16 - 1 /\ created \in 0 .. MaxQueues /\ sends \in 0 .. MaxSends
    /\ th \in [MsgThreads -> CallStates] /\ mkilled \subseteq MsgThreads
    /\ done \subseteq 0 .. MaxSends - 1 /\ fault \in {"none", "spin", "wild", "dangling"}

\* No receiver waits for a message the queue holds: msgrcv looks before it sleeps
\* and pipeline_send (ipc.c:132) offers each new message to the receivers first.
NoReceiverMissesMessage ==
    \A q \in Queues : \A i \in DOMAIN q.receivers, j \in DOMAIN q.msgs :
        ~TestMsg(th[q.receivers[i]].type, q.msgs[j].type)

\* A thread waits in msgrcv only on the list of a queue that exists: removing the
\* queue (ipc.c:276) leaves none of its receivers behind.
ReceiversNotStranded ==
    \A t \in MsgThreads : th[t].pc = "empty" => \E q \in Queues : t \in Listed(q.receivers)

\* Senders wait only while their queue is full (ipc.c:241 wakes all of them), and
\* no queue holds more than max_msg messages.
SendersWaitOnlyWhenFull ==
    \A q \in Queues : Len(q.msgs) <= MaxMsg /\ (q.senders # <<>> => Len(q.msgs) = MaxMsg)

\* A sleeping sender is on the list of the queue it joined for as long as that queue
\* exists: no send, receive or kill loses it.  freeque does: it wakes the receivers
\* twice and no sender (ipc.c:281), so a sender of a removed queue sleeps until killed.
SendersListed ==
    \A t \in MsgThreads : th[t].pc = "full" =>
        \/ \E q \in Queues : q.born = th[t].on /\ t \in Listed(q.senders)
        \/ \A q \in Queues : q.born # th[t].on

\* Only freeque strands anybody, and only senders (ipc.c:132, 241, 276): the four
\* facts above, together, until the model stops at a node or pointer that is gone.
OnlyRemovalStrands ==
    NoReceiverMissesMessage /\ ReceiversNotStranded /\ SendersWaitOnlyWhenFull /\ SendersListed

\* Every message built is in one place, and in one only: a queue, a sleeping or
\* retrying sender, a receiver that was given it, or among the delivered or freed.
MessagesHeldOnce ==
    LET inQueues == UNION {{<<q.born, i, q.msgs[i].n>> : i \in DOMAIN q.msgs} : q \in Queues}
        inThreads == {<<t, th[t].m.n>> : t \in {s \in MsgThreads : th[s].pc \in {"full", "retry"}}}
        handed == {<<t, th[t].rmsg.n>> : t \in {s \in MsgThreads :
                        th[s].pc = "woken" /\ th[s].rmsg.n >= 0}}
        numbers == {x[3] : x \in inQueues} \cup {x[2] : x \in inThreads \cup handed} IN
    /\ Cardinality(numbers) = Cardinality(inQueues) + Cardinality(inThreads) + Cardinality(handed)
    /\ numbers \cap done = {}
    /\ numbers \cup done = 0 .. sends - 1

\* Messages are neither lost nor doubled, and the state is typed, through
\* pipeline_send, the retries of senders, kills and freeque (ipc.c:132-294).
MsgInv == MsgTypeOK /\ MessagesHeldOnce

\* An id obtained for a queue that has been removed never reaches a later queue in
\* the same slot (ipc.c:119), for fewer than 2^16 queues.
StaleIdsRejected ==
    \A h \in handles : GetMsgq(h) # NoQueue => GetMsgq(h).born = h.born

=============================================================================
