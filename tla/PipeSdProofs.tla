---------------------------- MODULE PipeSdProofs ----------------------------
(***************************************************************************)
(* Proofs about two devices of bytes and blocks.  The ring buffer of       *)
(* fs/pipe.c, with counters that wrap around at 2^32, is a bounded queue   *)
(* of bytes.  And after sdInit (driver/sddef.h) the driver's idea of the   *)
(* SD card is right, whatever commands were lost and cards changed.        *)
(***************************************************************************)
EXTENDS Pipe, SdCard, TLAPS

-----------------------------------------------------------------------------
(***************************************************************************)
(* Arithmetic of the two moduli.                                           *)
(***************************************************************************)

\* Byte sequences of one length with the same bytes are one.
LEMMA SameSeq ==
  ASSUME NEW S, NEW s \in Seq(S), NEW t \in Seq(S), Len(s) = Len(t), \A i \in 1 .. Len(s) : s[i] = t[i]
  PROVE  s = t
OBVIOUS

\* Names for the quotient and the remainder.
LEMMA Quotient ==
  ASSUME NEW n \in Nat \ {0}, NEW x \in Int
  PROVE  \E q \in Int, r \in 0 .. n - 1 : q = x \div n /\ r = x % n
OBVIOUS

\* Subtracting a multiple of n changes no remainder.
LEMMA ModShift ==
  ASSUME NEW n \in Nat \ {0}, NEW x \in Int, NEW u \in Nat, u % n = 0
  PROVE  (x - u) % n = x % n
<1>1. PICK q \in Int, r \in 0 .. n - 1 : q = x \div n /\ r = x % n
  BY Zenon, Quotient
<1>2. PICK p \in Int : p = u \div n
  OBVIOUS
<1>3. x = q * n + r
  BY <1>1
<1>4. u = p * n
  BY <1>2
<1>5. PICK s \in Int : s = q - p
  OBVIOUS
<1>6. x - u = s * n + r
  BY <1>3, <1>4, <1>5
<1>7. (s * n + r) % n = r
  OBVIOUS
<1> QED
  BY Zenon, <1>1, <1>6, <1>7

\* Less than n consecutive numbers have different remainders.
LEMMA ModInjective ==
  ASSUME NEW n \in Nat \ {0}, NEW x \in Nat, NEW y \in Nat, x < y, y < x + n
  PROVE  x % n # y % n
<1>1. PICK q \in Int, r \in 0 .. n - 1 : q = x \div n /\ r = x % n
  BY Quotient
<1>2. PICK p \in Int, w \in 0 .. n - 1 : p = y \div n /\ w = y % n
  BY Quotient
<1>3. x = q * n + r
  BY <1>1
<1>4. y = p * n + w
  BY <1>2
<1>5. PICK s \in Int : s = p - q
  OBVIOUS
<1>6. r = w => y - x = s * n
  BY <1>3, <1>4, <1>5
<1>7. s >= 1 => s * n >= n
  OBVIOUS
<1>8. s <= 0 => s * n <= 0
  OBVIOUS
<1>9. r # w
  BY <1>6, <1>7, <1>8
<1> QED
  BY Zenon, <1>1, <1>2, <1>9

\* One turn of a counter.
LEMMA ModTurn ==
  ASSUME NEW n \in Nat \ {0}, NEW x \in Int
  PROVE  /\ x \in 0 .. n - 1 => x % n = x
         /\ x \in n .. 2 * n - 1 => x % n = x - n
         /\ x \in (-n) .. -1 => x % n = x + n
<1>1. x \in 0 .. n - 1 => x % n = x
  OBVIOUS
<1>2. x \in n .. 2 * n - 1 => x % n = x - n
  OBVIOUS
<1>3. x \in (-n) .. -1 => x % n = x + n
  OBVIOUS
<1> QED
  BY Zenon, <1>1, <1>2, <1>3

-----------------------------------------------------------------------------
(***************************************************************************)
(* The counters and the slots of the buffer.                               *)
(***************************************************************************)

\* How many bytes are in the pipe, and where the i-th of them is.
Count(r, w) == (w - r) % U32
Slot(r, i) == ((r + i - 1) % U32) % PipeSize

\* The sizes, without the parts of the assumption the provers do not need.
LEMMA Sizes ==
  /\ PipeSize \in Nat \ {0} /\ U32 \in Nat \ {0} /\ PipeSize < U32
  /\ U32 % PipeSize = 0
BY PipeAssumption

\* nwrite is Count ahead of nread, before or after one wrap.
LEMMA CountIs ==
  ASSUME NEW r \in 0 .. U32 - 1, NEW w \in 0 .. U32 - 1
  PROVE  /\ w >= r => Count(r, w) = w - r
         /\ w < r => Count(r, w) = w - r + U32
<1>1. U32 \in Nat \ {0}
  BY Zenon, Sizes
<1>2. PICK x \in Int : x = w - r
  BY <1>1
<1>3. /\ w >= r => x \in 0 .. U32 - 1
      /\ w < r => x \in (-U32) .. -1
  BY <1>1, <1>2
<1>4. /\ w >= r => x % U32 = x
      /\ w < r => x % U32 = x + U32
  BY Zenon, <1>1, <1>3, ModTurn
<1> QED
  BY Zenon, <1>2, <1>4 DEF Count

\* The counter after one increment.
LEMMA Increment ==
  ASSUME NEW x \in 0 .. U32 - 1
  PROVE  /\ (x + 1) % U32 \in 0 .. U32 - 1
         /\ (x + 1) % U32 = IF x = U32 - 1 THEN 0 ELSE x + 1
<1>1. U32 \in Nat \ {0} /\ 1 < U32
  BY Sizes
<1>2. PICK y \in Nat : y = x + 1
  BY <1>1
<1>3. /\ y < U32 => y \in 0 .. U32 - 1
      /\ ~(y < U32) => y \in U32 .. 2 * U32 - 1 /\ y = U32
  BY <1>1, <1>2
<1>4. y % U32 = IF y < U32 THEN y ELSE y - U32
  BY <1>1, <1>3, ModTurn
<1> QED
  BY <1>1, <1>2, <1>3, <1>4

\* The tests of pipeWrite and pipeRead, and what their increments do.
LEMMA CountFacts ==
  ASSUME NEW r \in 0 .. U32 - 1, NEW w \in 0 .. U32 - 1
  PROVE  /\ Count(r, w) \in 0 .. U32 - 1
         /\ Count(r, w) = 0 <=> r = w
         /\ Count(r, w) = PipeSize <=> (r + PipeSize) % U32 = w
         /\ Count(r, w) < PipeSize => Count(r, (w + 1) % U32) = Count(r, w) + 1
         /\ r # w => Count((r + 1) % U32, w) = Count(r, w) - 1
<1>1. PipeSize \in Nat \ {0} /\ U32 \in Nat \ {0} /\ PipeSize < U32
  BY Zenon, Sizes
<1>2. /\ w >= r => Count(r, w) = w - r
      /\ w < r => Count(r, w) = w - r + U32
  BY Zenon, CountIs
<1>3. (r + PipeSize) % U32 =
        IF r + PipeSize < U32 THEN r + PipeSize ELSE r + PipeSize - U32
  <2>1. PICK x \in Nat : x = r + PipeSize
    BY <1>1
  <2>2. /\ x < U32 => x \in 0 .. U32 - 1
        /\ ~(x < U32) => x \in U32 .. 2 * U32 - 1
    BY <1>1, <2>1
  <2>3. x % U32 = IF x < U32 THEN x ELSE x - U32
    BY <1>1, <2>2, ModTurn
  <2> QED
    BY <1>1, <2>1, <2>3
<1>4. Count(r, w) < PipeSize => Count(r, (w + 1) % U32) = Count(r, w) + 1
  <2>1. PICK x \in 0 .. U32 - 1 : x = (w + 1) % U32
    BY Zenon, Increment
  <2>2. x = IF w = U32 - 1 THEN 0 ELSE w + 1
    BY Zenon, <2>1, Increment
  <2>3. /\ x >= r => Count(r, x) = x - r
        /\ x < r => Count(r, x) = x - r + U32
    BY Zenon, CountIs
  <2>4. Count(r, w) < PipeSize => Count(r, x) = Count(r, w) + 1
    BY <1>1, <1>2, <2>2, <2>3
  <2> QED
    BY Zenon, <2>1, <2>4
<1>5. r # w => Count((r + 1) % U32, w) = Count(r, w) - 1
  <2>1. PICK x \in 0 .. U32 - 1 : x = (r + 1) % U32
    BY Zenon, Increment
  <2>2. x = IF r = U32 - 1 THEN 0 ELSE r + 1
    BY Zenon, <2>1, Increment
  <2>3. /\ w >= x => Count(x, w) = w - x
        /\ w < x => Count(x, w) = w - x + U32
    BY Zenon, CountIs
  <2>4. r # w => Count(x, w) = Count(r, w) - 1
    BY <1>1, <1>2, <2>2, <2>3
  <2> QED
    BY Zenon, <2>1, <2>4
<1> QED
  BY <1>1, <1>2, <1>3, <1>4, <1>5

\* A slot does not notice that the counters wrap: 2^32 is a multiple of PIPESIZE.
LEMMA SlotIs ==
  ASSUME NEW r \in 0 .. U32 - 1, NEW i \in 1 .. PipeSize + 1
  PROVE  Slot(r, i) = (r + i - 1) % PipeSize
<1>1. PipeSize \in Nat \ {0} /\ U32 \in Nat \ {0} /\ PipeSize < U32 /\ U32 % PipeSize = 0
  BY Zenon, Sizes
<1>2. PICK x \in Int : x = r + i - 1
  BY <1>1
<1>3. /\ x < U32 => x \in 0 .. U32 - 1
      /\ ~(x < U32) => x \in U32 .. 2 * U32 - 1
  BY <1>1, <1>2
<1>4. x % U32 = IF x < U32 THEN x ELSE x - U32
  BY Zenon, <1>1, <1>3, ModTurn
<1>5. (x - U32) % PipeSize = x % PipeSize
  BY Zenon, <1>1, ModShift
<1>6. (x % U32) % PipeSize = x % PipeSize
  BY Zenon, <1>4, <1>5
<1> QED
  BY Zenon, <1>2, <1>6 DEF Slot

\* The slot nwrite points to is the one behind the last byte.
LEMMA WriteSlot ==
  ASSUME NEW r \in 0 .. U32 - 1, NEW w \in 0 .. U32 - 1
  PROVE  w % PipeSize = (r + Count(r, w)) % PipeSize
<1>1. PipeSize \in Nat \ {0} /\ U32 \in Nat \ {0} /\ U32 % PipeSize = 0
  BY Zenon, Sizes
<1>2. PICK x \in Int : x = r + Count(r, w)
  BY <1>1, CountFacts
<1>3. x = w \/ x - U32 = w
  BY <1>1, <1>2, CountIs
<1>4. (x - U32) % PipeSize = x % PipeSize
  BY Zenon, <1>1, ModShift
<1> QED
  BY Zenon, <1>2, <1>3, <1>4

\* The bytes of a pipe with this buffer and these counters.
Held(d, r, w) == [i \in 1 .. Count(r, w) |-> d[Slot(r, i)]]

\* Every slot that is in use is one of the buffer.
LEMMA HeldType ==
  ASSUME NEW r \in 0 .. U32 - 1, NEW w \in 0 .. U32 - 1, NEW d \in [0 .. PipeSize - 1 -> Bytes]
  PROVE  Held(d, r, w) \in Seq(Bytes) /\ Len(Held(d, r, w)) = Count(r, w)
<1>1. PipeSize \in Nat \ {0} /\ U32 \in Nat \ {0} /\ Count(r, w) \in 0 .. U32 - 1
  BY Zenon, Sizes, CountFacts
<1>2. ASSUME NEW i \in 1 .. Count(r, w)
      PROVE  d[Slot(r, i)] \in Bytes
  <2>1. PICK x \in Int : x = (r + i - 1) % U32
    BY <1>1
  <2>2. x % PipeSize \in 0 .. PipeSize - 1
    BY <1>1
  <2> QED
    BY Zenon, <2>1, <2>2 DEF Slot
<1> QED
  BY <1>1, <1>2 DEF Held

\* pi->data[pi->nwrite++ % PIPESIZE] = b appends b: no byte that is still to be
\* read is in that slot.
LEMMA PutAppends ==
  ASSUME NEW r \in 0 .. U32 - 1, NEW w \in 0 .. U32 - 1,
         NEW d \in [0 .. PipeSize - 1 -> Bytes], NEW b \in Bytes, Count(r, w) < PipeSize
  PROVE  Held([d EXCEPT ![w % PipeSize] = b], r, (w + 1) % U32) = Append(Held(d, r, w), b)
<1>1. PipeSize \in Nat \ {0} /\ U32 \in Nat \ {0}
  BY Zenon, Sizes
<1>2. PICK c \in Nat : c = Count(r, w)
  BY <1>1, CountFacts
<1>3. Count(r, (w + 1) % U32) = c + 1
  BY Zenon, <1>2, CountFacts
<1>4. PICK e : e = [d EXCEPT ![w % PipeSize] = b]
  BY Zenon
<1>5. Slot(r, c + 1) = w % PipeSize
  <2>1. Slot(r, c + 1) = (r + (c + 1) - 1) % PipeSize
    BY <1>1, <1>2, SlotIs
  <2>2. r + (c + 1) - 1 = r + c
    BY <1>1, <1>2
  <2> QED
    BY Zenon, <1>2, <2>1, <2>2, WriteSlot
<1>6. ASSUME NEW i \in 1 .. c
      PROVE  Slot(r, i) # w % PipeSize
  <2>1. PICK x \in Nat : x = r + i - 1
    BY <1>1
  <2>2. PICK y \in Nat : y = r + c
    BY <1>1, <1>2
  <2>3. x < y /\ y < x + PipeSize
    BY <1>1, <1>2, <2>1, <2>2
  <2>4. x % PipeSize # y % PipeSize
    BY Zenon, <1>1, <2>3, ModInjective
  <2>5. Slot(r, i) = x % PipeSize
    BY <1>1, <1>2, <2>1, SlotIs
  <2>6. w % PipeSize = y % PipeSize
    BY Zenon, <1>2, <2>2, WriteSlot
  <2> QED
    BY Zenon, <2>4, <2>5, <2>6
<1>7. w % PipeSize \in 0 .. PipeSize - 1
  BY <1>1
<1>8. \A i \in 1 .. c + 1 : e[Slot(r, i)] = IF i = c + 1 THEN b ELSE d[Slot(r, i)]
  <2> TAKE i \in 1 .. c + 1
  <2>1. CASE i = c + 1
    BY Zenon, <2>1, <1>4, <1>5, <1>7
  <2>2. CASE i # c + 1
    <3>1. i \in 1 .. c
      BY <1>2, <2>2
    <3>2. Slot(r, i) # w % PipeSize
      BY Zenon, <3>1, <1>6
    <3> QED
      BY <2>2, <3>2, <1>4, <1>7
  <2> QED
    BY Zenon, <2>1, <2>2
<1>9. PICK h \in Seq(Bytes) : h = Held(d, r, w) /\ Len(h) = c
  BY Zenon, <1>2, HeldType
<1>10. PICK g \in Seq(Bytes) : g = Held(e, r, (w + 1) % U32) /\ Len(g) = c + 1
  <2>1. e \in [0 .. PipeSize - 1 -> Bytes] /\ (w + 1) % U32 \in 0 .. U32 - 1
    BY Zenon, <1>4, Increment
  <2> QED
    BY Zenon, <1>3, <2>1, HeldType
<1>11. \A i \in 1 .. c + 1 : g[i] = IF i = c + 1 THEN b ELSE d[Slot(r, i)]
  BY Zenon, <1>3, <1>8, <1>10 DEF Held
<1>12. \A i \in 1 .. c : h[i] = d[Slot(r, i)]
  BY Zenon, <1>2, <1>9 DEF Held
<1>13. /\ Append(h, b) \in Seq(Bytes) /\ Len(Append(h, b)) = c + 1
       /\ \A i \in 1 .. c : Append(h, b)[i] = h[i]
       /\ Append(h, b)[c + 1] = b
  BY <1>9
<1>14. \A i \in 1 .. Len(g) : g[i] = Append(h, b)[i]
  BY <1>10, <1>11, <1>12, <1>13
<1>15. g = Append(h, b)
  <2>1. PICK a \in Seq(Bytes) : a = Append(h, b)
    BY Zenon, <1>13
  <2>2. Len(g) = Len(a) /\ \A i \in 1 .. Len(g) : g[i] = a[i]
    BY Zenon, <1>10, <1>13, <1>14, <2>1
  <2>3. g = a
    BY Zenon, <2>2, SameSeq
  <2> QED
    BY Zenon, <2>1, <2>3
<1> QED
  BY Zenon, <1>4, <1>9, <1>10, <1>15

\* pi->nread++ removes the first byte and leaves the others where they are.
LEMMA GetRemoves ==
  ASSUME NEW r \in 0 .. U32 - 1, NEW w \in 0 .. U32 - 1,
         NEW d \in [0 .. PipeSize - 1 -> Bytes], r # w, Count(r, w) <= PipeSize
  PROVE  /\ Held(d, r, w) # <<>>
         /\ Held(d, (r + 1) % U32, w) = Tail(Held(d, r, w))
<1>1. PipeSize \in Nat \ {0} /\ U32 \in Nat \ {0} /\ U32 % PipeSize = 0
  BY Zenon, Sizes
<1>2. PICK c \in Nat \ {0} : c = Count(r, w)
  BY <1>1, CountFacts
<1>3. PICK s \in 0 .. U32 - 1 : s = (r + 1) % U32
  BY Zenon, Increment
<1>4. s = IF r = U32 - 1 THEN 0 ELSE r + 1
  BY Zenon, <1>3, Increment
<1>5. Count(s, w) = c - 1
  BY <1>2, <1>3, CountFacts
<1>6. ASSUME NEW i \in 1 .. c - 1
      PROVE  Slot(s, i) = Slot(r, i + 1)
  <2>1. PICK x \in Int : x = r + i
    BY <1>1
  <2>2. Slot(r, i + 1) = x % PipeSize
    <3>1. r + (i + 1) - 1 = x /\ i + 1 \in 1 .. PipeSize + 1
      BY <1>1, <1>2, <2>1
    <3> QED
      BY Zenon, <3>1, SlotIs
  <2>3. Slot(s, i) = (s + i - 1) % PipeSize
    BY <1>1, <1>2, SlotIs
  <2>4. s + i - 1 = x \/ s + i - 1 = x - U32
    BY <1>1, <1>4, <2>1
  <2>5. (x - U32) % PipeSize = x % PipeSize
    BY Zenon, <1>1, ModShift
  <2> QED
    BY Zenon, <2>2, <2>3, <2>4, <2>5
<1>7. PICK h \in Seq(Bytes) : h = Held(d, r, w) /\ Len(h) = c
  BY Zenon, <1>2, HeldType
<1>8. \A i \in 1 .. c : h[i] = d[Slot(r, i)]
  BY Zenon, <1>2, <1>7 DEF Held
<1>9. /\ h # <<>> /\ Tail(h) \in Seq(Bytes) /\ Len(Tail(h)) = c - 1
      /\ \A i \in 1 .. c - 1 : Tail(h)[i] = h[i + 1]
  <2>1. h # <<>>
    BY Zenon, <1>2, <1>7
  <2> QED
    BY <1>7, <2>1
<1>10. \A i \in 1 .. c - 1 : h[i + 1] = d[Slot(s, i)]
  <2> TAKE i \in 1 .. c - 1
  <2>1. i + 1 \in 1 .. c
    BY <1>2
  <2>2. h[i + 1] = d[Slot(r, i + 1)]
    BY Zenon, <1>8, <2>1
  <2> QED
    BY Zenon, <2>2, <1>6
<1>11. PICK g \in Seq(Bytes) : g = Held(d, s, w) /\ Len(g) = c - 1
  BY Zenon, <1>5, HeldType
<1>12. \A i \in 1 .. c - 1 : g[i] = d[Slot(s, i)]
  BY Zenon, <1>5, <1>11 DEF Held
<1>13. g = Tail(h)
  <2>1. PICK a \in Seq(Bytes) : a = Tail(h)
    BY Zenon, <1>9
  <2>2. Len(g) = Len(a) /\ \A i \in 1 .. Len(g) : g[i] = a[i]
    BY <1>9, <1>10, <1>11, <1>12, <2>1
  <2>3. g = a
    BY Zenon, <2>2, SameSeq
  <2> QED
    BY Zenon, <2>1, <2>3
<1> QED
  BY Zenon, <1>3, <1>7, <1>9, <1>11, <1>13

-----------------------------------------------------------------------------
(***************************************************************************)
(* The steps.                                                              *)
(***************************************************************************)

\* The counters stay within 32 bits and nwrite at most PIPESIZE ahead of nread.
RingInv ==
  /\ data \in [0 .. PipeSize - 1 -> Bytes]
  /\ nread \in 0 .. U32 - 1 /\ nwrite \in 0 .. U32 - 1
  /\ Count(nread, nwrite) <= PipeSize

\* pipeAlloc's pipe: both counters are 0 and the ring is empty.
LEMMA RingInit == PipeInit => RingInv /\ Contents = <<>>
<1> SUFFICES ASSUME PipeInit PROVE RingInv /\ Contents = <<>>
  BY Zenon
<1>1. PipeSize \in Nat \ {0} /\ U32 \in Nat \ {0} /\ (CHOOSE b \in Bytes : TRUE) \in Bytes
  BY Zenon, Sizes, PipeAssumption
<1>2. Count(nread, nwrite) = 0
  BY <1>1, CountFacts DEF PipeInit
<1> QED
  BY <1>1, <1>2 DEF PipeInit, RingInv, Contents, Count

\* Nothing but PutByte and GetByte touches the buffer and its counters.
LEMMA RingUntouched ==
  ASSUME PipeNext \/ UNCHANGED pipevars,
         \A t \in PipeThreads : ~PutByte(t) /\ ~GetByte(t)
  PROVE  UNCHANGED <<data, nread, nwrite>>
BY DEF PipeNext, PipeContinue, pipevars, PipeCall, PipeFail, PipeBlock, PipeDone, DecRead,
  DecWrite, InsertAndSleep, Resume, Relock, CloseEnd, CloseRead, CloseWrite, KillThread

\* A step of the pipe is one of the queue or leaves it alone.
LEMMA RingStep ==
  ASSUME RingInv, PipeNext \/ UNCHANGED pipevars
  PROVE  RingInv' /\ (Fifo!FifoNext \/ UNCHANGED Contents)
<1>1. PipeSize \in Nat \ {0} /\ U32 \in Nat \ {0}
  BY Zenon, Sizes
<1>2. /\ nread \in 0 .. U32 - 1 /\ nwrite \in 0 .. U32 - 1
      /\ data \in [0 .. PipeSize - 1 -> Bytes]
      /\ Count(nread, nwrite) \in 0 .. PipeSize
  BY CountFacts DEF RingInv
<1>3. Contents = Held(data, nread, nwrite) /\ Contents' = Held(data', nread', nwrite')
  BY Zenon DEF Contents, Held, Count, Slot
<1>4. ASSUME NEW t \in PipeThreads, PutByte(t)
      PROVE  RingInv' /\ Fifo!Put
  <2>1. PICK b \in Bytes : data' = [data EXCEPT ![nwrite % PipeSize] = b]
    BY Zenon, <1>4 DEF PutByte
  <2>2. nread' = nread /\ nwrite' = (nwrite + 1) % U32 /\ ~Full
    BY Zenon, <1>4 DEF PutByte
  <2>3. Count(nread, nwrite) < PipeSize
    BY <1>1, <1>2, <2>2, CountFacts DEF Full
  <2>4. Contents' = Append(Contents, b)
    BY Zenon, <1>2, <1>3, <2>1, <2>2, <2>3, PutAppends
  <2>5. Len(Contents) < PipeSize
    BY Zenon, <1>2, <1>3, <2>3, HeldType
  <2>6. RingInv'
    <3>1. Count(nread, nwrite') = Count(nread, nwrite) + 1
      BY Zenon, <1>2, <2>2, <2>3, CountFacts
    <3>2. nwrite' \in 0 .. U32 - 1
      BY Zenon, <1>2, <2>2, Increment
    <3> QED
      BY <1>1, <1>2, <2>1, <2>2, <2>3, <3>1, <3>2 DEF RingInv, Count
  <2> QED
    BY Zenon, <2>4, <2>5, <2>6 DEF Fifo!Put
<1>5. ASSUME NEW t \in PipeThreads, GetByte(t)
      PROVE  RingInv' /\ Fifo!Get
  <2>1. nread' = (nread + 1) % U32 /\ nwrite' = nwrite /\ data' = data /\ nread # nwrite
    BY Zenon, <1>5 DEF GetByte, Empty
  <2>2. Contents # <<>> /\ Contents' = Tail(Contents)
    BY <1>1, <1>2, <1>3, <2>1, GetRemoves
  <2>3. RingInv'
    <3>1. Count(nread', nwrite) = Count(nread, nwrite) - 1
      BY Zenon, <1>2, <2>1, CountFacts
    <3>2. nread' \in 0 .. U32 - 1
      BY Zenon, <1>2, <2>1, Increment
    <3> QED
      BY <1>1, <1>2, <2>1, <3>1, <3>2 DEF RingInv, Count
  <2> QED
    BY Zenon, <2>2, <2>3 DEF Fifo!Get
<1>6. CASE \A t \in PipeThreads : ~PutByte(t) /\ ~GetByte(t)
  <2>1. UNCHANGED <<data, nread, nwrite>>
    BY Zenon, <1>6, RingUntouched
  <2> QED
    BY Zenon, <2>1 DEF RingInv, Contents, Count
<1> QED
  BY Zenon, <1>4, <1>5, <1>6 DEF Fifo!FifoNext

\* The ring buffer of pipeWrite and pipeRead is a bounded queue of bytes, for
\* any threads, any bytes and any size that divides the range of the counters.
THEOREM PipeImplementsFifo == PipeSpec => PipeIsFifo
<1>1. PipeInit => Fifo!FifoInit
  BY Zenon, RingInit DEF Fifo!FifoInit
<1>2. PipeInit => RingInv
  BY Zenon, RingInit
<1>3. RingInv /\ [PipeNext]_pipevars => RingInv'
  BY Zenon, RingStep
<1>4. RingInv /\ [PipeNext]_pipevars => [Fifo!FifoNext]_Contents
  BY Zenon, RingStep
<1> QED
  BY <1>1, <1>2, <1>3, <1>4, PTL DEF PipeSpec, PipeIsFifo, Fifo!FifoSpec

-----------------------------------------------------------------------------
(***************************************************************************)
(* Who sleeps, and why.                                                    *)
(***************************************************************************)

\* A thread inside a call still holds its descriptor: fileclose is another call.
CallersOpen ==
  \A t \in PipeThreads : tpc[t] \notin {"idle", "close", "close2"} => t \in open

\* Between the release of pi->lock and the sleep, a thread holds the semaphore's
\* lock, so that post_all_sem waits until it is on the list.
SemLockHeld ==
  \A t \in PipeThreads : tpc[t] \in {"dec", "dec2", "ins"} => semlock[SemOf(t)] = t

\* A thread that sleeps and has not been posted is where post_all_sem looks.
SleepersOnList ==
  \A t \in PipeThreads :
    tpc[t] = "asleep" /\ ~twoken[t] =>
      \E i \in 1 .. Len(sleeplist[SemOf(t)]) : sleeplist[SemOf(t)][i] = t

\* The reason to sleep, with the thread that is going to end it: only a writer
\* that may have put bytes, or a reader that has taken some, owes a wake-up.
SleepersHaveWaker ==
  \A t \in PipeThreads : GoingToSleep(t) /\ Undisturbed(t) =>
    \/ t \in Readers /\ (Empty \/ \E u \in Writers : tpc[u] = "loop")
    \/ t \notin Readers /\ (Full \/ \E u \in Readers : tpc[u] = "copy")

PipeIndInv ==
  PipeTypeOK /\ CallersOpen /\ SemLockHeld /\ SleepersOnList /\ SleepersHaveWaker

\* What the step of one thread leaves to the others.
LEMMA Ends2 ==
  ASSUME NEW t \in PipeThreads
  PROVE  /\ SemOf(t) \in Ends /\ OtherSem(t) \in Ends /\ SemOf(t) # OtherSem(t)
         /\ t \in Readers => t \notin Writers /\ SemOf(t) = "r" /\ OtherSem(t) = "w"
         /\ t \notin Readers => t \in Writers /\ SemOf(t) = "w" /\ OtherSem(t) = "r"
         /\ t # NoOne
BY Zenon, PipeAssumption DEF PipeThreads, SemOf, OtherSem, Ends

\* pipeAlloc's pipe: both ends are open and nobody sleeps on either semaphore.
LEMMA PipeIndInit == PipeInit => PipeIndInv
<1> SUFFICES ASSUME PipeInit PROVE PipeIndInv
  BY Zenon
<1>1. PipeTypeOK
  <2>1. data \in [0 .. PipeSize - 1 -> Bytes] /\ nread \in 0 .. U32 - 1 /\ nwrite \in 0 .. U32 - 1
    BY Zenon, RingInit DEF RingInv
  <2>2. /\ val \in [Ends -> Int] /\ sleeplist \in [Ends -> Seq(PipeThreads)]
        /\ semlock \in [Ends -> PipeThreads \cup {NoOne}]
    BY DEF PipeInit, Ends
  <2>3. /\ tpc \in [PipeThreads -> PipePcs] /\ left \in [PipeThreads -> Nat]
        /\ reg \in [PipeThreads -> Int] /\ twoken \in [PipeThreads -> BOOLEAN]
        /\ tkilled \in [PipeThreads -> BOOLEAN]
    BY DEF PipeInit, PipePcs
  <2> QED
    BY Zenon, <2>1, <2>2, <2>3 DEF PipeInit, PipeTypeOK
<1> QED
  BY Zenon, <1>1 DEF PipeInit, PipeIndInv, CallersOpen, SemLockHeld, SleepersOnList,
    SleepersHaveWaker, GoingToSleep

\* What the last sleeper leaves of its list.
LEMMA OldestWoken ==
  ASSUME NEW S, NEW q \in Seq(S), q # <<>>
  PROVE  /\ WithoutLast(q) \in Seq(S) /\ q[Len(q)] \in S
         /\ \A i \in 1 .. Len(q) :
              \/ q[i] = q[Len(q)]
              \/ \E j \in 1 .. Len(WithoutLast(q)) : WithoutLast(q)[j] = q[i]
<1>1. Len(q) \in Nat \ {0} /\ q[Len(q)] \in S
  OBVIOUS
<1>2. /\ WithoutLast(q) \in Seq(S) /\ Len(WithoutLast(q)) = Len(q) - 1
      /\ \A j \in 1 .. Len(q) - 1 : WithoutLast(q)[j] = q[j]
  BY <1>1 DEF WithoutLast
<1>3. \A i \in 1 .. Len(q) : i = Len(q) \/ i \in 1 .. Len(WithoutLast(q))
  BY <1>1, <1>2
<1> QED
  BY Zenon, <1>1, <1>2, <1>3

\* A thread's calm is never restored: descriptors are only closed, and killed
\* is never cleared.
LEMMA Calm ==
  ASSUME open' \subseteq open, \A u \in PipeThreads : tkilled[u] => tkilled'[u],
         NEW x \in PipeThreads, Undisturbed(x)'
  PROVE  Undisturbed(x)
BY Zenon DEF Undisturbed, EndOpen

\* A step that moves no byte, sends nobody to sleep and ends no loop changes no
\* reason to sleep.
LEMMA QuietStep ==
  ASSUME SleepersHaveWaker,
         \A x \in PipeThreads : GoingToSleep(x)' => GoingToSleep(x),
         \A x \in PipeThreads : tpc[x] \in {"loop", "copy"} => tpc'[x] = tpc[x],
         UNCHANGED <<nread, nwrite>>, open' \subseteq open,
         \A x \in PipeThreads : tkilled[x] => tkilled'[x]
  PROVE  SleepersHaveWaker'
<1> SUFFICES ASSUME NEW x \in PipeThreads, GoingToSleep(x)', Undisturbed(x)'
             PROVE  \/ x \in Readers /\ (Empty' \/ \E u \in Writers : tpc'[u] = "loop")
                    \/ x \notin Readers /\ (Full' \/ \E u \in Readers : tpc'[u] = "copy")
  BY Zenon DEF SleepersHaveWaker
<1>1. GoingToSleep(x) /\ Undisturbed(x)
  BY Zenon, Calm
<1>2. \/ x \in Readers /\ (Empty \/ \E u \in Writers : tpc[u] = "loop")
      \/ x \notin Readers /\ (Full \/ \E u \in Readers : tpc[u] = "copy")
  BY Zenon, <1>1 DEF SleepersHaveWaker
<1>3. Empty' = Empty /\ Full' = Full
  BY Zenon DEF Empty, Full
<1> QED
  BY Zenon, <1>2, <1>3 DEF PipeThreads

\* The types after a post_all_sem.
LEMMA PostAllTypes ==
  ASSUME PipeTypeOK, NEW e \in Ends, PostAllWakes(e)
  PROVE  /\ twoken' \in [PipeThreads -> BOOLEAN] /\ sleeplist' \in [Ends -> Seq(PipeThreads)]
         /\ \A x \in PipeThreads : twoken[x] => twoken'[x]
<1>1. twoken' = [t \in PipeThreads |-> twoken[t] \/ t \in Listed(sleeplist[e])]
  BY Zenon DEF PostAllWakes
<1>2. \A x \in PipeThreads : (twoken[x] \/ x \in Listed(sleeplist[e])) \in BOOLEAN
  BY Zenon
<1>3. twoken' \in [PipeThreads -> BOOLEAN]
  BY <1>1, <1>2, Zenon
<1>4. \A x \in PipeThreads : twoken[x] => twoken'[x]
  BY Zenon, <1>1
<1>5. <<>> \in Seq(PipeThreads)
  OBVIOUS
<1>6. sleeplist' \in [Ends -> Seq(PipeThreads)]
  BY Zenon, <1>5 DEF PostAllWakes, PipeTypeOK
<1> QED
  BY Zenon, <1>3, <1>4, <1>6

\* post_all_sem on x while nobody holds the lock of x: nobody of that side is
\* left asleep or on its way to sleep.
LEMMA AllWoken ==
  ASSUME PipeIndInv, NEW e \in Ends, semlock[e] = NoOne, PostAllWakes(e),
         \A x \in PipeThreads : tpc'[x] \in {"dec", "dec2", "ins", "asleep"} =>
           tpc'[x] = tpc[x] \/ SemOf(x) # e
  PROVE  \A x \in PipeThreads : SemOf(x) = e => ~GoingToSleep(x)'
<1> SUFFICES ASSUME NEW x \in PipeThreads, SemOf(x) = e, GoingToSleep(x)'
             PROVE  FALSE
  BY Zenon
<1>1. tpc[x] \notin {"dec", "dec2", "ins"}
  BY Zenon, Ends2 DEF PipeIndInv, SemLockHeld
<1>2. tpc'[x] = "asleep" /\ tpc[x] = "asleep" /\ ~twoken'[x]
  BY Zenon, <1>1 DEF GoingToSleep
<1>3. ~twoken[x] /\ x \notin Listed(sleeplist[e])
  BY Zenon, <1>2 DEF PostAllWakes
<1>4. sleeplist[e] \in Seq(PipeThreads)
  BY Zenon DEF PipeIndInv, PipeTypeOK
<1>5. Listed(sleeplist[e]) = {sleeplist[e][i] : i \in 1 .. Len(sleeplist[e])}
  BY Zenon DEF Listed
<1> QED
  BY Zenon, <1>2, <1>3, <1>5 DEF PipeIndInv, SleepersOnList

\* pipeWrite, pipeRead, pipeClose and kill keep the invariant of the sleepers.
LEMMA PipeIndStep ==
  ASSUME PipeIndInv, RingInv, PipeNext \/ UNCHANGED pipevars
  PROVE  PipeIndInv'
<1>1. /\ PipeTypeOK /\ CallersOpen /\ SemLockHeld /\ SleepersOnList /\ SleepersHaveWaker
  BY Zenon DEF PipeIndInv
<1>2. /\ data' \in [0 .. PipeSize - 1 -> Bytes]
      /\ nread' \in 0 .. U32 - 1 /\ nwrite' \in 0 .. U32 - 1
  BY Zenon, RingStep DEF RingInv
<1>3. CASE UNCHANGED pipevars
  BY Zenon, <1>1, <1>3 DEF pipevars, PipeIndInv, PipeTypeOK, CallersOpen, SemLockHeld, SleepersOnList,
    SleepersHaveWaker, GoingToSleep, Undisturbed, EndOpen, Empty, Full
<1>4. ASSUME NEW t \in PipeThreads, PipeCall(t)
      PROVE  PipeIndInv'
  <2>1. PipeTypeOK'
    BY <1>1, <1>2, <1>4, PipeAssumption DEF PipeCall, PipeTypeOK, Goto, PipePcs
  <2>2. CallersOpen' /\ SemLockHeld' /\ SleepersOnList'
    BY Zenon, <1>1, <1>4 DEF PipeCall, Goto, CallersOpen, SemLockHeld, SleepersOnList, PipeTypeOK
  <2>3. SleepersHaveWaker'
    BY Zenon, <1>1, <1>4, QuietStep DEF PipeCall, Goto, GoingToSleep, PipeTypeOK
  <2> QED
    BY Zenon, <2>1, <2>2, <2>3 DEF PipeIndInv
<1>5. ASSUME NEW t \in PipeThreads, PipeFail(t)
      PROVE  PipeIndInv'
  <2>1. PipeTypeOK'
    BY Zenon, <1>1, <1>2, <1>5 DEF PipeFail, PipeTypeOK, Goto, Return, PipePcs
  <2>2. CallersOpen' /\ SemLockHeld' /\ SleepersOnList'
    BY Zenon, <1>1, <1>5 DEF PipeFail, Goto, Return, CallersOpen, SemLockHeld, SleepersOnList, PipeTypeOK
  <2>3. ASSUME NEW x \in PipeThreads, GoingToSleep(x)', Undisturbed(x)'
        PROVE  \/ x \in Readers /\ (Empty' \/ \E u \in Writers : tpc'[u] = "loop")
               \/ x \notin Readers /\ (Full' \/ \E u \in Readers : tpc'[u] = "copy")
    <3>1. GoingToSleep(x) /\ Undisturbed(x) /\ x # t
      BY Zenon, <1>1, <1>5, <2>3, Calm DEF PipeFail, Goto, Return, GoingToSleep, PipeTypeOK
    <3>2. tpc' = [tpc EXCEPT ![t] = "idle"] /\ tpc[t] = "loop" /\ UNCHANGED <<nread, nwrite>>
      BY Zenon, <1>5 DEF PipeFail, Goto, Return
    <3>3. Empty' = Empty /\ Full' = Full
      BY Zenon, <3>2 DEF Empty, Full
    <3>4. CASE x \in Readers
      \* The thread that fails is no writer: this reader is open and nobody of
      \* the writers' side was killed.
      <4>1. x \in open
        BY Zenon, <1>1, <3>1 DEF CallersOpen, GoingToSleep
      <4>2. EndOpen("r")
        BY Zenon, <3>4, <4>1 DEF EndOpen
      <4>3. t \in Writers => ~tkilled[t]
        BY Zenon, <3>1, <3>4, Ends2 DEF Undisturbed
      <4>4. t \notin Writers
        BY Zenon, <1>5, <4>2, <4>3, Ends2 DEF PipeFail
      <4>5. Empty \/ \E u \in Writers : tpc[u] = "loop"
        BY Zenon, <1>1, <3>1, <3>4 DEF SleepersHaveWaker
      <4> QED
        BY Zenon, <1>1, <3>2, <3>3, <3>4, <4>4, <4>5 DEF PipeTypeOK, PipeThreads
    <3>5. CASE x \notin Readers
      <4>1. Full \/ \E u \in Readers : tpc[u] = "copy"
        BY Zenon, <1>1, <3>1, <3>5 DEF SleepersHaveWaker
      <4> QED
        BY Zenon, <1>1, <3>2, <3>3, <3>5, <4>1 DEF PipeTypeOK, PipeThreads
    <3> QED
      BY Zenon, <3>4, <3>5
  <2>4. SleepersHaveWaker'
    BY Zenon, <2>3 DEF SleepersHaveWaker
  <2> QED
    BY Zenon, <2>1, <2>2, <2>4 DEF PipeIndInv
<1>6. ASSUME NEW t \in PipeThreads, PipeBlock(t)
      PROVE  PipeIndInv'
  <2> DEFINE e == SemOf(t)
  <2>1. /\ tpc[t] = "loop" /\ semlock[e] = NoOne /\ tpc' = [tpc EXCEPT ![t] = "dec"]
        /\ semlock' = [semlock EXCEPT ![e] = t]
        /\ UNCHANGED <<data, nread, nwrite, left, reg, open, tkilled, panicked>>
    BY Zenon, <1>6 DEF PipeBlock, Goto
  <2>2. \/ t \in Writers /\ Full /\ semlock["r"] = NoOne /\ PostAllWakes("r")
        \/ t \in Readers /\ Empty /\ UNCHANGED <<twoken, sleeplist>>
    BY Zenon, <1>6 DEF PipeBlock
  <2>3. /\ twoken' \in [PipeThreads -> BOOLEAN] /\ sleeplist' \in [Ends -> Seq(PipeThreads)]
        /\ \A x \in PipeThreads : twoken[x] => twoken'[x]
    BY Zenon, <1>1, <2>2, PostAllTypes DEF Ends, PipeTypeOK
  <2>4. val' \in [Ends -> Int] /\ pilock' = NoOne
    BY <1>1, <1>6 DEF PipeBlock, PipeTypeOK, Ends
  <2>5. PipeTypeOK'
    BY Zenon, <1>1, <1>2, <2>1, <2>3, <2>4, Ends2 DEF PipeTypeOK, PipePcs
  <2>6. CallersOpen'
    BY Zenon, <1>1, <2>1 DEF CallersOpen, PipeTypeOK
  <2>7. SemLockHeld'
    <3> SUFFICES ASSUME NEW x \in PipeThreads, tpc'[x] \in {"dec", "dec2", "ins"}
                 PROVE  semlock'[SemOf(x)] = x
      BY Zenon DEF SemLockHeld
    <3>1. CASE x = t
      BY Zenon, <1>1, <2>1, <3>1, Ends2 DEF PipeTypeOK
    <3>2. CASE x # t
      <4>1. semlock[SemOf(x)] = x /\ x # NoOne
        BY Zenon, <1>1, <2>1, <3>2, Ends2 DEF SemLockHeld, PipeTypeOK
      <4> QED
        BY Zenon, <1>1, <2>1, <4>1, Ends2 DEF PipeTypeOK
    <3> QED
      BY Zenon, <3>1, <3>2
  <2>8. SleepersOnList'
    <3> SUFFICES ASSUME NEW x \in PipeThreads, tpc'[x] = "asleep", ~twoken'[x]
                 PROVE  \E i \in 1 .. Len(sleeplist'[SemOf(x)]) : sleeplist'[SemOf(x)][i] = x
      BY Zenon DEF SleepersOnList
    <3>1. tpc[x] = "asleep" /\ ~twoken[x]
      BY Zenon, <1>1, <2>1, <2>3 DEF PipeTypeOK
    <3>2. \E i \in 1 .. Len(sleeplist[SemOf(x)]) : sleeplist[SemOf(x)][i] = x
      BY Zenon, <1>1, <3>1 DEF SleepersOnList
    <3>3. CASE t \in Writers /\ PostAllWakes("r") /\ semlock["r"] = NoOne
      <4>1. \A y \in PipeThreads : SemOf(y) = "r" => ~GoingToSleep(y)'
        <5>1. \A y \in PipeThreads : tpc'[y] \in {"dec", "dec2", "ins", "asleep"} =>
                 tpc'[y] = tpc[y] \/ SemOf(y) # "r"
          BY Zenon, <1>1, <2>1, <3>3, Ends2 DEF PipeTypeOK
        <5> QED
          BY Zenon, <3>3, <5>1, AllWoken DEF Ends
      <4>2. SemOf(x) # "r"
        BY Zenon, <4>1 DEF GoingToSleep
      <4> QED
        BY Zenon, <1>1, <3>2, <3>3, <4>2, Ends2 DEF PostAllWakes, PipeTypeOK
    <3>4. CASE UNCHANGED <<twoken, sleeplist>>
      BY Zenon, <3>2, <3>4
    <3> QED
      BY Zenon, <2>2, <3>3, <3>4
  <2>9. SleepersHaveWaker'
    <3> SUFFICES ASSUME NEW x \in PipeThreads, GoingToSleep(x)', Undisturbed(x)'
                 PROVE  \/ x \in Readers /\ (Empty' \/ \E u \in Writers : tpc'[u] = "loop")
                        \/ x \notin Readers /\ (Full' \/ \E u \in Readers : tpc'[u] = "copy")
      BY Zenon DEF SleepersHaveWaker
    <3>1. Empty' = Empty /\ Full' = Full
      BY Zenon, <2>1 DEF Empty, Full
    <3>2. CASE x = t
      BY Zenon, <2>2, <3>1, <3>2, Ends2
    <3>3. CASE x # t
      <4>1. GoingToSleep(x) /\ Undisturbed(x)
        BY Zenon, <1>1, <2>1, <2>3, <3>3, Calm DEF GoingToSleep, PipeTypeOK
      <4>2. \/ x \in Readers /\ (Empty \/ \E u \in Writers : tpc[u] = "loop")
            \/ x \notin Readers /\ (Full \/ \E u \in Readers : tpc[u] = "copy")
        BY Zenon, <1>1, <4>1 DEF SleepersHaveWaker
      <4>3. \A u \in PipeThreads : tpc[u] = "copy" => tpc'[u] = "copy"
        BY Zenon, <1>1, <2>1 DEF PipeTypeOK
      <4>4. CASE t \in Readers
        <5>1. \A u \in Writers : tpc'[u] = tpc[u]
          BY Zenon, <1>1, <2>1, <4>4, Ends2 DEF PipeTypeOK, PipeThreads
        <5> QED
          BY Zenon, <3>1, <4>2, <4>3, <5>1 DEF PipeThreads
      <4>5. CASE t \notin Readers
        <5>1. semlock["r"] = NoOne /\ PostAllWakes("r")
          BY Zenon, <2>2, <4>5
        <5>2. \A y \in PipeThreads : tpc'[y] \in {"dec", "dec2", "ins", "asleep"} =>
                 tpc'[y] = tpc[y] \/ SemOf(y) # "r"
          BY Zenon, <1>1, <2>1, <4>5, Ends2 DEF PipeTypeOK
        <5>3. x \notin Readers
          BY Zenon, <5>1, <5>2, AllWoken, Ends2 DEF Ends
        <5> QED
          BY Zenon, <3>1, <4>2, <4>3, <5>3 DEF PipeThreads
      <4> QED
        BY Zenon, <4>4, <4>5
    <3> QED
      BY Zenon, <3>2, <3>3
  <2> QED
    BY Zenon, <2>5, <2>6, <2>7, <2>8, <2>9 DEF PipeIndInv
<1>7. ASSUME NEW t \in PipeThreads, PutByte(t)
      PROVE  PipeIndInv'
  <2>1. PipeTypeOK'
    <3>1. left' \in [PipeThreads -> Nat]
      BY <1>1, <1>7 DEF PutByte, PipeTypeOK
    <3>2. UNCHANGED <<pilock, val, semlock, sleeplist, tpc, reg, twoken, open, tkilled, panicked>>
      BY Zenon, <1>7 DEF PutByte
    <3> QED
      BY Zenon, <1>1, <1>2, <3>1, <3>2 DEF PipeTypeOK
  <2>2. CallersOpen' /\ SemLockHeld' /\ SleepersOnList'
    BY Zenon, <1>1, <1>7 DEF PutByte, CallersOpen, SemLockHeld, SleepersOnList
  <2>3. ASSUME NEW x \in PipeThreads, GoingToSleep(x)', Undisturbed(x)'
        PROVE  \/ x \in Readers /\ (Empty' \/ \E u \in Writers : tpc'[u] = "loop")
               \/ x \notin Readers /\ (Full' \/ \E u \in Readers : tpc'[u] = "copy")
    <3>1. GoingToSleep(x) /\ Undisturbed(x)
      BY Zenon, <1>7, <2>3, Calm DEF PutByte, GoingToSleep
    <3>2. t \in Writers /\ tpc'[t] = "loop" /\ ~Full /\ tpc' = tpc
      BY Zenon, <1>7 DEF PutByte
    <3> QED
      BY Zenon, <1>1, <3>1, <3>2 DEF SleepersHaveWaker
  <2>4. SleepersHaveWaker'
    BY Zenon, <2>3 DEF SleepersHaveWaker
  <2> QED
    BY Zenon, <2>1, <2>2, <2>4 DEF PipeIndInv
<1>8. ASSUME NEW t \in PipeThreads, GetByte(t)
      PROVE  PipeIndInv'
  <2>1. PipeTypeOK'
    BY <1>1, <1>2, <1>8 DEF GetByte, PipeTypeOK, Goto, PipePcs
  <2>2. CallersOpen' /\ SemLockHeld' /\ SleepersOnList'
    BY Zenon, <1>1, <1>8 DEF GetByte, Goto, CallersOpen, SemLockHeld, SleepersOnList, PipeTypeOK
  <2>3. ASSUME NEW x \in PipeThreads, GoingToSleep(x)', Undisturbed(x)'
        PROVE  \/ x \in Readers /\ (Empty' \/ \E u \in Writers : tpc'[u] = "loop")
               \/ x \notin Readers /\ (Full' \/ \E u \in Readers : tpc'[u] = "copy")
    <3>1. GoingToSleep(x) /\ Undisturbed(x)
      BY Zenon, <1>1, <1>8, <2>3, Calm DEF GetByte, Goto, GoingToSleep, PipeTypeOK
    <3>2. t \in Readers /\ tpc' = [tpc EXCEPT ![t] = "copy"] /\ ~Empty
      BY Zenon, <1>8 DEF GetByte, Goto
    <3>3. tpc'[t] = "copy" /\ \A u \in Writers : tpc'[u] = tpc[u]
      BY Zenon, <1>1, <3>2, Ends2 DEF PipeTypeOK, PipeThreads
    <3> QED
      BY Zenon, <1>1, <3>1, <3>2, <3>3 DEF SleepersHaveWaker
  <2>4. SleepersHaveWaker'
    BY Zenon, <2>3 DEF SleepersHaveWaker
  <2> QED
    BY Zenon, <2>1, <2>2, <2>4 DEF PipeIndInv
<1>9. ASSUME NEW t \in PipeThreads, PipeDone(t)
      PROVE  PipeIndInv'
  <2> DEFINE e == OtherSem(t)
  <2>1. /\ tpc[t] \in {"loop", "copy"} /\ tpc' = [tpc EXCEPT ![t] = "idle"]
        /\ semlock[e] = NoOne /\ PostAllWakes(e)
        /\ UNCHANGED <<data, nread, nwrite, semlock, reg, open, tkilled, panicked>>
    BY Zenon, <1>9 DEF PipeDone, Return, Goto
  <2>2. PipeTypeOK'
    <3>1. twoken' \in [PipeThreads -> BOOLEAN] /\ sleeplist' \in [Ends -> Seq(PipeThreads)]
      BY Zenon, <1>1, <2>1, Ends2, PostAllTypes
    <3>2. /\ val' = [val EXCEPT ![e] = IF @ < 0 THEN 0 ELSE @] /\ pilock' = NoOne
          /\ left' = [left EXCEPT ![t] = 0]
      BY Zenon, <1>9 DEF PipeDone, Return
    <3>3. val \in [Ends -> Int] /\ left \in [PipeThreads -> Nat] /\ e \in Ends
      BY Zenon, <1>1, Ends2 DEF PipeTypeOK
    <3>4. val' \in [Ends -> Int] /\ left' \in [PipeThreads -> Nat]
      BY <3>2, <3>3
    <3> QED
      BY Zenon, <1>1, <1>2, <2>1, <3>1, <3>2, <3>4 DEF PipeTypeOK, PipePcs
  <2>3. CallersOpen' /\ SemLockHeld'
    BY Zenon, <1>1, <2>1 DEF CallersOpen, SemLockHeld, PipeTypeOK
  <2>4. \A y \in PipeThreads : SemOf(y) = e => ~GoingToSleep(y)'
    <3>1. \A y \in PipeThreads : tpc'[y] \in {"dec", "dec2", "ins", "asleep"} => tpc'[y] = tpc[y]
      BY Zenon, <1>1, <2>1 DEF PipeTypeOK
    <3> QED
      BY Zenon, <2>1, <3>1, AllWoken, Ends2
  <2>5. SleepersOnList'
    <3> SUFFICES ASSUME NEW x \in PipeThreads, tpc'[x] = "asleep", ~twoken'[x]
                 PROVE  \E i \in 1 .. Len(sleeplist'[SemOf(x)]) : sleeplist'[SemOf(x)][i] = x
      BY Zenon DEF SleepersOnList
    <3>1. tpc[x] = "asleep" /\ ~twoken[x] /\ SemOf(x) # e
      BY Zenon, <1>1, <2>1, <2>4 DEF PipeTypeOK, PostAllWakes, GoingToSleep
    <3>2. sleeplist'[SemOf(x)] = sleeplist[SemOf(x)]
      BY Zenon, <1>1, <2>1, <3>1, Ends2 DEF PostAllWakes, PipeTypeOK
    <3> QED
      BY Zenon, <1>1, <3>1, <3>2 DEF SleepersOnList
  <2>6. SleepersHaveWaker'
    <3> SUFFICES ASSUME NEW x \in PipeThreads, GoingToSleep(x)', Undisturbed(x)'
                 PROVE  \/ x \in Readers /\ (Empty' \/ \E u \in Writers : tpc'[u] = "loop")
                        \/ x \notin Readers /\ (Full' \/ \E u \in Readers : tpc'[u] = "copy")
      BY Zenon DEF SleepersHaveWaker
    <3>1. SemOf(x) = SemOf(t)
      BY Zenon, <2>4, Ends2 DEF SemOf, OtherSem
    <3>2. GoingToSleep(x) /\ Undisturbed(x)
      BY Zenon, <1>1, <2>1, Calm DEF GoingToSleep, PipeTypeOK, PostAllWakes
    <3>3. \A u \in PipeThreads : SemOf(u) # SemOf(t) => tpc'[u] = tpc[u]
      BY Zenon, <1>1, <2>1 DEF PipeTypeOK
    <3>4. Empty' = Empty /\ Full' = Full
      BY Zenon, <2>1 DEF Empty, Full
    <3> QED
      BY Zenon, <1>1, <3>1, <3>2, <3>3, <3>4, Ends2 DEF SleepersHaveWaker, PipeThreads
  <2> QED
    BY Zenon, <2>2, <2>3, <2>5, <2>6 DEF PipeIndInv
<1>10. ASSUME NEW t \in PipeThreads, DecRead(t)
       PROVE  PipeIndInv'
  <2>1. PipeTypeOK'
    BY Zenon, <1>1, <1>2, <1>10, Ends2 DEF DecRead, PipeTypeOK, Goto, PipePcs
  <2>2. CallersOpen' /\ SemLockHeld' /\ SleepersOnList'
    BY Zenon, <1>1, <1>10 DEF DecRead, Goto, CallersOpen, SemLockHeld, SleepersOnList, PipeTypeOK
  <2>3. SleepersHaveWaker'
    BY Zenon, <1>1, <1>10, QuietStep DEF DecRead, Goto, GoingToSleep, PipeTypeOK
  <2> QED
    BY Zenon, <2>1, <2>2, <2>3 DEF PipeIndInv
<1>11. ASSUME NEW t \in PipeThreads, DecWrite(t)
       PROVE  PipeIndInv'
  <2>1. PipeTypeOK'
    <3>1. /\ val \in [Ends -> Int] /\ semlock \in [Ends -> PipeThreads \cup {NoOne}]
          /\ reg \in [PipeThreads -> Int] /\ tpc \in [PipeThreads -> PipePcs]
      BY Zenon, <1>1 DEF PipeTypeOK
    <3>2. PICK n \in Int : n = reg[t] - 1
      BY <3>1
    <3>3. val' = [val EXCEPT ![SemOf(t)] = n] /\ reg' = [reg EXCEPT ![t] = 0]
      BY Zenon, <1>11, <3>2 DEF DecWrite
    <3>4. val' \in [Ends -> Int]
      BY Zenon, <3>1, <3>3
    <3>5. reg' \in [PipeThreads -> Int]
      BY <3>1, <3>3
    <3>6. semlock' \in [Ends -> PipeThreads \cup {NoOne}] /\ tpc' \in [PipeThreads -> PipePcs]
      BY Zenon, <1>11, <3>1 DEF DecWrite, Goto, PipePcs
    <3>7. UNCHANGED <<pilock, sleeplist, left, twoken, open, tkilled, panicked>>
      BY Zenon, <1>11 DEF DecWrite
    <3> QED
      BY Zenon, <1>1, <1>2, <3>4, <3>5, <3>6, <3>7 DEF PipeTypeOK
  <2>2. CallersOpen' /\ SleepersOnList'
    BY Zenon, <1>1, <1>11 DEF DecWrite, Goto, CallersOpen, SleepersOnList, PipeTypeOK
  <2>3. SemLockHeld'
    <3> SUFFICES ASSUME NEW x \in PipeThreads, tpc'[x] \in {"dec", "dec2", "ins"}
                 PROVE  semlock'[SemOf(x)] = x
      BY Zenon DEF SemLockHeld
    <3>1. semlock[SemOf(t)] = t /\ semlock[SemOf(x)] = x
      BY Zenon, <1>1, <1>11 DEF DecWrite, Goto, SemLockHeld, PipeTypeOK
    <3>2. CASE x = t
      BY Zenon, <1>1, <1>11, <3>1, <3>2 DEF DecWrite, Goto, PipeTypeOK
    <3>3. CASE x # t
      BY <1>1, <1>11, <3>1, <3>3 DEF DecWrite, Goto, PipeTypeOK
    <3> QED
      BY Zenon, <3>2, <3>3
  <2>4. SleepersHaveWaker'
    BY Zenon, <1>1, <1>11, QuietStep DEF DecWrite, Goto, GoingToSleep, PipeTypeOK
  <2> QED
    BY Zenon, <2>1, <2>2, <2>3, <2>4 DEF PipeIndInv
<1>12. ASSUME NEW t \in PipeThreads, InsertAndSleep(t)
       PROVE  PipeIndInv'
  <2> DEFINE e == SemOf(t)
  <2>1. /\ tpc[t] = "ins" /\ sleeplist' = [sleeplist EXCEPT ![e] = <<t>> \o @]
        /\ twoken' = [twoken EXCEPT ![t] = FALSE] /\ semlock' = [semlock EXCEPT ![e] = NoOne]
        /\ tpc' = [tpc EXCEPT ![t] = IF tkilled[t] THEN "back" ELSE "asleep"]
        /\ UNCHANGED <<nread, nwrite, pilock, val, left, reg, open, tkilled, panicked>>
    BY Zenon, <1>12 DEF InsertAndSleep, Goto
  <2>2. sleeplist[e] \in Seq(PipeThreads) /\ e \in Ends
    BY Zenon, <1>1, Ends2 DEF PipeTypeOK
  <2>3. PICK q : q = <<t>> \o sleeplist[e]
    BY Zenon
  <2>4. PICK n \in Nat : n = Len(sleeplist[e])
    BY <2>2
  <2>5. /\ q \in Seq(PipeThreads) /\ Len(q) = n + 1
        /\ q[1] = t /\ \A i \in 1 .. n : q[i + 1] = sleeplist[e][i]
    BY <2>2, <2>3, <2>4
  <2>6. sleeplist' = [sleeplist EXCEPT ![e] = q]
    BY Zenon, <2>1, <2>3
  <2>7. PipeTypeOK'
    <3>1. sleeplist' \in [Ends -> Seq(PipeThreads)]
      BY Zenon, <1>1, <2>5, <2>6 DEF PipeTypeOK
    <3>2. tpc' \in [PipeThreads -> PipePcs]
      BY Zenon, <1>1, <2>1 DEF PipeTypeOK, PipePcs
    <3>3. semlock' \in [Ends -> PipeThreads \cup {NoOne}] /\ twoken' \in [PipeThreads -> BOOLEAN]
      BY Zenon, <1>1, <2>1 DEF PipeTypeOK
    <3> QED
      BY Zenon, <1>1, <1>2, <2>1, <3>1, <3>2, <3>3 DEF PipeTypeOK
  <2>8. CallersOpen'
    BY Zenon, <1>1, <2>1 DEF CallersOpen, PipeTypeOK
  <2>9. SemLockHeld'
    <3> SUFFICES ASSUME NEW x \in PipeThreads, tpc'[x] \in {"dec", "dec2", "ins"}
                 PROVE  semlock'[SemOf(x)] = x
      BY Zenon DEF SemLockHeld
    <3>1. x # t
      BY Zenon, <1>1, <2>1 DEF PipeTypeOK
    <3>2. semlock[SemOf(t)] = t /\ semlock[SemOf(x)] = x
      BY Zenon, <1>1, <2>1, <3>1 DEF SemLockHeld, PipeTypeOK
    <3> QED
      BY <1>1, <2>1, <3>1, <3>2 DEF PipeTypeOK
  <2>10. SleepersOnList'
    <3> SUFFICES ASSUME NEW x \in PipeThreads, tpc'[x] = "asleep", ~twoken'[x]
                 PROVE  \E i \in 1 .. Len(sleeplist'[SemOf(x)]) : sleeplist'[SemOf(x)][i] = x
      BY Zenon DEF SleepersOnList
    <3>1. sleeplist'[e] = q /\ 1 \in 1 .. Len(q)
      BY <1>1, <2>2, <2>5, <2>6 DEF PipeTypeOK
    <3>2. CASE x = t
      <4>1. sleeplist'[SemOf(x)] = q /\ q[1] = x
        BY Zenon, <2>5, <3>1, <3>2
      <4> QED
        BY Zenon, <3>1, <4>1
    <3>3. CASE x # t
      <4>1. PICK i \in 1 .. Len(sleeplist[SemOf(x)]) : sleeplist[SemOf(x)][i] = x
        BY Zenon, <1>1, <2>1, <3>3 DEF SleepersOnList, PipeTypeOK
      <4>2. CASE SemOf(x) = e
        <5>1. i + 1 \in 1 .. Len(q) /\ q[i + 1] = x
          BY <2>4, <2>5, <4>1, <4>2
        <5> QED
          BY Zenon, <3>1, <4>2, <5>1
      <4>3. CASE SemOf(x) # e
        <5>1. sleeplist'[SemOf(x)] = sleeplist[SemOf(x)]
          BY Zenon, <1>1, <2>6, <4>3, Ends2 DEF PipeTypeOK
        <5> QED
          BY Zenon, <4>1, <5>1
      <4> QED
        BY Zenon, <4>2, <4>3
    <3> QED
      BY Zenon, <3>2, <3>3
  <2>11. SleepersHaveWaker'
    BY Zenon, <1>1, <2>1, QuietStep DEF GoingToSleep, PipeTypeOK
  <2> QED
    BY Zenon, <2>7, <2>8, <2>9, <2>10, <2>11 DEF PipeIndInv
<1>13. ASSUME NEW t \in PipeThreads, Resume(t)
       PROVE  PipeIndInv'
  <2>1. PipeTypeOK'
    BY Zenon, <1>1, <1>2, <1>13 DEF Resume, PipeTypeOK, Goto, PipePcs
  <2>2. CallersOpen' /\ SemLockHeld' /\ SleepersOnList'
    BY <1>1, <1>13 DEF Resume, Goto, CallersOpen, SemLockHeld, SleepersOnList, PipeTypeOK
  <2>3. SleepersHaveWaker'
    BY Zenon, <1>1, <1>13, QuietStep DEF Resume, Goto, GoingToSleep, PipeTypeOK
  <2> QED
    BY Zenon, <2>1, <2>2, <2>3 DEF PipeIndInv
<1>14. ASSUME NEW t \in PipeThreads, Relock(t)
       PROVE  PipeIndInv'
  <2>1. PipeTypeOK'
    BY Zenon, <1>1, <1>2, <1>14 DEF Relock, PipeTypeOK, Goto, PipePcs
  <2>2. CallersOpen' /\ SemLockHeld' /\ SleepersOnList'
    BY Zenon, <1>1, <1>14 DEF Relock, Goto, CallersOpen, SemLockHeld, SleepersOnList, PipeTypeOK
  <2>3. SleepersHaveWaker'
    BY Zenon, <1>1, <1>14, QuietStep DEF Relock, Goto, GoingToSleep, PipeTypeOK
  <2> QED
    BY Zenon, <2>1, <2>2, <2>3 DEF PipeIndInv
<1>15. ASSUME NEW t \in PipeThreads, CloseEnd(t)
       PROVE  PipeIndInv'
  <2>1. /\ tpc[t] = "idle" /\ open' = open \ {t}
        /\ tpc' = [tpc EXCEPT ![t] = "close"] \/ tpc' = tpc
        /\ pilock' = t \/ pilock' = pilock
        /\ UNCHANGED <<val, semlock, sleeplist, left, reg, twoken, tkilled, panicked, nread, nwrite>>
    BY Zenon, <1>15 DEF CloseEnd, Goto
  <2>2. PipeTypeOK'
    BY Zenon, <1>1, <1>2, <2>1 DEF PipeTypeOK, PipePcs
  <2>3. CallersOpen' /\ SemLockHeld' /\ SleepersOnList'
    BY <1>1, <2>1 DEF CallersOpen, SemLockHeld, SleepersOnList, PipeTypeOK
  <2>4. SleepersHaveWaker'
    BY Zenon, <1>1, <2>1, QuietStep DEF GoingToSleep, PipeTypeOK
  <2> QED
    BY Zenon, <2>2, <2>3, <2>4 DEF PipeIndInv
<1>16. ASSUME NEW t \in PipeThreads, CloseRead(t)
       PROVE  PipeIndInv'
  <2>1. PipeTypeOK'
    BY Zenon, <1>1, <1>2, <1>16, Ends2 DEF CloseRead, PipeTypeOK, Goto, PipePcs
  <2>2. CallersOpen' /\ SemLockHeld' /\ SleepersOnList'
    BY Zenon, <1>1, <1>16 DEF CloseRead, Goto, CallersOpen, SemLockHeld, SleepersOnList, PipeTypeOK
  <2>3. SleepersHaveWaker'
    BY Zenon, <1>1, <1>16, QuietStep DEF CloseRead, Goto, GoingToSleep, PipeTypeOK
  <2> QED
    BY Zenon, <2>1, <2>2, <2>3 DEF PipeIndInv
<1>17. ASSUME NEW t \in PipeThreads, CloseWrite(t)
       PROVE  PipeIndInv'
  <2> DEFINE x == OtherSem(t)
             v == reg[t] + 1
  <2>1. PICK q : q = sleeplist[x]
    BY Zenon
  <2>2. /\ tpc[t] = "close2" /\ val' = [val EXCEPT ![x] = v] /\ pilock' = NoOne
        /\ reg' = [reg EXCEPT ![t] = 0] /\ tpc' = [tpc EXCEPT ![t] = "idle"]
        /\ UNCHANGED <<nread, nwrite, semlock, left, open, tkilled>>
        /\ panicked' \in BOOLEAN
    BY Zenon, <1>17 DEF CloseWrite, Goto
  <2>3. \/ /\ q # <<>> /\ twoken' = [twoken EXCEPT ![q[Len(q)]] = TRUE]
           /\ sleeplist' = [sleeplist EXCEPT ![x] = WithoutLast(q)]
        \/ UNCHANGED <<twoken, sleeplist>>
    BY Zenon, <1>17, <2>1 DEF CloseWrite
  <2>4. q \in Seq(PipeThreads) /\ x \in Ends
    BY Zenon, <1>1, <2>1, Ends2 DEF PipeTypeOK
  <2>5. q # <<>> => /\ WithoutLast(q) \in Seq(PipeThreads) /\ q[Len(q)] \in PipeThreads
                    /\ \A i \in 1 .. Len(q) :
                         q[i] = q[Len(q)] \/ \E j \in 1 .. Len(WithoutLast(q)) : WithoutLast(q)[j] = q[i]
    BY Zenon, <2>4, OldestWoken
  <2>6. PipeTypeOK'
    <3>1. twoken' \in [PipeThreads -> BOOLEAN] /\ sleeplist' \in [Ends -> Seq(PipeThreads)]
      BY Zenon, <1>1, <2>3, <2>5 DEF PipeTypeOK
    <3>2. val \in [Ends -> Int] /\ reg \in [PipeThreads -> Int]
      BY Zenon, <1>1 DEF PipeTypeOK
    <3>3. PICK n \in Int : n = v
      BY <3>2
    <3>4. val' = [val EXCEPT ![x] = n]
      BY Zenon, <2>2, <3>3
    <3>5. val' \in [Ends -> Int]
      BY Zenon, <3>2, <3>4
    <3>6. reg' \in [PipeThreads -> Int]
      BY <2>2, <3>2
    <3> QED
      BY Zenon, <1>1, <1>2, <2>2, <3>1, <3>5, <3>6 DEF PipeTypeOK, PipePcs
  <2>7. CallersOpen' /\ SemLockHeld'
    BY Zenon, <1>1, <2>2 DEF CallersOpen, SemLockHeld, PipeTypeOK
  <2>8. \A y \in PipeThreads : ~twoken'[y] => ~twoken[y]
    BY Zenon, <1>1, <2>3, <2>5 DEF PipeTypeOK
  <2>9. SleepersOnList'
    <3> SUFFICES ASSUME NEW y \in PipeThreads, tpc'[y] = "asleep", ~twoken'[y]
                 PROVE  \E i \in 1 .. Len(sleeplist'[SemOf(y)]) : sleeplist'[SemOf(y)][i] = y
      BY Zenon DEF SleepersOnList
    <3>1. PICK i \in 1 .. Len(sleeplist[SemOf(y)]) : sleeplist[SemOf(y)][i] = y
      BY Zenon, <1>1, <2>2, <2>8 DEF SleepersOnList, PipeTypeOK
    <3>2. CASE UNCHANGED <<twoken, sleeplist>>
      BY Zenon, <3>1, <3>2
    <3>3. CASE /\ q # <<>> /\ twoken' = [twoken EXCEPT ![q[Len(q)]] = TRUE]
               /\ sleeplist' = [sleeplist EXCEPT ![x] = WithoutLast(q)]
      <4>1. y # q[Len(q)]
        BY Zenon, <1>1, <2>5, <3>3 DEF PipeTypeOK
      <4>2. CASE SemOf(y) = x
        <5>1. q[i] = y /\ i \in 1 .. Len(q)
          BY Zenon, <2>1, <3>1, <4>2
        <5>2. \E j \in 1 .. Len(WithoutLast(q)) : WithoutLast(q)[j] = y
          BY Zenon, <2>5, <3>3, <4>1, <5>1
        <5>3. sleeplist'[SemOf(y)] = WithoutLast(q)
          BY Zenon, <1>1, <2>4, <3>3, <4>2 DEF PipeTypeOK
        <5> QED
          BY Zenon, <5>2, <5>3
      <4>3. CASE SemOf(y) # x
        <5>1. sleeplist'[SemOf(y)] = sleeplist[SemOf(y)]
          BY Zenon, <1>1, <3>3, <4>3, Ends2 DEF PipeTypeOK
        <5> QED
          BY Zenon, <3>1, <5>1
      <4> QED
        BY Zenon, <4>2, <4>3
    <3> QED
      BY Zenon, <2>3, <3>2, <3>3
  <2>10. SleepersHaveWaker'
    BY Zenon, <1>1, <2>2, <2>8, QuietStep DEF GoingToSleep, PipeTypeOK
  <2> QED
    BY Zenon, <2>6, <2>7, <2>9, <2>10 DEF PipeIndInv
<1>18. ASSUME NEW t \in PipeThreads, KillThread(t)
       PROVE  PipeIndInv'
  <2>1. PipeTypeOK'
    BY Zenon, <1>1, <1>2, <1>18 DEF KillThread, PipeTypeOK
  <2>2. CallersOpen' /\ SemLockHeld' /\ SleepersOnList'
    BY Zenon, <1>1, <1>18 DEF KillThread, CallersOpen, SemLockHeld, SleepersOnList
  <2>3. SleepersHaveWaker'
    BY Zenon, <1>1, <1>18, QuietStep DEF KillThread, GoingToSleep, PipeTypeOK
  <2> QED
    BY Zenon, <2>1, <2>2, <2>3 DEF PipeIndInv
<1> QED
  BY Zenon, <1>3, <1>4, <1>5, <1>6, <1>7, <1>8, <1>9, <1>10, <1>11, <1>12, <1>13, <1>14, <1>15, <1>16,
    <1>17, <1>18 DEF PipeNext, PipeContinue

\* The counters and the lists keep their types, and whoever sleeps on a pipe has
\* a reason to or a thread that is going to wake it (pipe.c:64-143), for any
\* number of readers and writers.
THEOREM PipeInvariant == PipeSpec => []PipeInv
<1>1. PipeInit => RingInv /\ PipeIndInv
  BY Zenon, RingInit, PipeIndInit
<1>2. (RingInv /\ PipeIndInv) /\ [PipeNext]_pipevars => (RingInv /\ PipeIndInv)'
  BY Zenon, RingStep, PipeIndStep
<1>3. PipeIndInv => PipeInv
  <2> SUFFICES ASSUME PipeIndInv PROVE SleepersHaveReason
    BY Zenon DEF PipeIndInv, PipeInv
  <2> QED
    BY Zenon, Ends2 DEF PipeIndInv, SleepersHaveReason, SleepersHaveWaker, PipeThreads
<1> QED
  BY <1>1, <1>2, <1>3, PTL DEF PipeSpec

-----------------------------------------------------------------------------
(***************************************************************************)
(* The SD card.  What a command leaves behind, for every card.             *)
(***************************************************************************)

CardStates == {"idle", "ready", "ident", "stby", "tran"}
Cards == [cid : Cids, state : CardStates, up : BOOLEAN, rca : 0 .. 1, wide : BOOLEAN, app : BOOLEAN]
Descriptors == [init : BOOLEAN, cid : Cids \cup {0}, rca : 0 .. 1, type : {"none", "1", "2sc", "2hc"},
                complete : BOOLEAN, ccs : BOOLEAN, support4 : BOOLEAN]

\* The stages before the card has said that it is ready, and those after.
Early == {"ifcond", "reset_sc", "opcond_hc", "opcond_sc"}
Addressed == {"csd", "clock", "select", "scr", "width", "blocklen"}
Later == {"cid", "rca"} \cup Addressed
AtFullSpeed == {"select", "scr", "width", "blocklen"}

SdTypes ==
  /\ stage \in {"idle", "reset"} \cup Early \cup Later
  /\ sdCard \in Descriptors /\ card \in Cards
  /\ oldCID \in Cids \cup {0} /\ known \in Cids \cup {0}
  /\ host = [div |-> host.div, wide |-> host.wide, ver |-> host.ver] /\ host.wide \in BOOLEAN
  /\ inits \in Nat

\* sd_start's choice of addresses is right for the card that is in place.
RightType == sdCard.type = "2hc" <=> CardKind[card.cid].hc

\* A card that is past the idle state in a later stage is the one the earlier stages
\* talked to: one that was put in meanwhile is idle.
SameCard ==
  stage \in Later /\ card.state # "idle" =>
    /\ RightType
    /\ stage # "cid" => card.cid = sdCard.cid
    /\ stage \in Addressed => card.rca = sdCard.rca
    /\ card.wide = host.wide

\* What the descriptor, the controller and the card have reached at each stage.
StageFacts ==
  /\ stage # "idle" => ~sdCard.init
  /\ stage \in Early => ~sdCard.complete
  /\ stage \in (Early \cup Later) \ {"blocklen"} => ~host.wide
  /\ stage \in Later \ {"cid"} => sdCard.cid # 0
  /\ stage \in AtFullSpeed => host.div = GetClockDivider(FreqNormal, host.ver)
  /\ card.state # "tran" => ~card.wide

\* The first call of sdInit finds a card that nobody has talked to.
FirstCall ==
  /\ inits = 0 => stage = "idle" /\ card.state = "idle"
  /\ inits = 1 /\ stage \in Early \cup {"reset"} => card.state \in {"idle", "ready"}

\* The identities that sdInit compares.
Identities ==
  /\ sdCard.init => sdCard.cid = known
  /\ oldCID # 0 => oldCID = known

SdIndInv == SdTypes /\ SameCard /\ StageFacts /\ FirstCall /\ Identities /\ HostCardAgree /\ AddressingRight

-----------------------------------------------------------------------------
(* What a command does to the card.                                          *)

Commands == {"GO_IDLE", "APP_CMD", "SEND_IF_COND", "OP_COND_HC", "OP_COND_SC", "ALL_SEND_CID",
             "SEND_REL_ADDR", "SEND_CSD", "CARD_SELECT", "SEND_SCR", "SET_BUS_WIDTH", "SET_BLOCKLEN",
             "READ_SINGLE"}
Results == {"ok", "timeout", "busy", "error"}

\* A card that has not taken the command.
Unmoved(c, d) == d.cid = c.cid /\ d.state = c.state /\ d.rca = c.rca /\ d.wide = c.wide

\* A card that has.
Moved(c, d, cmd) ==
  /\ d.cid = c.cid /\ c.state \in Needs[cmd]
  /\ d.rca = IF cmd = "GO_IDLE" THEN 0 ELSE IF cmd = "SEND_REL_ADDR" THEN 1 ELSE c.rca
  /\ d.wide = IF cmd = "GO_IDLE" THEN FALSE ELSE IF cmd = "SET_BUS_WIDTH" THEN TRUE ELSE c.wide
  /\ cmd = "GO_IDLE" => d.state = "idle"
  /\ cmd \in {"OP_COND_HC", "OP_COND_SC"} => d.state \in {"idle", "ready"}
  /\ cmd = "OP_COND_SC" /\ d.state = "ready" => ~CardKind[c.cid].hc
  /\ cmd = "ALL_SEND_CID" => d.state = "ident"
  /\ cmd = "SEND_REL_ADDR" => d.state = "stby"
  /\ cmd = "CARD_SELECT" => d.state = "tran"
  /\ cmd \notin {"GO_IDLE", "OP_COND_HC", "OP_COND_SC", "ALL_SEND_CID", "SEND_REL_ADDR", "CARD_SELECT"}
       => d.state = c.state

\* What is left after a command, with its result.
Answer(c, o, cmd) ==
  /\ o.c \in Cards /\ o.r \in Results
  /\ Unmoved(c, o.c) \/ Moved(c, o.c, cmd)
  /\ o.r = "ok" /\ cmd # "GO_IDLE" => Moved(c, o.c, cmd)

\* The bit that announces an application command is all that a refused command, or
\* APP_CMD, changes.
LEMMA AppBit ==
  ASSUME NEW c \in Cards, NEW b \in BOOLEAN
  PROVE  [c EXCEPT !.app = b] \in Cards /\ Unmoved(c, [c EXCEPT !.app = b])
BY Zenon DEF Cards, Unmoved

\* The external card carries out a command it accepts.
LEMMA AfterMoves ==
  ASSUME NEW c \in Cards, NEW cmd \in Commands, c.state \in Needs[cmd]
  PROVE  After(c, cmd) \in Cards /\ Moved(c, After(c, cmd), cmd)
<1> DEFINE d == [c EXCEPT !.app = cmd = "APP_CMD"]
<1>1. d \in Cards /\ d.cid = c.cid /\ d.state = c.state /\ d.rca = c.rca /\ d.wide = c.wide
  BY Zenon DEF Cards
<1>2. CASE cmd = "GO_IDLE"
  <2>1. After(c, cmd) = PowerUp(c.cid)
    BY Zenon, <1>2 DEF After
  <2>2. PowerUp(c.cid) \in Cards /\ Moved(c, PowerUp(c.cid), "GO_IDLE")
    BY <1>2 DEF Cards, PowerUp, Moved, CardStates
  <2> QED
    BY Zenon, <1>2, <2>1, <2>2
<1>3. CASE cmd = "OP_COND_HC"
  BY Zenon, <1>1, <1>3 DEF Cards, After, Moved, CardStates
<1>4. CASE cmd = "OP_COND_SC"
  BY Zenon, <1>1, <1>4 DEF Cards, After, Moved, CardStates
<1>5. CASE cmd = "ALL_SEND_CID"
  BY Zenon, <1>1, <1>5 DEF Cards, After, Moved, CardStates
<1>6. CASE cmd = "SEND_REL_ADDR"
  <2> DEFINE e == [c EXCEPT !.app = FALSE, !.state = "stby", !.rca = 1]
  <2>1. After(c, cmd) = e
    BY Zenon, <1>6 DEF After, Cards
  <2>2. e \in Cards
    <3>1. [c EXCEPT !.app = FALSE] \in Cards
      BY Zenon, AppBit
    <3>2. \A x \in Cards : [x EXCEPT !.state = "stby"] \in Cards
      BY Zenon DEF Cards, CardStates
    <3>3. \A x \in Cards : [x EXCEPT !.rca = 1] \in Cards
      BY DEF Cards
    <3>4. e = [[[c EXCEPT !.app = FALSE] EXCEPT !.state = "stby"] EXCEPT !.rca = 1]
      BY Zenon DEF Cards
    <3> QED
      BY Zenon, <3>1, <3>2, <3>3, <3>4
  <2>3. e.cid = c.cid /\ e.state = "stby" /\ e.rca = 1 /\ e.wide = c.wide
    BY Zenon DEF Cards
  <2> HIDE DEF e
  <2> QED
    BY Zenon, <1>6, <2>1, <2>2, <2>3 DEF Moved
<1>7. CASE cmd = "CARD_SELECT"
  BY Zenon, <1>1, <1>7 DEF Cards, After, Moved, CardStates
<1>8. CASE cmd = "SET_BUS_WIDTH"
  BY Zenon, <1>1, <1>8 DEF Cards, After, Moved, CardStates
<1>9. CASE cmd \in {"APP_CMD", "SEND_IF_COND", "SEND_CSD", "SEND_SCR", "SET_BLOCKLEN", "READ_SINGLE"}
  BY Zenon, <1>1, <1>9 DEF After, Moved
<1> QED
  BY Zenon, <1>2, <1>3, <1>4, <1>5, <1>6, <1>7, <1>8, <1>9 DEF Commands

\* sdSendCommandP, with the losses and errors of the line.
LEMMA SentP ==
  ASSUME NEW c \in Cards, NEW cmd \in Commands, NEW rca, NEW o \in SendCommandP(c, cmd, rca)
  PROVE  Answer(c, o, cmd)
<1> DEFINE refused == [c EXCEPT !.app = FALSE]
           taken == IF Accepts(c, cmd, rca) THEN After(c, cmd) ELSE refused
<1>1. refused \in Cards /\ Unmoved(c, refused)
  BY Zenon, AppBit
<1>2. ASSUME Accepts(c, cmd, rca)
      PROVE  After(c, cmd) \in Cards /\ Moved(c, After(c, cmd), cmd)
  BY Zenon, <1>2, AfterMoves DEF Accepts
<1>3. /\ taken \in Cards /\ (Unmoved(c, taken) \/ Moved(c, taken, cmd))
      /\ Accepts(c, cmd, rca) => Moved(c, taken, cmd)
  BY Zenon, <1>1, <1>2
<1>4. Unmoved(c, c)
  BY Zenon DEF Unmoved
<1> DEFINE answered == cmd = "GO_IDLE" \/ Accepts(c, cmd, rca)
           lost == IF cmd = "GO_IDLE" THEN "ok" ELSE "timeout"
<1>5. o \in {Outcome(taken, IF answered THEN "ok" ELSE "timeout", 0), Outcome(c, "busy", 1),
              Outcome(c, lost, 1), Outcome(taken, "timeout", 1), Outcome(taken, "error", 1)}
  BY Zenon DEF SendCommandP
<1> HIDE DEF taken
<1>6. \/ o.c = taken /\ o.r = IF answered THEN "ok" ELSE "timeout"
      \/ o.c = c /\ o.r = "busy"
      \/ o.c = c /\ o.r = lost
      \/ o.c = taken /\ o.r = "timeout"
      \/ o.c = taken /\ o.r = "error"
  BY <1>5 DEF Outcome
<1> QED
  BY Zenon, <1>3, <1>4, <1>6 DEF Answer, Results

\* sdSendCommand and sdSendCommandA: an application command is two commands.
LEMMA Sent ==
  ASSUME card \in Cards, NEW cmd \in Commands, NEW o \in SendCommand(cmd)
  PROVE  Answer(card, o, cmd)
<1>1. CASE cmd \notin AppCommands
  <2>1. o \in SendCommandP(card, cmd, sdCard.rca)
    BY Zenon, <1>1 DEF SendCommand
  <2> QED
    BY Zenon, <2>1, SentP
<1>2. CASE cmd \in AppCommands
  <2>1. PICK a \in SendAppCommand(card, sdCard.rca) :
          o \in IF a.r # "ok" THEN {a}
                ELSE {[p EXCEPT !.f = p.f + a.f] : p \in SendCommandP(a.c, cmd, sdCard.rca)}
    BY Zenon, <1>2 DEF SendCommand
  <2>2. PICK b \in SendCommandP(card, "APP_CMD", sdCard.rca) :
          a = [b EXCEPT !.r = IF sdCard.rca = 0 THEN "ok" ELSE b.r]
    BY Zenon, <2>1 DEF SendAppCommand
  <2>3. Answer(card, b, "APP_CMD")
    BY Zenon, <2>2, SentP DEF Commands
  <2>4. \A x, y : \A p \in SendCommandP(x, y, sdCard.rca) :
          \E u, v, w : p = [c |-> u, r |-> v, f |-> w]
    BY Zenon DEF SendCommandP, Outcome
  <2>5. a.c = b.c /\ a.r \in {"ok", b.r}
    BY <2>2, <2>4
  <2>6. a.c \in Cards /\ Unmoved(card, a.c) /\ a.r \in Results
    BY Zenon, <2>3, <2>5 DEF Answer, Unmoved, Moved, Results
  <2>7. CASE a.r # "ok"
    BY Zenon, <2>1, <2>6, <2>7 DEF Answer
  <2>8. CASE a.r = "ok"
    <3>1. PICK p \in SendCommandP(a.c, cmd, sdCard.rca) : o = [p EXCEPT !.f = p.f + a.f]
      BY Zenon, <2>1, <2>8
    <3>2. o.c = p.c /\ o.r = p.r
      BY <2>4, <3>1
    <3>3. Answer(a.c, p, cmd)
      BY Zenon, <2>6, SentP
    <3>4. Unmoved(a.c, p.c) => Unmoved(card, p.c)
      BY Zenon, <2>6 DEF Unmoved
    <3>5. Moved(a.c, p.c, cmd) => Moved(card, p.c, cmd)
      BY Zenon, <2>6 DEF Unmoved, Moved
    <3> QED
      BY Zenon, <3>2, <3>3, <3>4, <3>5 DEF Answer
  <2> QED
    BY Zenon, <2>7, <2>8
<1> QED
  BY Zenon, <1>1, <1>2

-----------------------------------------------------------------------------
(* The stages of sdInit.                                                     *)

\* The controller is a record whose fields a step sets.
HostRecord == host = [div |-> host.div, wide |-> host.wide, ver |-> host.ver] /\ host.wide \in BOOLEAN

\* Only a card in the transfer state has a wide bus.
NarrowBefore == card.state # "tran" => ~card.wide

\* sdInit returns without success.
LEMMA SdReturns ==
  ASSUME SdIndInv, stage # "idle", stage' = "idle", oldCID' = 0, known' = known, inits' = inits,
         sdCard' \in Descriptors, ~sdCard'.init, HostRecord', card' \in Cards, NarrowBefore',
         inits = 1 /\ card'.state = "tran" => RightType'
  PROVE  SdIndInv'
<1>1. SdTypes'
  BY Zenon DEF SdIndInv, SdTypes, HostRecord
<1>2. inits # 0
  BY Zenon DEF SdIndInv, FirstCall
<1>3. SameCard' /\ StageFacts' /\ FirstCall' /\ Identities' /\ HostCardAgree'
  BY Zenon, <1>2 DEF SameCard, StageFacts, FirstCall, Identities, HostCardAgree, NarrowBefore,
              Early, Later, Addressed, AtFullSpeed
<1>4. AddressingRight'
  BY Zenon DEF AddressingRight, RightType
<1> QED
  BY Zenon, <1>1, <1>3, <1>4 DEF SdIndInv

\* sdInit goes on to its next stage.
LEMMA SdGoesOn ==
  ASSUME SdIndInv, stage # "idle", stage' \in Early \cup Later,
         oldCID' = oldCID, known' = known, inits' = inits,
         sdCard' \in Descriptors, HostRecord', card' \in Cards, SameCard', StageFacts',
         inits = 1 /\ stage' \in Early => card'.state \in {"idle", "ready"}
  PROVE  SdIndInv'
<1>1. SdTypes'
  BY Zenon DEF SdIndInv, SdTypes, HostRecord
<1>2. inits # 0
  BY Zenon DEF SdIndInv, FirstCall
<1>3. stage' # "idle" /\ stage' # "reset"
  BY Zenon DEF Early, Later, Addressed
<1>4. FirstCall'
  BY Zenon, <1>2, <1>3 DEF FirstCall
<1>5. Identities'
  BY Zenon, <1>3 DEF SdIndInv, Identities, StageFacts
<1>6. HostCardAgree' /\ AddressingRight'
  BY Zenon, <1>3 DEF HostCardAgree, AddressingRight
<1> QED
  BY Zenon, <1>1, <1>4, <1>5, <1>6 DEF SdIndInv

\* sdResetCard: a card that misses GO_IDLE stays as it was.
LEMMA ResetKeeps ==
  ASSUME SdIndInv, stage \in {"reset", "reset_sc"}, NEW next \in {"ifcond", "opcond_sc"},
         ResetCard(next)
  PROVE  SdIndInv'
<1>1. stage # "idle" /\ ~sdCard.init
  BY Zenon DEF SdIndInv, StageFacts
<1>2. card \in Cards /\ sdCard \in Descriptors /\ NarrowBefore
  BY Zenon DEF SdIndInv, SdTypes, StageFacts, NarrowBefore
<1>3. HostRecord' /\ host'.wide = FALSE
  <2>1. host' = ResetHost \/ host' = [ResetHost EXCEPT !.div = 0]
    BY Zenon DEF ResetCard
  <2>2. \E d, v : host' = [div |-> d, wide |-> FALSE, ver |-> v]
    BY Zenon, <2>1 DEF ResetHost
  <2> QED
    BY <2>2 DEF HostRecord
<1>4. inits = 1 => card.state \in {"idle", "ready"}
  BY Zenon DEF SdIndInv, FirstCall, Early
<1>5. CASE Fail("clock") /\ UNCHANGED <<sdCard, card>>
  <2>1. stage' = "idle" /\ oldCID' = 0 /\ known' = known /\ inits' = inits
    BY Zenon, <1>5 DEF Fail, ReturnWith, Env
  <2>2. sdCard' = sdCard /\ card' = card
    BY Zenon, <1>5
  <2>3. inits = 1 => card'.state # "tran"
    BY Zenon, <1>4, <2>2
  <2>4. NarrowBefore'
    BY Zenon, <1>2, <2>2 DEF NarrowBefore
  <2> QED
    BY Zenon, <1>1, <1>2, <1>3, <2>1, <2>2, <2>3, <2>4, SdReturns
<1>6. CASE /\ sdCard' = ClearDescriptor
           /\ \E o \in SendCommand("GO_IDLE") :
                /\ card' = o.c /\ Faults(o.f)
                /\ IF o.r = "ok" THEN GotoStage(next) ELSE ReturnWith(o.r)
  <2>1. PICK o \in SendCommand("GO_IDLE") :
          card' = o.c /\ IF o.r = "ok" THEN GotoStage(next) ELSE ReturnWith(o.r)
    BY Zenon, <1>6
  <2>2. Answer(card, o, "GO_IDLE")
    BY Zenon, <1>2, Sent DEF Commands
  <2>3. card' \in Cards /\ NarrowBefore' /\ (inits = 1 => card'.state \in {"idle", "ready"})
    BY Zenon, <1>2, <1>4, <2>1, <2>2 DEF Answer, Unmoved, Moved, NarrowBefore
  <2>4. sdCard' \in Descriptors /\ ~sdCard'.init /\ ~sdCard'.complete
    <3> DEFINE a == [sdCard EXCEPT !.rca = 0]
               b == [a EXCEPT !.complete = FALSE]
               c == [b EXCEPT !.ccs = FALSE]
               d == [c EXCEPT !.type = "none"]
    <3>1. a \in Descriptors /\ ~a.init
      BY <1>1, <1>2 DEF Descriptors
    <3> HIDE DEF a
    <3>2. b \in Descriptors /\ ~b.init /\ ~b.complete
      BY Zenon, <3>1 DEF Descriptors
    <3> HIDE DEF b
    <3>3. c \in Descriptors /\ ~c.init /\ ~c.complete
      BY Zenon, <3>2 DEF Descriptors
    <3> HIDE DEF c
    <3>4. d \in Descriptors /\ ~d.init /\ ~d.complete
      BY Zenon, <3>3 DEF Descriptors
    <3>5. ClearDescriptor = d
      BY Zenon, <1>2 DEF ClearDescriptor, Descriptors, a, b, c
    <3> QED
      BY Zenon, <1>6, <3>4, <3>5
  <2>5. CASE o.r = "ok"
    <3>1. stage' = next /\ oldCID' = oldCID /\ known' = known /\ inits' = inits
      BY Zenon, <2>1, <2>5 DEF GotoStage, Env
    <3>2. stage' \in Early /\ stage' \notin Later
      BY Zenon, <3>1 DEF Early, Later, Addressed
    <3>3. SameCard'
      BY Zenon, <3>2 DEF SameCard
    <3>4. StageFacts'
      BY Zenon, <1>3, <2>3, <2>4, <3>2 DEF StageFacts, NarrowBefore, Later, Addressed, AtFullSpeed
    <3> QED
      BY Zenon, <1>1, <1>3, <2>3, <2>4, <3>1, <3>2, <3>3, <3>4, SdGoesOn
  <2>6. CASE o.r # "ok"
    <3>1. stage' = "idle" /\ oldCID' = 0 /\ known' = known /\ inits' = inits
      BY Zenon, <2>1, <2>6 DEF ReturnWith, Env
    <3>2. inits = 1 => card'.state # "tran"
      BY Zenon, <2>3
    <3> QED
      BY Zenon, <1>1, <1>3, <2>3, <2>4, <3>1, <3>2, SdReturns
  <2> QED
    BY Zenon, <2>5, <2>6
<1> QED
  BY Zenon, <1>5, <1>6 DEF ResetCard

\* SEND_IF_COND.
LEMMA IfCondKeeps == ASSUME SdIndInv, SendIfCond PROVE SdIndInv'
<1>1. stage = "ifcond" /\ stage # "idle" /\ ~sdCard.init /\ ~sdCard.complete /\ ~host.wide
  BY Zenon DEF SendIfCond, SdIndInv, StageFacts, Early
<1>2. card \in Cards /\ sdCard \in Descriptors /\ NarrowBefore /\ HostRecord
  BY Zenon DEF SdIndInv, SdTypes, StageFacts, NarrowBefore, HostRecord
<1>3. inits = 1 => card.state \in {"idle", "ready"}
  BY Zenon, <1>1 DEF SdIndInv, FirstCall, Early
<1>4. PICK o \in SendCommand("SEND_IF_COND") :
        /\ card' = o.c /\ UNCHANGED <<sdCard, host>>
        /\ CASE o.r = "ok"   -> GotoStage("opcond_hc")
             [] o.r = "busy" -> ReturnWith("busy")
             [] OTHER        -> GotoStage("opcond_sc") \/ (o.f = 1 /\ GotoStage("reset_sc"))
  BY Zenon DEF SendIfCond
<1>5. Answer(card, o, "SEND_IF_COND")
  BY Zenon, <1>2, Sent DEF Commands
<1>6. card' \in Cards /\ NarrowBefore' /\ (inits = 1 => card'.state \in {"idle", "ready"})
  BY Zenon, <1>2, <1>3, <1>4, <1>5 DEF Answer, Unmoved, Moved, NarrowBefore
<1>7. sdCard' = sdCard /\ host' = host
  BY Zenon, <1>4
<1>8. HostRecord'
  BY Zenon, <1>2, <1>7 DEF HostRecord
<1>9. CASE ReturnWith("busy")
  <2>1. stage' = "idle" /\ oldCID' = 0 /\ known' = known /\ inits' = inits
    BY Zenon, <1>9 DEF ReturnWith, Env
  <2>2. inits = 1 => card'.state # "tran"
    BY Zenon, <1>6
  <2> QED
    BY Zenon, <1>1, <1>2, <1>6, <1>7, <1>8, <2>1, <2>2, SdReturns
<1>10. CASE \E next \in {"opcond_hc", "opcond_sc", "reset_sc"} : GotoStage(next)
  <2>1. stage' \in Early /\ oldCID' = oldCID /\ known' = known /\ inits' = inits
    BY Zenon, <1>10 DEF GotoStage, Env, Early
  <2>2. stage' \notin Later
    BY Zenon, <2>1 DEF Early, Later, Addressed
  <2>3. SameCard'
    BY Zenon, <2>2 DEF SameCard
  <2>4. StageFacts'
    BY Zenon, <1>1, <1>6, <1>7, <2>2 DEF StageFacts, NarrowBefore, Later, Addressed, AtFullSpeed
  <2> QED
    BY Zenon, <1>1, <1>2, <1>6, <1>7, <1>8, <2>1, <2>3, <2>4, SdGoesOn
<1> QED
  BY Zenon, <1>4, <1>9, <1>10

\* sdAppSendOpCond: the card is believed to be ready only if it is.
LEMMA OpCondKeeps ==
  ASSUME SdIndInv, NEW cmd, NEW low, NEW high, AppSendOpCond(cmd, low, high),
         \/ stage = "opcond_hc" /\ cmd = "OP_COND_HC" /\ low = "2sc" /\ high = "2hc"
         \/ stage = "opcond_sc" /\ cmd = "OP_COND_SC" /\ low = "1" /\ high = "1"
  PROVE  SdIndInv'
<1>1. stage \in Early /\ stage # "idle" /\ ~sdCard.init /\ ~sdCard.complete /\ ~host.wide
  BY Zenon DEF SdIndInv, StageFacts, Early
<1>2. card \in Cards /\ sdCard \in Descriptors /\ NarrowBefore /\ HostRecord
  BY Zenon DEF SdIndInv, SdTypes, StageFacts, NarrowBefore, HostRecord
<1>3. inits = 1 => card.state \in {"idle", "ready"}
  BY Zenon, <1>1 DEF SdIndInv, FirstCall
<1> DEFINE ocr(o) == IF o.r = "ok" THEN [sdCard EXCEPT !.complete = o.c.state = "ready",
                                                       !.ccs = o.c.state = "ready" /\ CardKind[o.c.cid].hc]
                     ELSE sdCard
<1>4. PICK o \in SendCommand(cmd) :
        /\ card' = o.c /\ UNCHANGED host
        /\ \/ /\ o.r \notin {"ok", "timeout"} /\ ReturnWith(o.r) /\ UNCHANGED sdCard
           \/ /\ ocr(o).complete /\ GotoStage("cid")
              /\ sdCard' = [ocr(o) EXCEPT !.type = IF ocr(o).ccs THEN high ELSE low]
           \/ ReturnWith("voltage") /\ sdCard' = ocr(o)
           \/ ~ocr(o).complete /\ sdCard' = ocr(o) /\ (GotoStage(stage) \/ ReturnWith("timeout"))
  BY Zenon DEF AppSendOpCond
<1>5. cmd \in {"OP_COND_HC", "OP_COND_SC"} /\ cmd \in Commands
  BY Zenon DEF Commands
<1>6. Answer(card, o, cmd)
  BY Zenon, <1>2, <1>5, Sent
<1>7. card' \in Cards /\ NarrowBefore' /\ (inits = 1 => card'.state \in {"idle", "ready"})
  <2>1. card' = o.c /\ card' \in Cards
    BY Zenon, <1>4, <1>6 DEF Answer
  <2>2. CASE Unmoved(card, card')
    BY Zenon, <1>2, <1>3, <2>1, <2>2 DEF Unmoved, NarrowBefore
  <2>3. CASE Moved(card, card', cmd)
    <3>1. card.state = "idle"
      BY <1>5, <2>3 DEF Moved, Needs
    <3> QED
      BY Zenon, <1>2, <1>5, <2>1, <2>3, <3>1 DEF Moved, NarrowBefore
  <2> QED
    BY Zenon, <1>6, <2>1, <2>2, <2>3 DEF Answer
<1>8. CardKind[o.c.cid].hc \in BOOLEAN
  BY Zenon, <1>6, SdAssumption DEF Answer, Cards
<1>9. /\ ocr(o) \in Descriptors /\ ~ocr(o).init
      /\ ocr(o).complete <=> o.r = "ok" /\ o.c.state = "ready"
      /\ ocr(o).complete => ocr(o).ccs = CardKind[o.c.cid].hc
  BY Zenon, <1>1, <1>2, <1>8 DEF Descriptors
<1>10. inits = 1 => card'.state # "tran"
  BY Zenon, <1>7
<1>11. HostRecord' /\ host' = host
  BY Zenon, <1>2, <1>4 DEF HostRecord
<1> HIDE DEF ocr
<1>12. CASE \E r : ReturnWith(r) /\ sdCard' \in {sdCard, ocr(o)}
  <2>1. stage' = "idle" /\ oldCID' = 0 /\ known' = known /\ inits' = inits
    BY Zenon, <1>12 DEF ReturnWith, Env
  <2>2. sdCard' \in Descriptors /\ ~sdCard'.init
    BY Zenon, <1>1, <1>2, <1>9, <1>12
  <2> QED
    BY Zenon, <1>1, <1>7, <1>10, <1>11, <2>1, <2>2, SdReturns
<1>13. CASE ~ocr(o).complete /\ sdCard' = ocr(o) /\ GotoStage(stage)
  <2>1. stage' \in Early /\ oldCID' = oldCID /\ known' = known /\ inits' = inits
    BY Zenon, <1>1, <1>13 DEF GotoStage, Env
  <2>2. stage' \notin Later
    BY Zenon, <2>1 DEF Early, Later, Addressed
  <2>3. SameCard'
    BY Zenon, <2>2 DEF SameCard
  <2>4. StageFacts'
    BY Zenon, <1>1, <1>7, <1>9, <1>11, <1>13, <2>2 DEF StageFacts, NarrowBefore, Later, Addressed, AtFullSpeed
  <2> QED
    BY Zenon, <1>1, <1>7, <1>9, <1>11, <1>13, <2>1, <2>3, <2>4, SdGoesOn
<1>14. CASE /\ ocr(o).complete /\ GotoStage("cid")
            /\ sdCard' = [ocr(o) EXCEPT !.type = IF ocr(o).ccs THEN high ELSE low]
  <2>1. stage' = "cid" /\ oldCID' = oldCID /\ known' = known /\ inits' = inits
    BY Zenon, <1>14 DEF GotoStage, Env
  <2>2. stage' \in Later /\ stage' \notin Early /\ stage' \notin Addressed /\ stage' \notin AtFullSpeed
    BY Zenon, <2>1 DEF Early, Later, Addressed, AtFullSpeed
  <2>3. /\ sdCard' \in Descriptors /\ ~sdCard'.init
        /\ sdCard'.type = IF ocr(o).ccs THEN high ELSE low
    BY Zenon, <1>9, <1>14 DEF Descriptors
  <2>4. card'.state = "ready" /\ Moved(card, card', cmd)
    BY Zenon, <1>4, <1>5, <1>6, <1>9, <1>14 DEF Answer
  <2>5. RightType'
    <3>1. CASE cmd = "OP_COND_HC"
      BY Zenon, <1>4, <1>8, <1>9, <1>14, <2>3, <3>1 DEF RightType
    <3>2. CASE cmd = "OP_COND_SC"
      <4>1. ~CardKind[card'.cid].hc
        BY Zenon, <2>4, <3>2 DEF Moved
      <4> QED
        BY Zenon, <2>3, <3>2, <4>1 DEF RightType
    <3> QED
      BY Zenon, <1>5, <3>1, <3>2
  <2>6. card'.wide = host'.wide
    BY Zenon, <1>1, <1>2, <1>7, <1>11, <2>4 DEF NarrowBefore, Cards, HostRecord
  <2>7. SameCard'
    BY Zenon, <2>1, <2>2, <2>5, <2>6 DEF SameCard
  <2>8. StageFacts'
    BY Zenon, <1>1, <1>7, <1>11, <2>1, <2>2, <2>3 DEF StageFacts, NarrowBefore
  <2> QED
    BY Zenon, <1>1, <1>7, <1>11, <2>1, <2>2, <2>3, <2>7, <2>8, SdGoesOn
<1> QED
  BY Zenon, <1>4, <1>12, <1>13, <1>14

LaterCommands == {"ALL_SEND_CID", "SEND_REL_ADDR", "SEND_CSD", "CARD_SELECT", "SEND_SCR",
                  "SET_BUS_WIDTH", "SET_BLOCKLEN"}

\* What the commands of the later stages leave alone; none of them wakes a card that
\* is idle.
LEMMA LaterAnswer ==
  ASSUME card \in Cards, NarrowBefore, NEW cmd \in LaterCommands, NEW o \in SendCommand(cmd), card' = o.c
  PROVE  /\ card' \in Cards /\ NarrowBefore' /\ card'.cid = card.cid
         /\ card'.state # "idle" => card.state # "idle"
         /\ cmd # "SEND_REL_ADDR" => card'.rca = card.rca
         /\ cmd # "SET_BUS_WIDTH" => card'.wide = card.wide
         /\ o.r = "ok" => Moved(card, card', cmd)
<1>1. cmd \in Commands /\ cmd # "GO_IDLE"
  BY Zenon DEF LaterCommands, Commands
<1>2. Answer(card, o, cmd)
  BY Zenon, <1>1, Sent
<1>3. CASE Unmoved(card, card')
  BY Zenon, <1>1, <1>2, <1>3 DEF Unmoved, NarrowBefore, Answer
<1>4. CASE Moved(card, card', cmd)
  <2>1. card.state # "idle"
    <3>1. /\ Needs["ALL_SEND_CID"] = {"ready"} /\ Needs["SEND_REL_ADDR"] = {"ident"}
          /\ Needs["SEND_CSD"] = {"stby"} /\ Needs["CARD_SELECT"] = {"stby"}
          /\ Needs["SEND_SCR"] = {"tran"} /\ Needs["SET_BUS_WIDTH"] = {"tran"}
          /\ Needs["SET_BLOCKLEN"] = {"tran"}
      BY DEF Needs
    <3>2. card.state \in Needs[cmd]
      BY Zenon, <1>4 DEF Moved
    <3> QED
      BY Zenon, <3>1, <3>2 DEF LaterCommands
  <2>2. card' \in Cards /\ card'.cid = card.cid
    BY Zenon, <1>2, <1>4 DEF Answer, Moved
  <2>3. /\ cmd # "SEND_REL_ADDR" => card'.rca = card.rca
        /\ cmd # "SET_BUS_WIDTH" => card'.wide = card.wide
    BY Zenon, <1>1, <1>4 DEF Moved
  <2>4. NarrowBefore'
    BY <1>4 DEF Moved, Needs, NarrowBefore, LaterCommands
  <2> QED
    BY Zenon, <1>4, <2>1, <2>2, <2>3, <2>4
<1> QED
  BY Zenon, <1>2, <1>3, <1>4 DEF Answer

\* A command of a later stage fails.
LEMMA StageFails ==
  ASSUME SdIndInv, stage \in Later, NEW cmd \in LaterCommands, NEW o \in SendCommand(cmd),
         card' = o.c, ReturnWith(o.r), sdCard' = sdCard, HostRecord'
  PROVE  SdIndInv'
<1>1. card \in Cards /\ sdCard \in Descriptors /\ NarrowBefore
  BY Zenon DEF SdIndInv, SdTypes, StageFacts, NarrowBefore
<1>2. stage # "idle" /\ ~sdCard.init
  BY Zenon DEF SdIndInv, StageFacts, Later, Addressed
<1>3. stage' = "idle" /\ oldCID' = 0 /\ known' = known /\ inits' = inits
  BY Zenon DEF ReturnWith, Env
<1>4. /\ card' \in Cards /\ NarrowBefore' /\ card'.cid = card.cid
      /\ card'.state # "idle" => card.state # "idle"
  BY Zenon, <1>1, LaterAnswer
<1>5. card'.state = "tran" => RightType'
  BY Zenon, <1>4 DEF SdIndInv, SameCard, RightType
<1> QED
  BY Zenon, <1>1, <1>2, <1>3, <1>4, <1>5, SdReturns

\* A later stage is done.
LEMMA StageDone ==
  ASSUME SdIndInv, stage \in Later, NEW next \in Later \ {"cid"}, GotoStage(next),
         sdCard' \in Descriptors, ~sdCard'.init, sdCard'.type = sdCard.type, sdCard'.cid # 0,
         card' \in Cards, card'.cid = card.cid, NarrowBefore', HostRecord',
         card'.state # "idle" => /\ card.state # "idle"
                                 /\ card'.cid = sdCard'.cid
                                 /\ next \in Addressed => card'.rca = sdCard'.rca
                                 /\ card'.wide = host'.wide,
         next # "blocklen" => ~host'.wide,
         next \in AtFullSpeed => host'.div = GetClockDivider(FreqNormal, host'.ver)
  PROVE  SdIndInv'
<1>1. stage # "idle" /\ stage' = next /\ stage' \notin Early
  BY Zenon DEF GotoStage, Later, Early, Addressed
<1>2. oldCID' = oldCID /\ known' = known /\ inits' = inits
  BY Zenon DEF GotoStage, Env
<1>3. card'.state # "idle" => RightType'
  BY Zenon DEF SdIndInv, SameCard, RightType
<1>4. SameCard'
  BY Zenon, <1>1, <1>3 DEF SameCard
<1>5. StageFacts'
  BY Zenon, <1>1 DEF StageFacts, NarrowBefore
<1> QED
  BY Zenon, <1>1, <1>2, <1>4, <1>5, SdGoesOn

\* What the stage lemmas need of the state before.
LEMMA LaterFacts ==
  ASSUME SdIndInv, stage \in Later
  PROVE  /\ card \in Cards /\ sdCard \in Descriptors /\ NarrowBefore /\ HostRecord /\ ~sdCard.init
         /\ stage # "cid" => sdCard.cid # 0
         /\ stage # "blocklen" => ~host.wide
         /\ stage \in AtFullSpeed => host.div = GetClockDivider(FreqNormal, host.ver)
         /\ card.state # "idle" => /\ stage # "cid" => card.cid = sdCard.cid
                                   /\ stage \in Addressed => card.rca = sdCard.rca
                                   /\ card.wide = host.wide
<1>1. card \in Cards /\ sdCard \in Descriptors /\ NarrowBefore /\ HostRecord
  BY Zenon DEF SdIndInv, SdTypes, StageFacts, NarrowBefore, HostRecord
<1>2. stage # "idle"
  BY Zenon DEF Later, Addressed
<1> QED
  BY Zenon, <1>1, <1>2 DEF SdIndInv, StageFacts, SameCard

\* ALL_SEND_CID and SEND_REL_ADDR: the descriptor gets what the card has sent.
LEMMA CidRcaKeep ==
  ASSUME SdIndInv, AllSendCid \/ SendRelAddr
  PROVE  SdIndInv'
<1>1. CASE AllSendCid
  <2> DEFINE new == [sdCard EXCEPT !.cid = card.cid]
  <2>0. stage = "cid" /\ stage \in Later
    BY Zenon, <1>1 DEF AllSendCid, Stage, Later
  <2>1. PICK o \in SendCommand("ALL_SEND_CID") :
          card' = o.c /\ IF o.r = "ok" THEN sdCard' = new /\ GotoStage("rca") ELSE ReturnWith(o.r) /\ UNCHANGED sdCard
    BY Zenon, <1>1 DEF AllSendCid, Stage
  <2>2. host' = host
    BY Zenon, <1>1 DEF AllSendCid
  <2>3. card \in Cards /\ sdCard \in Descriptors /\ NarrowBefore /\ HostRecord /\ ~sdCard.init /\ ~host.wide
    BY Zenon, <2>0, LaterFacts
  <2>4. HostRecord'
    BY Zenon, <2>2, <2>3 DEF HostRecord
  <2>5. "ALL_SEND_CID" \in LaterCommands
    BY Zenon DEF LaterCommands
  <2>6. /\ card' \in Cards /\ NarrowBefore' /\ card'.cid = card.cid
        /\ card'.state # "idle" => card.state # "idle"
        /\ card'.wide = card.wide
    BY Zenon, <2>1, <2>3, <2>5, LaterAnswer
  <2>7. CASE o.r = "ok"
    <3>1. sdCard' = new /\ GotoStage("rca")
      BY Zenon, <2>1, <2>7
    <3>2. new \in Descriptors /\ ~new.init /\ new.type = sdCard.type /\ new.cid = card.cid
      BY Zenon, <2>3 DEF Descriptors, Cards
    <3>3. card.cid # 0
      BY Zenon, <2>3, SdAssumption DEF Cards
    <3>4. card'.state # "idle" => card'.wide = host'.wide
      BY Zenon, <2>0, <2>2, <2>6, LaterFacts
    <3>5. "rca" \in Later \ {"cid"} /\ "rca" \notin Addressed /\ "rca" \notin AtFullSpeed
      BY Zenon DEF Later, Addressed, AtFullSpeed
    <3> HIDE DEF new
    <3> QED
      BY Zenon, <2>0, <2>2, <2>3, <2>4, <2>6, <3>1, <3>2, <3>3, <3>4, <3>5, StageDone
  <2>8. CASE o.r # "ok"
    BY Zenon, <2>0, <2>1, <2>4, <2>5, <2>8, StageFails
  <2> QED
    BY Zenon, <2>7, <2>8
<1>2. CASE SendRelAddr
  <2> DEFINE new == [sdCard EXCEPT !.rca = 1]
  <2>0. stage = "rca" /\ stage # "cid" /\ stage \in Later
    BY Zenon, <1>2 DEF SendRelAddr, Stage, Later
  <2>1. PICK o \in SendCommand("SEND_REL_ADDR") :
          card' = o.c /\ IF o.r = "ok" THEN sdCard' = new /\ GotoStage("csd") ELSE ReturnWith(o.r) /\ UNCHANGED sdCard
    BY Zenon, <1>2 DEF SendRelAddr, Stage
  <2>2. host' = host
    BY Zenon, <1>2 DEF SendRelAddr
  <2>3. /\ card \in Cards /\ sdCard \in Descriptors /\ NarrowBefore /\ HostRecord /\ ~sdCard.init /\ ~host.wide
        /\ sdCard.cid # 0 /\ (card.state # "idle" => card.cid = sdCard.cid /\ card.wide = host.wide)
    BY Zenon, <2>0, LaterFacts
  <2>4. HostRecord'
    BY Zenon, <2>2, <2>3 DEF HostRecord
  <2>5. "SEND_REL_ADDR" \in LaterCommands
    BY Zenon DEF LaterCommands
  <2>6. /\ card' \in Cards /\ NarrowBefore' /\ card'.cid = card.cid
        /\ card'.state # "idle" => card.state # "idle"
        /\ card'.wide = card.wide
        /\ o.r = "ok" => Moved(card, card', "SEND_REL_ADDR")
    BY Zenon, <2>1, <2>3, <2>5, LaterAnswer
  <2>7. CASE o.r = "ok"
    <3>1. sdCard' = new /\ GotoStage("csd")
      BY Zenon, <2>1, <2>7
    <3>2. new \in Descriptors /\ ~new.init /\ new.type = sdCard.type /\ new.cid = sdCard.cid /\ new.rca = 1
      BY <2>3 DEF Descriptors
    <3>3. card'.rca = 1
      BY Zenon, <2>6, <2>7 DEF Moved
    <3>4. "csd" \in Later \ {"cid"} /\ "csd" \notin AtFullSpeed
      BY Zenon DEF Later, Addressed, AtFullSpeed
    <3> HIDE DEF new
    <3> QED
      BY Zenon, <2>0, <2>2, <2>3, <2>4, <2>6, <3>1, <3>2, <3>3, <3>4, StageDone
  <2>8. CASE o.r # "ok"
    BY Zenon, <2>0, <2>1, <2>4, <2>5, <2>8, StageFails
  <2> QED
    BY Zenon, <2>7, <2>8
<1> QED
  BY Zenon, <1>1, <1>2

\* SEND_CSD, CARD_SELECT and the SCR: nothing that was agreed on changes.
LEMMA QuietStageKeeps ==
  ASSUME SdIndInv, NEW s \in Addressed, NEW cmd \in LaterCommands \ {"SEND_REL_ADDR", "SET_BUS_WIDTH"},
         NEW next \in Addressed \ {"blocklen"}, NEW new \in Descriptors,
         s # "blocklen", next \in AtFullSpeed => s \in AtFullSpeed,
         new.cid = sdCard.cid, new.rca = sdCard.rca, new.type = sdCard.type, new.init = sdCard.init,
         Stage(s, cmd, next, new), host' = host
  PROVE  SdIndInv'
<1>1. stage = s /\ stage \in Later /\ stage # "cid" /\ next \in Later \ {"cid"}
  BY Zenon DEF Stage, Later, Addressed
<1>2. PICK o \in SendCommand(cmd) :
        card' = o.c /\ IF o.r = "ok" THEN sdCard' = new /\ GotoStage(next) ELSE ReturnWith(o.r) /\ UNCHANGED sdCard
  BY Zenon DEF Stage
<1>3. /\ card \in Cards /\ sdCard \in Descriptors /\ NarrowBefore /\ HostRecord /\ ~sdCard.init /\ ~host.wide
      /\ sdCard.cid # 0
      /\ card.state # "idle" => card.cid = sdCard.cid /\ card.rca = sdCard.rca /\ card.wide = host.wide
      /\ next \in AtFullSpeed => host.div = GetClockDivider(FreqNormal, host.ver)
  BY Zenon, <1>1, LaterFacts
<1>4. HostRecord'
  BY Zenon, <1>3 DEF HostRecord
<1>5. /\ card' \in Cards /\ NarrowBefore' /\ card'.cid = card.cid
      /\ card'.state # "idle" => card.state # "idle"
      /\ card'.wide = card.wide /\ card'.rca = card.rca
  BY Zenon, <1>2, <1>3, LaterAnswer
<1>6. CASE o.r = "ok"
  BY Zenon, <1>1, <1>2, <1>3, <1>4, <1>5, <1>6, StageDone
<1>7. CASE o.r # "ok"
  BY Zenon, <1>1, <1>2, <1>4, <1>7, StageFails
<1> QED
  BY Zenon, <1>6, <1>7

\* sdSendCSD and the selection change neither the card's address nor its width.
LEMMA CsdSelectKeep == ASSUME SdIndInv, SendCsd \/ CardSelect PROVE SdIndInv'
<1>1. sdCard \in Descriptors
  BY Zenon DEF SdIndInv, SdTypes
<1>2. /\ "csd" \in Addressed /\ "clock" \in Addressed \ {"blocklen"} /\ "clock" \notin AtFullSpeed /\ "csd" # "blocklen"
      /\ "select" \in Addressed /\ "scr" \in Addressed \ {"blocklen"} /\ "select" \in AtFullSpeed /\ "select" # "blocklen"
      /\ {"SEND_CSD", "CARD_SELECT"} \subseteq LaterCommands \ {"SEND_REL_ADDR", "SET_BUS_WIDTH"}
  BY Zenon DEF Addressed, AtFullSpeed, LaterCommands
<1>3. CASE SendCsd
  BY Zenon, <1>1, <1>2, <1>3, QuietStageKeeps DEF SendCsd
<1>4. CASE CardSelect
  BY Zenon, <1>1, <1>2, <1>4, QuietStageKeeps DEF CardSelect
<1> QED
  BY Zenon, <1>3, <1>4

\* A later stage fails without a command.
LEMMA LaterFail ==
  ASSUME SdIndInv, stage \in Later, NEW r, Fail(r), sdCard' = sdCard, card' = card, HostRecord'
  PROVE  SdIndInv'
<1>1. card \in Cards /\ sdCard \in Descriptors /\ NarrowBefore /\ ~sdCard.init
  BY Zenon, LaterFacts
<1>2. stage # "idle"
  BY Zenon DEF Later, Addressed
<1>3. stage' = "idle" /\ oldCID' = 0 /\ known' = known /\ inits' = inits
  BY Zenon DEF Fail, ReturnWith, Env
<1>4. NarrowBefore'
  BY Zenon, <1>1 DEF NarrowBefore
<1>5. card'.state = "tran" => RightType'
  BY Zenon DEF SdIndInv, SameCard, RightType
<1> QED
  BY Zenon, <1>1, <1>2, <1>3, <1>4, <1>5, SdReturns

\* sdReadSCR.
LEMMA ScrKeeps == ASSUME SdIndInv, ReadScr PROVE SdIndInv'
<1> DEFINE new == [sdCard EXCEPT !.support4 = @ \/ CardKind[card.cid].can4]
<1>1. sdCard \in Descriptors /\ card \in Cards /\ HostRecord
  BY Zenon DEF SdIndInv, SdTypes, HostRecord
<1>2. CASE Stage("scr", "SEND_SCR", "width", new) /\ host' = host
  <2>1. CardKind[card.cid].can4 \in BOOLEAN
    BY Zenon, <1>1, SdAssumption DEF Cards
  <2>2. /\ new \in Descriptors /\ new.cid = sdCard.cid /\ new.rca = sdCard.rca /\ new.type = sdCard.type
        /\ new.init = sdCard.init
    BY Zenon, <1>1, <2>1 DEF Descriptors
  <2>3. /\ "scr" \in Addressed /\ "width" \in Addressed \ {"blocklen"} /\ "scr" \in AtFullSpeed /\ "scr" # "blocklen"
        /\ "SEND_SCR" \in LaterCommands \ {"SEND_REL_ADDR", "SET_BUS_WIDTH"}
    BY Zenon DEF Addressed, AtFullSpeed, LaterCommands
  <2> HIDE DEF new
  <2> QED
    BY Zenon, <1>2, <2>2, <2>3, QuietStageKeeps
<1>3. CASE stage = "scr" /\ Fail("timeout") /\ UNCHANGED <<sdCard, card, host>>
  <2>1. stage \in Later
    BY Zenon, <1>3 DEF Later, Addressed
  <2>2. HostRecord'
    BY Zenon, <1>1, <1>3 DEF HostRecord
  <2> QED
    BY Zenon, <1>3, <2>1, <2>2, LaterFail
<1> QED
  BY Zenon, <1>2, <1>3 DEF ReadScr

\* The clock goes to full speed.
LEMMA ClockKeeps == ASSUME SdIndInv, SetFullClock PROVE SdIndInv'
<1> DEFINE fast == [host EXCEPT !.div = GetClockDivider(FreqNormal, host.ver)]
<1>1. stage = "clock" /\ stage # "cid" /\ stage \in Later /\ stage \in Addressed /\ stage # "blocklen"
  BY Zenon DEF SetFullClock, Later, Addressed
<1>2. /\ card \in Cards /\ sdCard \in Descriptors /\ NarrowBefore /\ HostRecord /\ ~sdCard.init /\ ~host.wide
      /\ sdCard.cid # 0
      /\ card.state # "idle" => card.cid = sdCard.cid /\ card.rca = sdCard.rca /\ card.wide = host.wide
  BY Zenon, <1>1, LaterFacts
<1>3. /\ fast = [div |-> GetClockDivider(FreqNormal, host.ver), wide |-> host.wide, ver |-> host.ver]
      /\ fast.wide = host.wide /\ fast.ver = host.ver /\ fast.div = GetClockDivider(FreqNormal, host.ver)
  BY <1>2 DEF HostRecord
<1>4. sdCard' = sdCard /\ card' = card
  BY Zenon DEF SetFullClock
<1>5. (host' = fast /\ GotoStage("select")) \/ (host' \in {host, fast} /\ Fail("clock"))
  BY Zenon DEF SetFullClock
<1> HIDE DEF fast
<1>6. host' \in {host, fast}
  BY Zenon, <1>5
<1>7. HostRecord'
  BY Zenon, <1>2, <1>3, <1>6 DEF HostRecord
<1>8. NarrowBefore'
  BY Zenon, <1>2, <1>4 DEF NarrowBefore
<1>9. "select" \in Later \ {"cid"}
  BY Zenon DEF Later, Addressed
<1>10. CASE host' = fast /\ GotoStage("select")
  <2>1. host'.wide = host.wide /\ host'.div = GetClockDivider(FreqNormal, host'.ver)
    BY Zenon, <1>3, <1>10
  <2> QED
    BY Zenon, <1>1, <1>2, <1>4, <1>7, <1>8, <1>9, <1>10, <2>1, StageDone
<1>11. CASE Fail("clock")
  BY Zenon, <1>1, <1>4, <1>7, <1>11, LaterFail
<1> QED
  BY Zenon, <1>5, <1>10, <1>11

\* The width of the bus changes on both sides, or the card is given up.
LEMMA WidthKeeps == ASSUME SdIndInv, SetBusWidth PROVE SdIndInv'
<1>1. stage = "width" /\ stage # "cid" /\ stage \in Later /\ stage \in Addressed /\ stage # "blocklen" /\ stage \in AtFullSpeed
  BY Zenon DEF SetBusWidth, Stage, Later, Addressed, AtFullSpeed
<1>2. /\ card \in Cards /\ sdCard \in Descriptors /\ NarrowBefore /\ HostRecord /\ ~sdCard.init /\ ~host.wide
      /\ sdCard.cid # 0
      /\ card.state # "idle" => card.cid = sdCard.cid /\ card.rca = sdCard.rca /\ card.wide = host.wide
      /\ host.div = GetClockDivider(FreqNormal, host.ver)
  BY Zenon, <1>1, LaterFacts
<1>3. "blocklen" \in Later \ {"cid"}
  BY Zenon DEF Later, Addressed
<1>4. CASE GotoStage("blocklen") /\ UNCHANGED <<sdCard, card, host>>
  <2>1. HostRecord' /\ NarrowBefore'
    BY Zenon, <1>2, <1>4 DEF HostRecord, NarrowBefore
  <2> QED
    BY Zenon, <1>1, <1>2, <1>3, <1>4, <2>1, StageDone
<1>5. CASE Stage("width", "SET_BUS_WIDTH", "blocklen", sdCard) /\ host' = [host EXCEPT !.wide = stage' = "blocklen"]
  <2>1. PICK o \in SendCommand("SET_BUS_WIDTH") :
          card' = o.c /\ IF o.r = "ok" THEN sdCard' = sdCard /\ GotoStage("blocklen") ELSE ReturnWith(o.r) /\ UNCHANGED sdCard
    BY Zenon, <1>5 DEF Stage
  <2>2. "SET_BUS_WIDTH" \in LaterCommands /\ "SET_BUS_WIDTH" # "SEND_REL_ADDR"
    BY Zenon DEF LaterCommands
  <2>3. /\ card' \in Cards /\ NarrowBefore' /\ card'.cid = card.cid
        /\ card'.state # "idle" => card.state # "idle"
        /\ card'.rca = card.rca
        /\ o.r = "ok" => Moved(card, card', "SET_BUS_WIDTH")
    BY Zenon, <1>2, <2>1, <2>2, LaterAnswer
  <2>4. host' = [div |-> host.div, wide |-> stage' = "blocklen", ver |-> host.ver]
    BY Zenon, <1>2, <1>5 DEF HostRecord
  <2>5. HostRecord' /\ host'.wide = (stage' = "blocklen") /\ host'.div = host.div /\ host'.ver = host.ver
    BY Zenon, <2>4 DEF HostRecord
  <2>6. CASE o.r = "ok"
    <3>1. GotoStage("blocklen") /\ stage' = "blocklen" /\ sdCard' = sdCard
      BY Zenon, <2>1, <2>6 DEF GotoStage
    <3>2. card'.wide = TRUE
      BY Zenon, <2>3, <2>6 DEF Moved
    <3>3. card'.wide = host'.wide
      BY Zenon, <2>5, <3>1, <3>2
    <3> QED
      BY Zenon, <1>1, <1>2, <1>3, <2>3, <2>5, <3>1, <3>3, StageDone
  <2>7. CASE o.r # "ok"
    BY Zenon, <1>1, <2>1, <2>2, <2>5, <2>7, StageFails
  <2> QED
    BY Zenon, <2>6, <2>7
<1> QED
  BY Zenon, <1>4, <1>5 DEF SetBusWidth

\* SET_BLOCKLEN is taken only by a card that takes transfers, and that is the one
\* that was set up.
LEMMA BlocklenKeeps == ASSUME SdIndInv, SetBlocklen PROVE SdIndInv'
<1>1. stage = "blocklen" /\ stage # "cid" /\ stage # "idle" /\ stage \in Later /\ stage \in Addressed /\ stage \in AtFullSpeed
  BY Zenon DEF SetBlocklen, Later, Addressed, AtFullSpeed
<1>2. /\ card \in Cards /\ sdCard \in Descriptors /\ NarrowBefore /\ HostRecord /\ ~sdCard.init
      /\ sdCard.cid # 0
      /\ card.state # "idle" => card.cid = sdCard.cid /\ card.rca = sdCard.rca /\ card.wide = host.wide
      /\ host.div = GetClockDivider(FreqNormal, host.ver)
  BY Zenon, <1>1, LaterFacts
<1>3. PICK o \in SendCommand("SET_BLOCKLEN") :
        /\ card' = o.c
        /\ IF o.r # "ok" THEN ReturnWith(o.r) /\ UNCHANGED sdCard
           ELSE /\ sdCard' = [sdCard EXCEPT !.init = TRUE] /\ known' = sdCard.cid
                /\ stage' = "idle" /\ oldCID' = 0 /\ inits' = inits
  BY Zenon DEF SetBlocklen
<1>4. host' = host
  BY Zenon DEF SetBlocklen
<1>5. HostRecord'
  BY Zenon, <1>2, <1>4 DEF HostRecord
<1>6. "SET_BLOCKLEN" \in LaterCommands /\ "SET_BLOCKLEN" # "SEND_REL_ADDR" /\ "SET_BLOCKLEN" # "SET_BUS_WIDTH"
  BY Zenon DEF LaterCommands
<1>7. /\ card' \in Cards /\ NarrowBefore' /\ card'.cid = card.cid
      /\ card'.state # "idle" => card.state # "idle"
      /\ card'.rca = card.rca /\ card'.wide = card.wide
      /\ o.r = "ok" => Moved(card, card', "SET_BLOCKLEN")
  BY Zenon, <1>2, <1>3, <1>6, LaterAnswer
<1>8. CASE o.r # "ok"
  BY Zenon, <1>1, <1>3, <1>5, <1>6, <1>8, StageFails
<1>9. CASE o.r = "ok"
  <2>1. card.state = "tran" /\ card'.state = "tran"
    BY Zenon, <1>7, <1>9 DEF Moved, Needs
  <2>2. /\ sdCard' = [sdCard EXCEPT !.init = TRUE] /\ known' = sdCard.cid
        /\ stage' = "idle" /\ oldCID' = 0 /\ inits' = inits
    BY Zenon, <1>3, <1>9
  <2>3. /\ sdCard' \in Descriptors /\ sdCard'.cid = sdCard.cid /\ sdCard'.rca = sdCard.rca
        /\ sdCard'.type = sdCard.type
    BY Zenon, <1>2, <2>2 DEF Descriptors
  <2>4. known' \in Cids \cup {0}
    BY Zenon, <1>2, <2>2 DEF Descriptors
  <2>5. SdTypes'
    BY Zenon, <1>5, <1>7, <2>2, <2>3, <2>4 DEF SdIndInv, SdTypes, HostRecord
  <2>6. inits # 0
    BY Zenon, <1>1 DEF SdIndInv, FirstCall
  <2>7. stage' \notin Later \cup Early \cup AtFullSpeed \cup {"reset"}
    BY Zenon, <2>2 DEF Later, Early, Addressed, AtFullSpeed
  <2>8. SameCard' /\ FirstCall'
    BY Zenon, <2>2, <2>6, <2>7 DEF SameCard, FirstCall
  <2>9. StageFacts'
    BY Zenon, <1>7, <2>2, <2>7 DEF StageFacts, NarrowBefore
  <2>10. Identities'
    BY Zenon, <2>2, <2>3 DEF Identities
  <2>11. RightType'
    BY Zenon, <1>1, <1>7, <2>1, <2>3 DEF SdIndInv, SameCard, RightType
  <2>12. HostCardAgree'
    BY Zenon, <1>2, <1>4, <1>7, <2>1, <2>3 DEF HostCardAgree
  <2>13. AddressingRight'
    BY Zenon, <2>11 DEF AddressingRight, RightType
  <2> QED
    BY Zenon, <2>5, <2>8, <2>9, <2>10, <2>12, <2>13 DEF SdIndInv
<1> QED
  BY Zenon, <1>8, <1>9

-----------------------------------------------------------------------------
(* The calls of sdInit and the environment.                                  *)

\* The beginning of sdInit.
LEMMA SdInitCallKeeps == ASSUME SdIndInv, SdInitCall PROVE SdIndInv'
<1>1. stage = "idle" /\ inits' = inits + 1 /\ card' = card /\ known' = known /\ touched' = touched
  BY Zenon DEF SdInitCall
<1>2. /\ card \in Cards /\ sdCard \in Descriptors /\ NarrowBefore /\ HostRecord /\ inits \in Nat
      /\ known \in Cids \cup {0} /\ oldCID \in Cids \cup {0}
  BY Zenon DEF SdIndInv, SdTypes, StageFacts, NarrowBefore, HostRecord
<1>3. inits' \in Nat /\ inits' # 0 /\ (inits' = 1 => inits = 0)
  BY <1>1, <1>2
<1>4. inits = 0 => card.state = "idle"
  BY Zenon DEF SdIndInv, FirstCall
<1>5. stage \notin Later \cup Early \cup AtFullSpeed \cup {"reset"}
  BY Zenon, <1>1 DEF Later, Early, Addressed, AtFullSpeed
<1>6. "reset" \notin Later \cup Early \cup AtFullSpeed /\ "reset" # "idle"
  BY Zenon DEF Later, Early, Addressed, AtFullSpeed
<1>7. CASE sdCard.init /\ ~ejected
  <2>1. UNCHANGED <<stage, sdCard, oldCID, host>>
    BY Zenon, <1>7 DEF SdInitCall
  <2>2. SdTypes'
    BY Zenon, <1>1, <1>3, <2>1 DEF SdIndInv, SdTypes
  <2>3. SameCard' /\ FirstCall'
    BY Zenon, <1>3, <1>5, <2>1 DEF SameCard, FirstCall
  <2>4. StageFacts' /\ Identities' /\ HostCardAgree'
    BY Zenon, <1>1, <2>1 DEF SdIndInv, StageFacts, Identities, HostCardAgree
  <2>5. AddressingRight'
    BY Zenon, <1>1, <1>7, <2>1 DEF SdIndInv, AddressingRight
  <2> QED
    BY Zenon, <2>2, <2>3, <2>4, <2>5 DEF SdIndInv
<1>8. CASE ~(sdCard.init /\ ~ejected)
  <2>1. /\ sdCard' = [sdCard EXCEPT !.init = FALSE]
        /\ oldCID' = IF sdCard.init THEN sdCard.cid ELSE 0
        /\ \E ver \in HostVers : host' = [host EXCEPT !.ver = ver]
        /\ stage' = "reset" \/ stage' = "idle"
    BY Zenon, <1>8 DEF SdInitCall
  <2>2. sdCard' \in Descriptors /\ ~sdCard'.init
    BY Zenon, <1>2, <2>1 DEF Descriptors
  <2>3. \E d, v : \E w \in BOOLEAN : host' = [div |-> d, wide |-> w, ver |-> v]
    BY Zenon, <1>2, <2>1 DEF HostRecord
  <2>4. HostRecord'
    BY <2>3 DEF HostRecord
  <2>5. oldCID' \in Cids \cup {0} /\ (oldCID' # 0 => oldCID' = known')
    BY Zenon, <1>1, <1>2, <2>1 DEF SdIndInv, Identities, Descriptors
  <2>6. stage' \notin Later \cup Early \cup AtFullSpeed
    BY Zenon, <1>5, <1>6, <2>1, <1>1
  <2>7. SdTypes'
    BY Zenon, <1>1, <1>2, <1>3, <2>1, <2>2, <2>4, <2>5 DEF SdTypes, HostRecord
  <2>8. SameCard'
    BY Zenon, <2>6 DEF SameCard
  <2>9. StageFacts'
    BY Zenon, <1>1, <1>2, <2>2, <2>6 DEF StageFacts, NarrowBefore
  <2>10. FirstCall'
    BY Zenon, <1>1, <1>3, <1>4 DEF FirstCall
  <2>11. Identities' /\ HostCardAgree'
    BY Zenon, <2>2, <2>5 DEF Identities, HostCardAgree
  <2>12. AddressingRight'
    <3>1. inits' = 1 => card'.state # "tran"
      BY Zenon, <1>1, <1>3, <1>4
    <3> QED
      BY Zenon, <2>2, <3>1 DEF AddressingRight
  <2> QED
    BY Zenon, <2>7, <2>8, <2>9, <2>10, <2>11, <2>12 DEF SdIndInv
<1> QED
  BY Zenon, <1>7, <1>8

\* The read of block 0 moves no card.
LEMMA ReadMbrKeeps == ASSUME SdIndInv, ReadMbr PROVE SdIndInv'
<1>1. PICK o \in SendCommand("READ_SINGLE") : card' = o.c
  BY Zenon DEF ReadMbr
<1>2. card \in Cards
  BY Zenon DEF SdIndInv, SdTypes
<1>3. Answer(card, o, "READ_SINGLE")
  BY Zenon, <1>2, Sent DEF Commands
<1>4. card' \in Cards /\ card'.cid = card.cid /\ card'.state = card.state /\ card'.rca = card.rca /\ card'.wide = card.wide
  BY Zenon, <1>1, <1>3 DEF Answer, Unmoved, Moved
<1>5. UNCHANGED <<stage, sdCard, oldCID, host, touched, known, inits>>
  BY Zenon DEF ReadMbr
<1>6. SdTypes'
  BY Zenon, <1>4, <1>5 DEF SdIndInv, SdTypes
<1>7. SameCard' /\ StageFacts'
  BY Zenon, <1>4, <1>5 DEF SdIndInv, SameCard, StageFacts, RightType
<1>8. FirstCall' /\ Identities'
  BY Zenon, <1>4, <1>5 DEF SdIndInv, FirstCall, Identities
<1>9. HostCardAgree' /\ AddressingRight'
  BY Zenon, <1>4, <1>5 DEF SdIndInv, HostCardAgree, AddressingRight
<1> QED
  BY Zenon, <1>6, <1>7, <1>8, <1>9 DEF SdIndInv

\* A card gets ready, or is replaced: either way it is idle.
LEMMA EnvironmentKeeps == ASSUME SdIndInv, CardReady \/ SwapCard PROVE SdIndInv'
<1>1. UNCHANGED <<stage, sdCard, oldCID, host, known, inits>>
  BY Zenon DEF CardReady, SwapCard
<1>2. card \in Cards /\ (card.state # "tran" => ~card.wide)
  BY Zenon DEF SdIndInv, SdTypes, StageFacts
<1>3. card' \in Cards /\ card'.state = "idle" /\ ~card'.wide /\ (touched' \/ (~touched' /\ ~touched /\ card.state = "idle"))
  <2>1. CASE CardReady
    <3>1. card' = [card EXCEPT !.up = TRUE] /\ card.state = "idle" /\ touched' = touched
      BY Zenon, <2>1 DEF CardReady
    <3>2. card' \in Cards /\ card'.state = "idle" /\ card'.wide = card.wide
      BY Zenon, <1>2, <3>1 DEF Cards
    <3> QED
      BY Zenon, <1>2, <3>1, <3>2
  <2>2. CASE SwapCard
    <3>1. touched' /\ \E cid \in Cids : card' = PowerUp(cid)
      BY Zenon, <2>2 DEF SwapCard
    <3>2. \A cid \in Cids : PowerUp(cid) \in Cards /\ PowerUp(cid).state = "idle" /\ ~PowerUp(cid).wide
      BY DEF PowerUp, Cards, CardStates
    <3> QED
      BY Zenon, <3>1, <3>2
  <2> QED
    BY Zenon, <2>1, <2>2
<1>4. SdTypes'
  BY Zenon, <1>1, <1>3 DEF SdIndInv, SdTypes
<1>5. SameCard' /\ StageFacts'
  BY Zenon, <1>1, <1>3 DEF SdIndInv, SameCard, StageFacts
<1>6. FirstCall' /\ Identities'
  BY Zenon, <1>1, <1>3 DEF SdIndInv, FirstCall, Identities
<1>7. HostCardAgree' /\ AddressingRight'
  BY Zenon, <1>1, <1>3 DEF SdIndInv, HostCardAgree, AddressingRight
<1> QED
  BY Zenon, <1>4, <1>5, <1>6, <1>7 DEF SdIndInv

\* Before the first call.
LEMMA SdIndInit == SdInit0 => SdIndInv
<1> SUFFICES ASSUME SdInit0 PROVE SdIndInv
  BY Zenon
<1>1. PICK cid \in Cids : card = PowerUp(cid)
  BY Zenon DEF SdInit0
<1>2. card \in Cards /\ card.state = "idle" /\ ~card.wide
  BY <1>1 DEF PowerUp, Cards, CardStates
<1>3. sdCard \in Descriptors /\ ~sdCard.init
  BY DEF SdInit0, NoDescriptor, Descriptors
<1>4. stage = "idle" /\ oldCID = 0 /\ known = 0 /\ inits = 0
  BY Zenon DEF SdInit0
<1>5. HostRecord
  BY Zenon DEF SdInit0, HostRecord
<1>6. stage \notin Later \cup Early \cup AtFullSpeed \cup {"reset"}
  BY Zenon, <1>4 DEF Later, Early, Addressed, AtFullSpeed
<1>7. SdTypes
  BY Zenon, <1>2, <1>3, <1>4, <1>5 DEF SdTypes, HostRecord
<1>8. SameCard /\ StageFacts /\ Identities
  BY Zenon, <1>2, <1>3, <1>4, <1>6 DEF SameCard, StageFacts, Identities
<1>9. FirstCall /\ HostCardAgree /\ AddressingRight
  BY Zenon, <1>2, <1>3, <1>4 DEF FirstCall, HostCardAgree, AddressingRight
<1> QED
  BY Zenon, <1>7, <1>8, <1>9 DEF SdIndInv

\* Every step.
LEMMA SdIndStep == SdIndInv /\ [SdNext]_sdvars => SdIndInv'
<1> SUFFICES ASSUME SdIndInv, [SdNext]_sdvars PROVE SdIndInv'
  BY Zenon
<1>1. CASE SdInitCall
  BY Zenon, <1>1, SdInitCallKeeps
<1>2. CASE Reset
  BY Zenon, <1>2, ResetKeeps DEF Reset
<1>3. CASE SendIfCond
  BY Zenon, <1>3, IfCondKeeps
<1>4. CASE ResetAgain
  BY Zenon, <1>4, ResetKeeps DEF ResetAgain
<1>5. CASE OpCondHC
  BY Zenon, <1>5, OpCondKeeps DEF OpCondHC
<1>6. CASE OpCondSC
  BY Zenon, <1>6, OpCondKeeps DEF OpCondSC
<1>7. CASE AllSendCid \/ SendRelAddr
  BY Zenon, <1>7, CidRcaKeep
<1>8. CASE SendCsd \/ CardSelect
  BY Zenon, <1>8, CsdSelectKeep
<1>9. CASE SetFullClock
  BY Zenon, <1>9, ClockKeeps
<1>10. CASE ReadScr
  BY Zenon, <1>10, ScrKeeps
<1>11. CASE SetBusWidth
  BY Zenon, <1>11, WidthKeeps
<1>12. CASE SetBlocklen
  BY Zenon, <1>12, BlocklenKeeps
<1>13. CASE ReadMbr
  BY Zenon, <1>13, ReadMbrKeeps
<1>14. CASE CardReady \/ SwapCard
  BY Zenon, <1>14, EnvironmentKeeps
<1>15. CASE UNCHANGED sdvars
  <2>1. UNCHANGED <<stage, sdCard, oldCID, host, card, touched, known, inits>>
    BY Zenon, <1>15 DEF sdvars
  <2>2. SdTypes' /\ SameCard' /\ StageFacts'
    BY Zenon, <2>1 DEF SdIndInv, SdTypes, SameCard, StageFacts, RightType
  <2>3. FirstCall' /\ Identities' /\ HostCardAgree' /\ AddressingRight'
    BY Zenon, <2>1 DEF SdIndInv, FirstCall, Identities, HostCardAgree, AddressingRight
  <2> QED
    BY Zenon, <2>2, <2>3 DEF SdIndInv
<1> QED
  BY Zenon, <1>1, <1>2, <1>3, <1>4, <1>5, <1>6, <1>7, <1>8, <1>9, <1>10, <1>11, <1>12, <1>13, <1>14, <1>15
     DEF SdNext, SdStep

-----------------------------------------------------------------------------
(* The clock and the counters.                                               *)

Dividers(freq) == {GetClockDivider(freq, ver) : ver \in HostVers}

\* The divider was computed by sdGetClockDivider, for the identification frequency
\* while a card is identified.
ClockInv ==
  /\ host.ver \in HostVers \cup {0} /\ (stage # "idle" => host.ver \in HostVers)
  /\ host.div \in {0} \cup Dividers(FreqSetup) \cup Dividers(FreqNormal)
  /\ stage \in Identifying => host.div \in Dividers(FreqSetup)

\* What the bounds of the code and of the model count.
CountersInv ==
  tries \in 0 .. MaxRetries /\ faults \in 0 .. MaxFaults /\ mbr \in {"unread", "read", "garbage", "panic"}

\* A command costs no more faults than are left.
LEMMA SentFaults ==
  ASSUME faults \in 0 .. MaxFaults, NEW cmd, NEW o \in SendCommand(cmd)
  PROVE  o.f \in Nat /\ faults + o.f \in 0 .. MaxFaults
<1>1. \A c, y, rca : \A p \in SendCommandP(c, y, rca) :
        /\ p.f \in Nat /\ \E u, v, w : p = [c |-> u, r |-> v, f |-> w]
  BY DEF SendCommandP, Outcome
<1>2. o.f \in Nat
  <2>1. CASE cmd \notin AppCommands
    BY Zenon, <1>1, <2>1 DEF SendCommand
  <2>2. CASE cmd \in AppCommands
    <3>1. PICK a \in SendAppCommand(card, sdCard.rca) :
            o \in IF a.r # "ok" THEN {a}
                  ELSE {[p EXCEPT !.f = p.f + a.f] : p \in SendCommandP(a.c, cmd, sdCard.rca)}
      BY Zenon, <2>2 DEF SendCommand
    <3>2. PICK b \in SendCommandP(card, "APP_CMD", sdCard.rca) :
            a = [b EXCEPT !.r = IF sdCard.rca = 0 THEN "ok" ELSE b.r]
      BY Zenon, <3>1 DEF SendAppCommand
    <3>3. a.f \in Nat
      BY <1>1, <3>2
    <3>4. CASE a.r # "ok"
      BY Zenon, <3>1, <3>3, <3>4
    <3>5. CASE a.r = "ok"
      <4>1. PICK p \in SendCommandP(a.c, cmd, sdCard.rca) : o = [p EXCEPT !.f = p.f + a.f]
        BY Zenon, <3>1, <3>5
      <4>2. p.f \in Nat /\ o.f = p.f + a.f
        BY <1>1, <4>1
      <4> QED
        BY <3>3, <4>2
    <3> QED
      BY Zenon, <3>4, <3>5
  <2> QED
    BY Zenon, <2>1, <2>2
<1>3. faults + o.f =< MaxFaults
  BY Zenon DEF SendCommand
<1> QED
  BY <1>2, <1>3, ClockAssumption

\* The counters stay within their bounds.
LEMMA CountersStep ==
  ASSUME CountersInv, [SdNext]_sdvars
  PROVE  CountersInv'
<1> USE DEF CountersInv
<1>1. MaxRetries \in Nat /\ MaxFaults \in Nat
  BY Zenon, ClockAssumption
<1>2. \A r : Fail(r) => /\ faults' \in 0 .. MaxFaults /\ tries' = tries /\ mbr' = mbr
  BY <1>1 DEF Fail, Faults, ReturnWith, Env
<1>3. \A cmd : \A o \in SendCommand(cmd) : Faults(o.f) => faults' \in 0 .. MaxFaults
  BY Zenon, SentFaults DEF Faults
<1>4. \A s : GotoStage(s) \/ ReturnWith(s) => mbr' = mbr
  BY Zenon DEF GotoStage, ReturnWith, Env
<1>5. CASE SdInitCall
  BY <1>1, <1>5 DEF SdInitCall, Faults
<1>6. CASE Reset \/ ResetAgain
  BY Zenon, <1>2, <1>3, <1>4, <1>6 DEF Reset, ResetAgain, ResetCard
<1>7. CASE SendIfCond
  <2>1. PICK o \in SendCommand("SEND_IF_COND") :
          /\ Faults(o.f) /\ tries' = tries
          /\ CASE o.r = "ok"   -> GotoStage("opcond_hc")
               [] o.r = "busy" -> ReturnWith("busy")
               [] OTHER        -> GotoStage("opcond_sc") \/ (o.f = 1 /\ GotoStage("reset_sc"))
    BY Zenon, <1>7 DEF SendIfCond
  <2>2. mbr' = mbr
    BY Zenon, <1>4, <2>1
  <2> QED
    BY Zenon, <1>3, <2>1, <2>2
<1>8. CASE OpCondHC \/ OpCondSC
  <2>1. PICK cmd : \E low, high : AppSendOpCond(cmd, low, high)
    BY Zenon, <1>8 DEF OpCondHC, OpCondSC
  <2>2. PICK o \in SendCommand(cmd) :
          /\ \E s : GotoStage(s) \/ ReturnWith(s)
          /\ Faults(o.f) \/ (faults + o.f < MaxFaults /\ Faults(o.f + 1))
          /\ tries' = tries \/ (tries < MaxRetries /\ tries' = tries + 1)
    BY Zenon, <2>1 DEF AppSendOpCond
  <2>3. o.f \in Nat /\ faults + o.f \in 0 .. MaxFaults
    BY Zenon, SentFaults
  <2>4. faults' \in 0 .. MaxFaults
    BY <1>1, <2>2, <2>3 DEF Faults
  <2>5. tries' \in 0 .. MaxRetries
    BY <1>1, <2>2
  <2> QED
    BY Zenon, <1>4, <2>2, <2>4, <2>5
<1>9. ASSUME NEW s, NEW cmd, NEW next, NEW new, Stage(s, cmd, next, new)
      PROVE  CountersInv'
  BY Zenon, <1>3, <1>4, <1>9 DEF Stage
<1>10. CASE AllSendCid \/ SendRelAddr \/ SendCsd \/ CardSelect
  BY Zenon, <1>9, <1>10 DEF AllSendCid, SendRelAddr, SendCsd, CardSelect
<1>11. ASSUME Faults(0) PROVE faults' = faults
  BY <1>11 DEF Faults
<1>12. CASE SetFullClock
  BY Zenon, <1>2, <1>4, <1>11, <1>12 DEF SetFullClock
<1>13. CASE ReadScr
  BY Zenon, <1>2, <1>9, <1>13 DEF ReadScr
<1>14. CASE SetBusWidth
  BY Zenon, <1>4, <1>9, <1>11, <1>14 DEF SetBusWidth
<1>15. CASE SetBlocklen
  BY Zenon, <1>3, <1>4, <1>15 DEF SetBlocklen
<1>16. CASE ReadMbr
  <2>1. PICK o \in SendCommand("READ_SINGLE"), f \in 0 .. 1 : faults + o.f + f =< MaxFaults /\ Faults(o.f + f)
    BY Zenon, <1>16 DEF ReadMbr
  <2>2. o.f \in Nat
    BY Zenon, SentFaults
  <2>3. faults' \in 0 .. MaxFaults
    BY <1>1, <2>1, <2>2 DEF Faults
  <2>4. tries' = tries /\ mbr' \in {"unread", "read", "garbage", "panic"}
    BY Zenon, <1>16 DEF ReadMbr
  <2> QED
    BY Zenon, <2>3, <2>4
<1>17. CASE CardReady \/ SwapCard \/ UNCHANGED sdvars
  BY Zenon, <1>17 DEF CardReady, SwapCard, sdvars
<1> QED
  BY Zenon, <1>5, <1>6, <1>7, <1>8, <1>10, <1>12, <1>13, <1>14, <1>15, <1>16, <1>17 DEF SdNext, SdStep

\* A step that does not touch the clock may leave identification, not enter it.
LEMMA ClockUntouched ==
  ASSUME ClockInv, host'.div = host.div, host'.ver = host.ver,
         stage' # "idle" => stage # "idle", stage' \in Identifying => stage \in Identifying
  PROVE  ClockInv'
BY Zenon DEF ClockInv

\* sdResetCard, with the clock off when the reset or the new clock fails.
LEMMA ResetClock ==
  ASSUME ClockInv, stage # "idle", NEW next \in Identifying, ResetCard(next)
  PROVE  ClockInv'
<1>1. host.ver \in HostVers
  BY Zenon DEF ClockInv
<1>2. GetClockDivider(FreqSetup, host.ver) \in Dividers(FreqSetup)
  BY Zenon, <1>1 DEF Dividers
<1>3. CASE host' = ResetHost
  <2>1. host'.div = GetClockDivider(FreqSetup, host.ver) /\ host'.ver = host.ver
    BY Zenon, <1>3 DEF ResetHost
  <2> QED
    BY Zenon, <1>1, <1>2, <2>1 DEF ClockInv
<1>4. CASE host' = [ResetHost EXCEPT !.div = 0] /\ Fail("clock")
  <2>1. host'.div = 0 /\ host'.ver = host.ver
    BY Zenon, <1>4 DEF ResetHost
  <2>2. stage' = "idle"
    BY Zenon, <1>4 DEF Fail, ReturnWith
  <2>3. "idle" \notin Identifying
    BY Zenon DEF Identifying
  <2> QED
    BY Zenon, <1>1, <2>1, <2>2, <2>3 DEF ClockInv
<1> QED
  BY Zenon, <1>3, <1>4 DEF ResetCard

\* Only sdResetCard and the step to full speed set the divider.
LEMMA ClockStep ==
  ASSUME SdIndInv, ClockInv, [SdNext]_sdvars
  PROVE  ClockInv'
<1>1. HostRecord
  BY Zenon DEF SdIndInv, SdTypes, HostRecord
<1>2. \A s : GotoStage(s) => stage' = s
  BY Zenon DEF GotoStage
<1>3. \A r : ReturnWith(r) \/ Fail(r) => stage' = "idle"
  BY Zenon DEF ReturnWith, Fail
<1>4. "idle" \notin Identifying /\ {"ifcond", "opcond_sc", "opcond_hc", "reset_sc", "cid", "rca", "csd"} = Identifying
  BY Zenon DEF Identifying
<1>5. CASE SdInitCall
  <2>1. stage = "idle" /\ (stage' = "idle" \/ stage' = "reset")
    BY Zenon, <1>5 DEF SdInitCall
  <2>2. "reset" \notin Identifying
    BY Zenon DEF Identifying
  <2>3. CASE UNCHANGED <<stage, host>>
    BY Zenon, <2>3, ClockUntouched
  <2>4. CASE \E ver \in HostVers : host' = [host EXCEPT !.ver = ver]
    <3>1. host'.ver \in HostVers /\ host'.div = host.div
      BY Zenon, <1>1, <2>4 DEF HostRecord
    <3> QED
      BY Zenon, <1>4, <2>1, <2>2, <3>1 DEF ClockInv
  <2> QED
    BY Zenon, <1>5, <2>3, <2>4 DEF SdInitCall
<1>6. CASE Reset
  <2>1. stage # "idle"
    BY Zenon, <1>6 DEF Reset
  <2> QED
    BY Zenon, <1>4, <1>6, <2>1, ResetClock DEF Reset
<1>7. CASE ResetAgain
  <2>1. stage # "idle"
    BY Zenon, <1>7 DEF ResetAgain
  <2> QED
    BY Zenon, <1>4, <1>7, <2>1, ResetClock DEF ResetAgain
<1>8. CASE SendIfCond \/ OpCondHC \/ OpCondSC
  <2>1. stage \in Identifying
    BY Zenon, <1>8 DEF SendIfCond, OpCondHC, OpCondSC, Identifying
  <2>2. host' = host
    BY Zenon, <1>8 DEF SendIfCond, OpCondHC, OpCondSC, AppSendOpCond
  <2> QED
    BY Zenon, <1>4, <2>1, <2>2, ClockUntouched
<1>9. CASE AllSendCid \/ SendRelAddr \/ SendCsd
  <2>1. stage \in Identifying
    BY Zenon, <1>9 DEF AllSendCid, SendRelAddr, SendCsd, Stage, Identifying
  <2>2. host' = host
    BY Zenon, <1>9 DEF AllSendCid, SendRelAddr, SendCsd
  <2> QED
    BY Zenon, <1>4, <2>1, <2>2, ClockUntouched
<1>10. CASE SetFullClock
  <2> DEFINE fast == [host EXCEPT !.div = GetClockDivider(FreqNormal, host.ver)]
  <2>1. stage # "idle" /\ stage' \in {"select", "idle"} /\ stage' \notin Identifying
    <3>1. stage = "clock" /\ (stage' = "select" \/ stage' = "idle")
      BY Zenon, <1>2, <1>3, <1>10 DEF SetFullClock
    <3> QED
      BY Zenon, <3>1 DEF Identifying
  <2>2. host' = host \/ host' = fast
    BY Zenon, <1>10 DEF SetFullClock
  <2>3. host.ver \in HostVers
    BY Zenon, <2>1 DEF ClockInv
  <2>4. GetClockDivider(FreqNormal, host.ver) \in Dividers(FreqNormal)
    BY Zenon, <2>3 DEF Dividers
  <2>5. fast.div = GetClockDivider(FreqNormal, host.ver) /\ fast.ver = host.ver
    BY Zenon, <1>1 DEF HostRecord
  <2> HIDE DEF fast
  <2> QED
    BY Zenon, <2>1, <2>2, <2>3, <2>4, <2>5 DEF ClockInv
<1>11. CASE CardSelect \/ ReadScr \/ SetBusWidth \/ SetBlocklen
  <2>1. stage \in {"select", "scr", "width", "blocklen"} /\ stage # "idle"
    BY Zenon, <1>11 DEF CardSelect, ReadScr, SetBusWidth, SetBlocklen, Stage
  <2>2. stage' \in {"scr", "width", "blocklen", "idle"}
    BY Zenon, <1>2, <1>3, <1>11 DEF CardSelect, ReadScr, SetBusWidth, SetBlocklen, Stage
  <2>3. stage' \notin Identifying
    BY Zenon, <2>2 DEF Identifying
  <2>4. host' = host \/ host' = [host EXCEPT !.wide = stage' = "blocklen"]
    BY Zenon, <1>11 DEF CardSelect, ReadScr, SetBusWidth, SetBlocklen
  <2>5. host'.div = host.div /\ host'.ver = host.ver
    BY Zenon, <1>1, <2>4 DEF HostRecord
  <2> QED
    BY Zenon, <2>1, <2>3, <2>5, ClockUntouched
<1>12. CASE ReadMbr \/ CardReady \/ SwapCard \/ UNCHANGED sdvars
  <2>1. UNCHANGED <<stage, host>>
    BY Zenon, <1>12 DEF ReadMbr, CardReady, SwapCard, sdvars
  <2> QED
    BY Zenon, <2>1, ClockUntouched
<1> QED
  BY Zenon, <1>5, <1>6, <1>7, <1>8, <1>9, <1>10, <1>11, <1>12 DEF SdNext, SdStep

\* Dividers that sdGetClockDivider computes are safe, by the constants of sddef.h.
LEMMA ClockIsSafe == ClockInv => ClockSafe /\ host.div \in Nat
<1> SUFFICES ASSUME ClockInv PROVE ClockSafe /\ host.div \in Nat
  BY Zenon
<1>1. ASSUME NEW freq \in {FreqSetup, FreqNormal}, host.div \in Dividers(freq)
      PROVE  host.div \in Nat \ {0} /\ Rate =< freq
  BY Zenon, <1>1, ClockAssumption DEF Dividers, Rate
<1>2. FreqSetup \in Nat /\ FreqNormal \in Nat /\ FreqSetup =< FreqNormal /\ BaseClock \in Nat
  BY SdAssumption, ClockAssumption
<1>3. CASE host.div = 0
  <2>1. ~(host.div > 0)
    BY <1>3
  <2> QED
    BY <1>3, <2>1 DEF ClockSafe
<1>4. CASE host.div \in Dividers(FreqSetup)
  <2>1. host.div \in Nat \ {0} /\ Rate =< FreqSetup
    BY Zenon, <1>1, <1>4
  <2>2. Rate \in Int
    BY <1>2, <2>1 DEF Rate
  <2> QED
    BY <1>2, <2>1, <2>2 DEF ClockSafe
<1>5. CASE host.div \in Dividers(FreqNormal) /\ stage \notin Identifying
  <2>1. host.div \in Nat \ {0} /\ Rate =< FreqNormal
    BY Zenon, <1>1, <1>5
  <2> QED
    BY Zenon, <1>5, <2>1 DEF ClockSafe
<1> QED
  BY Zenon, <1>3, <1>4, <1>5 DEF ClockInv

\* Once sdInit (sddef.h) has succeeded, and until the card is changed, the descriptor
\* and the controller agree with the card, sd_start addresses it in its own way, and
\* no clock is too fast for the stage: whatever is lost on the line, whichever cards
\* are put in while sdInit runs, for any number of cards, retries and calls.
THEOREM CardIsAsBelieved == SdSpec => []CardAgrees
<1>1. SdInit0 => SdIndInv /\ ClockInv /\ CountersInv
  <2>1. SdInit0 => SdIndInv
    BY Zenon, SdIndInit
  <2>2. SdInit0 => ClockInv
    BY DEF SdInit0, ClockInv, Identifying
  <2>3. SdInit0 => CountersInv
    BY ClockAssumption DEF SdInit0, CountersInv
  <2> QED
    BY Zenon, <2>1, <2>2, <2>3
<1>2. SdIndInv /\ ClockInv /\ CountersInv /\ [SdNext]_sdvars => SdIndInv' /\ ClockInv' /\ CountersInv'
  BY Zenon, SdIndStep, ClockStep, CountersStep
<1>3. SdIndInv /\ ClockInv /\ CountersInv => CardAgrees
  <2> SUFFICES ASSUME SdIndInv, ClockInv, CountersInv PROVE CardAgrees
    BY Zenon
  <2>1. ClockSafe /\ host.div \in Nat
    BY Zenon, ClockIsSafe
  <2>2. stage \in Stages
    BY Zenon DEF SdIndInv, SdTypes, Early, Later, Addressed, Stages
  <2>3. Needs["GO_IDLE"] = CardStates
    BY Zenon DEF Needs, CardStates
  <2>4. host \in [div : Nat, wide : BOOLEAN, ver : HostVers \cup {0}]
    BY Zenon, <2>1 DEF SdIndInv, SdTypes, ClockInv
  <2>5. SdTypeOK
    BY Zenon, <2>2, <2>3, <2>4 DEF SdIndInv, SdTypes, CountersInv, SdTypeOK, Cards, Descriptors
  <2> QED
    BY Zenon, <2>1, <2>5 DEF SdIndInv, CardAgrees
<1> QED
  BY <1>1, <1>2, <1>3, PTL DEF SdSpec

\* sdInit reports SD_CARD_REINSERTED only for the card that the last successful
\* sdInit set up (the comparison with oldCID at its end).
THEOREM ReinsertedCardIsSame == SdSpec => ReinsertedIsSame
<1>1. SdInit0 => SdIndInv
  BY Zenon, SdIndInit
<1>2. SdIndInv /\ [SdNext]_sdvars => SdIndInv'
  BY Zenon, SdIndStep
<1>3. SdIndInv /\ SdIndInv' /\ [SdNext]_sdvars =>
        [stage = "blocklen" /\ result' = "reinserted" /\ sdCard'.init => known = sdCard.cid]_sdvars
  <2> SUFFICES ASSUME SdIndInv, SdIndInv', SdNext, stage = "blocklen", result' = "reinserted", sdCard'.init
               PROVE  known = sdCard.cid
    BY Zenon
  <2>1. ~sdCard.init
    BY Zenon DEF SdIndInv, StageFacts
  <2>2. stage' = "idle"
    BY Zenon DEF SdIndInv, StageFacts
  <2>3. SetBlocklen
    BY Zenon, <2>1, <2>2 DEF SdNext, SdStep, SdInitCall, Reset, SendIfCond, ResetAgain, OpCondHC, OpCondSC,
       AllSendCid, SendRelAddr, SendCsd, CardSelect, SetFullClock, ReadScr, SetBusWidth, Stage, ReadMbr,
       CardReady, SwapCard
  <2>4. PICK o \in SendCommand("SET_BLOCKLEN") :
          IF o.r # "ok" THEN UNCHANGED sdCard
          ELSE result' = IF oldCID = sdCard.cid THEN "reinserted" ELSE "changed"
    BY Zenon, <2>3 DEF SetBlocklen
  <2>5. result' = IF oldCID = sdCard.cid THEN "reinserted" ELSE "changed"
    BY Zenon, <2>1, <2>4
  <2>6. oldCID = sdCard.cid
    BY Zenon, <2>5
  <2>7. stage \in Later \ {"cid"}
    BY Zenon DEF Later, Addressed
  <2> QED
    BY Zenon, <2>6, <2>7 DEF SdIndInv, StageFacts, Identities
<1> QED
  BY <1>1, <1>2, <1>3, PTL DEF SdSpec, ReinsertedIsSame
=============================================================================
