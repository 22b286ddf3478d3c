-------------------------- MODULE FifoBufferProofs --------------------------
(***************************************************************************)
(* Theorems about FifoBuffer, for every size of the ring, every number of  *)
(* elements all_samples is given, none included, every set of readers and  *)
(* data, and both builds of the kernel.                                    *)
(***************************************************************************)
EXTENDS FifoBuffer, SequenceTheorems, FiniteSetTheorems, TLAPS

-----------------------------------------------------------------------------
(* Types: the buffers whose array has n elements, and all of them.         *)

BufferOf(R) == [result : R, head : Nat, tail : Nat, size : Nat, count : Int,
                sem : Nat, waiters : Seq(Procs), lock : Procs \cup {NoOne}]

Sized(n) == BufferOf([0 .. n - 1 -> Data])

Arrayless == BufferOf({NoMemory})

Shaped(b) == b \in Arrayless \/ \E n \in Nat \ {0} : b \in Sized(n)

Labels == {"idle", "asleep", "woken", "oops"}

TypeOK ==
  /\ which \in {"buffer", "all_samples"}
  /\ Shaped(buf)
  /\ pc \in [Procs -> Labels]
  /\ got \in [Procs -> Data \cup {Nothing}]
  /\ stores \in Nat

(***************************************************************************)
(* The cursors lie in the ring of size elements: head is one of them, and  *)
(* tail at most one past the last.  A ring of size 0, which init_buffer    *)
(* was never called for, lives in element 0, as does one of size 1; and    *)
(* all_samples has no other size, however many elements it was given.      *)
(***************************************************************************)
CursorsInRing(b) ==
  /\ b.head = 0 \/ b.head < b.size
  /\ b.tail <= b.size \/ b.tail = 1

SizeFits(b) ==
  IF which = "buffer" THEN b.size = Size /\ b \in Sized(Size)
                      ELSE b.size \in {0, 1}

IInv == TypeOK /\ CursorsInRing(buf) /\ SizeFits(buf)

LEMMA NoArray == \A n \in Nat \ {0} : \A b \in Sized(n) : b.result /= NoMemory
  <1> SUFFICES ASSUME NEW n \in Nat \ {0}, NEW b \in Sized(n), b.result = NoMemory
               PROVE  FALSE
    OBVIOUS
  <1>1. DOMAIN b.result = 0 .. n - 1
    BY DEF BufferOf, Sized
  <1>2. DOMAIN NoMemory = 1 .. 0
    BY DEF NoMemory
  <1>3. 0 \in 0 .. n - 1 /\ 0 \notin 1 .. 0
    OBVIOUS
  <1> QED BY <1>1, <1>2, <1>3

LEMMA HasArray ==
  ASSUME NEW b, Shaped(b), b.result /= NoMemory
  PROVE  \E n \in Nat \ {0} : b \in Sized(n)
  BY DEF BufferOf, Shaped, Arrayless

-----------------------------------------------------------------------------
(* What the functions of buffer.h do to a well-formed buffer.              *)

\* The elements of the array that the cursors can reach.
LEMMA InReach ==
  ASSUME NEW n \in Nat \ {0}, NEW b \in Sized(n), CursorsInRing(b), SizeFits(b)
  PROVE  /\ b.head \in 0 .. n - 1 /\ InsertIndex(b) \in 0 .. n - 1
         /\ InsertIndex(b) + 1 <= b.size \/ InsertIndex(b) + 1 = 1
  <1>1. b.head \in Nat /\ b.tail \in Nat /\ b.size \in Nat
    BY DEF BufferOf, Sized
  <1>2. CASE which = "buffer"
    <2>1. b.size = Size /\ b \in Sized(Size)
      BY <1>2 DEF SizeFits
    <2>2. DOMAIN b.result = 0 .. n - 1 /\ DOMAIN b.result = 0 .. Size - 1
      BY <2>1 DEF BufferOf, Sized
    <2>3. 0 .. n - 1 = 0 .. b.size - 1 /\ b.size \in Nat \ {0}
      BY <2>1, <2>2, BufferAssumption
    <2> QED BY <1>1, <2>3 DEF CursorsInRing, InsertIndex
  <1>3. CASE which /= "buffer"
    <2>1. b.size = 0 \/ b.size = 1
      BY <1>3 DEF SizeFits
    <2> QED BY <1>1, <2>1 DEF CursorsInRing, InsertIndex
  <1> QED BY <1>2, <1>3

LEMMA InsertWellFormed ==
  ASSUME NEW n \in Nat \ {0}, NEW b \in Sized(n), CursorsInRing(b), SizeFits(b),
         NEW d \in Data
  PROVE  LET c == insert_buffer(b, d) IN
         c \in Sized(n) /\ CursorsInRing(c) /\ c.size = b.size
  <1> DEFINE i == InsertIndex(b)
             m == IF b.count + 1 > b.size THEN b.count ELSE b.count + 1
             r == [b.result EXCEPT ![i] = d]
             a == [b EXCEPT !.result = r, !.tail = i + 1, !.count = m]
  <1>1. i \in 0 .. n - 1 /\ (i + 1 <= b.size \/ i + 1 = 1)
    BY InReach
  <1>2. r \in [0 .. n - 1 -> Data]
    BY <1>1 DEF BufferOf, Sized
  <1>3. m \in Int
    <2>1. b.count \in Int /\ b.size \in Int
      BY DEF BufferOf, Sized
    <2> QED BY <2>1
  <1>4. i + 1 \in Nat
    BY <1>1
  <1>5. insert_buffer(b, d) = Up(a)
    BY DEF insert_buffer
  <1> HIDE DEF i, m, r
  <1>6. a \in Sized(n) /\ a.size = b.size
    BY <1>2, <1>3, <1>4 DEF BufferOf, Sized
  <1>7. CursorsInRing(a)
    BY <1>1, <1>4 DEF BufferOf, Sized, CursorsInRing
  <1> HIDE DEF a
  <1>8. CASE a.waiters = <<>>
    <2>1. a.sem + 1 \in Nat
      BY <1>6 DEF BufferOf, Sized
    <2> QED BY <1>5, <1>6, <1>7, <1>8, <2>1 DEF BufferOf, Up, Sized, CursorsInRing
  <1>9. CASE a.waiters /= <<>>
    <2>1. Tail(a.waiters) \in Seq(Procs)
      BY <1>6, <1>9 DEF BufferOf, Sized
    <2> QED BY <1>5, <1>6, <1>7, <1>9, <2>1 DEF BufferOf, Up, Sized, CursorsInRing
  <1> QED BY <1>8, <1>9

LEMMA ReadWellFormed ==
  ASSUME NEW n \in Nat \ {0}, NEW b \in Sized(n), CursorsInRing(b), SizeFits(b)
  PROVE  LET c == AfterRead(b) IN
         /\ ReadValue(b) \in Data
         /\ c \in Sized(n) /\ CursorsInRing(c) /\ c.size = b.size
  <1>1. ReadValue(b) \in Data
    BY InReach DEF BufferOf, ReadValue, Sized
  <1>2. /\ b.tail - 1 \in Int /\ b.count - 1 \in Int
        /\ b.head + 1 \in Nat /\ NoOne \in Procs \cup {NoOne}
    BY DEF BufferOf, Sized
  <1>3. CASE b.head + 1 >= b.size
    <2> DEFINE t == b.tail - 1
    <2>1. AfterRead(b) = [b EXCEPT !.head = 0, !.count = t, !.lock = NoOne]
      BY <1>3 DEF AfterRead
    <2>2. t \in Int
      BY <1>2
    <2> DEFINE c == [b EXCEPT !.head = 0, !.count = t, !.lock = NoOne]
    <2> HIDE DEF t
    <2>3. c \in Sized(n) /\ c.size = b.size /\ c.head = 0 /\ c.tail = b.tail
      BY <1>2, <2>2 DEF BufferOf, Sized
    <2>4. CursorsInRing(c)
      BY <2>3 DEF CursorsInRing
    <2> QED BY <1>1, <2>1, <2>3, <2>4
  <1>4. CASE ~ (b.head + 1 >= b.size)
    <2> DEFINE h == b.head + 1
               m == b.count - 1
    <2>1. AfterRead(b) = [b EXCEPT !.head = h, !.count = m, !.lock = NoOne]
      BY <1>4 DEF AfterRead
    <2>2. h \in Nat /\ m \in Int /\ h < b.size
      BY <1>2, <1>4 DEF BufferOf, Sized
    <2> DEFINE c == [b EXCEPT !.head = h, !.count = m, !.lock = NoOne]
    <2> HIDE DEF h, m
    <2>3. c \in Sized(n) /\ c.size = b.size /\ c.head = h /\ c.tail = b.tail
      BY <1>2, <2>2 DEF BufferOf, Sized
    <2>4. CursorsInRing(c)
      BY <2>2, <2>3 DEF CursorsInRing
    <2> QED BY <1>1, <2>1, <2>3, <2>4
  <1> QED BY <1>1, <1>3, <1>4

LEMMA ClearWellFormed ==
  ASSUME NEW n \in Nat \ {0}, NEW b \in Sized(n)
  PROVE  LET c == clear_buffer(b, 1) IN
         c \in Sized(n) /\ CursorsInRing(c) /\ c.size = b.size
  <1> DEFINE R == [0 .. n - 1 -> Data]
             r == [b.result EXCEPT ![0] = Stampless(b.result[0])]
             z == 0
             e == <<>>
             a == [b EXCEPT !.sem = z, !.waiters = e]
             c == [a EXCEPT !.tail = z, !.head = z, !.count = z, !.result = r]
  <1>1. r \in R
    <2>1. 0 \in 0 .. n - 1
      OBVIOUS
    <2> QED BY <2>1, BufferAssumption DEF Sized, BufferOf
  <1>2. z \in Nat /\ z \in Int /\ e \in Seq(Procs) /\ b \in BufferOf(R)
    BY DEF Sized
  <1>3. clear_buffer(b, 1) = c
    BY DEF clear_buffer, SemaInit
  <1> HIDE DEF r, z, e, R
  <1>4. c \in BufferOf(R) /\ c.size = b.size /\ c.head = z /\ c.tail = z
    BY <1>1, <1>2 DEF BufferOf
  <1>5. CursorsInRing(c)
    <2>1. c.size \in Nat
      BY <1>4 DEF BufferOf
    <2> QED BY <1>4, <2>1 DEF z, CursorsInRing
  <1> QED BY <1>3, <1>4, <1>5 DEF Sized, R

\* init_buffer, a section that a fault ends and a reader that goes to sleep do not
\* touch the array.
LEMMA InitWellFormed ==
  ASSUME NEW R, NEW b \in BufferOf(R), NEW s \in Nat
  PROVE  LET c == init_buffer(b, s) IN
         c \in BufferOf(R) /\ CursorsInRing(c) /\ c.size = s
  <1> DEFINE z == 0
             e == <<>>
             a == [b EXCEPT !.sem = z, !.waiters = e]
             c == [a EXCEPT !.tail = z, !.head = z, !.count = z, !.size = s,
                            !.lock = NoOne]
  <1>1. /\ z \in Nat /\ z \in Int /\ e \in Seq(Procs)
        /\ NoOne \in Procs \cup {NoOne}
    OBVIOUS
  <1>2. init_buffer(b, s) = c
    BY DEF init_buffer, SemaInit
  <1> HIDE DEF z, e
  <1>3. c \in BufferOf(R) /\ c.size = s /\ c.head = z /\ c.tail = z
    BY <1>1 DEF BufferOf
  <1>4. CursorsInRing(c)
    BY <1>3 DEF z, CursorsInRing
  <1> QED BY <1>2, <1>3, <1>4

LEMMA DiesWellFormed ==
  ASSUME NEW R, NEW b \in BufferOf(R), CursorsInRing(b), NEW c, NEW d,
         NEW l \in Procs \cup {NoOne}, c = [d EXCEPT !.lock = l],
         \/ d = b
         \/ d = [b EXCEPT !.sem = @ - 1] /\ b.sem > 0
         \/ d = [b EXCEPT !.tail = 0, !.head = 0, !.count = 0]
  PROVE  c \in BufferOf(R) /\ CursorsInRing(c) /\ c.size = b.size
  <1> DEFINE z == 0
  <1>0. z \in Nat /\ z \in Int
    OBVIOUS
  <1>1. /\ d \in BufferOf(R) /\ d.size = b.size
        /\ \/ d.head = b.head /\ d.tail = b.tail
           \/ d.head = z /\ d.tail = z
    <2>1. CASE d = b
      BY <2>1 DEF BufferOf
    <2>2. CASE d = [b EXCEPT !.sem = @ - 1] /\ b.sem > 0
      BY <2>2 DEF BufferOf
    <2>3. CASE d = [b EXCEPT !.tail = z, !.head = z, !.count = z]
      <3> HIDE DEF z
      <3> QED BY <1>0, <2>3 DEF BufferOf
    <2> QED BY <2>1, <2>2, <2>3
  <1> HIDE DEF z
  <1>2. c \in BufferOf(R) /\ c.size = d.size /\ c.head = d.head /\ c.tail = d.tail
    <2> DEFINE f(x) == [x EXCEPT !.lock = l]
    <2>1. \A x \in BufferOf(R) : /\ f(x) \in BufferOf(R) /\ f(x).size = x.size
                                 /\ f(x).head = x.head /\ f(x).tail = x.tail
      BY DEF BufferOf
    <2> QED BY <1>1, <2>1, Zenon
  <1>3. b.size \in Nat
    BY DEF BufferOf
  <1> QED BY <1>1, <1>2, <1>3 DEF z, CursorsInRing

LEMMA SleepWellFormed ==
  ASSUME NEW R, NEW b \in BufferOf(R), CursorsInRing(b), NEW p \in Procs
  PROVE  LET c == SleepIn(b, p) IN
         c \in BufferOf(R) /\ CursorsInRing(c) /\ c.size = b.size
  <1>1. Append(b.waiters, p) \in Seq(Procs)
    BY DEF BufferOf
  <1>2. SleepIn(b, p) \in BufferOf(R)
    BY <1>1 DEF SleepIn, BufferOf
  <1>3. LET c == SleepIn(b, p) IN
        c.size = b.size /\ c.head = b.head /\ c.tail = b.tail
    BY DEF SleepIn, BufferOf
  <1> QED BY <1>2, <1>3 DEF CursorsInRing

\* Both buffers are empty at first.
LEMMA InitEmpty ==
  Init => buf.head = 0 /\ buf.tail = 0 /\ buf.sem = 0 /\ buf.waiters = <<>>
  <1> SUFFICES ASSUME Init
               PROVE  buf.head = 0 /\ buf.tail = 0 /\ buf.sem = 0 /\ buf.waiters = <<>>
    OBVIOUS
  <1>1. CASE buf = Zeroed
    BY <1>1 DEF Zeroed
  <1>2. ASSUME NEW cells, buf = init_buffer(alloc_buffer(Zeroed, cells), Size)
        PROVE  buf.head = 0 /\ buf.tail = 0 /\ buf.sem = 0 /\ buf.waiters = <<>>
    <2>1. alloc_buffer(Zeroed, cells) \in BufferOf({cells})
      <3>1. Zeroed \in BufferOf({NoMemory})
        BY DEF Zeroed, BufferOf
      <3> QED BY <3>1 DEF alloc_buffer, BufferOf
    <2>2. ASSUME NEW b \in BufferOf({cells})
          PROVE  LET c == init_buffer(b, Size) IN
                 c.head = 0 /\ c.tail = 0 /\ c.sem = 0 /\ c.waiters = <<>>
      <3> DEFINE z == 0
                 e == <<>>
                 s == Size
                 a == [b EXCEPT !.sem = z, !.waiters = e]
                 c == [a EXCEPT !.tail = z, !.head = z, !.count = z, !.size = s,
                                !.lock = NoOne]
      <3>1. init_buffer(b, Size) = c
        BY DEF init_buffer, SemaInit
      <3> HIDE DEF z, e, s
      <3>2. c.head = z /\ c.tail = z /\ c.sem = z /\ c.waiters = e
        BY DEF BufferOf
      <3> QED BY <3>1, <3>2 DEF z, e
    <2> HIDE DEF BufferOf
    <2> QED BY <1>2, <2>1, <2>2
  <1> QED BY <1>1, <1>2 DEF Init

-----------------------------------------------------------------------------
(* The inductive invariant.                                                *)

LEMMA InitIInv == Init => IInv
  <1> SUFFICES ASSUME Init PROVE IInv
    OBVIOUS
  <1>1. Zeroed \in Arrayless
    BY DEF BufferOf, Zeroed, Arrayless
  <1>2. CASE which = "buffer"
    <2>1. PICK cells \in [0 .. Size - 1 -> Data] :
            buf = init_buffer(alloc_buffer(Zeroed, cells), Size)
      BY <1>2 DEF Init
    <2>2. alloc_buffer(Zeroed, cells) \in Sized(Size)
      BY <1>1 DEF BufferOf, alloc_buffer, Arrayless, Sized
    <2>3. buf \in Sized(Size) /\ CursorsInRing(buf) /\ buf.size = Size
      BY <2>1, <2>2, InitWellFormed, BufferAssumption DEF Sized
    <2> QED BY <1>2, <2>3, BufferAssumption
            DEF Init, IInv, TypeOK, Labels, Shaped, SizeFits
  <1>3. CASE which /= "buffer"
    <2>1. which = "all_samples" /\ buf = Zeroed
      BY <1>3 DEF Init
    <2>2. CursorsInRing(buf) /\ buf.size = 0
      BY <2>1 DEF Zeroed, CursorsInRing
    <2> QED BY <1>1, <1>3, <2>1, <2>2
            DEF Init, IInv, TypeOK, Labels, Shaped, SizeFits
  <1> QED BY <1>2, <1>3

\* What a step leaves when the new buffer has the old one's array and size.
LEMMA StaysFitting ==
  ASSUME IInv, NEW c, CursorsInRing(c), c.size = buf.size,
         \/ buf \in Arrayless /\ c \in Arrayless
         \/ \E n \in Nat \ {0} : buf \in Sized(n) /\ c \in Sized(n)
  PROVE  Shaped(c) /\ SizeFits(c)
  <1>1. Shaped(c)
    BY DEF Shaped
  <1>2. CASE which = "buffer"
    <2>1. buf \in Sized(Size) /\ buf.size = Size
      BY <1>2 DEF IInv, SizeFits
    <2>2. buf.result /= NoMemory
      BY <2>1, NoArray, BufferAssumption
    <2>3. PICK n \in Nat \ {0} : buf \in Sized(n) /\ c \in Sized(n)
      BY <2>2 DEF BufferOf, Arrayless
    <2>4. DOMAIN buf.result = 0 .. n - 1 /\ DOMAIN buf.result = 0 .. Size - 1
      BY <2>1, <2>3 DEF BufferOf, Sized
    <2>5. 0 .. n - 1 = 0 .. Size - 1
      BY <2>4
    <2>6. c \in Sized(Size)
      BY <2>3, <2>5 DEF BufferOf, Sized
    <2> QED BY <1>1, <1>2, <2>1, <2>6 DEF SizeFits
  <1>3. CASE which /= "buffer"
    BY <1>1, <1>3 DEF IInv, SizeFits
  <1> QED BY <1>2, <1>3

LEMMA DiesIInv ==
  ASSUME IInv, NEW p \in Procs, NEW d, Dies(p, d),
         \/ d = buf
         \/ d = [buf EXCEPT !.sem = @ - 1] /\ buf.sem > 0
         \/ d = [buf EXCEPT !.tail = 0, !.head = 0, !.count = 0]
  PROVE  IInv'
  <1> DEFINE l == IF SMP THEN p ELSE NoOne
  <1>1. buf' = [d EXCEPT !.lock = l] /\ l \in Procs \cup {NoOne}
    BY DEF Dies
  <1> HIDE DEF l
  <1>2. TypeOK /\ CursorsInRing(buf) /\ Shaped(buf)
    BY DEF IInv, TypeOK
  <1>3. ASSUME NEW R, buf \in BufferOf(R)
        PROVE  buf' \in BufferOf(R) /\ CursorsInRing(buf') /\ buf'.size = buf.size
    BY <1>1, <1>2, <1>3, DiesWellFormed
  <1>4. CursorsInRing(buf') /\ Shaped(buf') /\ SizeFits(buf')
    <2>1. /\ CursorsInRing(buf') /\ buf'.size = buf.size
          /\ \/ buf \in Arrayless /\ buf' \in Arrayless
             \/ \E n \in Nat \ {0} : buf \in Sized(n) /\ buf' \in Sized(n)
      BY <1>2, <1>3 DEF Shaped, Sized, Arrayless
    <2> QED BY <2>1, StaysFitting
  <1> QED BY <1>2, <1>4 DEF Dies, IInv, TypeOK, Labels, Shaped, SizeFits

LEMMA NextIInv == IInv /\ [Next]_vars => IInv'
  <1> SUFFICES ASSUME IInv, [Next]_vars PROVE IInv'
    OBVIOUS
  <1>0. TypeOK /\ CursorsInRing(buf) /\ SizeFits(buf) /\ Shaped(buf)
    BY DEF IInv, TypeOK
  <1>a. ASSUME which' = which, stores' \in Nat, pc' \in [Procs -> Labels],
               got' \in [Procs -> Data \cup {Nothing}], CursorsInRing(buf'),
               buf'.size = buf.size,
               NEW n \in Nat \ {0}, buf \in Sized(n), buf' \in Sized(n)
        PROVE  IInv'
    <2>1. Shaped(buf') /\ SizeFits(buf')
      BY <1>a, StaysFitting
    <2> QED BY <1>0, <1>a, <2>1 DEF IInv, TypeOK, Shaped, SizeFits
  <1>1. ASSUME NEW p \in Procs, ReadFifo(p) PROVE IInv'
    <2>1. CASE buf.result = NoMemory
      BY <1>1, <2>1, DiesIInv DEF ReadFifo
    <2>2. CASE buf.result /= NoMemory
      <3> DEFINE b == [buf EXCEPT !.sem = @ - 1]
      <3>1. PICK n \in Nat \ {0} : buf \in Sized(n)
        BY <1>0, <2>2, HasArray
      <3>2. /\ b \in Sized(n) /\ CursorsInRing(b) /\ b.size = buf.size
            /\ ReadValue(b) = ReadValue(buf)
        <4>1. /\ b \in Sized(n) /\ b.size = buf.size /\ b.result = buf.result
              /\ b.head = buf.head /\ b.tail = buf.tail
          <5>1. buf.sem - 1 \in Nat
            BY <1>1, <3>1 DEF BufferOf, ReadFifo, Sized
          <5> QED BY <3>1, <5>1 DEF BufferOf, Sized
        <4> QED BY <1>0, <4>1 DEF CursorsInRing, ReadValue
      <3>3. ReadNow(buf) = AfterRead(b)
        BY DEF ReadNow
      <3> HIDE DEF b
      <3>4. SizeFits(b)
        BY <3>1, <3>2, StaysFitting
      <3>5. /\ ReadValue(buf) \in Data
            /\ ReadNow(buf) \in Sized(n) /\ CursorsInRing(ReadNow(buf))
            /\ ReadNow(buf).size = buf.size
        BY <3>2, <3>3, <3>4, ReadWellFormed
      <3> QED BY <1>0, <1>1, <1>a, <2>2, <3>1, <3>5
              DEF ReadFifo, Takes, TypeOK, Labels
    <2> QED BY <2>1, <2>2
  <1>2. ASSUME NEW p \in Procs, ReadSleep(p) PROVE IInv'
    <2>1. /\ buf' = SleepIn(buf, p) /\ which' = which /\ stores' = stores
          /\ got' = got /\ pc' = [pc EXCEPT ![p] = "asleep"]
      BY <1>2 DEF ReadSleep
    <2>2. /\ CursorsInRing(buf') /\ buf'.size = buf.size
          /\ \/ buf \in Arrayless /\ buf' \in Arrayless
             \/ \E n \in Nat \ {0} : buf \in Sized(n) /\ buf' \in Sized(n)
      BY <1>0, <2>1, SleepWellFormed DEF Shaped, Sized, Arrayless
    <2>3. Shaped(buf') /\ SizeFits(buf')
      BY <2>2, StaysFitting
    <2> QED BY <1>0, <2>1, <2>2, <2>3 DEF IInv, TypeOK, Labels, Shaped, SizeFits
  <1>3. ASSUME NEW p \in Procs, ReadWoken(p) PROVE IInv'
    <2>1. CASE buf.result = NoMemory
      BY <1>3, <2>1, DiesIInv DEF ReadWoken
    <2>2. CASE buf.result /= NoMemory
      <3>1. PICK n \in Nat \ {0} : buf \in Sized(n)
        BY <1>0, <2>2, HasArray
      <3>2. /\ ReadValue(buf) \in Data
            /\ AfterRead(buf) \in Sized(n) /\ CursorsInRing(AfterRead(buf))
            /\ AfterRead(buf).size = buf.size
        BY <1>0, <3>1, ReadWellFormed
      <3> QED BY <1>0, <1>3, <1>a, <2>2, <3>1, <3>2
              DEF ReadWoken, Takes, TypeOK, Labels
    <2> QED BY <2>1, <2>2
  <1>4. ASSUME NEW d \in Data, Insert(d) PROVE IInv'
    <2>1. CASE buf.result = NoMemory
      <3>1. which' = which /\ buf' = buf /\ pc' = pc /\ got' = got /\ stores' = stores
        BY <1>4, <2>1 DEF Insert
      <3> QED BY <1>0, <3>1 DEF IInv, TypeOK, Shaped, SizeFits
    <2>2. CASE buf.result /= NoMemory
      <3>1. PICK n \in Nat \ {0} : buf \in Sized(n)
        BY <1>0, <2>2, HasArray
      <3>2. /\ insert_buffer(buf, d) \in Sized(n)
            /\ CursorsInRing(insert_buffer(buf, d))
            /\ insert_buffer(buf, d).size = buf.size
        BY <1>0, <3>1, InsertWellFormed
      <3> QED BY <1>0, <1>4, <1>a, <2>2, <3>1, <3>2 DEF Insert, TypeOK, Labels
    <2> QED BY <2>1, <2>2
  <1>5. ASSUME NEW p \in Procs, Clear(p, 1) PROVE IInv'
    <2>1. CASE MemsetFaults(buf, 1)
      BY <1>5, <2>1, DiesIInv DEF Clear
    <2>2. CASE ~ MemsetFaults(buf, 1)
      <3>1. PICK n \in Nat \ {0} : buf \in Sized(n)
        BY <1>0, <2>2, HasArray DEF MemsetFaults
      <3>2. /\ clear_buffer(buf, 1) \in Sized(n)
            /\ CursorsInRing(clear_buffer(buf, 1))
            /\ clear_buffer(buf, 1).size = buf.size
        BY <3>1, ClearWellFormed
      <3> QED BY <1>0, <1>5, <1>a, <2>2, <3>1, <3>2 DEF Clear, TypeOK
    <2> QED BY <2>1, <2>2
  <1>6. ASSUME NEW cells \in Arrays, AllocSamples(cells) PROVE IInv'
    <2>1. /\ which = "all_samples" /\ which' = which
          /\ buf' = [buf EXCEPT !.result = cells]
          /\ pc' = pc /\ got' = got /\ stores' \in Nat
      BY <1>0, <1>6 DEF AllocSamples, alloc_buffer, TypeOK
    <2>2. cells = NoMemory \/ \E n \in Nat \ {0} : cells \in [0 .. n - 1 -> Data]
      BY BufferAssumption DEF Arrays
    <2>3. Shaped(buf')
      BY <1>0, <2>1, <2>2 DEF BufferOf, Shaped, Sized, Arrayless
    <2>4. CursorsInRing(buf') /\ buf'.size = buf.size
      BY <1>0, <2>1 DEF BufferOf, Shaped, Sized, Arrayless, CursorsInRing
    <2> QED BY <1>0, <2>1, <2>3, <2>4 DEF IInv, TypeOK, SizeFits, Shaped
  <1>7. CASE InitSamples
    <2>1. /\ which' = which /\ buf' = init_buffer(buf, 1)
          /\ pc' = pc /\ got' = got /\ stores' \in Nat
      BY <1>0, <1>7 DEF InitSamples, TypeOK
    <2>2. Shaped(buf') /\ CursorsInRing(buf') /\ buf'.size = 1
      BY <1>0, <2>1, InitWellFormed DEF Shaped, Sized, Arrayless
    <2>3. CASE which = "all_samples"
      BY <1>0, <2>1, <2>2, <2>3 DEF IInv, TypeOK, SizeFits, Shaped
    <2>4. CASE which = "buffer"
      BY <1>7, <2>4 DEF InitSamples
    <2> QED BY <1>0, <2>3, <2>4 DEF TypeOK
  <1>8. CASE UNCHANGED vars
    BY <1>8 DEF vars, IInv, TypeOK, SizeFits, Shaped
  <1> QED
    BY <1>1, <1>2, <1>3, <1>4, <1>5, <1>6, <1>7, <1>8 DEF Next

\* No operation of buffer.h leaves the array, however many elements it has, in
\* the ring and in all_samples, whatever was reallocated under whom.
THEOREM MemorySafe == Spec => []IndexInBounds
  <1>1. IInv => IndexInBounds
    <2> SUFFICES ASSUME IInv, buf.result /= NoMemory
                 PROVE  {buf.head, InsertIndex(buf)} \subseteq DOMAIN buf.result
      BY DEF IndexInBounds
    <2>1. PICK n \in Nat \ {0} : buf \in Sized(n)
      BY HasArray DEF IInv, TypeOK
    <2>2. buf.head \in 0 .. n - 1 /\ InsertIndex(buf) \in 0 .. n - 1
      BY <2>1, InReach DEF IInv
    <2> QED BY <2>1, <2>2 DEF BufferOf, Sized
  <1> QED BY InitIInv, NextIInv, <1>1, PTL DEF Spec

-----------------------------------------------------------------------------
(***************************************************************************)
(* Sleeping under a spin lock on SMP.  The wait list can only be non-empty *)
(* while its only member holds the lock, so whoever gets the lock, the     *)
(* inserter included, finds nobody to wake.                                *)
(***************************************************************************)
SmpInv ==
  SMP => /\ Unlocked(buf) => buf.waiters = <<>>
         /\ \A p \in Procs : pc[p] /= "woken"

LEMMA InitSmpInv == Init => SmpInv
  BY InitEmpty DEF Init, SmpInv

LEMMA NextSmpInv == IInv /\ SmpInv /\ [Next]_vars => SmpInv'
  <1> SUFFICES ASSUME IInv, SmpInv, SMP, [Next]_vars PROVE SmpInv'
    BY BuildAssumption DEF SmpInv
  <1> USE DEF SmpInv, Unlocked
  <1>0. /\ \E R : buf \in BufferOf(R)
        /\ pc \in [Procs -> Labels]
    BY DEF IInv, TypeOK, Shaped, Sized, Arrayless
  <1>1. ASSUME NEW p \in Procs, ReadFifo(p) PROVE SmpInv'
    BY <1>0, <1>1, BufferAssumption DEF ReadFifo, Dies, Takes, ReadNow, AfterRead, BufferOf
  <1>2. ASSUME NEW p \in Procs, ReadSleep(p) PROVE SmpInv'
    BY <1>0, <1>2, BufferAssumption DEF ReadSleep, SleepIn, BufferOf
  <1>3. ASSUME NEW p \in Procs, ReadWoken(p) PROVE SmpInv'
    BY <1>3 DEF ReadWoken
  <1>4. ASSUME NEW d \in Data, Insert(d) PROVE SmpInv'
    BY <1>0, <1>4 DEF Insert, insert_buffer, Up, WokenBy, BufferOf
  <1>5. ASSUME NEW p \in Procs, Clear(p, 1) PROVE SmpInv'
    BY <1>0, <1>5, BufferAssumption DEF Dies, Clear, clear_buffer, SemaInit, BufferOf
  <1>6. ASSUME NEW cells \in Arrays, AllocSamples(cells) PROVE SmpInv'
    BY <1>0, <1>6 DEF AllocSamples, alloc_buffer, BufferOf
  <1>7. CASE InitSamples
    BY <1>0, <1>7 DEF InitSamples, init_buffer, SemaInit, BufferOf
  <1>8. CASE UNCHANGED vars
    BY <1>8 DEF vars
  <1> QED
    BY <1>1, <1>2, <1>3, <1>4, <1>5, <1>6, <1>7, <1>8 DEF Next

\* On SMP read_fifo never comes back from down(): the wait for the first
\* measurement is a wait for ever, because the spin lock it holds is the one
\* that insert_buffer needs.
THEOREM SleepersStay == Spec => SleepIsForever
  <1> DEFINE Stay == SMP => \A p \in Procs :
                       pc[p] = "asleep" => pc'[p] = "asleep"
  <1>1. IInv /\ SmpInv /\ [Next]_vars => [Stay]_vars
    <2> SUFFICES ASSUME IInv, SmpInv, [Next]_vars, SMP,
                        NEW q \in Procs, pc[q] = "asleep"
                 PROVE  pc'[q] = "asleep"
      BY BuildAssumption
    <2>1. pc \in [Procs -> Labels]
      BY DEF IInv, TypeOK
    <2>2. ASSUME NEW p \in Procs, ReadFifo(p) \/ ReadSleep(p) \/ ReadWoken(p)
          PROVE  pc'[q] = "asleep"
      BY <2>1, <2>2 DEF ReadFifo, ReadSleep, ReadWoken, Dies, Takes
    <2>3. ASSUME NEW d \in Data, Insert(d) PROVE pc'[q] = "asleep"
      BY <2>3 DEF Insert, WokenBy, SmpInv
    <2>4. ASSUME NEW p \in Procs, Clear(p, 1) PROVE pc'[q] = "asleep"
      BY <2>1, <2>4 DEF Clear, Dies
    <2>5. CASE \/ InitSamples \/ UNCHANGED vars
               \/ \E cells \in Arrays : AllocSamples(cells)
      BY <2>5 DEF InitSamples, AllocSamples, vars
    <2> QED BY <2>2, <2>3, <2>4, <2>5 DEF Next
  <1> QED
    BY InitIInv, NextIInv, InitSmpInv, NextSmpInv, <1>1, PTL
    DEF Spec, SleepIsForever

-----------------------------------------------------------------------------
(***************************************************************************)
(* Under the discipline the buffer is a queue.  The wait list is the       *)
(* sleepers, each once, so that up() wakes a reader that is not awake, and *)
(* what is outstanding lies between the cursors.                           *)
(***************************************************************************)
ListInv ==
  /\ \A i \in DOMAIN buf.waiters : pc[buf.waiters[i]] = "asleep"
  /\ \A i, j \in DOMAIN buf.waiters : buf.waiters[i] = buf.waiters[j] => i = j
  /\ \A p \in Procs : pc[p] = "asleep" =>
       \E i \in DOMAIN buf.waiters : buf.waiters[i] = p

\* The element k places after h, around the end of the ring.
Place(h, k) == IF h + k < Size THEN h + k ELSE h + k - Size

RingInv ==
  /\ IsFiniteSet(Woken)
  /\ Outstanding <= Size
  /\ Size > 0 => InsertIndex(buf) = Place(buf.head, Outstanding)

RingIInv == IInv /\ which = "buffer"

QueueInv == RingIInv /\ ListInv /\ RingInv

\* The types of the ring, whose array has just its size: no access to it faults.
Ring == [0 .. Size - 1 -> Data]

Rings == [result : Ring, head : 0 .. Size - 1, tail : 0 .. Size, size : {Size},
          count : Int, sem : Nat, waiters : Seq(Procs), lock : Procs \cup {NoOne}]

RingTypeOK ==
  /\ buf \in Rings /\ buf.result /= NoMemory
  /\ pc \in [Procs -> Labels]
  /\ got \in [Procs -> Data \cup {Nothing}]

LEMMA RingTypes == RingIInv => RingTypeOK
  <1> SUFFICES ASSUME RingIInv PROVE RingTypeOK
    OBVIOUS
  <1>1. buf \in Sized(Size) /\ buf.size = Size /\ CursorsInRing(buf)
    BY DEF RingIInv, IInv, SizeFits
  <1>2. buf.head \in 0 .. Size - 1 /\ buf.tail \in 0 .. Size /\ buf.size \in {Size}
    BY <1>1, BufferAssumption DEF Sized, BufferOf, CursorsInRing
  <1>3. buf \in Rings
    BY <1>1, <1>2 DEF Sized, BufferOf, Ring, Rings
  <1> QED BY <1>1, <1>3, NoArray, BufferAssumption DEF RingIInv, IInv, TypeOK, RingTypeOK

LEMMA DisciplinedIsNext == [DisciplinedNext]_vars => [Next]_vars
  BY DEF DisciplinedNext, Next

\* The ring stays the ring: which of the two buffers it is does not change.
LEMMA NextRingIInv == RingIInv /\ [DisciplinedNext]_vars => RingIInv'
  <1>1. [DisciplinedNext]_vars => which' = which
    BY DEF DisciplinedNext, ReadFifo, ReadSleep, ReadWoken, Insert, Clear, Dies,
           Takes, vars
  <1> QED BY <1>1, DisciplinedIsNext, NextIInv DEF RingIInv

LEMMA RingTypesNext == RingIInv' => RingTypeOK'
  BY RingTypes, PTL

\* What the functions of buffer.h do to the fields that the queue is made of.
LEMMA InsertFields ==
  ASSUME NEW b \in Rings, NEW d \in Data
  PROVE  LET c == insert_buffer(b, d) IN
         /\ c.head = b.head /\ c.size = b.size
         /\ c.tail = InsertIndex(b) + 1
         /\ c.result = [b.result EXCEPT ![InsertIndex(b)] = d]
         /\ b.waiters = <<>> => c.sem = b.sem + 1 /\ c.waiters = <<>>
         /\ b.waiters /= <<>> => c.sem = b.sem /\ c.waiters = Tail(b.waiters)
  <1> DEFINE i == InsertIndex(b)
             t == i + 1
             r == [b.result EXCEPT ![i] = d]
             n == IF b.count + 1 > b.size THEN b.count ELSE b.count + 1
             a == [b EXCEPT !.result = r, !.tail = t, !.count = n]
  <1>1. insert_buffer(b, d) = Up(a)
    BY DEF insert_buffer
  <1> HIDE DEF i, t, r, n
  <1>2. /\ a.head = b.head /\ a.size = b.size /\ a.tail = t /\ a.result = r
        /\ a.sem = b.sem /\ a.waiters = b.waiters
        /\ a \in [result : {r}, head : {b.head}, tail : {t}, size : {b.size},
                  count : {n}, sem : {b.sem}, waiters : {b.waiters}, lock : {b.lock}]
    BY DEF Rings
  <1> HIDE DEF a
  <1>3. LET c == Up(a) IN
        /\ c.head = b.head /\ c.size = b.size /\ c.tail = t /\ c.result = r
        /\ b.waiters = <<>> => c.sem = b.sem + 1 /\ c.waiters = <<>>
        /\ b.waiters /= <<>> => c.sem = b.sem /\ c.waiters = Tail(b.waiters)
    BY <1>2 DEF Up
  <1> QED BY <1>1, <1>3 DEF t, r, i

LEMMA ReadFields ==
  ASSUME NEW b \in Rings
  PROVE  LET c == AfterRead(b) IN
         /\ c.result = b.result /\ c.tail = b.tail /\ c.size = b.size
         /\ c.sem = b.sem /\ c.waiters = b.waiters
         /\ c.head = IF b.head + 1 >= b.size THEN 0 ELSE b.head + 1
  BY DEF AfterRead, Rings

LEMMA ReadNowFields ==
  ASSUME NEW b \in Rings, b.sem > 0
  PROVE  LET c == ReadNow(b) IN
         /\ c.result = b.result /\ c.tail = b.tail /\ c.size = b.size
         /\ c.sem = b.sem - 1 /\ c.waiters = b.waiters
         /\ c.head = IF b.head + 1 >= b.size THEN 0 ELSE b.head + 1
  <1> DEFINE a == [b EXCEPT !.sem = @ - 1]
  <1>1. a \in Rings
    BY DEF Rings
  <1>2. /\ a.result = b.result /\ a.tail = b.tail /\ a.size = b.size
        /\ a.sem = b.sem - 1 /\ a.waiters = b.waiters /\ a.head = b.head
    BY DEF Rings
  <1>3. ReadNow(b) = AfterRead(a)
    BY DEF ReadNow
  <1> HIDE DEF a
  <1> QED BY <1>1, <1>2, <1>3, ReadFields

LEMMA SleepFields ==
  ASSUME NEW b \in Rings, NEW p
  PROVE  LET c == SleepIn(b, p) IN
         /\ c.result = b.result /\ c.head = b.head /\ c.tail = b.tail
         /\ c.size = b.size /\ c.sem = b.sem /\ c.waiters = Append(b.waiters, p)
  BY DEF SleepIn, Rings

LEMMA ClearFields ==
  ASSUME NEW b \in Rings
  PROVE  LET c == clear_buffer(b, 1) IN
         /\ c.head = 0 /\ c.tail = 0 /\ c.size = b.size
         /\ c.sem = 0 /\ c.waiters = <<>>
  BY DEF clear_buffer, SemaInit, Rings

\* So a clear while nobody is inside read_fifo leaves the buffer as init_buffer
\* does: empty, with nobody on its list.
Fresh == Idle /\ buf.head = 0 /\ buf.tail = 0 /\ buf.sem = 0 /\ buf.waiters = <<>>

LEMMA InitFresh == Init => Fresh
  BY InitEmpty DEF Init, Fresh, Idle

LEMMA ClearFresh ==
  ASSUME RingTypeOK, Idle, NEW p \in Procs, Clear(p, 1)
  PROVE  Fresh'
  BY ClearFields DEF RingTypeOK, Clear, MemsetFaults, Idle, Fresh

-----------------------------------------------------------------------------
(* The wait list.                                                          *)

LEMMA ReadList ==
  ASSUME RingTypeOK, ListInv, NEW p \in Procs, ReadFifo(p) \/ ReadWoken(p)
  PROVE  ListInv'
  <1>1. buf'.waiters = buf.waiters
    <2>1. CASE ReadFifo(p)
      BY <2>1, ReadNowFields DEF RingTypeOK, ReadFifo, Takes
    <2>2. CASE ReadWoken(p)
      BY <2>2, ReadFields DEF RingTypeOK, ReadWoken, Takes
    <2> QED BY <2>1, <2>2
  <1>2. \A q \in Procs : pc[q] = "asleep" <=> pc'[q] = "asleep"
    BY DEF ReadFifo, ReadWoken, Takes, RingTypeOK
  <1>3. \A i \in DOMAIN buf.waiters : buf.waiters[i] \in Procs
    BY DEF RingTypeOK, Rings
  <1> QED BY <1>1, <1>2, <1>3 DEF ListInv

LEMMA SleepList ==
  ASSUME RingTypeOK, ListInv, NEW p \in Procs, ReadSleep(p)
  PROVE  ListInv'
  <1> DEFINE w == buf.waiters
  <1>1. buf'.waiters = Append(w, p) /\ w \in Seq(Procs)
    BY SleepFields DEF RingTypeOK, ReadSleep, Rings
  <1>2. /\ pc'[p] = "asleep" /\ pc[p] = "idle"
        /\ \A q \in Procs : q /= p => pc'[q] = pc[q]
    BY DEF RingTypeOK, ReadSleep
  <1>3. /\ \A i \in DOMAIN w : w[i] \in Procs /\ pc[w[i]] = "asleep"
        /\ \A i, j \in DOMAIN w : w[i] = w[j] => i = j
        /\ \A q \in Procs : pc[q] = "asleep" => \E i \in DOMAIN w : w[i] = q
    BY <1>1 DEF ListInv
  <1> HIDE DEF w
  <1> DEFINE v == Append(w, p)
  <1>4. /\ Len(w) \in Nat /\ DOMAIN w = 1 .. Len(w)
        /\ DOMAIN v = 1 .. Len(w) + 1
        /\ \A i \in DOMAIN w : v[i] = w[i]
        /\ v[Len(w) + 1] = p
    BY <1>1
  <1> HIDE DEF v
  <1>5. \A i \in DOMAIN v : i \in DOMAIN w \/ i = Len(w) + 1
    BY <1>4
  <1>6. DOMAIN w \subseteq DOMAIN v /\ Len(w) + 1 \in DOMAIN v
    BY <1>4
  <1>7. \A i \in DOMAIN v : pc'[v[i]] = "asleep"
    BY <1>2, <1>3, <1>4, <1>5
  <1>8. \A i, j \in DOMAIN v : v[i] = v[j] => i = j
    BY <1>2, <1>3, <1>4, <1>5
  <1>9. \A q \in Procs : pc'[q] = "asleep" => \E i \in DOMAIN v : v[i] = q
    BY <1>2, <1>3, <1>4, <1>6
  <1>10. buf'.waiters = v
    BY <1>1 DEF v
  <1> QED BY <1>7, <1>8, <1>9, <1>10 DEF ListInv

\* up() takes the first sleeper off the list and wakes it.
LEMMA InsertList ==
  ASSUME RingTypeOK, ListInv, NEW d \in Data, Insert(d)
  PROVE  ListInv'
  <1> DEFINE w == buf.waiters
  <1>0. w \in Seq(Procs) /\ pc \in [Procs -> Labels]
    BY DEF RingTypeOK, Rings
  <1>1. CASE w = <<>>
    <2>1. buf'.waiters = w
      BY <1>1, InsertFields DEF RingTypeOK, Insert
    <2>2. pc' = pc
      BY <1>0, <1>1 DEF Insert, WokenBy
    <2> QED BY <2>1, <2>2 DEF ListInv
  <1>2. CASE w /= <<>>
    <2>1. buf'.waiters = Tail(w)
      BY <1>2, InsertFields DEF RingTypeOK, Insert
    <2>2. \A q \in Procs : pc'[q] = IF q = Head(w) THEN "woken" ELSE pc[q]
      BY <1>2 DEF RingTypeOK, Insert, WokenBy
    <2>3. /\ \A i \in DOMAIN w : w[i] \in Procs /\ pc[w[i]] = "asleep"
          /\ \A i, j \in DOMAIN w : w[i] = w[j] => i = j
          /\ \A q \in Procs : pc[q] = "asleep" => \E i \in DOMAIN w : w[i] = q
      BY <1>0 DEF ListInv
    <2> HIDE DEF w
    <2> DEFINE v == Tail(w)
    <2>4. /\ Len(w) \in Nat \ {0} /\ DOMAIN w = 1 .. Len(w) /\ Head(w) = w[1]
          /\ DOMAIN v = 1 .. Len(w) - 1
          /\ \A i \in 1 .. Len(w) - 1 : v[i] = w[i + 1]
      BY <1>0, <1>2
    <2> HIDE DEF v
    <2>5. \A i \in DOMAIN v :
            i \in Int /\ i + 1 \in DOMAIN w /\ v[i] = w[i + 1] /\ i + 1 /= 1
      BY <2>4
    <2>6. \A i \in DOMAIN w : i /= 1 => \E j \in DOMAIN v : v[j] = w[i]
      <3> SUFFICES ASSUME NEW i \in DOMAIN w, i /= 1
                   PROVE  \E j \in DOMAIN v : v[j] = w[i]
        OBVIOUS
      <3>1. i - 1 \in DOMAIN v /\ (i - 1) + 1 = i
        BY <2>4
      <3> QED BY <2>5, <3>1
    <2>7. \A i \in DOMAIN v : pc'[v[i]] = "asleep"
      <3> SUFFICES ASSUME NEW i \in DOMAIN v PROVE pc'[v[i]] = "asleep"
        OBVIOUS
      <3>1. v[i] \in Procs /\ pc[v[i]] = "asleep" /\ v[i] /= w[1]
        BY <2>3, <2>4, <2>5
      <3> QED BY <2>2, <2>4, <3>1
    <2>8. \A i, j \in DOMAIN v : v[i] = v[j] => i = j
      <3> SUFFICES ASSUME NEW i \in DOMAIN v, NEW j \in DOMAIN v, v[i] = v[j]
                   PROVE  i = j
        OBVIOUS
      <3>1. i + 1 = j + 1 /\ i \in Int /\ j \in Int
        BY <2>3, <2>5
      <3> QED BY <3>1
    <2>9. \A q \in Procs : pc'[q] = "asleep" => \E i \in DOMAIN v : v[i] = q
      <3> SUFFICES ASSUME NEW q \in Procs, pc'[q] = "asleep"
                   PROVE  \E i \in DOMAIN v : v[i] = q
        OBVIOUS
      <3>1. q /= w[1] /\ pc[q] = "asleep"
        BY <2>2, <2>4
      <3> QED BY <2>3, <2>6, <3>1
    <2>10. buf'.waiters = v
      BY <2>1 DEF v
    <2> QED BY <2>7, <2>8, <2>9, <2>10 DEF ListInv
  <1> QED BY <1>1, <1>2

-----------------------------------------------------------------------------
(* The elements between the cursors.                                       *)

\* Going one place on, from either end.
LEMMA PlaceAfter ==
  ASSUME NEW h \in 0 .. Size - 1, NEW k \in 0 .. Size - 1
  PROVE  LET i == Place(h, k) IN
         /\ i \in 0 .. Size - 1
         /\ Place(h, k + 1) = IF i + 1 >= Size THEN 0 ELSE i + 1
         /\ \A j \in 0 .. k - 1 : Place(h, j) /= i
  BY BufferAssumption DEF Place

LEMMA PlaceFrom ==
  ASSUME NEW h \in 0 .. Size - 1, NEW j \in 0 .. Size - 1
  PROVE  LET g == IF h + 1 >= Size THEN 0 ELSE h + 1 IN
         g \in 0 .. Size - 1 /\ Place(g, j) = Place(h, j + 1)
  BY BufferAssumption DEF Place

\* n elements of the array r, from place h.
Between(r, h, n) == [i \in 1 .. n |-> r[Place(h, i - 1)]]

LEMMA ContentsBetween ==
  ASSUME NEW b \in Rings, NEW n
  PROVE  [i \in 1 .. n |->
            b.result[IF b.head + i - 1 < Size THEN b.head + i - 1
                                              ELSE b.head + i - 1 - Size]]
           = Between(b.result, b.head, n)
  <1>1. b.head \in Int /\ Size \in Int
    BY BufferAssumption DEF Rings
  <1>2. ASSUME NEW i \in 1 .. n
        PROVE  (IF b.head + i - 1 < Size THEN b.head + i - 1
                                         ELSE b.head + i - 1 - Size)
                 = Place(b.head, i - 1)
    BY <1>1 DEF Place
  <1> QED BY <1>2 DEF Between

LEMMA BetweenSeq ==
  ASSUME NEW r \in Ring, NEW h \in 0 .. Size - 1, NEW n \in 0 .. Size
  PROVE  /\ Between(r, h, n) \in [1 .. n -> Data]
         /\ Between(r, h, n) \in Seq(Data)
         /\ Len(Between(r, h, n)) = n
  <1> DEFINE s == Between(r, h, n)
  <1>1. ASSUME NEW i \in 1 .. n
        PROVE  r[Place(h, i - 1)] \in Data
    <2>1. i - 1 \in 0 .. Size - 1
      BY BufferAssumption
    <2>2. Place(h, i - 1) \in 0 .. Size - 1
      BY <2>1, PlaceAfter, BufferAssumption
    <2> QED BY <2>2 DEF Ring
  <1>2. s \in [1 .. n -> Data] /\ n \in Nat
    BY <1>1, BufferAssumption DEF Between
  <1> HIDE DEF s
  <1>3. s \in Seq(Data) /\ Len(s) = n
    BY <1>2
  <1> QED BY <1>2, <1>3 DEF s

LEMMA BetweenNothing == \A r, h : Between(r, h, 0) = <<>>
  BY DEF Between

\* Taking the first away.
LEMMA BetweenTail ==
  ASSUME NEW r \in Ring, NEW h \in 0 .. Size - 1, NEW n \in 1 .. Size,
         NEW g, g = IF h + 1 >= Size THEN 0 ELSE h + 1
  PROVE  /\ Between(r, h, n) /= <<>>
         /\ Head(Between(r, h, n)) = r[h]
         /\ Between(r, g, n - 1) = Tail(Between(r, h, n))
  <1> DEFINE s == Between(r, h, n)
             t == Between(r, g, n - 1)
  <1>0. n \in 0 .. Size /\ n - 1 \in 0 .. Size /\ n \in Nat /\ Size \in Nat
    BY BufferAssumption
  <1>1. g \in 0 .. Size - 1
    BY <1>0, BufferAssumption
  <1>2. s \in Seq(Data) /\ Len(s) = n
    BY <1>0, BetweenSeq
  <1>3. t \in Seq(Data) /\ Len(t) = n - 1
    BY <1>0, <1>1, BetweenSeq
  <1>4. s[1] = r[h]
    <2>1. Place(h, 0) = h
      BY <1>0 DEF Place
    <2>2. 1 \in 1 .. n /\ s[1] = r[Place(h, 1 - 1)]
      BY <1>0 DEF Between
    <2> QED BY <2>1, <2>2
  <1>5. ASSUME NEW i \in 1 .. n - 1
        PROVE  t[i] = s[i + 1]
    <2>1. i - 1 \in 0 .. Size - 1 /\ i + 1 \in 1 .. n /\ (i + 1) - 1 = (i - 1) + 1
      BY <1>0
    <2>2. Place(g, i - 1) = Place(h, (i - 1) + 1)
      BY <2>1, PlaceFrom
    <2> QED BY <2>1, <2>2 DEF Between
  <1> HIDE DEF s, t
  <1>6. s /= <<>> /\ Head(s) = s[1]
    BY <1>0, <1>2
  <1>7. /\ Tail(s) \in Seq(Data) /\ Len(Tail(s)) = n - 1
        /\ \A i \in 1 .. n - 1 : Tail(s)[i] = s[i + 1]
    BY <1>2, <1>6, HeadTailProperties
  <1>8. \A i \in 1 .. Len(t) : t[i] = Tail(s)[i]
    BY <1>3, <1>5, <1>7
  <1>9. t = Tail(s)
    BY <1>3, <1>7, <1>8, SeqEqual
  <1> QED BY <1>4, <1>6, <1>9 DEF s, t

\* Adding one at the end, where there is none yet.
LEMMA BetweenAppend ==
  ASSUME NEW r \in Ring, NEW h \in 0 .. Size - 1, NEW n \in 0 .. Size - 1,
         NEW d \in Data, NEW q, q = [r EXCEPT ![Place(h, n)] = d]
  PROVE  Between(q, h, n + 1) = Append(Between(r, h, n), d)
  <1> DEFINE s == Between(r, h, n)
             t == Between(q, h, n + 1)
             i == Place(h, n)
  <1>0. n \in 0 .. Size /\ n + 1 \in 0 .. Size /\ n \in Nat /\ Size \in Nat
    BY BufferAssumption
  <1>1. i \in 0 .. Size - 1
    BY PlaceAfter, BufferAssumption
  <1>2. q \in Ring /\ q[i] = d /\ \A j \in 0 .. Size - 1 : j /= i => q[j] = r[j]
    BY <1>1 DEF Ring
  <1>3. s \in Seq(Data) /\ Len(s) = n
    BY <1>0, BetweenSeq
  <1>4. t \in Seq(Data) /\ Len(t) = n + 1
    BY <1>0, <1>2, BetweenSeq
  <1>5. t[n + 1] = d
    <2>1. n + 1 \in 1 .. n + 1 /\ (n + 1) - 1 = n
      BY <1>0
    <2>2. t[n + 1] = q[Place(h, (n + 1) - 1)]
      BY <2>1 DEF Between
    <2> QED BY <1>2, <2>1, <2>2
  <1>6. ASSUME NEW j \in 1 .. n
        PROVE  t[j] = s[j]
    <2>1. j - 1 \in 0 .. n - 1 /\ j - 1 \in 0 .. Size - 1 /\ j \in 1 .. n + 1
      BY <1>0
    <2>2. Place(h, j - 1) /= i
      BY <2>1, PlaceAfter
    <2>3. Place(h, j - 1) \in 0 .. Size - 1
      <3>1. Place(h, j - 1) \in 0 .. Size - 1
        BY <2>1, PlaceAfter
      <3> QED BY <1>0, <3>1, BufferAssumption
    <2>4. q[Place(h, j - 1)] = r[Place(h, j - 1)]
      BY <1>2, <2>2, <2>3
    <2> QED BY <2>1, <2>4 DEF Between
  <1> HIDE DEF s, t
  <1>7. /\ Append(s, d) \in Seq(Data) /\ Len(Append(s, d)) = n + 1
        /\ \A j \in 1 .. n : Append(s, d)[j] = s[j]
        /\ Append(s, d)[n + 1] = d
    BY <1>3, AppendProperties
  <1>8. \A j \in 1 .. Len(t) : t[j] = Append(s, d)[j]
    <2> SUFFICES ASSUME NEW j \in 1 .. n + 1 PROVE t[j] = Append(s, d)[j]
      BY <1>4
    <2>1. j \in 1 .. n \/ j = n + 1
      BY <1>0
    <2> QED BY <1>5, <1>6, <1>7, <2>1
  <1>9. t = Append(s, d)
    BY <1>4, <1>7, <1>8, SeqEqual
  <1> QED BY <1>9 DEF s, t

-----------------------------------------------------------------------------
(* The steps, on the elements outstanding.                                 *)

LEMMA OutstandingType ==
  ASSUME RingTypeOK, RingInv
  PROVE  /\ Outstanding \in Nat /\ Cardinality(Woken) \in Nat /\ buf.sem \in Nat
         /\ buf.head \in Nat /\ buf.tail \in Nat /\ buf.size = Size /\ Size \in Nat
  <1>1. Cardinality(Woken) \in Nat
    BY FS_CardinalityType DEF RingInv
  <1>2. buf.sem \in Nat /\ buf.head \in Nat /\ buf.tail \in Nat /\ buf.size = Size
    BY BufferAssumption DEF RingTypeOK, Rings
  <1>3. Outstanding \in Nat
    BY <1>1, <1>2 DEF Outstanding
  <1> QED BY <1>1, <1>2, <1>3, BufferAssumption

\* A read takes the oldest: one of the semaphore's units, or the reader's own.
LEMMA ReadTakesOne ==
  ASSUME RingTypeOK, RingInv, NEW p \in Procs, ReadFifo(p) \/ ReadWoken(p)
  PROVE  /\ IsFiniteSet(Woken)' /\ Outstanding >= 1 /\ Outstanding' = Outstanding - 1
         /\ buf'.result = buf.result /\ buf'.tail = buf.tail /\ buf'.size = buf.size
         /\ buf'.head = IF buf.head + 1 >= buf.size THEN 0 ELSE buf.head + 1
         /\ got' = [got EXCEPT ![p] = buf.result[buf.head]]
  <1>0. buf \in Rings /\ IsFiniteSet(Woken)
    BY DEF RingTypeOK, RingInv
  <1>1. CASE ReadFifo(p)
    <2>1. /\ buf'.result = buf.result /\ buf'.tail = buf.tail /\ buf'.size = buf.size
          /\ buf'.head = IF buf.head + 1 >= buf.size THEN 0 ELSE buf.head + 1
          /\ buf'.sem = buf.sem - 1 /\ buf.sem > 0
      BY <1>0, <1>1, ReadNowFields DEF ReadFifo, Takes, RingTypeOK
    <2>2. Woken' = Woken
      BY <1>1 DEF ReadFifo, Takes, Woken, RingTypeOK
    <2>3. Outstanding >= 1 /\ Outstanding' = Outstanding - 1
      BY <2>1, <2>2, OutstandingType DEF Outstanding
    <2> QED BY <1>0, <1>1, <2>1, <2>2, <2>3 DEF ReadFifo, Takes, ReadValue, RingTypeOK
  <1>2. CASE ReadWoken(p)
    <2>1. /\ buf'.result = buf.result /\ buf'.tail = buf.tail /\ buf'.size = buf.size
          /\ buf'.head = IF buf.head + 1 >= buf.size THEN 0 ELSE buf.head + 1
          /\ buf'.sem = buf.sem
      BY <1>0, <1>2, ReadFields DEF ReadWoken, Takes, RingTypeOK
    <2>2. p \in Woken /\ Woken' = Woken \ {p}
      BY <1>2 DEF ReadWoken, Takes, Woken, RingTypeOK
    <2>3. IsFiniteSet(Woken \ {p}) /\ Cardinality(Woken \ {p}) = Cardinality(Woken) - 1
      BY <1>0, <2>2, FS_RemoveElement
    <2>4. Cardinality(Woken \ {p}) \in Nat
      BY <2>3, FS_CardinalityType
    <2>5. Outstanding >= 1 /\ Outstanding' = Outstanding - 1
      BY <2>1, <2>2, <2>3, <2>4, OutstandingType DEF Outstanding
    <2> QED BY <1>2, <2>1, <2>2, <2>3, <2>5 DEF ReadWoken, Takes, ReadValue, RingTypeOK
  <1> QED BY <1>1, <1>2

\* An insert adds one: a unit, or a reader that it wakes.
LEMMA InsertAddsOne ==
  ASSUME RingTypeOK, ListInv, RingInv, NEW d \in Data, Insert(d)
  PROVE  /\ IsFiniteSet(Woken)' /\ Outstanding' = Outstanding + 1
         /\ buf'.head = buf.head /\ buf'.size = buf.size
         /\ buf'.tail = InsertIndex(buf) + 1
         /\ buf'.result = [buf.result EXCEPT ![InsertIndex(buf)] = d]
  <1>0. buf \in Rings /\ IsFiniteSet(Woken)
    BY DEF RingTypeOK, RingInv
  <1>1. /\ buf'.head = buf.head /\ buf'.size = buf.size
        /\ buf'.tail = InsertIndex(buf) + 1
        /\ buf'.result = [buf.result EXCEPT ![InsertIndex(buf)] = d]
        /\ buf.waiters = <<>> => buf'.sem = buf.sem + 1
        /\ buf.waiters /= <<>> => buf'.sem = buf.sem
    BY <1>0, InsertFields DEF RingTypeOK, Insert
  <1>2. CASE buf.waiters = <<>>
    <2>1. Woken' = Woken
      BY <1>2 DEF RingTypeOK, Insert, WokenBy, Woken
    <2> QED BY <1>0, <1>1, <1>2, <2>1, OutstandingType DEF Outstanding
  <1>3. CASE buf.waiters /= <<>>
    <2>1. Head(buf.waiters) \in Procs /\ pc[Head(buf.waiters)] = "asleep"
      <3>1. buf.waiters \in Seq(Procs)
        BY <1>0 DEF Rings
      <3>2. 1 \in DOMAIN buf.waiters /\ Head(buf.waiters) = buf.waiters[1]
            /\ buf.waiters[1] \in Procs
        BY <1>3, <3>1
      <3> QED BY <3>2 DEF ListInv
    <2>2. Head(buf.waiters) \notin Woken /\ Woken' = Woken \cup {Head(buf.waiters)}
      BY <1>3, <2>1 DEF RingTypeOK, Insert, WokenBy, Woken
    <2>3. IsFiniteSet(Woken)' /\ Cardinality(Woken)' = Cardinality(Woken) + 1
      BY <1>0, <2>2, FS_AddElement
    <2>4. Outstanding' = Outstanding + 1
      BY <1>1, <1>3, <2>3, OutstandingType DEF Outstanding
    <2> QED BY <1>1, <2>3, <2>4
  <1> QED BY <1>2, <1>3

-----------------------------------------------------------------------------
(* The buffer implements the queue.                                        *)

LEMMA QueueType ==
  ASSUME QueueInv, Size > 0
  PROVE  /\ buf.result \in Ring /\ buf.head \in 0 .. Size - 1
         /\ Outstanding \in 0 .. Size
         /\ InsertIndex(buf) = Place(buf.head, Outstanding)
         /\ Contents = Between(buf.result, buf.head, Outstanding)
  <1>1. /\ Outstanding \in Nat /\ buf.head \in Nat /\ buf.size = Size /\ Size \in Nat
        /\ buf \in Rings
    BY RingTypes, OutstandingType DEF QueueInv, RingTypeOK
  <1>2. buf.result \in Ring /\ buf.head \in 0 .. Size - 1
    BY <1>1 DEF Rings
  <1>3. Contents = Between(buf.result, buf.head, Outstanding)
    BY <1>1, ContentsBetween DEF Contents
  <1>4. Outstanding \in 0 .. Size
    BY <1>1 DEF QueueInv, RingInv
  <1> QED BY <1>2, <1>3, <1>4 DEF QueueInv, RingInv

LEMMA ReadIsGet ==
  ASSUME QueueInv, RingIInv', NEW p \in Procs, ReadFifo(p) \/ ReadWoken(p)
  PROVE  RingInv' /\ Queue!Get(p)
  <1>0. RingTypeOK /\ RingInv /\ buf' \in Rings
    BY RingTypes, RingTypesNext DEF QueueInv, RingTypeOK
  <1>1. /\ IsFiniteSet(Woken)' /\ Outstanding >= 1 /\ Outstanding' = Outstanding - 1
        /\ buf'.result = buf.result /\ buf'.tail = buf.tail /\ buf'.size = buf.size
        /\ buf'.head = IF buf.head + 1 >= buf.size THEN 0 ELSE buf.head + 1
        /\ got' = [got EXCEPT ![p] = buf.result[buf.head]]
    BY <1>0, ReadTakesOne
  <1>2. Outstanding \in Nat /\ Outstanding <= Size /\ Size \in Nat /\ buf.size = Size
    BY <1>0, OutstandingType DEF RingInv
  <1>3. Size > 0
    BY <1>1, <1>2
  <1>4. /\ buf.result \in Ring /\ buf.head \in 0 .. Size - 1
        /\ Outstanding \in 0 .. Size
        /\ InsertIndex(buf) = Place(buf.head, Outstanding)
        /\ Contents = Between(buf.result, buf.head, Outstanding)
    BY <1>3, QueueType
  <1>5. InsertIndex(buf') = Place(buf'.head, Outstanding')
    <2>1. InsertIndex(buf') = InsertIndex(buf)
      BY <1>1 DEF InsertIndex
    <2>2. Outstanding - 1 \in 0 .. Size - 1 /\ (Outstanding - 1) + 1 = Outstanding
      BY <1>1, <1>2
    <2>3. Place(buf'.head, Outstanding - 1) = Place(buf.head, (Outstanding - 1) + 1)
      BY <1>1, <1>2, <1>4, <2>2, PlaceFrom
    <2> QED BY <1>1, <1>4, <2>1, <2>2, <2>3
  <1>6. RingInv'
    BY <1>1, <1>2, <1>5 DEF RingInv
  <1>7. Contents' = Between(buf'.result, buf'.head, Outstanding')
    BY <1>0, ContentsBetween DEF Contents
  <1>8. /\ Contents /= <<>> /\ Head(Contents) = buf.result[buf.head]
        /\ Contents' = Tail(Contents)
    <2>1. Outstanding \in 1 .. Size
      BY <1>1, <1>2
    <2>2. buf'.head = IF buf.head + 1 >= Size THEN 0 ELSE buf.head + 1
      BY <1>1, <1>2
    <2>3. /\ Between(buf.result, buf.head, Outstanding) /= <<>>
          /\ Head(Between(buf.result, buf.head, Outstanding)) = buf.result[buf.head]
          /\ Between(buf.result, buf'.head, Outstanding - 1)
               = Tail(Between(buf.result, buf.head, Outstanding))
      BY <1>4, <2>1, <2>2, BetweenTail
    <2> QED BY <1>1, <1>4, <1>7, <2>3
  <1> QED BY <1>1, <1>6, <1>8 DEF Queue!Get

LEMMA InsertIsPut ==
  ASSUME QueueInv, RingIInv', NEW d \in Data, Insert(d), Outstanding < Size
  PROVE  RingInv' /\ Queue!Put(d)
  <1>0. RingTypeOK /\ RingInv /\ ListInv /\ buf' \in Rings
    BY RingTypes, RingTypesNext DEF QueueInv, RingTypeOK
  <1>1. /\ IsFiniteSet(Woken)' /\ Outstanding' = Outstanding + 1
        /\ buf'.head = buf.head /\ buf'.size = buf.size
        /\ buf'.tail = InsertIndex(buf) + 1
        /\ buf'.result = [buf.result EXCEPT ![InsertIndex(buf)] = d]
    BY <1>0, InsertAddsOne
  <1>2. Outstanding \in Nat /\ Size \in Nat /\ Size > 0 /\ buf.size = Size
    BY <1>0, OutstandingType
  <1>3. Outstanding \in 0 .. Size - 1 /\ Outstanding + 1 <= Size
    BY <1>2
  <1>4. /\ buf.result \in Ring /\ buf.head \in 0 .. Size - 1
        /\ Outstanding \in 0 .. Size
        /\ InsertIndex(buf) = Place(buf.head, Outstanding)
        /\ Contents = Between(buf.result, buf.head, Outstanding)
    BY <1>2, QueueType
  <1>5. InsertIndex(buf') = Place(buf'.head, Outstanding')
    <2>1. Place(buf.head, Outstanding + 1) =
            IF InsertIndex(buf) + 1 >= Size THEN 0 ELSE InsertIndex(buf) + 1
      BY <1>3, <1>4, PlaceAfter
    <2>2. InsertIndex(buf') =
            IF InsertIndex(buf) + 1 >= Size THEN 0 ELSE InsertIndex(buf) + 1
      BY <1>1, <1>2 DEF InsertIndex
    <2> QED BY <1>1, <2>1, <2>2
  <1>6. RingInv'
    BY <1>1, <1>3, <1>5 DEF RingInv
  <1>7. Contents' = Between(buf'.result, buf'.head, Outstanding')
    BY <1>0, ContentsBetween DEF Contents
  <1>8. Contents' = Append(Contents, d)
    BY <1>1, <1>3, <1>4, <1>7, BetweenAppend
  <1>9. Len(Contents) < Size
    BY <1>3, <1>4, BetweenSeq
  <1>10. UNCHANGED got
    BY DEF Insert
  <1> QED BY <1>6, <1>8, <1>9, <1>10 DEF Queue!Put

\* Going to sleep, and a step that is none, leave the queue.
LEMMA SleepLeavesQueue ==
  ASSUME RingTypeOK, RingInv, NEW p \in Procs, ReadSleep(p)
  PROVE  RingInv' /\ UNCHANGED <<Contents, got>>
  <1>1. /\ buf'.result = buf.result /\ buf'.head = buf.head /\ buf'.tail = buf.tail
        /\ buf'.size = buf.size /\ buf'.sem = buf.sem
    BY SleepFields DEF RingTypeOK, ReadSleep
  <1>2. Woken' = Woken
    BY DEF ReadSleep, Woken, RingTypeOK
  <1>3. Outstanding' = Outstanding
    BY <1>1, <1>2 DEF Outstanding
  <1>4. InsertIndex(buf)' = InsertIndex(buf)
    BY <1>1 DEF InsertIndex
  <1>5. RingInv'
    BY <1>1, <1>2, <1>3, <1>4 DEF RingInv
  <1>6. Contents' = Contents
    BY <1>1, <1>3 DEF Contents
  <1> QED BY <1>5, <1>6 DEF ReadSleep

\* An empty buffer, of which nobody is about to take anything.
LEMMA EmptyBuffer ==
  ASSUME NEW b \in Rings, b.head = 0, b.tail = 0, b.sem = 0, NEW W, W = {}
  PROVE  /\ IsFiniteSet(W) /\ b.sem + Cardinality(W) = 0 /\ 0 <= Size
         /\ Size > 0 => InsertIndex(b) = Place(b.head, 0)
  <1>1. IsFiniteSet(W) /\ Cardinality(W) = 0
    BY FS_EmptySet
  <1>2. Size > 0 => InsertIndex(b) = Place(b.head, 0)
    BY BufferAssumption DEF Rings, InsertIndex, Place
  <1> QED BY <1>1, <1>2, BufferAssumption

LEMMA InitQueue == Init /\ which = "buffer" => QueueInv /\ Contents = <<>>
  <1> SUFFICES ASSUME Init, which = "buffer" PROVE QueueInv /\ Contents = <<>>
    OBVIOUS
  <1>1. RingIInv /\ Fresh /\ buf \in Rings
    BY InitIInv, InitFresh, RingTypes DEF RingIInv, RingTypeOK
  <1>2. Woken = {} /\ buf.head = 0 /\ buf.tail = 0 /\ buf.sem = 0
    BY <1>1 DEF Fresh, Idle, Woken
  <1>3. /\ IsFiniteSet(Woken) /\ Outstanding = 0 /\ 0 <= Size
        /\ Size > 0 => InsertIndex(buf) = Place(buf.head, 0)
    BY <1>1, <1>2, EmptyBuffer DEF Outstanding
  <1>4. ListInv
    BY <1>1 DEF Fresh, Idle, ListInv
  <1>5. Contents = <<>>
    BY <1>1, <1>3, ContentsBetween, BetweenNothing DEF Contents
  <1> QED BY <1>1, <1>3, <1>4, <1>5 DEF QueueInv, RingInv

LEMMA ClearIsDrop ==
  ASSUME RingTypeOK, RingIInv', Idle, NEW p \in Procs, Clear(p, 1)
  PROVE  QueueInv' /\ Queue!Drop
  <1>1. Fresh' /\ buf' \in Rings
    BY ClearFresh, RingTypesNext DEF RingTypeOK
  <1>2. Woken' = {} /\ buf'.head = 0 /\ buf'.tail = 0 /\ buf'.sem = 0
    BY <1>1 DEF Fresh, Idle, Woken
  <1>3. /\ IsFiniteSet(Woken)' /\ Outstanding' = 0 /\ 0 <= Size
        /\ Size > 0 => InsertIndex(buf') = Place(buf'.head, 0)
    BY <1>1, <1>2, EmptyBuffer DEF Outstanding
  <1>4. ListInv'
    BY <1>1 DEF Fresh, Idle, ListInv
  <1>5. Contents' = <<>>
    BY <1>1, <1>3, ContentsBetween, BetweenNothing DEF Contents
  <1> QED BY <1>3, <1>4, <1>5 DEF QueueInv, RingInv, RingTypeOK, Clear, MemsetFaults, Queue!Drop

LEMMA NextQueue ==
  QueueInv /\ [DisciplinedNext]_vars =>
    QueueInv' /\ [Queue!Next]_<<Contents, got>>
  <1> SUFFICES ASSUME QueueInv, [DisciplinedNext]_vars
               PROVE  QueueInv' /\ [Queue!Next]_<<Contents, got>>
    OBVIOUS
  <1>0. RingIInv /\ RingIInv' /\ RingTypeOK /\ ListInv /\ RingInv
    BY NextRingIInv, RingTypes DEF QueueInv
  <1>1. ASSUME NEW p \in Procs, ReadFifo(p) \/ ReadWoken(p)
        PROVE  QueueInv' /\ Queue!Next
    BY <1>0, <1>1, ReadList, ReadIsGet DEF QueueInv, Queue!Next
  <1>2. ASSUME NEW p \in Procs, ReadSleep(p)
        PROVE  QueueInv' /\ UNCHANGED <<Contents, got>>
    BY <1>0, <1>2, SleepList, SleepLeavesQueue DEF QueueInv
  <1>3. ASSUME Outstanding < Size, NEW d \in Data, Insert(d)
        PROVE  QueueInv' /\ Queue!Next
    BY <1>0, <1>3, InsertList, InsertIsPut DEF QueueInv, Queue!Next
  <1>4. ASSUME Idle, NEW p \in Procs, Clear(p, 1)
        PROVE  QueueInv' /\ Queue!Next
    BY <1>0, <1>4, ClearIsDrop DEF Queue!Next
  <1>5. CASE UNCHANGED vars
    <2>1. UNCHANGED <<buf, pc, got>>
      BY <1>5 DEF vars
    <2>2. Woken' = Woken /\ Outstanding' = Outstanding
      BY <2>1 DEF Woken, Outstanding
    <2>3. Contents' = Contents
      BY <2>1, <2>2 DEF Contents
    <2>4. ListInv' /\ RingInv'
      BY <1>0, <2>1, <2>2 DEF ListInv, RingInv, InsertIndex
    <2> QED BY <1>0, <2>1, <2>3, <2>4 DEF QueueInv
  <1> QED
    BY <1>1, <1>2, <1>3, <1>4, <1>5 DEF DisciplinedNext

\* Under the discipline the ring buffer implements the queue of Fifo, for every
\* size of the ring and any number of readers, in both builds.
THEOREM ImplementsQueue == DisciplinedSpec => IsQueue
  <1>1. DisciplinedInit => QueueInv /\ Queue!Init
    <2> SUFFICES ASSUME Init, which = "buffer" PROVE QueueInv /\ Queue!Init
      BY DEF DisciplinedInit
    <2>1. QueueInv /\ Contents = <<>>
      BY InitQueue
    <2> QED BY <2>1 DEF Init, Queue!Init
  <1> QED BY <1>1, NextQueue, PTL DEF DisciplinedSpec, IsQueue, Queue!Spec
=============================================================================
