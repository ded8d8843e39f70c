-------------------------- MODULE BlockQueueProofs --------------------------
(***************************************************************************)
(* The block list of /dev/queue is right for blocks of any size, any       *)
(* memory and calls of any length.  The inductive invariant joins the      *)
(* shape of the list, the state of its two ends and what each sleeping     *)
(* handler holds: none of the three is preserved without the others.       *)
(***************************************************************************)
EXTENDS MCBlockQueue, SequenceTheorems, WellFoundedInduction, TLAPS

IInv == TypeOK /\ ListInv /\ EndsInv /\ HeldBlocksLive /\ CopyInBlock

\* The smaller of two numbers is a number, and neither is below it.
LEMMA SmallerFacts ==
  ASSUME NEW a \in Nat, NEW b \in Nat
  PROVE  Smaller(a, b) \in Nat /\ Smaller(a, b) <= a /\ Smaller(a, b) <= b
BY DEF Smaller

\* The buffer of a write call is a sequence of bytes.
LEMMA BufsSeq == ASSUME NEW buf \in Bufs PROVE buf \in Seq(Byte)
BY CountAssumption DEF Bufs

\* Taking off the head renumbers the list.
LEMMA TailFacts ==
  ASSUME NEW S, NEW q \in Seq(S), q # <<>>
  PROVE  /\ Tail(q) \in Seq(S)
         /\ Len(Tail(q)) = Len(q) - 1
         /\ \A i \in 1..Len(q) - 1 : Tail(q)[i] = q[i + 1]
         /\ Len(q) \in Nat \ {0}
         /\ q[1] \in S /\ q[Len(q)] \in S
         /\ Tail(q) = <<>> <=> Len(q) = 1
<1>1. Len(q) \in Nat \ {0}
  BY EmptySeq
<1>2. q[1] \in S /\ q[Len(q)] \in S
  BY <1>1, ElementOfSeq
<1>3. /\ Tail(q) \in Seq(S)
      /\ Len(Tail(q)) = Len(q) - 1
      /\ \A i \in 1..Len(q) - 1 : Tail(q)[i] = q[i + 1]
  BY HeadTailProperties
<1>4. Tail(q) = <<>> <=> Len(q) = 1
  BY <1>1, <1>3, EmptySeq
<1>5. QED
  BY <1>1, <1>2, <1>3, <1>4

\* A fresh block is a block.
LEMMA FreshBlock == Fresh \in Block /\ Fresh.wpos = 0 /\ Fresh.rpos = 0
BY SizeAssumption DEF Fresh, Block

\* The locals of a handler that is not running are well typed.
LEMMA DoneTyped ==
  /\ ReadDone \in [pc : {"idle", "entry", "copy"}, count : Nat,
                   blk : Addr \cup {NULL}, len : Nat]
  /\ WriteDone \in [pc : {"idle", "entry", "copy", "new"}, buf : Seq(Byte),
                    blk : Addr \cup {NULL}, len : Nat]
BY EmptySeq DEF ReadDone, WriteDone

\* The invariant holds of an empty list and two idle handlers.
LEMMA InitInv == Init => IInv
<1> SUFFICES ASSUME Init PROVE IInv
  OBVIOUS
<1>1. TypeOK
  <2>1. loaded \in BOOLEAN /\ oops \in BOOLEAN
    BY Zenon DEF Init
  <2>2. queue \in Seq(Addr) /\ out \in Seq(Byte \cup {NoByte})
    BY EmptySeq DEF Init
  <2>3. QED
    BY <2>1, <2>2, FreshBlock, DoneTyped DEF Init, TypeOK
<1>2. ListInv
  BY EmptySeq DEF Init, ListInv, Distinct, FullButLast, ReadAtHead, NotReadPastWritten
<1>3. EndsInv /\ HeldBlocksLive /\ CopyInBlock
  BY DEF Init, EndsInv, HeldBlocksLive, CopyInBlock, ReadDone, WriteDone
<1>4. QED
  BY <1>1, <1>2, <1>3 DEF IInv
-----------------------------------------------------------------------------
\* What a step that touches neither the list nor the blocks keeps.
LEMMA ListKept ==
  ASSUME ListInv, UNCHANGED <<queue, mem>>
  PROVE  ListInv'
BY DEF ListInv, Distinct, FullButLast, ReadAtHead, NotReadPastWritten

\* A nonempty list has a head and a tail, which are blocks.
LEMMA EndsTyped ==
  ASSUME TypeOK, queue # <<>>
  PROVE  /\ Len(queue) \in Nat \ {0}
         /\ queue[1] \in Addr /\ queue[Len(queue)] \in Addr
         /\ \A i \in 1..Len(queue) : queue[i] \in Addr /\ mem[queue[i]] \in Block
BY TailFacts, ElementOfSeq DEF TypeOK

\* A list of several blocks has a first block that is not its last.
LEMMA Several ==
  ASSUME NEW n \in Nat \ {0}, n # 1
  PROVE  n > 1 /\ n - 1 \in Nat /\ 1 \in 1..n - 1 /\ n - 1 \in 1..n - 1
OBVIOUS

\* Starting a turn of the read loop on the head of the list.
LEMMA ReadTurnFacts ==
  ASSUME NEW q \in Seq(Addr), q # <<>>, NEW m \in [Addr -> Block], NEW n \in Nat,
         m[q[1]].rpos <= m[q[1]].wpos
  PROVE  LET t == ReadTurn(q, m, n) IN
         /\ t \in [pc : {"idle", "entry", "copy"}, count : Nat,
                   blk : Addr \cup {NULL}, len : Nat]
         /\ t.pc = "copy" /\ t.blk = q[1]
         /\ m[q[1]].rpos + t.len <= m[q[1]].wpos
         /\ t.len <= t.count
<1> DEFINE b == m[q[1]]
           d == b.wpos - b.rpos
<1>1. q[1] \in Addr
  BY TailFacts
<1>2. b.wpos \in Nat /\ b.rpos \in Nat /\ d \in Nat
  BY <1>1, SizeAssumption DEF Block
<1>3. Smaller(n, d) \in Nat /\ Smaller(n, d) <= n /\ Smaller(n, d) <= d
  BY <1>2, SmallerFacts
<1>4. ReadTurn(q, m, n) = [pc |-> "copy", count |-> n, blk |-> q[1],
                           len |-> Smaller(n, d)]
  BY DEF ReadTurn
<1> HIDE DEF d
<1>5. b.rpos + Smaller(n, d) <= b.wpos
  BY <1>2, <1>3 DEF d
<1>6. QED
  BY <1>1, <1>3, <1>4, <1>5

\* Starting a turn of the write loop on a block with room.
LEMMA WriteTurnFacts ==
  ASSUME NEW a \in Addr, NEW b \in Block, NEW buf \in Seq(Byte)
  PROVE  LET t == WriteTurn(a, b, buf) IN
         /\ t \in [pc : {"idle", "entry", "copy", "new"}, buf : Seq(Byte),
                   blk : Addr \cup {NULL}, len : Nat]
         /\ t.pc = "copy" /\ t.blk = a
         /\ b.wpos + t.len <= SIZE
         /\ t.len <= Len(t.buf)
<1> DEFINE d == SIZE - b.wpos
<1>1. b.wpos \in Nat /\ d \in Nat /\ Len(buf) \in Nat
  BY SizeAssumption DEF Block
<1>2. /\ Smaller(Len(buf), d) \in Nat
      /\ Smaller(Len(buf), d) <= Len(buf)
      /\ Smaller(Len(buf), d) <= d
  BY <1>1, SmallerFacts
<1>3. WriteTurn(a, b, buf) = [pc |-> "copy", buf |-> buf, blk |-> a,
                              len |-> Smaller(Len(buf), d)]
  BY DEF WriteTurn
<1> HIDE DEF d
<1>4. b.wpos + Smaller(Len(buf), d) <= SIZE
  BY <1>1, <1>2, SizeAssumption DEF d
<1>5. QED
  BY <1>2, <1>3, <1>4
-----------------------------------------------------------------------------
\* The steps that leave the list and the blocks alone, apart from unloading.
LEMMA QuietSteps ==
  ASSUME IInv,
         \/ dev_init \/ (\E n \in 0..MaxCount : ReadCall(n))
         \/ (\E buf \in Bufs : WriteCall(buf))
         \/ ReadEof \/ ReadStart \/ ReadFault
         \/ WriteEntry \/ NewFails \/ WriteFault
  PROVE  IInv'
<1>0. TypeOK /\ ListInv /\ EndsInv /\ HeldBlocksLive /\ CopyInBlock
  BY DEF IInv
<1>1. UNCHANGED <<queue, mem>>
  BY DEF dev_init, ReadCall, WriteCall, ReadEof, ReadStart, ReadFault,
         WriteEntry, NewFails, WriteFault
<1>2. ListInv'
  BY <1>0, <1>1, ListKept
<1>3. ASSUME TypeOK', EndsInv', HeldBlocksLive', CopyInBlock' PROVE IInv'
  BY <1>2, <1>3 DEF IInv
<1>4. CASE dev_init
  <2>1. TypeOK'
    <3>1. loaded' \in BOOLEAN /\ oops' \in BOOLEAN
      BY <1>0, <1>4, Zenon DEF TypeOK, dev_init
    <3>2. QED
      BY <1>0, <1>4, <3>1 DEF TypeOK, dev_init
  <2>2. EndsInv' /\ HeldBlocksLive' /\ CopyInBlock'
    BY <1>0, <1>4 DEF EndsInv, HeldBlocksLive, CopyInBlock, dev_init
  <2>3. QED
    BY <2>1, <2>2, <1>3
<1>5. ASSUME NEW n \in 0..MaxCount, ReadCall(n) PROVE IInv'
  <2>1. TypeOK'
    <3>1. n \in Nat
      BY CountAssumption
    <3>2. r' = [pc |-> "entry", count |-> n, blk |-> NULL, len |-> 0]
      BY <1>5 DEF ReadCall, ReadDone
    <3>3. UNCHANGED <<loaded, queue, mem, w, oops>> /\ out' = <<>>
      BY <1>5 DEF ReadCall
    <3>4. QED
      BY <1>0, <3>1, <3>2, <3>3, EmptySeq DEF TypeOK
  <2>2. EndsInv' /\ HeldBlocksLive' /\ CopyInBlock'
    BY <1>0, <1>5 DEF EndsInv, HeldBlocksLive, CopyInBlock, ReadCall, ReadDone
  <2>3. QED
    BY <2>1, <2>2, <1>3
<1>6. ASSUME NEW buf \in Bufs, WriteCall(buf) PROVE IInv'
  <2>1. TypeOK'
    BY <1>0, <1>6, EmptySeq, BufsSeq DEF TypeOK, WriteCall, WriteDone
  <2>2. EndsInv' /\ HeldBlocksLive' /\ CopyInBlock'
    BY <1>0, <1>6 DEF EndsInv, HeldBlocksLive, CopyInBlock, WriteCall, WriteDone
  <2>3. QED
    BY <2>1, <2>2, <1>3
<1>7. CASE ReadEof \/ ReadFault
  <2>1. TypeOK'
    BY <1>0, <1>7, EmptySeq, DoneTyped DEF TypeOK, ReadEof, ReadFault
  <2>2. EndsInv' /\ HeldBlocksLive' /\ CopyInBlock'
    BY <1>0, <1>7 DEF EndsInv, HeldBlocksLive, CopyInBlock, ReadEof, ReadFault, ReadDone
  <2>3. QED
    BY <2>1, <2>2, <1>3
<1>8. CASE ReadStart
  <2>1. queue # <<>> /\ r' = ReadTurn(queue, mem, r.count)
        /\ UNCHANGED <<loaded, queue, mem, w, oops>> /\ out' = <<>>
    BY <1>8 DEF ReadStart, NothingToRead
  <2>2. queue \in Seq(Addr) /\ mem \in [Addr -> Block] /\ r.count \in Nat
    BY <1>0 DEF TypeOK
  <2>3. mem[queue[1]].rpos <= mem[queue[1]].wpos
    BY <1>0, <2>1, EndsTyped DEF ListInv, NotReadPastWritten
  <2>4. /\ r' \in [pc : {"idle", "entry", "copy"}, count : Nat,
                   blk : Addr \cup {NULL}, len : Nat]
        /\ r'.pc = "copy" /\ r'.blk = queue[1]
        /\ mem[queue[1]].rpos + r'.len <= mem[queue[1]].wpos
        /\ r'.len <= r'.count
    <3>1. PICK n \in Nat : n = r.count BY <2>2
    <3> DEFINE t == ReadTurn(queue, mem, n)
    <3>2. /\ t \in [pc : {"idle", "entry", "copy"}, count : Nat, blk : Addr \cup {NULL}, len : Nat]
          /\ t.pc = "copy" /\ t.blk = queue[1]
          /\ mem[queue[1]].rpos + t.len <= mem[queue[1]].wpos
          /\ t.len <= t.count
      BY <2>1, <2>2, <2>3, ReadTurnFacts
    <3>3. r' = t BY <2>1, <3>1
    <3> HIDE DEF t
    <3> QED BY <3>2, <3>3
  <2>5. TypeOK'
    BY <1>0, <2>1, <2>4, EmptySeq DEF TypeOK
  <2>6. EndsInv' /\ HeldBlocksLive' /\ CopyInBlock'
    BY <1>0, <2>1, <2>4 DEF EndsInv, HeldBlocksLive, CopyInBlock
  <2>7. QED
    BY <2>5, <2>6, <1>3
<1>9. CASE WriteEntry
  <2>1. CASE queue = <<>>
    <3>1. TypeOK'
      BY <1>0, <1>9, <2>1, EmptySeq DEF TypeOK, WriteEntry
    <3>2. EndsInv' /\ HeldBlocksLive' /\ CopyInBlock'
      BY <1>0, <1>9, <2>1 DEF TypeOK, EndsInv, HeldBlocksLive, CopyInBlock, WriteEntry
    <3>3. QED
      BY <3>1, <3>2, <1>3
  <2>2. CASE queue # <<>>
    <3> DEFINE a == queue[Len(queue)]
    <3>1. a \in Addr /\ mem[a] \in Block /\ w.buf \in Seq(Byte)
      BY <1>0, <2>2, EndsTyped DEF TypeOK
    <3>2. w' = WriteTurn(a, mem[a], w.buf)
      BY <1>9, <2>2 DEF WriteEntry
    <3>3. /\ w' \in [pc : {"idle", "entry", "copy", "new"}, buf : Seq(Byte),
                     blk : Addr \cup {NULL}, len : Nat]
          /\ w'.pc = "copy" /\ w'.blk = a
          /\ mem[a].wpos + w'.len <= SIZE /\ w'.len <= Len(w'.buf)
      BY <3>1, <3>2, WriteTurnFacts
    <3>4. UNCHANGED <<loaded, queue, mem, r, oops>> /\ out' = <<>> /\ w.pc = "entry"
      BY <1>9 DEF WriteEntry
    <3>5. TypeOK'
      BY <1>0, <3>3, <3>4, EmptySeq DEF TypeOK
    <3>6. EndsInv' /\ HeldBlocksLive' /\ CopyInBlock'
      BY <1>0, <2>2, <3>3, <3>4 DEF EndsInv, HeldBlocksLive, CopyInBlock
    <3>7. QED
      BY <3>5, <3>6, <1>3
  <2>3. QED
    BY <2>1, <2>2
<1>10. CASE NewFails \/ WriteFault
  <2>1. TypeOK'
    BY <1>0, <1>10, EmptySeq, DoneTyped DEF TypeOK, NewFails, WriteFault
  <2>2. EndsInv' /\ HeldBlocksLive' /\ CopyInBlock'
    BY <1>0, <1>10 DEF EndsInv, HeldBlocksLive, CopyInBlock, NewFails, WriteFault, WriteDone
  <2>3. QED
    BY <2>1, <2>2, <1>3
<1>11. QED
  BY <1>4, <1>5, <1>6, <1>7, <1>8, <1>9, <1>10

\* Unloading frees every block.
LEMMA ExitStep == ASSUME IInv, dev_exit PROVE IInv'
<1>1. TypeOK'
  <2>1. loaded' \in BOOLEAN /\ oops' \in BOOLEAN
    BY Zenon DEF IInv, TypeOK, dev_exit
  <2>2. QED
    BY <2>1, FreshBlock, EmptySeq DEF IInv, TypeOK, dev_exit
<1>2. ListInv'
  BY EmptySeq DEF dev_exit, ListInv, Distinct, FullButLast, ReadAtHead, NotReadPastWritten
<1>3. EndsInv' /\ HeldBlocksLive' /\ CopyInBlock'
  BY DEF IInv, dev_exit, EndsInv, HeldBlocksLive, CopyInBlock
<1>4. QED
  BY <1>1, <1>2, <1>3 DEF IInv

\* Appending a block: the tail it follows is full, so the list keeps its shape.
LEMMA NewBlockStep == ASSUME IInv, NEW a \in Addr, NewBlock(a) PROVE IInv'
<1> DEFINE n == Len(queue)
<1>0. TypeOK /\ ListInv /\ EndsInv /\ HeldBlocksLive /\ CopyInBlock
  BY DEF IInv
<1>1. /\ w.pc = "new" /\ ~oops
      /\ a \notin InList
      /\ queue' = Append(queue, a) /\ mem' = [mem EXCEPT ![a] = Fresh]
      /\ UNCHANGED <<loaded, r, oops>> /\ out' = <<>>
  BY <1>0 DEF NewBlock, EndsInv
<1>2. /\ queue' \in Seq(Addr) /\ Len(queue') = n + 1 /\ n \in Nat
      /\ \A i \in 1..n : queue'[i] = queue[i] /\ queue[i] # a /\ queue[i] \in Addr
      /\ queue'[n + 1] = a
      /\ queue' # <<>>
  BY <1>0, <1>1, AppendProperties, LenProperties, ElementOfSeq DEF TypeOK, InList
<1>3. /\ mem' \in [Addr -> Block] /\ mem'[a] = Fresh
      /\ \A i \in 1..n : mem'[queue[i]] = mem[queue[i]]
  BY <1>0, <1>1, <1>2, FreshBlock DEF TypeOK
<1>4. /\ w' \in [pc : {"idle", "entry", "copy", "new"}, buf : Seq(Byte),
                 blk : Addr \cup {NULL}, len : Nat]
      /\ w'.pc \in {"idle", "copy"}
      /\ w'.pc = "copy" => w'.blk = a /\ w'.len <= SIZE /\ w'.len <= Len(w'.buf)
  <2>1. CASE w.buf = <<>>
    BY <2>1, DoneTyped DEF NewBlock, WriteDone
  <2>2. CASE w.buf # <<>>
    <3>1. w' = WriteTurn(a, Fresh, w.buf) /\ w.buf \in Seq(Byte)
      BY <2>2, <1>0 DEF NewBlock, TypeOK
    <3>2. w'.pc = "copy" /\ w'.blk = a /\ 0 + w'.len <= SIZE /\ w'.len \in Nat /\ w'.len <= Len(w'.buf)
          /\ w' \in [pc : {"idle", "entry", "copy", "new"}, buf : Seq(Byte),
                 blk : Addr \cup {NULL}, len : Nat]
      BY <3>1, FreshBlock, WriteTurnFacts
    <3>3. QED
      BY <3>2
  <2>3. QED
    BY <2>1, <2>2
<1>5. TypeOK'
  BY <1>0, <1>1, <1>2, <1>3, <1>4, EmptySeq DEF TypeOK
<1>6. ListInv'
  <2>1. Distinct'
    BY <1>0, <1>2 DEF ListInv, Distinct
  <2>2. FullButLast'
    <3> SUFFICES ASSUME NEW i \in 1..n PROVE mem[queue[i]].wpos = SIZE
      BY <1>2, <1>3 DEF FullButLast
    <3>1. n >= 1 /\ queue # <<>>
      BY <1>2, EmptySeq
    <3>2. i < n => mem[queue[i]].wpos = SIZE
      BY <1>0, <1>2 DEF ListInv, FullButLast
    <3>3. mem[queue[n]].wpos = SIZE
      BY <1>0, <1>1, <3>1 DEF EndsInv
    <3>4. QED
      BY <1>2, <3>2, <3>3
  <2>3. ReadAtHead' /\ NotReadPastWritten'
    BY <1>0, <1>2, <1>3, FreshBlock, SMTT(30) DEF ListInv, ReadAtHead, NotReadPastWritten
  <2>4. QED
    BY <2>1, <2>2, <2>3 DEF ListInv
<1>7. EndsInv'
  <2>1. mem'[queue'[1]].rpos < SIZE
    <3>1. CASE n = 0
      BY <3>1, <1>2, <1>3, FreshBlock, SizeAssumption
    <3>2. CASE n # 0
      BY <3>2, <1>0, <1>2, <1>3, EmptySeq DEF EndsInv
    <3>3. QED
      BY <3>1, <3>2
  <2>2. mem'[queue'[Len(queue')]].wpos < SIZE
    BY <1>2, <1>3, FreshBlock, SizeAssumption
  <2>3. QED
    BY <1>1, <1>4, <2>1, <2>2 DEF EndsInv
<1>8. HeldBlocksLive' /\ CopyInBlock'
  <2>1. r.pc = "copy" => queue # <<>> /\ r.blk = queue[1] /\ n >= 1
                         /\ mem[r.blk].rpos + r.len <= mem[r.blk].wpos
                         /\ r.len <= r.count
    BY <1>0, <1>2, EmptySeq DEF HeldBlocksLive, CopyInBlock, TypeOK
  <2>2. r.pc = "copy" => /\ r.blk = queue'[1]
                         /\ mem'[r.blk].rpos + r.len <= mem'[r.blk].wpos
                         /\ r.len <= r.count
    BY <2>1, <1>2, <1>3
  <2>3. w'.pc = "copy" => mem'[w'.blk].wpos + w'.len <= SIZE /\ w'.len <= Len(w'.buf)
    BY <1>3, <1>4, FreshBlock
  <2>4. QED
    BY <1>1, <1>2, <1>4, <2>2, <2>3 DEF HeldBlocksLive, CopyInBlock
<1>9. QED
  BY <1>5, <1>6, <1>7, <1>8 DEF IInv

\* The bytes of a write land in the tail, and only there.
LEMMA WriteCopiedStep == ASSUME IInv, WriteCopied PROVE IInv'
<1> DEFINE n    == Len(queue)
           a    == w.blk
           b    == mem[a]
           pos  == b.wpos + w.len
           rest == SubSeq(w.buf, w.len + 1, Len(w.buf))
           nb   == [b EXCEPT !.wpos = pos,
                             !.data = [i \in DOMAIN b.data |->
                                IF i \in b.wpos..(pos - 1) THEN w.buf[i - b.wpos + 1]
                                ELSE b.data[i]]]
<1>0. TypeOK /\ ListInv /\ EndsInv /\ HeldBlocksLive /\ CopyInBlock
  BY DEF IInv
<1>1. /\ w.pc = "copy" /\ ~oops
      /\ mem' = [mem EXCEPT ![a] = nb]
      /\ w' = IF NeedsBlock(pos) THEN [WriteDone EXCEPT !.pc = "new", !.buf = rest]
              ELSE IF rest = <<>> THEN WriteDone ELSE WriteTurn(a, nb, rest)
      /\ UNCHANGED <<loaded, queue, r, oops>> /\ out' = <<>>
  BY <1>0 DEF WriteCopied, EndsInv
<1>2. /\ queue # <<>> /\ n \in Nat \ {0} /\ a = queue[n] /\ a \in Addr
      /\ b \in Block /\ pos <= SIZE /\ w.len <= Len(w.buf)
  BY <1>0, <1>1, EndsTyped DEF HeldBlocksLive, CopyInBlock
<1>3. /\ b.wpos \in Nat /\ b.rpos \in Nat /\ b.rpos <= SIZE
      /\ b.data \in [0..SIZE-1 -> Byte \cup {NoByte}]
      /\ w.len \in Nat /\ w.buf \in Seq(Byte) /\ Len(w.buf) \in Nat
      /\ pos \in 0..SIZE /\ b.wpos <= pos
  BY <1>0, <1>2, SizeAssumption, LenProperties, SMTT(30) DEF TypeOK, Block
<1>4. nb \in Block /\ nb.wpos = pos /\ nb.rpos = b.rpos
  <2>1. ASSUME NEW i \in 0..SIZE-1, i \in b.wpos..(pos - 1)
        PROVE  w.buf[i - b.wpos + 1] \in Byte
    <3>1. i - b.wpos + 1 \in 1..Len(w.buf)
      BY <1>2, <1>3, <2>1, SMTT(30)
    <3>2. QED
      BY <1>3, <3>1, ElementOfSeq
  <2>2. [i \in DOMAIN b.data |-> IF i \in b.wpos..(pos - 1) THEN w.buf[i - b.wpos + 1]
                                 ELSE b.data[i]] \in [0..SIZE-1 -> Byte \cup {NoByte}]
    BY <1>3, <2>1
  <2>3. QED
    BY <1>2, <1>3, <2>2 DEF Block
<1>5. rest \in Seq(Byte)
  <2>1. \A i \in w.len + 1..Len(w.buf) : w.buf[i] \in Byte
    BY <1>3, ElementOfSeq
  <2>2. QED
    BY <1>3, <2>1, SubSeqProperties
<1> HIDE DEF nb, rest
<1>6. /\ mem' \in [Addr -> Block] /\ mem'[a] = nb
      /\ \A i \in 1..n - 1 : queue[i] # a /\ mem'[queue[i]] = mem[queue[i]]
      /\ \A i \in 1..n : queue[i] \in Addr
  <2>1. \A i \in 1..n : queue[i] \in Addr
    BY <1>0, <1>2, EndsTyped
  <2>2. \A i \in 1..n - 1 : queue[i] # a
    BY <1>0, <1>2 DEF ListInv, Distinct
  <2>3. QED
    BY <1>0, <1>1, <1>2, <1>4, <2>1, <2>2 DEF TypeOK
<1>7. /\ w' \in [pc : {"idle", "entry", "copy", "new"}, buf : Seq(Byte),
                 blk : Addr \cup {NULL}, len : Nat]
      /\ w'.pc = "new" <=> pos = SIZE
      /\ w'.pc = "copy" => w'.blk = a /\ nb.wpos + w'.len <= SIZE /\ w'.len <= Len(w'.buf)
  <2>1. CASE NeedsBlock(pos)
    <3>1. w' = [pc |-> "new", buf |-> rest, blk |-> NULL, len |-> 0]
      BY <1>1, <2>1 DEF WriteDone
    <3>2. QED
      BY <1>3, <1>5, <2>1, <3>1, SizeAssumption DEF NeedsBlock
  <2>2. CASE ~NeedsBlock(pos) /\ rest = <<>>
    <3>1. w' = WriteDone
      BY <1>1, <2>2
    <3>2. QED
      BY <1>3, <2>2, <3>1, DoneTyped, SizeAssumption DEF NeedsBlock, WriteDone
  <2>3. CASE ~NeedsBlock(pos) /\ rest # <<>>
    <3>1. w' = WriteTurn(a, nb, rest)
      BY <1>1, <2>3
    <3>2. QED
      BY <1>2, <1>3, <1>4, <1>5, <2>3, <3>1, WriteTurnFacts, SizeAssumption
      DEF NeedsBlock
  <2>4. QED
    BY <2>1, <2>2, <2>3
<1>8. TypeOK'
  BY <1>0, <1>1, <1>6, <1>7, EmptySeq DEF TypeOK
<1>9. ListInv'
  <2>1. Distinct'
    BY <1>0, <1>1 DEF ListInv, Distinct
  <2>2. FullButLast'
    BY <1>0, <1>1, <1>6 DEF ListInv, FullButLast
  <2>3. \A i \in 1..n : mem'[queue[i]].rpos = mem[queue[i]].rpos
    BY <1>2, <1>4, <1>6
  <2>4. ReadAtHead'
    BY <1>0, <1>1, <1>2, <2>3 DEF ListInv, ReadAtHead
  <2>5. NotReadPastWritten'
    <3> SUFFICES ASSUME NEW i \in 1..n
                 PROVE  mem'[queue[i]].rpos <= mem'[queue[i]].wpos
      BY <1>1 DEF NotReadPastWritten
    <3>1. mem[queue[i]].rpos <= mem[queue[i]].wpos
      BY <1>0 DEF ListInv, NotReadPastWritten
    <3>2. CASE i = n
      BY <3>1, <3>2, <1>2, <1>3, <1>4, <1>6
    <3>3. CASE i # n
      BY <3>1, <3>3, <1>2, <1>6
    <3>4. QED
      BY <3>2, <3>3
  <2>6. QED
    BY <2>1, <2>2, <2>4, <2>5 DEF ListInv
<1>10. EndsInv'
  <2>1. mem[queue[1]].rpos < SIZE
    BY <1>0, <1>2 DEF EndsInv
  <2>2. mem'[queue[1]].rpos < SIZE
    BY <2>1, <1>2, <1>4, <1>6
  <2>3. mem'[queue[n]].wpos = pos
    BY <1>2, <1>4, <1>6
  <2>4. QED
    BY <1>1, <1>3, <1>7, <2>2, <2>3, SizeAssumption DEF EndsInv
<1>11. HeldBlocksLive' /\ CopyInBlock'
  <2>1. r.pc = "copy" => /\ r.blk = queue[1]
                         /\ mem[r.blk].rpos + r.len <= mem[r.blk].wpos
                         /\ r.len <= r.count /\ r.len \in Nat
    BY <1>0 DEF HeldBlocksLive, CopyInBlock, TypeOK
  <2>2. r.pc = "copy" => mem'[r.blk].rpos + r.len <= mem'[r.blk].wpos
    <3>1. CASE n = 1
      BY <3>1, <2>1, <1>2, <1>3, <1>4, <1>6
    <3>2. CASE n # 1
      <4>1. 1 \in 1..n - 1
        BY <3>2, <1>2, Several
      <4>2. mem'[queue[1]] = mem[queue[1]]
        BY <4>1, <1>6
      <4>3. QED
        BY <2>1, <4>2
    <3>3. QED
      BY <3>1, <3>2
  <2>3. QED
    BY <1>1, <1>2, <1>6, <1>7, <2>1, <2>2 DEF HeldBlocksLive, CopyInBlock
<1>12. QED
  BY <1>8, <1>9, <1>10, <1>11 DEF IInv

\* What ReadCopied does to the list: it erases the head, or moves its rpos.
LEMMA ReadCopiedCases ==
  ASSUME IInv, ReadCopied
  PROVE  LET a   == queue[1]
             pos == mem[a].rpos + r.len
         IN /\ queue # <<>> /\ a \in Addr /\ r.len \in Nat /\ r.count - r.len \in Nat
            /\ pos \in Nat /\ pos <= mem[a].wpos
            /\ \/ /\ pos = SIZE
                  /\ queue' = Tail(queue)
                  /\ mem' = [mem EXCEPT ![a] = Fresh]
                  /\ r' = IF Tail(queue) = <<>> \/ r.count - r.len = 0 THEN ReadDone
                          ELSE ReadTurn(Tail(queue), mem, r.count - r.len)
               \/ /\ pos < SIZE
                  /\ queue' = queue
                  /\ mem' = [mem EXCEPT ![a].rpos = pos]
                  /\ r' = IF pos = mem[a].wpos \/ r.count - r.len = 0 THEN ReadDone
                          ELSE ReadTurn(queue, mem', r.count - r.len)
            /\ UNCHANGED <<loaded, w, oops>>
<1> DEFINE a   == queue[1]
           pos == mem[a].rpos + r.len
<1>0. TypeOK /\ ListInv /\ EndsInv /\ HeldBlocksLive /\ CopyInBlock
  BY DEF IInv
<1>1. r.pc = "copy" /\ r.blk = a /\ queue # <<>>
  BY <1>0 DEF ReadCopied, HeldBlocksLive
<1>2. /\ r.len \in Nat /\ r.count \in Nat /\ r.len <= r.count
      /\ pos <= mem[a].wpos
  BY <1>0, <1>1 DEF TypeOK, CopyInBlock
<1>3. /\ a \in Addr /\ mem[a] \in Block
      /\ mem[a].rpos \in Nat /\ mem[a].wpos \in Nat /\ mem[a].wpos <= SIZE
  BY <1>0, <1>1, EndsTyped, SizeAssumption DEF Block
<1>4. UNCHANGED <<loaded, w, oops>>
  BY DEF ReadCopied
<1>5. CASE pos = SIZE
  BY <1>1, <1>2, <1>3, <1>4, <1>5, SizeAssumption DEF ReadCopied, Spent
<1>6. CASE pos # SIZE /\ pos >= mem[a].wpos
  BY <1>1, <1>2, <1>3, <1>4, <1>6, SizeAssumption, SMTT(30) DEF ReadCopied, Spent
<1>7. CASE pos # SIZE /\ pos < mem[a].wpos
  BY <1>1, <1>2, <1>3, <1>4, <1>7, SizeAssumption, SMTT(30) DEF ReadCopied, Spent
<1>8. QED
  BY <1>2, <1>3, <1>5, <1>6, <1>7

\* The bytes of a read come from the head; a spent head leaves the list.
LEMMA ReadCopiedStep == ASSUME IInv, ReadCopied PROVE IInv'
<1> DEFINE n    == Len(queue)
           a    == queue[1]
           pos  == mem[a].rpos + r.len
           left == r.count - r.len
<1>0. TypeOK /\ ListInv /\ EndsInv /\ HeldBlocksLive /\ CopyInBlock
  BY DEF IInv
<1>1. /\ queue # <<>> /\ a \in Addr /\ left \in Nat
      /\ pos \in Nat /\ pos <= mem[a].wpos
      /\ UNCHANGED <<loaded, w, oops>>
  BY ReadCopiedCases
<1>2. /\ n \in Nat \ {0} /\ \A i \in 1..n : queue[i] \in Addr /\ mem[queue[i]] \in Block
      /\ mem[a].wpos \in Nat /\ mem[a].wpos <= SIZE /\ mem[a] \in Block
  BY <1>0, <1>1, EndsTyped, SizeAssumption DEF Block
<1>3. \A i \in 2..n : queue[i] # a
  BY <1>0, <1>2 DEF ListInv, Distinct
<1>4. out' \in Seq(Byte \cup {NoByte})
  <2>1. r.pc = "copy" /\ r.blk = a /\ r.len \in Nat /\ mem[a].rpos \in Nat
    BY <1>0, <1>2 DEF ReadCopied, HeldBlocksLive, TypeOK, Block
  <2>2. \A i \in 1..r.len : mem[a].data[mem[a].rpos + i - 1] \in Byte \cup {NoByte}
    <3> SUFFICES ASSUME NEW i \in 1..r.len
                 PROVE  mem[a].data[mem[a].rpos + i - 1] \in Byte \cup {NoByte}
      OBVIOUS
    <3>1. mem[a].rpos + i - 1 \in 0..SIZE - 1
      <4>1. PICK wp \in Nat, rp \in Nat, l \in Nat, z \in Nat :
              wp = mem[a].wpos /\ rp = mem[a].rpos /\ l = r.len /\ z = SIZE
        BY <1>2, <2>1, SizeAssumption
      <4>2. wp <= z /\ rp + l <= wp /\ i \in 1..l BY <1>1, <1>2, <4>1
      <4>3. rp + i - 1 \in 0..z - 1 BY <4>2
      <4> QED BY <4>1, <4>3
    <3>2. mem[a].data \in [0..SIZE-1 -> Byte \cup {NoByte}]
      BY <1>2 DEF Block
    <3>3. QED
      BY <3>1, <3>2
  <2>3. out' = [i \in 1..r.len |-> mem[a].data[mem[a].rpos + i - 1]]
    BY <2>1 DEF ReadCopied
  <2>4. QED
    BY <2>1, <2>2, <2>3, SMTT(30)
<1>5. CASE /\ pos = SIZE
           /\ queue' = Tail(queue)
           /\ mem' = [mem EXCEPT ![a] = Fresh]
           /\ r' = IF Tail(queue) = <<>> \/ left = 0 THEN ReadDone
                   ELSE ReadTurn(Tail(queue), mem, left)
  <2>1. mem[a].wpos = SIZE /\ mem[queue[1]].wpos = SIZE
    BY <1>1, <1>2, <1>5, SizeAssumption
  <2>2. /\ queue' \in Seq(Addr) /\ Len(queue') = n - 1
        /\ \A i \in 1..n - 1 : queue'[i] = queue[i + 1]
        /\ queue' = <<>> <=> n = 1
    BY <1>0, <1>1, <1>5, TailFacts DEF TypeOK
  <2>3. /\ mem' \in [Addr -> Block]
        /\ \A i \in 1..n - 1 : mem'[queue'[i]] = mem[queue[i + 1]] /\ queue'[i] # a
                               /\ queue'[i] \in Addr
    BY <1>0, <1>1, <1>2, <1>3, <1>5, <2>2, FreshBlock DEF TypeOK
  <2>4. ASSUME n > 1
        PROVE  /\ mem'[queue'[1]] = mem[queue[2]] /\ mem'[queue'[1]] = mem[queue'[1]]
               /\ mem[queue[2]].rpos = 0 /\ mem[queue[2]].wpos \in Nat
               /\ mem'[queue'[Len(queue')]] = mem[queue[n]]
               /\ queue'[Len(queue')] = queue[n]
    <3>1. 1 \in 1..n - 1 /\ n - 1 \in 1..n - 1 /\ 2 \in 2..n /\ 2 \in 1..n
      BY <1>2, <2>4
    <3>2. mem[queue[2]].wpos \in Nat
      BY <1>2, <3>1, SizeAssumption DEF Block
    <3>3. mem'[queue'[1]] = mem[queue'[1]]
      BY <1>0, <1>5, <2>3, <3>1 DEF TypeOK
    <3>4. QED
      BY <1>0, <1>2, <2>2, <2>3, <3>1, <3>2, <3>3 DEF ListInv, ReadAtHead
  <2>5. /\ r' \in [pc : {"idle", "entry", "copy"}, count : Nat,
                   blk : Addr \cup {NULL}, len : Nat]
        /\ r'.pc = "copy" => /\ n > 1 /\ r'.blk = queue'[1]
                             /\ mem'[queue'[1]].rpos + r'.len <= mem'[queue'[1]].wpos
                             /\ r'.len <= r'.count
    <3>1. CASE Tail(queue) = <<>> \/ left = 0
      BY <3>1, <1>5, DoneTyped DEF ReadDone
    <3>2. CASE Tail(queue) # <<>> /\ left # 0
      <4>1. n > 1 /\ r' = ReadTurn(queue', mem, left) /\ queue' # <<>>
        BY <3>2, <1>2, <1>5, <2>2
      <4>2. mem[queue'[1]].rpos <= mem[queue'[1]].wpos
        BY <2>4, <4>1
      <4>3. mem \in [Addr -> Block]
        BY <1>0 DEF TypeOK
      <4>4. /\ r' \in [pc : {"idle", "entry", "copy"}, count : Nat,
                       blk : Addr \cup {NULL}, len : Nat]
            /\ r'.blk = queue'[1]
            /\ mem[queue'[1]].rpos + r'.len <= mem[queue'[1]].wpos
            /\ r'.len <= r'.count
        BY <1>1, <2>2, <4>1, <4>2, <4>3, ReadTurnFacts
      <4>5. QED
        BY <2>4, <4>1, <4>4
    <3>3. QED
      BY <3>1, <3>2
  <2>6. TypeOK'
    BY <1>0, <1>1, <1>4, <2>2, <2>3, <2>5 DEF TypeOK
  <2>7. ListInv'
    <3>1. Distinct'
      BY <1>0, <1>2, <2>2 DEF ListInv, Distinct
    <3>2. FullButLast'
      <4> SUFFICES ASSUME NEW i \in 1..n - 2 PROVE mem'[queue'[i]].wpos = SIZE
        BY <2>2 DEF FullButLast
      <4>1. i \in 1..n - 1 /\ i + 1 \in 1..n - 1
        BY <1>2
      <4>2. QED
        BY <1>0, <2>3, <4>1 DEF ListInv, FullButLast
    <3>3. ReadAtHead'
      <4> SUFFICES ASSUME NEW i \in 2..n - 1 PROVE mem'[queue'[i]].rpos = 0
        BY <2>2 DEF ReadAtHead
      <4>1. i \in 1..n - 1 /\ i + 1 \in 2..n
        BY <1>2
      <4>2. QED
        BY <1>0, <2>3, <4>1 DEF ListInv, ReadAtHead
    <3>4. NotReadPastWritten'
      <4> SUFFICES ASSUME NEW i \in 1..n - 1
                   PROVE  mem'[queue'[i]].rpos <= mem'[queue'[i]].wpos
        BY <2>2 DEF NotReadPastWritten
      <4>1. i + 1 \in 1..n
        BY <1>2
      <4>2. QED
        BY <1>0, <2>3, <4>1 DEF ListInv, NotReadPastWritten
    <3>5. QED
      BY <3>1, <3>2, <3>3, <3>4 DEF ListInv
  <2>8. EndsInv'
    <3>1. oops => w.pc = "idle"
      BY <1>0 DEF EndsInv
    <3>2. CASE n = 1
      BY <1>1, <2>2, <3>1, <3>2 DEF EndsInv
    <3>3. CASE n # 1
      <4>1. n > 1
        BY <1>2, <3>3, Several
      <4>2. IF w.pc = "new" THEN mem[queue[n]].wpos = SIZE
            ELSE oops \/ mem[queue[n]].wpos < SIZE
        BY <1>0, <1>1 DEF EndsInv
      <4>3. QED
        BY <1>1, <2>4, <3>1, <4>1, <4>2, SizeAssumption DEF EndsInv
    <3>4. QED
      BY <3>2, <3>3
  <2>9. HeldBlocksLive' /\ CopyInBlock'
    <3>1. w.pc = "copy" => /\ w.blk = queue[n] /\ n > 1
                           /\ mem[w.blk].wpos + w.len <= SIZE /\ w.len <= Len(w.buf)
      <4>1. w.pc = "copy" => ~oops /\ mem[queue[n]].wpos < SIZE
        BY <1>0, <1>1 DEF EndsInv
      <4>2. w.pc = "copy" => n # 1
        BY <2>1, <4>1, SizeAssumption
      <4>3. w.pc = "copy" => n > 1
        BY <1>2, <4>2, Several
      <4>4. QED
        BY <1>0, <4>3 DEF HeldBlocksLive, CopyInBlock
    <3>2. QED
      BY <1>1, <2>2, <2>4, <2>5, <3>1 DEF HeldBlocksLive, CopyInBlock
  <2>10. QED
    BY <2>6, <2>7, <2>8, <2>9 DEF IInv
<1>6. CASE /\ pos < SIZE
           /\ queue' = queue
           /\ mem' = [mem EXCEPT ![a].rpos = pos]
           /\ r' = IF pos = mem[a].wpos \/ left = 0 THEN ReadDone
                   ELSE ReadTurn(queue, mem', left)
  <2>1. /\ mem' \in [Addr -> Block]
        /\ mem'[a].rpos = pos /\ mem'[a].wpos = mem[a].wpos
        /\ \A i \in 2..n : mem'[queue[i]] = mem[queue[i]]
        /\ \A i \in 1..n : mem'[queue[i]].wpos = mem[queue[i]].wpos
    <3>1. [mem[a] EXCEPT !.rpos = pos] \in Block
      BY <1>1, <1>2, <1>6, SizeAssumption DEF Block
    <3>2. mem' = [mem EXCEPT ![a] = [mem[a] EXCEPT !.rpos = pos]]
      BY <1>6
    <3>3. [mem[a] EXCEPT !.rpos = pos].rpos = pos
          /\ [mem[a] EXCEPT !.rpos = pos].wpos = mem[a].wpos
      BY <1>2 DEF Block
    <3>4. mem' \in [Addr -> Block] /\ mem'[a].rpos = pos /\ mem'[a].wpos = mem[a].wpos
      BY <1>0, <1>1, <3>1, <3>2, <3>3 DEF TypeOK
    <3>5. \A i \in 2..n : mem'[queue[i]] = mem[queue[i]]
      BY <1>0, <1>2, <1>3, <3>2 DEF TypeOK
    <3>6. QED
      BY <1>2, <3>4, <3>5
  <2>2. /\ r' \in [pc : {"idle", "entry", "copy"}, count : Nat,
                   blk : Addr \cup {NULL}, len : Nat]
        /\ r'.pc = "copy" => /\ r'.blk = a
                             /\ mem'[a].rpos + r'.len <= mem'[a].wpos
                             /\ r'.len <= r'.count
    <3>1. CASE pos = mem[a].wpos \/ left = 0
      BY <3>1, <1>6, DoneTyped DEF ReadDone
    <3>2. CASE ~(pos = mem[a].wpos \/ left = 0)
      <4>1. r' = ReadTurn(queue, mem', left)
        BY <3>2, <1>6
      <4>2. queue \in Seq(Addr) /\ mem'[queue[1]].rpos <= mem'[queue[1]].wpos
        BY <1>0, <1>1, <2>1 DEF TypeOK
      <4>3. QED
        BY <1>1, <2>1, <4>1, <4>2, ReadTurnFacts
    <3>3. QED
      BY <3>1, <3>2
  <2>3. TypeOK'
    BY <1>0, <1>1, <1>4, <1>6, <2>1, <2>2 DEF TypeOK
  <2>4. ListInv'
    <3>1. Distinct' /\ FullButLast'
      BY <1>0, <1>2, <1>6, <2>1 DEF ListInv, Distinct, FullButLast
    <3>2. ReadAtHead'
      BY <1>0, <1>6, <2>1 DEF ListInv, ReadAtHead
    <3>3. NotReadPastWritten'
      <4> SUFFICES ASSUME NEW i \in 1..n
                   PROVE  mem'[queue[i]].rpos <= mem'[queue[i]].wpos
        BY <1>6 DEF NotReadPastWritten
      <4>1. CASE i = 1
        BY <4>1, <1>1, <2>1
      <4>2. CASE i # 1
        <5>1. i \in 2..n
          BY <4>2, <1>2
        <5>2. QED
          BY <5>1, <1>0, <2>1 DEF ListInv, NotReadPastWritten
      <4>3. QED
        BY <4>1, <4>2
    <3>4. QED
      BY <3>1, <3>2, <3>3 DEF ListInv
  <2>5. EndsInv' /\ HeldBlocksLive' /\ CopyInBlock'
    <3>1. mem'[queue[n]].wpos = mem[queue[n]].wpos
      BY <1>2, <2>1
    <3>2. EndsInv'
      <4>1. /\ oops => w.pc = "idle"
            /\ IF w.pc = "new" THEN mem[queue[n]].wpos = SIZE
               ELSE oops \/ mem[queue[n]].wpos < SIZE
        BY <1>0, <1>1 DEF EndsInv
      <4>2. mem'[queue'[1]].rpos < SIZE
        BY <1>6, <2>1
      <4>3. QED
        BY <1>1, <1>6, <3>1, <4>1, <4>2 DEF EndsInv
    <3>3. w.pc = "copy" => /\ w.blk = queue[n]
                           /\ mem'[w.blk].wpos + w.len <= SIZE /\ w.len <= Len(w.buf)
      BY <1>0, <3>1 DEF HeldBlocksLive, CopyInBlock
    <3>4. HeldBlocksLive'
      BY <1>1, <1>6, <2>2, <3>3 DEF HeldBlocksLive
    <3>5. CopyInBlock'
      BY <1>1, <2>2, <3>3 DEF CopyInBlock
    <3>6. QED
      BY <3>2, <3>4, <3>5
  <2>6. QED
    BY <2>3, <2>4, <2>5 DEF IInv
<1>7. QED
  BY <1>5, <1>6, ReadCopiedCases
-----------------------------------------------------------------------------
(***************************************************************************)
(* Every reachable state satisfies the inductive invariant.                *)
(***************************************************************************)
THEOREM Invariant == Spec => []IInv
<1>1. IInv /\ [Next]_vars => IInv'
  <2> SUFFICES ASSUME IInv, [Next]_vars PROVE IInv'
    OBVIOUS
  <2>1. CASE dev_exit
    BY <2>1, ExitStep
  <2>2. CASE ReadCopied
    BY <2>2, ReadCopiedStep
  <2>3. CASE WriteCopied
    BY <2>3, WriteCopiedStep
  <2>4. CASE \E a \in Addr : NewBlock(a)
    BY <2>4, NewBlockStep
  <2>5. CASE \/ dev_init \/ (\E n \in 0..MaxCount : ReadCall(n))
             \/ (\E buf \in Bufs : WriteCall(buf))
             \/ ReadEof \/ ReadStart \/ ReadFault
             \/ WriteEntry \/ NewFails \/ WriteFault
    BY <2>5, QuietSteps
  <2>6. CASE UNCHANGED vars
    BY <2>6 DEF vars, IInv, TypeOK, ListInv, Distinct, FullButLast, ReadAtHead,
                NotReadPastWritten, EndsInv, HeldBlocksLive, CopyInBlock
  <2>7. QED
    BY <2>1, <2>2, <2>3, <2>4, <2>5, <2>6 DEF Next, ReadStep, WriteStep
<1>2. QED
  BY InitInv, <1>1, PTL DEF Spec

(***************************************************************************)
(* The variables of the driver keep their types: in particular a position  *)
(* never leaves its block, for blocks of any size and calls of any length. *)
(***************************************************************************)
THEOREM TypeCorrect == Spec => []TypeOK
BY Invariant, PTL DEF IInv

(***************************************************************************)
(* The list stays in the shape queue_read and queue_write rely on: blocks  *)
(* fill in order, and only the head is read from.                          *)
(***************************************************************************)
THEOREM ListShape == Spec => []ListInv
BY Invariant, PTL DEF IInv

(***************************************************************************)
(* Neither end is used up: the head has unread bytes, and the tail room,   *)
(* unless a new block is being appended (queuel.c:64 and 92).              *)
(***************************************************************************)
THEOREM EndsOpen == Spec => []EndsInv
BY Invariant, PTL DEF IInv

(***************************************************************************)
(* No handler uses an erased block, although the reader erases blocks      *)
(* while the writer sleeps and nothing is locked.                          *)
(***************************************************************************)
THEOREM NoUseAfterErase == Spec => []HeldBlocksLive
BY Invariant, PTL DEF IInv

(***************************************************************************)
(* No copy leaves its block: the length computed before a sleep still fits *)
(* after it (queuel.c:55 and 86).                                          *)
(***************************************************************************)
THEOREM CopyStaysInBlock == Spec => []CopyInBlock
BY Invariant, PTL DEF IInv

(***************************************************************************)
(* queue_read answers end of file only when the whole list is read out,    *)
(* though it looks at the head alone (queuel.c:45-51).                     *)
(***************************************************************************)
THEOREM EofIsTrue == Spec => EofOnlyWhenDrained
<1>1. IInv /\ [Next]_vars => [ReadEof => Drained]_vars
  <2> SUFFICES ASSUME IInv, ReadEof PROVE Drained
    OBVIOUS
  <2>1. TypeOK /\ ListInv /\ EndsInv
    BY DEF IInv
  <2>2. CASE queue = <<>>
    BY <2>2, EmptySeq DEF Drained
  <2>3. CASE queue # <<>>
    <3>1. /\ Len(queue) \in Nat \ {0}
          /\ mem[queue[1]].wpos \in 0..SIZE /\ mem[queue[1]].rpos \in 0..SIZE
      BY <2>1, <2>3, EndsTyped DEF Block
    <3>2. mem[queue[1]].rpos >= mem[queue[1]].wpos
      BY <2>3 DEF ReadEof, NothingToRead
    <3>3. mem[queue[1]].rpos < SIZE
      BY <2>1, <2>3 DEF EndsInv
    <3>4. mem[queue[1]].wpos # SIZE
      BY <3>1, <3>2, <3>3, SizeAssumption
    <3>5. Len(queue) # 1 => mem[queue[1]].wpos = SIZE
      BY <2>1, <3>1, Several DEF ListInv, FullButLast
    <3>6. mem[queue[1]].rpos = mem[queue[1]].wpos
      BY <2>1, <3>1, <3>2, SizeAssumption DEF ListInv, NotReadPastWritten
    <3>7. QED
      BY <3>4, <3>5, <3>6 DEF Drained
  <2>4. QED
    BY <2>2, <2>3
<1>2. QED
  BY Invariant, <1>1, PTL DEF Spec, EofOnlyWhenDrained

(***************************************************************************)
(* A read that returns less than it was asked for leaves no byte behind:   *)
(* the breaks at queuel.c:66 and 68 are taken only at the end of the data. *)
(***************************************************************************)
THEOREM ShortReadIsTrue == Spec => ShortReadOnlyWhenDrained
<1>1. ASSUME IInv, ReadCopied, r'.pc = "idle", r.len < r.count
      PROVE  Drained'
  <2> DEFINE a   == queue[1]
             pos == mem[a].rpos + r.len
  <2>1. TypeOK /\ ListInv /\ queue # <<>> /\ a \in Addr
    BY <1>1, ReadCopiedCases DEF IInv
  <2>2. Len(queue) \in Nat \ {0} /\ mem[a] \in Block /\ r.count - r.len # 0
    BY <1>1, <2>1, EndsTyped DEF TypeOK
  <2>3. \A q, m, k : ReadTurn(q, m, k).pc = "copy"
    BY DEF ReadTurn
  <2>4. CASE queue' = Tail(queue)
             /\ r' = IF Tail(queue) = <<>> \/ r.count - r.len = 0 THEN ReadDone
                     ELSE ReadTurn(Tail(queue), mem, r.count - r.len)
    <3>1. queue' = <<>>
      BY <1>1, <2>2, <2>3, <2>4
    <3>2. QED
      BY <3>1, EmptySeq DEF Drained
  <2>5. CASE /\ pos < SIZE
             /\ queue' = queue
             /\ mem' = [mem EXCEPT ![a].rpos = pos]
             /\ r' = IF pos = mem[a].wpos \/ r.count - r.len = 0 THEN ReadDone
                     ELSE ReadTurn(queue, mem', r.count - r.len)
    <3>1. pos = mem[a].wpos
      BY <1>1, <2>2, <2>3, <2>5
    <3>2. Len(queue) # 1 => mem[a].wpos = SIZE
      BY <2>1, <2>2, Several DEF ListInv, FullButLast
    <3>3. Len(queue) = 1
      BY <2>5, <3>1, <3>2, SizeAssumption
    <3>4. mem'[a] = [mem[a] EXCEPT !.rpos = pos]
      BY <2>1, <2>5 DEF TypeOK
    <3>5. mem'[a].rpos = mem'[a].wpos
      BY <2>2, <3>1, <3>4 DEF Block
    <3>6. QED
      BY <2>5, <3>3, <3>5 DEF Drained
  <2>6. QED
    BY <1>1, <2>4, <2>5, ReadCopiedCases
<1>2. IInv /\ [Next]_vars =>
        [(ReadCopied /\ r'.pc = "idle" /\ r.len < r.count) => Drained']_vars
  BY <1>1
<1>3. QED
  BY Invariant, <1>2, PTL DEF Spec, ShortReadOnlyWhenDrained
-----------------------------------------------------------------------------
(***************************************************************************)
(* A list of sequences, put one after the other by FlattenSeq.  It is      *)
(* defined by a recursive function, of which these lemmas show that there  *)
(* is one and only one, and what it returns for a list that grew at its    *)
(* end or lost its beginning.                                              *)
(***************************************************************************)

\* A set of numbers that is not empty has a least one: what replaces induction below,
\* where the first counterexample is followed to an earlier one.
LEMMA Least ==
  ASSUME NEW T, T \subseteq Nat, T # {}
  PROVE  \E x \in T : \A y \in T : ~ (y < x)
<1> DEFINE R == {p \in Nat \X Nat : p[1] < p[2]}
<1>1. IsWellFoundedOn(R, Nat)
  BY NatLessThanWellFounded DEF OpToRel
<1>2. \A x, y \in Nat : y < x => <<y, x>> \in R
  OBVIOUS
<1> HIDE DEF R
<1>3. PICK x \in T : \A y \in T : ~ (<<y, x>> \in R)
  BY <1>1, WFMin
<1> QED BY <1>2, <1>3

\* f is the running concatenation of the first sequences of s.
Glued(s, f) == f = [i \in 1..Len(s) |-> IF i = 1 THEN s[i] ELSE f[i - 1] \o s[i]]

\* Any list of sequences has a running concatenation, of sequences.
LEMMA GluedExists ==
  ASSUME NEW S, NEW s \in Seq(Seq(S)), s # <<>>
  PROVE  \E f \in [1..Len(s) -> Seq(S)] : Glued(s, f)
<1> DEFINE Upto(n, f) == \A i \in 1..n : f[i] = IF i = 1 THEN s[i] ELSE f[i - 1] \o s[i]
           Bad == {n \in 1..Len(s) : ~ \E f \in [1..n -> Seq(S)] : Upto(n, f)}
<1>1. Len(s) \in Nat /\ Len(s) > 0 /\ \A i \in 1..Len(s) : s[i] \in Seq(S)
  BY EmptySeq, LenProperties, ElementOfSeq
<1>2. Bad = {}
  <2> SUFFICES ASSUME Bad # {} PROVE FALSE OBVIOUS
  <2>1. Bad \subseteq Nat BY <1>1
  <2>2. PICK n \in Bad : \A m \in Bad : ~ (m < n) BY <2>1, Least, Zenon
  <2>3. n \in 1..Len(s) BY <2>2
  <2>4. CASE n = 1
    <3> DEFINE f == [i \in 1..1 |-> s[i]]
    <3>1. f \in [1..1 -> Seq(S)] /\ Upto(1, f) BY <1>1
    <3> QED BY <3>1, <2>2, <2>4
  <2>5. CASE n # 1
    <3>1. n - 1 \in 1..Len(s) /\ n - 1 < n BY <1>1, <2>3, <2>5
    <3>2. n - 1 \notin Bad BY <2>2, <3>1
    <3>3. PICK f \in [1..n - 1 -> Seq(S)] : Upto(n - 1, f) BY <3>1, <3>2
    <3> DEFINE g == [i \in 1..n |-> IF i = n THEN f[n - 1] \o s[n] ELSE f[i]]
    <3>4. f[n - 1] \o s[n] \in Seq(S) BY <1>1, <2>3, <2>5, <3>1, ConcatProperties
    <3>5. g \in [1..n -> Seq(S)] BY <2>3, <3>4
    <3>6. Upto(n, g)
      <4> TAKE i \in 1..n
      <4>0. ASSUME NEW j \in 1..n - 1 PROVE g[j] = f[j]
        <5>1. j \in 1..n /\ j # n BY <2>3
        <5> QED BY <5>1
      <4>1. CASE i = n
        <5>1. g[i] = f[n - 1] \o s[n] BY <4>1
        <5>2. n - 1 \in 1..n - 1 BY <2>3, <2>5
        <5>3. g[i - 1] = f[n - 1] BY <4>0, <4>1, <5>2
        <5> QED BY <4>1, <2>5, <5>1, <5>3
      <4>2. CASE i # n
        <5>1. i \in 1..n - 1 /\ (i # 1 => i - 1 \in 1..n - 1) BY <4>2, <2>3
        <5>2. g[i] = f[i] /\ (i # 1 => g[i - 1] = f[i - 1]) BY <5>1, <4>0
        <5> HIDE DEF g
        <5> QED BY <5>1, <5>2, <3>3
      <4> QED BY <4>1, <4>2
    <3> QED BY <3>5, <3>6, <2>2
  <2> QED BY <2>4, <2>5
<1>3. Len(s) \in 1..Len(s) BY <1>1
<1>4. PICK f \in [1..Len(s) -> Seq(S)] : Upto(Len(s), f) BY <1>2, <1>3
<1> QED BY <1>4 DEF Glued

\* Concatenation is associative.
LEMMA Assoc ==
  ASSUME NEW S, NEW a \in Seq(S), NEW b \in Seq(S), NEW c \in Seq(S)
  PROVE  (a \o b) \o c = a \o (b \o c)
BY ConcatAssociative

\* A list has only one running concatenation.
LEMMA GluedAlike ==
  ASSUME NEW s, NEW f, NEW g, Len(s) \in Nat, Glued(s, f), Glued(s, g)
  PROVE  f = g
<1> DEFINE Bad == {i \in 1..Len(s) : f[i] # g[i]}
<1>1. Bad = {}
  <2> SUFFICES ASSUME Bad # {} PROVE FALSE OBVIOUS
  <2>1. PICK i \in Bad : \A j \in Bad : ~ (j < i)
    <3>1. Bad \subseteq Nat OBVIOUS
    <3> QED BY <3>1, Least, Zenon
  <2>2. i \in 1..Len(s) OBVIOUS
  <2>3. /\ f[i] = IF i = 1 THEN s[i] ELSE f[i - 1] \o s[i]
        /\ g[i] = IF i = 1 THEN s[i] ELSE g[i - 1] \o s[i]
    BY <2>2 DEF Glued
  <2>4. i # 1 => i - 1 \in 1..Len(s) /\ i - 1 < i BY <2>2
  <2>5. i # 1 => f[i - 1] = g[i - 1] BY <2>1, <2>4
  <2> QED BY <2>2, <2>3, <2>5
<1>2. f = [i \in 1..Len(s) |-> f[i]] /\ g = [i \in 1..Len(s) |-> g[i]] BY DEF Glued
<1>3. \A i \in 1..Len(s) : f[i] = g[i] BY <1>1
<1> QED BY <1>2, <1>3

\* FlattenSeq returns the last element of the running concatenation.
LEMMA FlattenSeqDef ==
  ASSUME NEW S, NEW s \in Seq(Seq(S)), s # <<>>
  PROVE  \E f \in [1..Len(s) -> Seq(S)] : Glued(s, f) /\ FlattenSeq(s) = f[Len(s)]
<1> DEFINE F == CHOOSE g : Glued(s, g)
<1>1. Len(s) # 0 BY EmptySeq
<1>2. FlattenSeq(s) = F[Len(s)] BY <1>1, Zenon DEF FlattenSeq, Glued
<1>3. PICK f \in [1..Len(s) -> Seq(S)] : Glued(s, f) BY GluedExists
<1>4. Glued(s, F) BY <1>3
<1> HIDE DEF F
<1>5. Len(s) \in Nat BY LenProperties
<1>6. F = f BY <1>3, <1>4, <1>5, GluedAlike
<1> QED BY <1>2, <1>3, <1>6

\* A list of no sequences is put together to the empty one.
LEMMA FlattenEmpty == FlattenSeq(<<>>) = <<>>
BY EmptySeq DEF FlattenSeq

\* Sequences over a set are put together to a sequence over it.
LEMMA FlattenType ==
  ASSUME NEW S, NEW s \in Seq(Seq(S))
  PROVE  FlattenSeq(s) \in Seq(S)
<1>1. CASE s = <<>> BY <1>1, FlattenEmpty, EmptySeq
<1>2. CASE s # <<>>
  <2>1. PICK f \in [1..Len(s) -> Seq(S)] : FlattenSeq(s) = f[Len(s)] BY <1>2, FlattenSeqDef
  <2>2. Len(s) \in 1..Len(s)
    <3>1. Len(s) \in Nat \ {0} BY <1>2, EmptySeq
    <3> QED BY <3>1
  <2> QED BY <2>1, <2>2
<1> QED BY <1>1, <1>2

\* The running concatenation of a longer list begins with that of the shorter.
LEMMA GluedFront ==
  ASSUME NEW S, NEW s \in Seq(Seq(S)), NEW x \in Seq(S), s # <<>>, NEW g, Glued(Append(s, x), g)
  PROVE  FlattenSeq(s) = g[Len(s)]
<1>1. PICK n \in Nat : n = Len(s) /\ n # 0 BY LenProperties, EmptySeq
<1>2. PICK t : t = Append(s, x) OBVIOUS
<1>3. Len(t) = n + 1 /\ \A i \in 1..n : t[i] = s[i] BY <1>1, <1>2, AppendProperties
<1> DEFINE h == [i \in 1..n |-> g[i]]
<1>4. \A i \in 1..n : g[i] = IF i = 1 THEN s[i] ELSE g[i - 1] \o s[i]
  <2> TAKE i \in 1..n
  <2>1. Glued(t, g) BY <1>2
  <2>2. i \in 1..Len(t) /\ t[i] = s[i] BY <1>3
  <2>3. g[i] = IF i = 1 THEN t[i] ELSE g[i - 1] \o t[i] BY <2>1, <2>2 DEF Glued
  <2> QED BY <2>2, <2>3
<1>5. h = [i \in 1..n |-> IF i = 1 THEN s[i] ELSE h[i - 1] \o s[i]]
  <2> SUFFICES ASSUME NEW i \in 1..n PROVE g[i] = IF i = 1 THEN s[i] ELSE h[i - 1] \o s[i]
    OBVIOUS
  <2>1. i # 1 => h[i - 1] = g[i - 1] OBVIOUS
  <2> QED BY <1>4, <2>1
<1>6. n \in 1..n /\ h[n] = g[n] BY <1>1
<1> HIDE DEF h
<1>7. Glued(s, h) BY <1>1, <1>5 DEF Glued
<1>8. PICK f : Glued(s, f) /\ FlattenSeq(s) = f[Len(s)] BY FlattenSeqDef
<1>9. Len(s) \in Nat BY <1>1
<1>10. h = f BY <1>7, <1>8, <1>9, GluedAlike
<1> QED BY <1>1, <1>6, <1>8, <1>10

\* A sequence that is added to the list comes last.
LEMMA FlattenAppend ==
  ASSUME NEW S, NEW s \in Seq(Seq(S)), NEW x \in Seq(S)
  PROVE  FlattenSeq(Append(s, x)) = FlattenSeq(s) \o x
<1>1. PICK t \in Seq(Seq(S)) : t = Append(s, x) BY AppendProperties
<1>2. PICK n \in Nat : n = Len(s) BY LenProperties
<1>3. /\ t # <<>> /\ Len(t) = n + 1
      /\ \A i \in 1..n : t[i] = s[i]
      /\ t[n + 1] = x
  BY <1>1, <1>2, AppendProperties
<1>4. PICK g \in [1..Len(t) -> Seq(S)] : Glued(t, g) /\ FlattenSeq(t) = g[n + 1]
  BY <1>3, FlattenSeqDef
<1>5. CASE s = <<>>
  <2>1. n = 0 BY <1>2, <1>5, EmptySeq
  <2>2. g[1] = x BY <1>3, <1>4, <2>1 DEF Glued
  <2> QED BY <1>1, <1>4, <1>5, <2>1, <2>2, FlattenEmpty, ConcatEmptySeq
<1>6. CASE s # <<>>
  <2>1. n \in Nat \ {0} BY <1>2, <1>6, EmptySeq
  <2>2. FlattenSeq(s) = g[n] BY <1>1, <1>2, <1>4, <1>6, GluedFront
  <2>3. g[n + 1] = g[n] \o t[n + 1]
    <3>1. n + 1 \in 1..Len(t) /\ n + 1 # 1 /\ (n + 1) - 1 = n BY <1>3, <2>1
    <3> QED BY <1>4, <3>1 DEF Glued
  <2> QED BY <1>1, <1>3, <1>4, <2>2, <2>3
<1> QED BY <1>5, <1>6

\* What a list is put together to begins with its first sequence.
HeadFirst(q) == FlattenSeq(q) = q[1] \o FlattenSeq(Tail(q))

\* If that holds of a list, it holds of the list with a sequence added.
LEMMA TailAppend ==
  ASSUME NEW S, NEW p \in Seq(Seq(S)), NEW x \in Seq(S), NEW q, q = Append(p, x), p # <<>>,
         HeadFirst(p)
  PROVE  HeadFirst(q)
<1>1. Tail(p) \in Seq(Seq(S)) /\ Len(p) \in Nat \ {0} /\ p[1] \in Seq(S)
  <2>1. Len(p) \in Nat \ {0} BY EmptySeq
  <2> QED BY <2>1, HeadTailProperties, ElementOfSeq
<1>2. q[1] = p[1] BY <1>1, AppendProperties
<1>3. Tail(q) = Append(Tail(p), x) BY HeadTailAppend
<1>4. FlattenSeq(Tail(q)) = FlattenSeq(Tail(p)) \o x BY <1>1, <1>3, FlattenAppend
<1>5. FlattenSeq(q) = FlattenSeq(p) \o x BY FlattenAppend
<1>6. FlattenSeq(Tail(p)) \in Seq(S) BY <1>1, FlattenType
<1>7. PICK a \in Seq(S) : a = p[1] BY <1>1
<1>8. PICK b \in Seq(S) : b = FlattenSeq(Tail(p)) BY <1>6
<1>9. FlattenSeq(q) = (a \o b) \o x /\ q[1] \o FlattenSeq(Tail(q)) = a \o (b \o x)
  BY <1>2, <1>4, <1>5, <1>7, <1>8 DEF HeadFirst
<1>10. (a \o b) \o x = a \o (b \o x) BY Assoc, SMTT(30)
<1> QED BY <1>9, <1>10, Zenon DEF HeadFirst

\* It holds of every list.
LEMMA FlattenTail ==
  ASSUME NEW S, NEW s \in Seq(Seq(S)), s # <<>>
  PROVE  HeadFirst(s)
<1> DEFINE Bad == {n \in Nat : \E q \in Seq(Seq(S)) : Len(q) = n + 1 /\ ~ HeadFirst(q)}
<1>1. Bad = {}
  <2> SUFFICES ASSUME Bad # {} PROVE FALSE OBVIOUS
  <2>1. PICK n \in Bad : \A m \in Bad : ~ (m < n)
    <3>1. Bad \subseteq Nat OBVIOUS
    <3> QED BY <3>1, Least, Zenon
  <2>2. PICK q \in Seq(Seq(S)) : Len(q) = n + 1 /\ ~ HeadFirst(q) OBVIOUS
  <2>3. n \in Nat /\ q # <<>> BY <2>2, EmptySeq
  <2>4. PICK p \in Seq(Seq(S)), x \in Seq(S) : q = Append(p, x)
    BY <2>3, SequenceEmptyOrAppend, Zenon
  <2>5. Len(p) = n
    <3>1. Len(p) \in Nat /\ Len(q) = Len(p) + 1 BY <2>4, AppendProperties, LenProperties
    <3> QED BY <2>2, <2>3, <3>1
  <2>6. CASE p = <<>>
    <3>1. q[1] = x /\ Tail(q) = <<>>
      <4>1. q[Len(p) + 1] = x /\ Len(p) = 0 BY <2>4, <2>6, AppendProperties, EmptySeq
      <4> QED BY <2>4, <2>6, <4>1, HeadTailAppend
    <3>2. <<>> \o x = x /\ x \o <<>> = x BY <2>4, ConcatEmptySeq, Zenon
    <3>3. FlattenSeq(q) = FlattenSeq(p) \o x BY <2>4, FlattenAppend
    <3> QED BY <2>2, <2>6, <3>1, <3>2, <3>3, FlattenEmpty DEF HeadFirst
  <2>7. CASE p # <<>>
    <3>1. n # 0 /\ n - 1 \in Nat /\ n - 1 < n /\ Len(p) = (n - 1) + 1 BY <2>3, <2>5, <2>7, EmptySeq
    <3>2. HeadFirst(p) BY <2>1, <2>4, <3>1
    <3> QED BY <2>2, <2>4, <2>7, <3>2, TailAppend
  <2> QED BY <2>6, <2>7
<1>2. Len(s) - 1 \in Nat /\ Len(s) = (Len(s) - 1) + 1
  <2>1. Len(s) \in Nat \ {0} BY EmptySeq
  <2> QED BY <2>1
<1> QED BY <1>1, <1>2

\* c is a followed by b.
Joins(c, a, b) == c = a \o b

\* What is added to the last sequence of a list is added to the whole.
LEMMA AppendGrows ==
  ASSUME NEW S, NEW p \in Seq(Seq(S)), NEW e \in Seq(S), NEW d \in Seq(S), NEW x \in Seq(S),
         Joins(d, e, x)
  PROVE  Joins(FlattenSeq(Append(p, d)), FlattenSeq(Append(p, e)), x)
<1>1. FlattenSeq(Append(p, d)) = FlattenSeq(p) \o d BY FlattenAppend
<1>2. FlattenSeq(Append(p, e)) = FlattenSeq(p) \o e BY FlattenAppend
<1>3. PICK b \in Seq(S) : b = FlattenSeq(p) BY FlattenType
<1>4. (b \o e) \o x = b \o (e \o x) BY Assoc
<1> QED BY <1>1, <1>2, <1>3, <1>4 DEF Joins

\* The same of two lists that differ in their last sequence.
LEMMA LastGrows ==
  ASSUME NEW S, NEW s \in Seq(Seq(S)), NEW t \in Seq(Seq(S)), NEW x \in Seq(S),
         NEW n \in Nat \ {0}, Len(s) = n, Len(t) = n, \A i \in 1..n - 1 : t[i] = s[i],
         NEW e \in Seq(S), s[n] = e, Joins(t[n], e, x)
  PROVE  Joins(FlattenSeq(t), FlattenSeq(s), x)
<1>1. s # <<>> /\ t # <<>> BY EmptySeq
<1>2. PICK p \in Seq(Seq(S)), c \in Seq(S) : s = Append(p, c)
  BY <1>1, SequenceEmptyOrAppend, Zenon
<1>3. PICK q \in Seq(Seq(S)), d \in Seq(S) : t = Append(q, d)
  BY <1>1, SequenceEmptyOrAppend, Zenon
<1>4. /\ Len(p) = n - 1 /\ c = e
      /\ \A i \in 1..n - 1 : s[i] = p[i]
  <2>1. Len(s) = Len(p) + 1 /\ Len(p) \in Nat BY <1>2, AppendProperties, LenProperties
  <2>2. Len(p) = n - 1 BY <2>1
  <2> QED BY <1>2, <2>1, <2>2, AppendProperties
<1>5. /\ Len(q) = n - 1 /\ t[n] = d
      /\ \A i \in 1..n - 1 : t[i] = q[i]
  <2>1. Len(t) = Len(q) + 1 /\ Len(q) \in Nat BY <1>3, AppendProperties, LenProperties
  <2>2. Len(q) = n - 1 BY <2>1
  <2> QED BY <1>3, <2>1, <2>2, AppendProperties
<1>6. p = q
  <2>1. Len(p) = Len(q) /\ \A i \in 1..Len(p) : p[i] = q[i] BY <1>4, <1>5
  <2> QED BY <2>1, SeqEqual
<1>7. Joins(d, e, x) BY <1>5
<1>8. s = Append(p, e) /\ t = Append(p, d) BY <1>2, <1>3, <1>4, <1>6
<1> QED BY <1>2, <1>3, <1>7, <1>8, AppendGrows

\* What the first sequence of a list loses at its beginning, the whole loses.
LEMMA FirstShrinks ==
  ASSUME NEW S, NEW s \in Seq(Seq(S)), NEW t \in Seq(Seq(S)), NEW x \in Seq(S),
         NEW n \in Nat \ {0}, Len(s) = n, Len(t) = n, \A i \in 2..n : t[i] = s[i],
         NEW e \in Seq(S), t[1] = e, Joins(s[1], x, e)
  PROVE  Joins(FlattenSeq(s), x, FlattenSeq(t))
<1>1. s # <<>> /\ t # <<>> BY EmptySeq
<1>2. /\ Tail(s) \in Seq(Seq(S)) /\ Len(Tail(s)) = n - 1
      /\ \A i \in 1..n - 1 : Tail(s)[i] = s[i + 1]
  BY <1>1, HeadTailProperties
<1>3. /\ Tail(t) \in Seq(Seq(S)) /\ Len(Tail(t)) = n - 1
      /\ \A i \in 1..n - 1 : Tail(t)[i] = t[i + 1]
  BY <1>1, HeadTailProperties
<1>4. Tail(s) = Tail(t)
  <2>1. \A i \in 1..n - 1 : i + 1 \in 2..n OBVIOUS
  <2>2. \A i \in 1..Len(Tail(s)) : Tail(s)[i] = Tail(t)[i] BY <1>2, <1>3, <2>1
  <2> QED BY <1>2, <1>3, <2>2, SeqEqual
<1>5. FlattenSeq(s) = s[1] \o FlattenSeq(Tail(s)) /\ FlattenSeq(t) = t[1] \o FlattenSeq(Tail(s))
  BY <1>1, <1>4, FlattenTail DEF HeadFirst
<1>6. PICK b \in Seq(S) : b = FlattenSeq(Tail(s)) BY <1>2, FlattenType
<1>7. (x \o e) \o b = x \o (e \o b) BY Assoc, SMTT(30)
<1> QED BY <1>5, <1>6, <1>7 DEF Joins

\* A sequence that is two in a row gives the first of them and keeps the other.
LEMMA TwoInARow ==
  ASSUME NEW S, NEW a \in Seq(S), NEW b \in Seq(S), NEW c, Joins(c, a, b)
  PROVE  /\ Len(a) \in 0..Len(c)
         /\ a = SubSeq(c, 1, Len(a))
         /\ b = SubSeq(c, Len(a) + 1, Len(c))
<1>1. /\ c \in Seq(S) /\ Len(c) = Len(a) + Len(b) /\ Len(a) \in Nat /\ Len(b) \in Nat
      /\ \A i \in 1..Len(a) : c[i] = a[i]
      /\ \A i \in 1..Len(b) : c[Len(a) + i] = b[i]
  <2>1. /\ c \in Seq(S) /\ Len(c) = Len(a) + Len(b)
        /\ \A i \in 1..Len(a) + Len(b) : c[i] = IF i <= Len(a) THEN a[i] ELSE b[i - Len(a)]
    BY ConcatProperties DEF Joins
  <2>2. Len(a) \in Nat /\ Len(b) \in Nat BY LenProperties
  <2>3. ASSUME NEW i \in 1..Len(b) PROVE c[Len(a) + i] = b[i]
    <3>1. Len(a) + i \in 1..Len(a) + Len(b) /\ ~ (Len(a) + i <= Len(a)) /\ (Len(a) + i) - Len(a) = i
      BY <2>2
    <3> QED BY <2>1, <3>1
  <2>4. ASSUME NEW i \in 1..Len(a) PROVE c[i] = a[i]
    <3>1. i \in 1..Len(a) + Len(b) /\ i <= Len(a) BY <2>2
    <3> QED BY <2>1, <3>1
  <2> QED BY <2>1, <2>2, <2>3, <2>4
<1>2. a = SubSeq(c, 1, Len(a))
  <2>1. \A i \in 1..Len(a) : c[i] \in S BY <1>1, ElementOfSeq
  <2>2. /\ SubSeq(c, 1, Len(a)) \in Seq(S)
        /\ Len(SubSeq(c, 1, Len(a))) = IF 1 <= Len(a) THEN Len(a) - 1 + 1 ELSE 0
        /\ \A i \in 1..Len(a) - 1 + 1 : SubSeq(c, 1, Len(a))[i] = c[1 + i - 1]
    BY <1>1, <2>1, SubSeqProperties
  <2>3. Len(SubSeq(c, 1, Len(a))) = Len(a) BY <1>1, <2>2
  <2>4. \A i \in 1..Len(a) : SubSeq(c, 1, Len(a))[i] = a[i] BY <1>1, <2>2
  <2> QED BY <2>2, <2>3, <2>4, SeqEqual
<1>3. b = SubSeq(c, Len(a) + 1, Len(c))
  <2> DEFINE k == Len(a) + 1
             d == SubSeq(c, k, Len(c))
  <2>1. \A i \in k..Len(c) : c[i] \in S BY <1>1, ElementOfSeq
  <2>2. /\ d \in Seq(S)
        /\ Len(d) = IF k <= Len(c) THEN Len(c) - k + 1 ELSE 0
        /\ \A i \in 1..Len(c) - k + 1 : d[i] = c[k + i - 1]
    BY <1>1, <2>1, SubSeqProperties
  <2> HIDE DEF d
  <2>3. Len(d) = Len(b) BY <1>1, <2>2
  <2>4. ASSUME NEW i \in 1..Len(b) PROVE d[i] = b[i]
    <3>1. i \in 1..Len(c) - k + 1 /\ k + i - 1 = Len(a) + i BY <1>1
    <3>2. d[i] = c[Len(a) + i] BY <2>2, <3>1
    <3> QED BY <1>1, <3>2
  <2>5. d = b BY <2>2, <2>3, <2>4, SeqEqual
  <2> QED BY <2>5 DEF d
<1> QED BY <1>1, <1>2, <1>3
-----------------------------------------------------------------------------
(***************************************************************************)
(* The bytes that are stored: the unread ones of the blocks of the list.   *)
(***************************************************************************)
Bytes == Byte \cup {NoByte}
Blocks(q, m) == [i \in 1..Len(q) |-> Unread(m[q[i]])]

\* The unread bytes of a block.
LEMMA UnreadFacts ==
  ASSUME NEW b \in Block, b.rpos <= b.wpos
  PROVE  /\ Unread(b) \in Seq(Bytes)
         /\ Len(Unread(b)) = b.wpos - b.rpos /\ b.wpos - b.rpos \in Nat
         /\ \A i \in 1..b.wpos - b.rpos : Unread(b)[i] = b.data[b.rpos + i - 1]
<1> DEFINE n == b.wpos - b.rpos
<1>1. /\ b.wpos \in Nat /\ b.rpos \in Nat /\ n \in Nat /\ b.wpos <= SIZE
      /\ b.data \in [0..SIZE - 1 -> Bytes]
  BY SizeAssumption DEF Block, Bytes
<1>2. Unread(b) = [i \in 1..n |-> b.data[b.rpos + i - 1]] BY DEF Unread
<1>3. \A i \in 1..n : b.data[b.rpos + i - 1] \in Bytes
  <2> TAKE i \in 1..n
  <2>1. b.rpos + i - 1 \in 0..SIZE - 1 BY <1>1, SizeAssumption
  <2> QED BY <1>1, <2>1
<1> HIDE DEF n
<1>4. Unread(b) \in [1..n -> Bytes] BY <1>2, <1>3
<1>5. Unread(b) \in Seq(Bytes) /\ Len(Unread(b)) = n BY <1>1, <1>4
<1> QED BY <1>1, <1>2, <1>5 DEF n

\* Blocks that are not read past what is written give a list of sequences.
LEMMA BlocksFacts ==
  ASSUME NEW q \in Seq(Addr), NEW m \in [Addr -> Block],
         \A i \in 1..Len(q) : m[q[i]].rpos <= m[q[i]].wpos
  PROVE  /\ Blocks(q, m) \in Seq(Seq(Bytes))
         /\ Len(Blocks(q, m)) = Len(q)
         /\ \A i \in 1..Len(q) : Blocks(q, m)[i] = Unread(m[q[i]]) /\ Unread(m[q[i]]) \in Seq(Bytes)
<1>1. Len(q) \in Nat BY LenProperties
<1>2. \A i \in 1..Len(q) : Unread(m[q[i]]) \in Seq(Bytes)
  <2> TAKE i \in 1..Len(q)
  <2>1. q[i] \in Addr BY ElementOfSeq
  <2>2. m[q[i]] \in Block /\ m[q[i]].rpos <= m[q[i]].wpos BY <2>1
  <2> QED BY <2>2, UnreadFacts
<1>3. Blocks(q, m) \in [1..Len(q) -> Seq(Bytes)] BY <1>2 DEF Blocks
<1>4. Blocks(q, m) \in Seq(Seq(Bytes)) /\ Len(Blocks(q, m)) = Len(q) BY <1>1, <1>3
<1> QED BY <1>2, <1>4 DEF Blocks

\* What is stored is a sequence of bytes: the blocks of the list put together.
LEMMA StoredFacts ==
  ASSUME IInv
  PROVE  /\ Blocks(queue, mem) \in Seq(Seq(Bytes))
         /\ Len(Blocks(queue, mem)) = Len(queue)
         /\ \A i \in 1..Len(queue) : /\ Blocks(queue, mem)[i] = Unread(mem[queue[i]])
                                    /\ Unread(mem[queue[i]]) \in Seq(Bytes)
         /\ Stored = FlattenSeq(Blocks(queue, mem))
         /\ Stored \in Seq(Bytes)
<1>1. queue \in Seq(Addr) /\ mem \in [Addr -> Block] BY DEF IInv, TypeOK
<1>2. \A i \in 1..Len(queue) : mem[queue[i]].rpos <= mem[queue[i]].wpos
  BY DEF IInv, ListInv, NotReadPastWritten
<1>3. Stored = FlattenSeq(Blocks(queue, mem)) BY DEF Stored, Blocks
<1>4. Blocks(queue, mem) \in Seq(Seq(Bytes)) BY <1>1, <1>2, BlocksFacts
<1> QED BY <1>1, <1>2, <1>3, <1>4, BlocksFacts, FlattenType

\* The same of what is stored after a step.
LEMMA StoredNext ==
  ASSUME IInv'
  PROVE  /\ Blocks(queue', mem') \in Seq(Seq(Bytes))
         /\ Len(Blocks(queue', mem')) = Len(queue')
         /\ \A i \in 1..Len(queue') : /\ Blocks(queue', mem')[i] = Unread(mem'[queue'[i]])
                                     /\ Unread(mem'[queue'[i]]) \in Seq(Bytes)
         /\ Stored' = FlattenSeq(Blocks(queue', mem'))
         /\ Stored' \in Seq(Bytes)
<1>1. queue' \in Seq(Addr) /\ mem' \in [Addr -> Block] BY DEF IInv, TypeOK
<1>2. \A i \in 1..Len(queue') : mem'[queue'[i]].rpos <= mem'[queue'[i]].wpos
  BY DEF IInv, ListInv, NotReadPastWritten
<1>3. Stored' = FlattenSeq(Blocks(queue', mem')) BY DEF Stored, Blocks
<1>4. Blocks(queue', mem') \in Seq(Seq(Bytes)) BY <1>1, <1>2, BlocksFacts
<1> QED BY <1>1, <1>2, <1>3, <1>4, BlocksFacts, FlattenType

\* Between two calls the writer holds no bytes.
NothingLeft == w.pc = "idle" => w.buf = <<>>

\* Each call of write ends with its buffer given away.
LEMMA NothingLeftStep == ASSUME NothingLeft, [Next]_vars PROVE NothingLeft'
<1> USE DEF NothingLeft
<1>1. CASE UNCHANGED w BY <1>1
<1>2. CASE \E buf \in Bufs : WriteCall(buf) BY <1>2 DEF WriteCall, WriteDone
<1>3. CASE WriteEntry BY <1>3 DEF WriteEntry, WriteTurn
<1>4. CASE \E a \in Addr : NewBlock(a) BY <1>4 DEF NewBlock, WriteTurn, WriteDone
<1>5. CASE NewFails \/ WriteFault BY <1>5 DEF NewFails, WriteFault, WriteDone
<1>6. CASE WriteCopied BY <1>6 DEF WriteCopied, WriteTurn, WriteDone
<1> QED BY <1>1, <1>2, <1>3, <1>4, <1>5, <1>6
        DEF Next, vars, dev_init, dev_exit, ReadCall, ReadStep, ReadEof, ReadStart, ReadCopied,
            ReadFault, WriteStep

\* A step that gives bytes to a reader and leaves the others stored.
LEMMA Takes ==
  ASSUME out' \in Seq(Bytes), Stored' \in Seq(Bytes), Joins(Stored, out', Stored'), w'.buf = w.buf
  PROVE  Fifo!Take
<1>1. /\ Len(out') \in 0..Len(Stored)
      /\ out' = SubSeq(Stored, 1, Len(out'))
      /\ Stored' = SubSeq(Stored, Len(out') + 1, Len(Stored))
  BY TwoInARow
<1> QED BY <1>1 DEF Fifo!Take

\* A step that touches no byte.
LEMMA TakesNothing ==
  ASSUME out' = <<>>, Stored \in Seq(Bytes), Stored' = Stored, w'.buf = w.buf
  PROVE  Fifo!Take
<1>1. out' \in Seq(Bytes) BY EmptySeq
<1>2. Joins(Stored, out', Stored')
  <2>1. <<>> \o Stored = Stored BY ConcatEmptySeq
  <2> QED BY <2>1 DEF Joins
<1> QED BY <1>1, <1>2, Takes

\* Two in a row, by their elements.
LEMMA JoinsByElements ==
  ASSUME NEW S, NEW c \in Seq(S), NEW a \in Seq(S), NEW b \in Seq(S), Len(c) = Len(a) + Len(b),
         \A i \in 1..Len(a) : c[i] = a[i],
         \A i \in 1..Len(b) : c[Len(a) + i] = b[i]
  PROVE  Joins(c, a, b)
<1> DEFINE d == a \o b
<1>1. Len(a) \in Nat /\ Len(b) \in Nat BY LenProperties
<1>2. /\ d \in Seq(S) /\ Len(d) = Len(a) + Len(b)
      /\ \A i \in 1..Len(a) + Len(b) : d[i] = IF i <= Len(a) THEN a[i] ELSE b[i - Len(a)]
  BY ConcatProperties
<1>3. ASSUME NEW i \in 1..Len(c) PROVE c[i] = d[i]
  <2>1. CASE i <= Len(a)
    <3>1. i \in 1..Len(a) /\ i \in 1..Len(a) + Len(b) BY <1>1, <2>1
    <3> QED BY <1>2, <2>1, <3>1
  <2>2. CASE ~ (i <= Len(a))
    <3>1. /\ i - Len(a) \in 1..Len(b) /\ i \in 1..Len(a) + Len(b)
          /\ Len(a) + (i - Len(a)) = i
      BY <1>1, <2>2
    <3>2. c[i] = b[i - Len(a)] BY <3>1
    <3> QED BY <1>2, <2>2, <3>1, <3>2
  <2> QED BY <2>1, <2>2
<1> HIDE DEF d
<1>4. c = d BY <1>2, <1>3, SeqEqual
<1> QED BY <1>4 DEF Joins, d

\* A read takes its bytes from the front, whether or not the head is erased.
LEMMA ReadTakes == ASSUME IInv, IInv', ReadCopied PROVE Fifo!Take
<1> DEFINE a   == queue[1]
           pos == mem[a].rpos + r.len
           n   == Len(queue)
           s   == Blocks(queue, mem)
           t   == Blocks(queue', mem')
<1>1. /\ queue # <<>> /\ a \in Addr /\ r.len \in Nat /\ pos \in Nat /\ pos <= mem[a].wpos
      /\ UNCHANGED w
      /\ \/ /\ pos = SIZE
            /\ queue' = Tail(queue)
            /\ mem' = [mem EXCEPT ![a] = Fresh]
         \/ /\ pos < SIZE
            /\ queue' = queue
            /\ mem' = [mem EXCEPT ![a].rpos = pos]
  BY ReadCopiedCases
<1>2. /\ n \in Nat \ {0} /\ queue \in Seq(Addr) /\ \A i \in 1..n : queue[i] \in Addr
      /\ mem \in [Addr -> Block] /\ mem[a] \in Block /\ mem[a].wpos \in Nat /\ mem[a].wpos <= SIZE
      /\ mem[a].rpos \in Nat
      /\ \A i \in 2..n : queue[i] # a
  <2>1. TypeOK /\ Distinct BY DEF IInv, ListInv
  <2>2. /\ n \in Nat \ {0} /\ queue \in Seq(Addr) /\ \A i \in 1..n : queue[i] \in Addr
        /\ mem \in [Addr -> Block] /\ mem[a] \in Block
    BY <1>1, <2>1, EndsTyped DEF TypeOK
  <2>3. mem[a].wpos \in Nat /\ mem[a].wpos <= SIZE /\ mem[a].rpos \in Nat
    BY <2>2, SizeAssumption DEF Block
  <2> QED BY <2>1, <2>2, <2>3 DEF Distinct
<1>3. /\ s \in Seq(Seq(Bytes)) /\ Len(s) = n
      /\ \A i \in 1..n : s[i] = Unread(mem[queue[i]]) /\ s[i] \in Seq(Bytes)
      /\ Stored = FlattenSeq(s)
  BY StoredFacts
<1>4. /\ t \in Seq(Seq(Bytes)) /\ Len(t) = Len(queue')
      /\ \A i \in 1..Len(queue') : t[i] = Unread(mem'[queue'[i]]) /\ t[i] \in Seq(Bytes)
      /\ Stored' = FlattenSeq(t) /\ Stored' \in Seq(Bytes)
  BY StoredNext
<1>5. /\ out' \in Seq(Bytes) /\ Len(out') = r.len
      /\ \A i \in 1..r.len : out'[i] = mem[a].data[mem[a].rpos + i - 1]
  <2>1. r.blk = a BY DEF IInv, HeldBlocksLive, ReadCopied
  <2>2. out' = [i \in 1..r.len |-> mem[a].data[mem[a].rpos + i - 1]] BY <2>1 DEF ReadCopied
  <2>3. out' \in Seq(Bytes) BY DEF IInv, TypeOK, Bytes
  <2>4. r.len \in Nat BY <1>1
  <2> QED BY <2>2, <2>3, <2>4
<1>6. /\ s[1] \in Seq(Bytes) /\ s[1] = Unread(mem[a]) /\ Len(s[1]) = mem[a].wpos - mem[a].rpos
      /\ \A i \in 1..mem[a].wpos - mem[a].rpos : s[1][i] = mem[a].data[mem[a].rpos + i - 1]
  <2>1. 1 \in 1..n BY <1>2
  <2>2. mem[a].rpos <= mem[a].wpos BY <2>1 DEF IInv, ListInv, NotReadPastWritten
  <2>3. PICK h \in Block : h = mem[a] BY <1>2
  <2>4. s[1] = Unread(h) BY <1>3, <2>1, <2>3
  <2>5. h.rpos <= h.wpos BY <2>2, <2>3
  <2> HIDE DEF s
  <2> QED BY <2>3, <2>4, <2>5, UnreadFacts
<1> HIDE DEF s, t
<1>7. CASE pos = SIZE /\ queue' = Tail(queue) /\ mem' = [mem EXCEPT ![a] = Fresh]
  <2>1. mem[a].wpos - mem[a].rpos = r.len BY <1>1, <1>2, <1>7, SizeAssumption
  <2>2. s[1] = out' BY <1>5, <1>6, <2>1, SeqEqual
  <2>3. s # <<>> BY <1>2, <1>3, EmptySeq
  <2>4. /\ Len(queue') = n - 1 /\ \A i \in 1..n - 1 : queue'[i] = queue[i + 1]
    BY <1>1, <1>2, <1>7, TailFacts
  <2>5. /\ Tail(s) \in Seq(Seq(Bytes)) /\ Len(Tail(s)) = n - 1
        /\ \A i \in 1..n - 1 : Tail(s)[i] = s[i + 1]
    BY <1>3, <2>3, HeadTailProperties
  <2>6. ASSUME NEW i \in 1..n - 1 PROVE Tail(s)[i] = t[i]
    <3>1. i + 1 \in 2..n /\ i + 1 \in 1..n BY <1>2
    <3>2. mem'[queue'[i]] = mem[queue[i + 1]] BY <1>2, <1>7, <2>4, <3>1
    <3> QED BY <1>3, <1>4, <2>4, <2>5, <3>1, <3>2
  <2>7. Tail(s) = t BY <1>4, <2>4, <2>5, <2>6, SeqEqual
  <2>8. HeadFirst(s) BY <1>3, <2>3, FlattenTail
  <2>9. Joins(Stored, out', Stored') BY <1>3, <1>4, <2>2, <2>7, <2>8 DEF HeadFirst, Joins
  <2> QED BY <1>1, <1>4, <1>5, <2>9, Takes
<1>8. CASE pos < SIZE /\ queue' = queue /\ mem' = [mem EXCEPT ![a].rpos = pos]
  <2>1. /\ mem'[a] = [mem[a] EXCEPT !.rpos = pos]
        /\ \A i \in 2..n : mem'[queue[i]] = mem[queue[i]]
    <3>1. mem'[a] = [mem[a] EXCEPT !.rpos = pos] BY <1>1, <1>2, <1>8
    <3>2. ASSUME NEW i \in 2..n PROVE mem'[queue[i]] = mem[queue[i]]
      <4>1. i \in 1..n /\ queue[i] \in Addr /\ queue[i] # a BY <1>2
      <4> QED BY <1>2, <1>8, <4>1
    <3> QED BY <3>1, <3>2
  <2>2. /\ mem'[a].rpos = pos /\ mem'[a].wpos = mem[a].wpos /\ mem'[a].data = mem[a].data
        /\ mem'[a] \in Block
    <3>1. mem'[a] \in Block BY <1>1 DEF IInv, TypeOK
    <3> QED BY <1>2, <2>1, <3>1 DEF Block
  <2>3. /\ t[1] \in Seq(Bytes) /\ Len(t[1]) = mem[a].wpos - pos
        /\ \A i \in 1..mem[a].wpos - pos : t[1][i] = mem[a].data[pos + i - 1]
    <3>1. t[1] = Unread(mem'[a])
      <4>1. 1 \in 1..Len(queue') /\ queue'[1] = a BY <1>2, <1>8
      <4> QED BY <1>4, <4>1
    <3> QED BY <1>1, <2>2, <3>1, UnreadFacts
  <2>4. Joins(s[1], out', t[1])
    <3>1. Len(s[1]) = Len(out') + Len(t[1]) BY <1>1, <1>2, <1>5, <1>6, <2>3
    <3>2. ASSUME NEW i \in 1..Len(out') PROVE s[1][i] = out'[i]
      <4>1. i \in 1..mem[a].wpos - mem[a].rpos /\ i \in 1..r.len BY <1>1, <1>2, <1>5
      <4> QED BY <1>5, <1>6, <4>1
    <3>3. ASSUME NEW i \in 1..Len(t[1]) PROVE s[1][Len(out') + i] = t[1][i]
      <4>1. /\ Len(out') + i \in 1..mem[a].wpos - mem[a].rpos /\ i \in 1..mem[a].wpos - pos
            /\ mem[a].rpos + (Len(out') + i) - 1 = pos + i - 1
        <5>1. PICK wp \in Nat, rp \in Nat, l \in Nat :
                wp = mem[a].wpos /\ rp = mem[a].rpos /\ l = r.len
          BY <1>1, <1>2
        <5>2. pos = rp + l /\ Len(out') = l /\ rp + l <= wp /\ i \in 1..wp - (rp + l)
          BY <1>1, <1>5, <2>3, <5>1
        <5>3. l + i \in 1..wp - rp /\ rp + (l + i) - 1 = (rp + l) + i - 1 BY <5>2
        <5> QED BY <5>1, <5>2, <5>3
      <4> QED BY <1>6, <2>3, <4>1
    <3> QED BY <1>5, <1>6, <2>3, <3>1, <3>2, <3>3, JoinsByElements
  <2>5. \A i \in 2..n : t[i] = s[i]
    <3> TAKE i \in 2..n
    <3>1. i \in 1..n /\ i \in 1..Len(queue') /\ queue'[i] = queue[i] BY <1>2, <1>8
    <3>2. s[i] = Unread(mem[queue[i]]) BY <1>3, <3>1
    <3>3. t[i] = Unread(mem'[queue[i]]) BY <1>4, <3>1
    <3> QED BY <2>1, <3>2, <3>3
  <2>6. Joins(FlattenSeq(s), out', FlattenSeq(t))
    BY <1>2, <1>3, <1>4, <1>5, <1>8, <2>3, <2>4, <2>5, FirstShrinks
  <2>7. Joins(Stored, out', Stored') BY <1>3, <1>4, <2>6
  <2> QED BY <1>1, <1>4, <1>5, <2>7, Takes
<1> QED BY <1>1, <1>7, <1>8

\* The bytes a write hands over follow those that are stored.
LEMMA WritePuts == ASSUME IInv, IInv', WriteCopied PROVE Fifo!Put \/ Fifo!Take
<1> DEFINE n    == Len(queue)
           a    == w.blk
           b    == mem[a]
           pos  == b.wpos + w.len
           s    == Blocks(queue, mem)
           t    == Blocks(queue', mem')
           x    == SubSeq(w.buf, 1, w.len)
           rest == SubSeq(w.buf, w.len + 1, Len(w.buf))
<1>1. /\ w.pc = "copy" /\ UNCHANGED queue /\ out' = <<>>
      /\ mem' = [mem EXCEPT ![a] = [b EXCEPT !.wpos = pos,
                           !.data = [i \in DOMAIN b.data |->
                              IF i \in b.wpos..(pos - 1) THEN w.buf[i - b.wpos + 1]
                              ELSE b.data[i]]]]
      /\ w' = IF NeedsBlock(pos) THEN [WriteDone EXCEPT !.pc = "new", !.buf = rest]
              ELSE IF rest = <<>> THEN WriteDone ELSE WriteTurn(a, mem'[a], rest)
  <2>1. a \in Addr BY EndsTyped DEF IInv, TypeOK, HeldBlocksLive, WriteCopied
  <2> QED BY <2>1 DEF WriteCopied, IInv, TypeOK
<1>2. /\ queue # <<>> /\ n \in Nat \ {0} /\ a = queue[n] /\ a \in Addr /\ b \in Block
      /\ mem \in [Addr -> Block] /\ w.len \in Nat /\ w.buf \in Seq(Byte) /\ Len(w.buf) \in Nat
      /\ w.len <= Len(w.buf) /\ pos <= SIZE
      /\ \A i \in 1..n : queue[i] \in Addr
      /\ \A i \in 1..n - 1 : queue[i] # a
  <2>1. TypeOK /\ Distinct /\ HeldBlocksLive /\ CopyInBlock BY DEF IInv, ListInv
  <2>2. queue # <<>> /\ a = queue[n] /\ w.len <= Len(w.buf) /\ pos <= SIZE
    BY <1>1, <2>1 DEF HeldBlocksLive, CopyInBlock
  <2>3. /\ n \in Nat \ {0} /\ a \in Addr /\ b \in Block /\ \A i \in 1..n : queue[i] \in Addr
    BY <2>1, <2>2, EndsTyped
  <2>4. w.len \in Nat /\ w.buf \in Seq(Byte) /\ mem \in [Addr -> Block] BY <2>1 DEF TypeOK
  <2>5. Len(w.buf) \in Nat BY <2>4, LenProperties
  <2>6. \A i \in 1..n - 1 : queue[i] # a BY <2>1, <2>2, <2>3 DEF Distinct
  <2> QED BY <2>2, <2>3, <2>4, <2>5, <2>6
<1>3. w'.buf = rest BY <1>1 DEF WriteDone, WriteTurn
<1>4. x \in Seq(Bytes) /\ Len(x) = w.len /\ \A i \in 1..w.len : x[i] = w.buf[i]
  <2>1. \A i \in 1..w.len : w.buf[i] \in Bytes BY <1>2, ElementOfSeq DEF Bytes
  <2>2. /\ x \in Seq(Bytes) /\ Len(x) = IF 1 <= w.len THEN w.len - 1 + 1 ELSE 0
        /\ \A i \in 1..w.len - 1 + 1 : x[i] = w.buf[1 + i - 1]
    BY <1>2, <2>1, SubSeqProperties
  <2> HIDE DEF x
  <2> QED BY <1>2, <2>2
<1>5. /\ s \in Seq(Seq(Bytes)) /\ Len(s) = n
      /\ \A i \in 1..n : s[i] = Unread(mem[queue[i]]) /\ s[i] \in Seq(Bytes)
      /\ Stored = FlattenSeq(s) /\ Stored \in Seq(Bytes)
  BY StoredFacts
<1>6. /\ t \in Seq(Seq(Bytes)) /\ Len(t) = n
      /\ \A i \in 1..n : t[i] = Unread(mem'[queue[i]]) /\ t[i] \in Seq(Bytes)
      /\ Stored' = FlattenSeq(t)
  BY <1>1, StoredNext
<1> HIDE DEF s, t
<1>7. Joins(t[n], s[n], x)
  <2>1. /\ b.wpos \in Nat /\ b.rpos \in Nat /\ b.rpos <= b.wpos
        /\ DOMAIN b.data = 0..SIZE - 1
    <3>1. n \in 1..n BY <1>2
    <3> QED BY <1>2, <3>1, SizeAssumption DEF Block, IInv, ListInv, NotReadPastWritten
  <2> DEFINE nb == mem'[a]
  <2>2. /\ nb.wpos = pos /\ nb.rpos = b.rpos /\ nb \in Block
        /\ nb.data = [i \in DOMAIN b.data |->
                         IF i \in b.wpos..(pos - 1) THEN w.buf[i - b.wpos + 1] ELSE b.data[i]]
    <3>1. nb \in Block BY <1>2 DEF IInv, TypeOK
    <3> QED BY <1>1, <1>2, <3>1 DEF Block
  <2> HIDE DEF nb
  <2>3. \A i \in 0..SIZE - 1 :
          nb.data[i] = IF i \in b.wpos..(pos - 1) THEN w.buf[i - b.wpos + 1] ELSE b.data[i]
    BY <2>1, <2>2
  <2>4. /\ s[n] \in Seq(Bytes) /\ Len(s[n]) = b.wpos - b.rpos
        /\ \A i \in 1..b.wpos - b.rpos : s[n][i] = b.data[b.rpos + i - 1]
    <3>1. n \in 1..n BY <1>2
    <3>2. s[n] = Unread(b) BY <1>2, <1>5, <3>1
    <3> QED BY <1>2, <2>1, <3>2, UnreadFacts
  <2>5. /\ t[n] \in Seq(Bytes) /\ Len(t[n]) = pos - b.rpos
        /\ \A i \in 1..pos - b.rpos : t[n][i] = nb.data[b.rpos + i - 1]
    <3>1. n \in 1..n BY <1>2
    <3>2. t[n] = Unread(nb) BY <1>2, <1>6, <3>1 DEF nb
    <3>3. nb.rpos <= nb.wpos BY <1>2, <2>1, <2>2
    <3>4. /\ t[n] \in Seq(Bytes) /\ Len(t[n]) = nb.wpos - nb.rpos
          /\ \A i \in 1..nb.wpos - nb.rpos : t[n][i] = nb.data[nb.rpos + i - 1]
      BY <2>2, <3>2, <3>3, UnreadFacts
    <3> QED BY <2>2, <3>4
  <2>6. Len(t[n]) = Len(s[n]) + Len(x) BY <1>2, <1>4, <2>1, <2>4, <2>5
  <2>7. ASSUME NEW i \in 1..Len(s[n]) PROVE t[n][i] = s[n][i]
    <3>1. /\ i \in 1..b.wpos - b.rpos /\ i \in 1..pos - b.rpos
          /\ b.rpos + i - 1 \in 0..SIZE - 1 /\ b.rpos + i - 1 \notin b.wpos..(pos - 1)
      <4>1. PICK wp \in Nat, rp \in Nat, l \in Nat, z \in Nat :
              wp = b.wpos /\ rp = b.rpos /\ l = w.len /\ z = SIZE
        BY <1>2, <2>1, SizeAssumption
      <4>2. wp + l <= z /\ i \in 1..wp - rp BY <1>2, <2>4, <4>1
      <4>3. /\ i \in 1..wp - rp /\ i \in 1..(wp + l) - rp
            /\ rp + i - 1 \in 0..z - 1 /\ rp + i - 1 \notin wp..((wp + l) - 1)
        BY <4>2
      <4> QED BY <4>1, <4>3
    <3> QED BY <2>3, <2>4, <2>5, <3>1
  <2>8. ASSUME NEW i \in 1..Len(x) PROVE t[n][Len(s[n]) + i] = x[i]
    <3>1. PICK k \in Nat : k = Len(s[n]) /\ k = b.wpos - b.rpos BY <2>1, <2>4
    <3>2. i \in 1..w.len BY <1>4
    <3>3. /\ k + i \in 1..pos - b.rpos /\ b.rpos + (k + i) - 1 = b.wpos + i - 1
          /\ b.wpos + i - 1 \in 0..SIZE - 1 /\ b.wpos + i - 1 \in b.wpos..(pos - 1)
          /\ (b.wpos + i - 1) - b.wpos + 1 = i
      <4>1. PICK wp \in Nat, rp \in Nat, l \in Nat, z \in Nat :
              wp = b.wpos /\ rp = b.rpos /\ l = w.len /\ z = SIZE
        BY <1>2, <2>1, SizeAssumption
      <4>2. wp + l <= z /\ k = wp - rp /\ i \in 1..l BY <1>2, <3>1, <3>2, <4>1
      <4>3. /\ k + i \in 1..(wp + l) - rp /\ rp + (k + i) - 1 = wp + i - 1
            /\ wp + i - 1 \in 0..z - 1 /\ wp + i - 1 \in wp..((wp + l) - 1)
            /\ (wp + i - 1) - wp + 1 = i
        BY <4>2
      <4> QED BY <4>1, <4>3
    <3>4. t[n][Len(s[n]) + i] = nb.data[b.wpos + i - 1] BY <2>5, <3>1, <3>3
    <3>5. nb.data[b.wpos + i - 1] = w.buf[i] BY <2>3, <3>3
    <3> QED BY <1>4, <3>2, <3>4, <3>5
  <2> HIDE DEF x
  <2> QED BY <1>4, <2>4, <2>5, <2>6, <2>7, <2>8, JoinsByElements
<1>8. \A i \in 1..n - 1 : t[i] = s[i]
  <2> TAKE i \in 1..n - 1
  <2>1. i \in 1..n /\ queue[i] # a BY <1>2
  <2>2. mem'[queue[i]] = mem[queue[i]] BY <1>1, <1>2, <2>1
  <2> QED BY <1>5, <1>6, <2>1, <2>2
<1>9. s[n] \in Seq(Bytes)
  <2>1. n \in 1..n BY <1>2
  <2> QED BY <1>5, <2>1
<1> HIDE DEF x
<1>10. Joins(FlattenSeq(t), FlattenSeq(s), x)
  BY <1>2, <1>4, <1>5, <1>6, <1>7, <1>8, <1>9, LastGrows
<1>11. Stored' = Stored \o x BY <1>5, <1>6, <1>10 DEF Joins
<1>12. CASE w.len = 0
  <2>1. x = <<>> BY <1>4, <1>12, EmptySeq
  <2>2. Stored' = Stored BY <1>5, <1>11, <2>1, ConcatEmptySeq
  <2>3. rest = w.buf BY <1>2, <1>12, SubSeqFull
  <2> QED BY <1>1, <1>3, <1>5, <2>2, <2>3, TakesNothing
<1>13. CASE w.len # 0
  <2>1. w.len \in 1..Len(w.buf) BY <1>2, <1>13
  <2> QED BY <1>1, <1>3, <1>11, <2>1 DEF Fifo!Put, x
<1> QED BY <1>12, <1>13

\* A new block is empty: it stores nothing.
LEMMA NewBlockTakesNothing ==
  ASSUME IInv, IInv', NEW a \in Addr, NewBlock(a)
  PROVE  Fifo!Take
<1> DEFINE n == Len(queue)
           s == Blocks(queue, mem)
           t == Blocks(queue', mem')
<1>1. /\ a \notin InList /\ queue' = Append(queue, a) /\ mem' = [mem EXCEPT ![a] = Fresh]
      /\ out' = <<>> /\ w'.buf = w.buf
  BY DEF NewBlock, WriteDone, WriteTurn
<1>2. queue \in Seq(Addr) /\ n \in Nat /\ mem \in [Addr -> Block]
  BY LenProperties DEF IInv, TypeOK
<1>3. /\ s \in Seq(Seq(Bytes)) /\ Len(s) = n
      /\ \A i \in 1..n : s[i] = Unread(mem[queue[i]])
      /\ Stored = FlattenSeq(s) /\ Stored \in Seq(Bytes)
  BY StoredFacts
<1>4. /\ t \in Seq(Seq(Bytes)) /\ Len(t) = Len(queue')
      /\ \A i \in 1..Len(queue') : t[i] = Unread(mem'[queue'[i]])
      /\ Stored' = FlattenSeq(t)
  BY StoredNext
<1> HIDE DEF s, t
<1>5. /\ Len(queue') = n + 1 /\ queue'[n + 1] = a
      /\ \A i \in 1..n : queue'[i] = queue[i] /\ queue[i] # a /\ queue[i] \in Addr
  BY <1>1, <1>2, AppendProperties, ElementOfSeq DEF InList
<1>6. <<>> \in Seq(Bytes) BY EmptySeq
<1>7. t[n + 1] = <<>>
  <2>1. n + 1 \in 1..Len(queue') BY <1>2, <1>5
  <2>2. t[n + 1] = Unread(Fresh) BY <1>1, <1>2, <1>4, <1>5, <2>1
  <2>3. Unread(Fresh) \in Seq(Bytes) /\ Len(Unread(Fresh)) = 0 BY FreshBlock, UnreadFacts
  <2> QED BY <2>2, <2>3, EmptySeq
<1>8. t = Append(s, <<>>)
  <2>1. PICK u : u = Append(s, <<>>) OBVIOUS
  <2>2. /\ u \in Seq(Seq(Bytes)) /\ Len(u) = n + 1 /\ u[n + 1] = <<>>
        /\ \A i \in 1..n : u[i] = s[i]
    BY <1>3, <1>6, <2>1, AppendProperties
  <2>3. ASSUME NEW i \in 1..n + 1 PROVE t[i] = u[i]
    <3>1. CASE i = n + 1 BY <1>7, <2>2, <3>1
    <3>2. CASE i # n + 1
      <4>1. i \in 1..n /\ i \in 1..Len(queue') BY <1>2, <1>5, <3>2
      <4>2. mem'[queue'[i]] = mem[queue[i]] BY <1>1, <1>2, <1>5, <4>1
      <4> QED BY <1>3, <1>4, <2>2, <4>1, <4>2
    <3> QED BY <3>1, <3>2
  <2>4. t = u BY <1>4, <1>5, <2>2, <2>3, SeqEqual
  <2> QED BY <2>1, <2>4
<1>9. FlattenSeq(t) = FlattenSeq(s) \o <<>> BY <1>3, <1>6, <1>8, FlattenAppend
<1>10. Stored' = Stored BY <1>3, <1>4, <1>9, ConcatEmptySeq
<1> QED BY <1>1, <1>3, <1>10, TakesNothing

(***************************************************************************)
(* The block list implements the queue of bytes of ByteFifo: every step of *)
(* init, exit, read and write is a step of it, or none.  So bytes leave in *)
(* the order they were written in, each once, whatever the blocks they lay *)
(* in, the faults and the order in which sleeping copies end.              *)
(***************************************************************************)
THEOREM OneStream == Spec => FifoSpec
<1>1. Init => Fifo!Init
  <2> SUFFICES ASSUME Init PROVE Fifo!Init OBVIOUS
  <2>1. queue = <<>> /\ w = WriteDone /\ out = <<>> BY DEF Init
  <2>2. Stored = FlattenSeq(<<>>)
    <3>1. Len(queue) = 0 BY <2>1, EmptySeq
    <3> QED BY <3>1 DEF Stored, FlattenSeq
  <2> QED BY <2>1, <2>2, FlattenEmpty DEF Fifo!Init, WriteDone
<1>2. Init => NothingLeft BY DEF Init, NothingLeft, WriteDone
<1>3. NothingLeft /\ [Next]_vars => NothingLeft' BY NothingLeftStep
<1>4. IInv /\ IInv' /\ NothingLeft /\ NothingLeft' /\ [Next]_vars => [Fifo!Next]_(Fifo!vars)
  <2> SUFFICES ASSUME IInv, IInv', NothingLeft, NothingLeft', [Next]_vars
               PROVE  Fifo!Next \/ UNCHANGED Fifo!vars
    OBVIOUS
  <2> USE DEF Fifo!Next
  <2>0. Stored \in Seq(Bytes) BY StoredFacts
  <2>1. CASE ReadCopied BY <2>1, ReadTakes
  <2>2. CASE WriteCopied BY <2>2, WritePuts
  <2>3. CASE \E a \in Addr : NewBlock(a) BY <2>3, NewBlockTakesNothing
  <2>4. CASE dev_exit
    <3>1. queue' = <<>> /\ w' = w /\ out' = <<>> /\ w.buf = <<>>
      BY <2>4 DEF dev_exit, NothingLeft
    <3>2. Stored' = <<>>
      <4>1. Len(queue') = 0 BY <3>1, EmptySeq
      <4> QED BY <4>1 DEF Stored, FlattenSeq
    <3> QED BY <3>1, <3>2 DEF Fifo!Drop
  <2>5. CASE \E buf \in Bufs : WriteCall(buf)
    <3>1. PICK buf \in Bufs : WriteCall(buf) BY <2>5
    <3>2. w.buf = <<>> /\ w'.buf = buf /\ out' = <<>> /\ UNCHANGED <<queue, mem>>
      BY <3>1 DEF WriteCall, WriteDone, NothingLeft
    <3>3. Stored' = Stored BY <3>2 DEF Stored
    <3> QED BY <3>2, <3>3 DEF Fifo!StartWrite
  <2>6. CASE NewFails \/ WriteFault
    <3>1. w'.buf = <<>> /\ out' = <<>> /\ UNCHANGED <<queue, mem>>
      BY <2>6 DEF NewFails, WriteFault, WriteDone
    <3>2. Stored' = Stored BY <3>1 DEF Stored
    <3> QED BY <3>1, <3>2 DEF Fifo!AbortWrite
  <2>7. CASE (\E n \in 0..MaxCount : ReadCall(n)) \/ ReadEof \/ ReadStart \/ ReadFault \/ WriteEntry
    <3>1. w'.buf = w.buf /\ out' = <<>> /\ UNCHANGED <<queue, mem>>
      <4>1. CASE WriteEntry BY <4>1 DEF WriteEntry, WriteTurn, IInv, TypeOK
      <4>2. CASE ~ WriteEntry BY <2>7, <4>2 DEF ReadCall, ReadEof, ReadStart, ReadFault
      <4> QED BY <4>1, <4>2
    <3>2. Stored' = Stored BY <3>1 DEF Stored
    <3> QED BY <2>0, <3>1, <3>2, TakesNothing
  <2>8. CASE dev_init \/ UNCHANGED vars
    <3>1. UNCHANGED <<queue, mem, w, out>> BY <2>8 DEF dev_init, vars
    <3> QED BY <3>1 DEF Fifo!vars, Stored
  <2> QED BY <2>1, <2>2, <2>3, <2>4, <2>5, <2>6, <2>7, <2>8 DEF Next, ReadStep, WriteStep
<1> QED BY Invariant, <1>1, <1>2, <1>3, <1>4, PTL DEF Spec, FifoSpec, Fifo!Spec
=============================================================================
