----------------------------- MODULE BlockQueue -----------------------------
(***************************************************************************)
(* The character device /dev/queue of src/Tasks/+TASKS/queue/queuel.c: a   *)
(* byte queue kept in a list of vmalloc'ed blocks of SIZE bytes, with no   *)
(* lock.  One process reads while another one writes.  A handler can be    *)
(* overtaken where it may sleep: inside copy_to_user / copy_from_user and  *)
(* inside vmalloc; between two such points it runs as one step.            *)
(***************************************************************************)
EXTENDS Naturals, Sequences, FiniteSets

CONSTANTS SIZE,      \* bytes in a block (queuel.c:7)
          Addr,      \* where vmalloc can place a block
          NULL,      \* no block
          Byte,      \* byte values user programs write
          NoByte,    \* content of vmalloc'ed memory nobody wrote to
          MaxCount   \* bound: longest read or write call

ASSUME SizeAssumption  == SIZE \in Nat \ {0}
ASSUME CountAssumption == MaxCount \in Nat
ASSUME NoByteAssumption == NoByte \notin Byte
ASSUME NullAssumption  == NULL \notin Addr

VARIABLES loaded,    \* the module is inserted
          queue,     \* the list, as the addresses of its blocks
          mem,       \* what each address holds
          r, w,      \* the read and the write call, with the handler's locals
          out,       \* bytes the last step copied to user space
          oops       \* a writer died in new(): its reference pins the module

vars == <<loaded, queue, mem, r, w, out, oops>>

Bufs == UNION {[1..n -> Byte] : n \in 0..MaxCount}

Block == [wpos : 0..SIZE, rpos : 0..SIZE,
          data : [0..SIZE-1 -> Byte \cup {NoByte}]]

\* A block as new() leaves it: positions set, data not.
Fresh == [wpos |-> 0, rpos |-> 0, data |-> [i \in 0..SIZE-1 |-> NoByte]]

Smaller(a, b) == IF a < b THEN a ELSE b

InList == {queue[i] : i \in 1..Len(queue)}

\* The locals of a handler that has returned, or was never entered.
ReadDone  == [pc |-> "idle", count |-> 0, blk |-> NULL, len |-> 0]
WriteDone == [pc |-> "idle", buf |-> <<>>, blk |-> NULL, len |-> 0]
-----------------------------------------------------------------------------
(***************************************************************************)
(* Module load and unload.  rmmod needs a zero reference count: no call in *)
(* progress (.owner of the file operations) and no oopsed writer.          *)
(***************************************************************************)
Init == /\ loaded = FALSE
        /\ queue = <<>>
        /\ mem = [a \in Addr |-> Fresh]
        /\ r = ReadDone
        /\ w = WriteDone
        /\ out = <<>>
        /\ oops = FALSE

dev_init == /\ ~loaded
            /\ loaded' = TRUE
            /\ UNCHANGED <<queue, mem, r, w, out, oops>>

dev_exit == /\ loaded /\ ~oops
            /\ r.pc = "idle" /\ w.pc = "idle"
            /\ loaded' = FALSE
            /\ queue' = <<>>
            /\ mem' = [a \in Addr |-> Fresh]
            /\ out' = <<>>
            /\ UNCHANGED <<r, w, oops>>
-----------------------------------------------------------------------------
(***************************************************************************)
(* queue_read.                                                             *)
(***************************************************************************)
ReadCall(n) == /\ loaded /\ r.pc = "idle"
               /\ r' = [ReadDone EXCEPT !.pc = "entry", !.count = n]
               /\ out' = <<>>
               /\ UNCHANGED <<loaded, queue, mem, w, oops>>

\* One turn of the loop up to the copy: the head of q, n bytes still wanted.
ReadTurn(q, m, n) ==
  [pc |-> "copy", count |-> n, blk |-> q[1],
   len |-> Smaller(n, m[q[1]].wpos - m[q[1]].rpos)]

\* Mutant of NothingToRead: off by one, a head with one byte left is EOF.
NothingToReadOffByOne == queue # <<>> => mem[queue[1]].rpos + 1 >= mem[queue[1]].wpos

NothingToRead == queue # <<>> => mem[queue[1]].rpos >= mem[queue[1]].wpos

ReadEof == /\ r.pc = "entry" /\ NothingToRead
           /\ r' = ReadDone
           /\ out' = <<>>
           /\ UNCHANGED <<loaded, queue, mem, w, oops>>

ReadStart == /\ r.pc = "entry" /\ ~NothingToRead
             /\ r' = ReadTurn(queue, mem, r.count)
             /\ out' = <<>>
             /\ UNCHANGED <<loaded, queue, mem, w, oops>>

\* Mutant of Spent: erases as soon as the block is read up, full or not.
SpentAtWpos(b, pos) == pos >= b.wpos

\* Mutant of Spent: the block stays in the list.
SpentNever(b, pos) == FALSE

\* The block can be erased once its last byte has been read.
Spent(b, pos) == pos >= SIZE

\* copy_to_user returned: consume, drop a spent block, go on or return.
ReadCopied ==
  /\ r.pc = "copy"
  /\ LET a    == r.blk
         b    == mem[a]
         pos  == b.rpos + r.len
         left == r.count - r.len
     IN /\ out' = [i \in 1..r.len |-> b.data[b.rpos + i - 1]]
        /\ \/ /\ pos >= b.wpos /\ Spent(b, pos)
              /\ queue' = Tail(queue)
              /\ mem' = [mem EXCEPT ![queue[1]] = Fresh]
              /\ r' = IF Tail(queue) = <<>> \/ left = 0
                        THEN ReadDone ELSE ReadTurn(Tail(queue), mem, left)
           \/ /\ pos >= b.wpos /\ ~Spent(b, pos)
              /\ mem' = [mem EXCEPT ![a].rpos = pos]
              /\ r' = ReadDone
              /\ UNCHANGED queue
           \/ /\ pos < b.wpos
              /\ mem' = [mem EXCEPT ![a].rpos = pos]
              /\ r' = IF left = 0 THEN ReadDone ELSE ReadTurn(queue, mem', left)
              /\ UNCHANGED queue
  /\ UNCHANGED <<loaded, w, oops>>

\* copy_to_user failed: -EINVAL, and the blocks read before stay consumed.
ReadFault == /\ r.pc = "copy"
             /\ r' = ReadDone
             /\ out' = <<>>
             /\ UNCHANGED <<loaded, queue, mem, w, oops>>
-----------------------------------------------------------------------------
(***************************************************************************)
(* queue_write.                                                            *)
(***************************************************************************)
\* After the oops the model follows no further writer: it would find a full
\* tail block, and a reader can erase that block under the writer's copy.
WriteCall(buf) == /\ loaded /\ w.pc = "idle" /\ ~oops
                  /\ w' = [WriteDone EXCEPT !.pc = "entry", !.buf = buf]
                  /\ out' = <<>>
                  /\ UNCHANGED <<loaded, queue, mem, r, oops>>

\* Mutant of WriteTurn: the length is not cut to the room in the block.
WriteTurnUncut(a, b, buf) ==
  [pc |-> "copy", buf |-> buf, blk |-> a, len |-> Len(buf)]

\* One turn of the loop up to the copy, into block b at a.
WriteTurn(a, b, buf) ==
  [pc |-> "copy", buf |-> buf, blk |-> a, len |-> Smaller(Len(buf), SIZE - b.wpos)]

WriteEntry == /\ w.pc = "entry"
              /\ w' = IF queue = <<>> THEN [w EXCEPT !.pc = "new"]
                      ELSE LET a == queue[Len(queue)] IN WriteTurn(a, mem[a], w.buf)
              /\ out' = <<>>
              /\ UNCHANGED <<loaded, queue, mem, r, oops>>

\* vmalloc returned a: new() appends the block, the loop goes on if bytes remain.
NewBlock(a) == /\ w.pc = "new" /\ a \notin InList
               /\ queue' = Append(queue, a)
               /\ mem' = [mem EXCEPT ![a] = Fresh]
               /\ w' = IF w.buf = <<>> THEN WriteDone ELSE WriteTurn(a, Fresh, w.buf)
               /\ out' = <<>>
               /\ UNCHANGED <<loaded, r, oops>>

\* vmalloc returned NULL, which new() dereferences: the writer dies there.
NewFails == /\ w.pc = "new" /\ Addr \subseteq InList
            /\ w' = WriteDone
            /\ oops' = TRUE
            /\ out' = <<>>
            /\ UNCHANGED <<loaded, queue, mem, r>>

\* Mutant of NeedsBlock: the loop stays on the full block.
NeedsBlockNever(pos) == FALSE
\* Mutant of NeedsBlock: off by one.
NeedsBlockEarly(pos) == pos + 1 >= SIZE

NeedsBlock(pos) == pos >= SIZE

\* copy_from_user returned: the bytes count from now on.
WriteCopied ==
  /\ w.pc = "copy"
  /\ LET a    == w.blk
         b    == mem[a]
         pos  == b.wpos + w.len
         rest == SubSeq(w.buf, w.len + 1, Len(w.buf))
         nb   == [b EXCEPT !.wpos = pos,
                           !.data = [i \in DOMAIN b.data |->
                              IF i \in b.wpos..(pos - 1) THEN w.buf[i - b.wpos + 1]
                              ELSE b.data[i]]]
     IN /\ mem' = [mem EXCEPT ![a] = nb]
        /\ w' = IF NeedsBlock(pos) THEN [WriteDone EXCEPT !.pc = "new", !.buf = rest]
                ELSE IF rest = <<>> THEN WriteDone ELSE WriteTurn(a, nb, rest)
  /\ out' = <<>>
  /\ UNCHANGED <<loaded, queue, r, oops>>

\* copy_from_user failed: -EINVAL, and the blocks filled before stay queued.
WriteFault == /\ w.pc = "copy"
              /\ w' = WriteDone
              /\ out' = <<>>
              /\ UNCHANGED <<loaded, queue, mem, r, oops>>
-----------------------------------------------------------------------------
ReadStep  == ReadEof \/ ReadStart \/ ReadCopied
WriteStep == WriteEntry \/ (\E a \in Addr : NewBlock(a)) \/ NewFails \/ WriteCopied

Next == \/ dev_init \/ dev_exit
        \/ \E n \in 0..MaxCount : ReadCall(n)
        \/ \E buf \in Bufs : WriteCall(buf)
        \/ ReadStep \/ ReadFault
        \/ WriteStep \/ WriteFault

Spec == Init /\ [][Next]_vars

(***************************************************************************)
(* A handler that has started keeps running: the kernel schedules it, a    *)
(* copy to or from user space and vmalloc return.  Nothing makes a copy    *)
(* fault, so that no loop ends only because the caller's memory is bad.    *)
(***************************************************************************)
FairSpec == Spec /\ WF_vars(ReadStep) /\ WF_vars(WriteStep)
-----------------------------------------------------------------------------
TypeOK == /\ loaded \in BOOLEAN /\ oops \in BOOLEAN
          /\ queue \in Seq(Addr)
          /\ mem \in [Addr -> Block]
          /\ r \in [pc : {"idle", "entry", "copy"}, count : Nat,
                    blk : Addr \cup {NULL}, len : Nat]
          /\ w \in [pc : {"idle", "entry", "copy", "new"}, buf : Seq(Byte),
                    blk : Addr \cup {NULL}, len : Nat]
          /\ out \in Seq(Byte \cup {NoByte})

(***************************************************************************)
(* The list: blocks are distinct, every block but the last is full, only   *)
(* the head has been read from, and no block is read past its write        *)
(* position.  queue_read, which never looks past the head before the head  *)
(* is erased (lines 45-52, 63-68), is right only as long as this holds.    *)
(***************************************************************************)
Distinct  == \A i, j \in 1..Len(queue) : queue[i] = queue[j] => i = j
FullButLast == \A i \in 1..Len(queue) - 1 : mem[queue[i]].wpos = SIZE
ReadAtHead  == \A i \in 2..Len(queue) : mem[queue[i]].rpos = 0
NotReadPastWritten == \A i \in 1..Len(queue) :
                         mem[queue[i]].rpos <= mem[queue[i]].wpos
ListInv == Distinct /\ FullButLast /\ ReadAtHead /\ NotReadPastWritten

(***************************************************************************)
(* Every turn of either loop finds something to do: the tail has room      *)
(* unless the writer is about to append a block, and then it is full; the  *)
(* head is not spent.  A full tail left behind would make the next writer  *)
(* copy nothing, a spent head would be an end of file in mid-stream.       *)
(***************************************************************************)
EndsInv ==
  /\ oops => w.pc = "idle"
  /\ queue # <<>> => /\ mem[queue[1]].rpos < SIZE
                     /\ IF w.pc = "new" THEN mem[queue[Len(queue)]].wpos = SIZE
                        ELSE oops \/ mem[queue[Len(queue)]].wpos < SIZE

(***************************************************************************)
(* Neither handler ever touches a block the other one has erased: when its *)
(* copy returns, the reader still holds the head and the writer the tail.  *)
(* Nothing but the two tests against SIZE (lines 64 and 92) keeps it so.   *)
(***************************************************************************)
HeldBlocksLive ==
  /\ r.pc = "copy" => queue # <<>> /\ r.blk = queue[1]
  /\ w.pc = "copy" => queue # <<>> /\ w.blk = queue[Len(queue)]

(***************************************************************************)
(* A copy stays inside its block: the reader copies only written bytes,    *)
(* the writer never past the end of the block, neither past the caller's   *)
(* buffer, although both lengths were computed before the handler slept.   *)
(***************************************************************************)
CopyInBlock ==
  /\ r.pc = "copy" => /\ mem[r.blk].rpos + r.len <= mem[r.blk].wpos
                      /\ r.len <= r.count
  /\ w.pc = "copy" => /\ mem[w.blk].wpos + w.len <= SIZE
                      /\ w.len <= Len(w.buf)

\* No byte is stored that has not been read.
Drained == \A i \in 1..Len(queue) : mem[queue[i]].rpos = mem[queue[i]].wpos

(***************************************************************************)
(* End of file means there is nothing to read: read() returns 0 at once    *)
(* (lines 48-51) only when no block of the whole list holds an unread byte *)
(* although the handler looked at the head alone.                          *)
(***************************************************************************)
EofOnlyWhenDrained == [][ReadEof => Drained]_vars

(***************************************************************************)
(* A read that is not cut by a fault gives fewer bytes than asked only     *)
(* when it leaves nothing behind, whatever the writer did meanwhile.       *)
(***************************************************************************)
ShortReadOnlyWhenDrained ==
  [][(ReadCopied /\ r'.pc = "idle" /\ r.len < r.count) => Drained']_vars

(***************************************************************************)
(* Both calls return: the loops of queue_read and queue_write end.         *)
(***************************************************************************)
CallsReturn == /\ r.pc # "idle" ~> r.pc = "idle"
               /\ w.pc # "idle" ~> w.pc = "idle"
=============================================================================
