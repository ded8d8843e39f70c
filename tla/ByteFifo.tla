------------------------------ MODULE ByteFifo ------------------------------
(***************************************************************************)
(* What /dev/queue promises (src/Tasks/+TASKS/queue/queuel.c): one stream  *)
(* of bytes.  A write call hands its bytes over in order, some at a time;  *)
(* a read call takes bytes from the front.  Nothing is lost, duplicated or *)
(* reordered between the two, whatever the blocks underneath look like.    *)
(***************************************************************************)
EXTENDS Naturals, Sequences

CONSTANTS Byte, Bufs

VARIABLES fifo,  \* bytes handed over and not yet taken
          wbuf,  \* what the write call in progress still has to hand over
          out    \* the bytes the last step gave to a reader

vars == <<fifo, wbuf, out>>

Init == fifo = <<>> /\ wbuf = <<>> /\ out = <<>>

StartWrite == /\ wbuf = <<>>
              /\ wbuf' \in Bufs
              /\ out' = <<>>
              /\ UNCHANGED fifo

Put == /\ \E n \in 1..Len(wbuf) :
             /\ fifo' = fifo \o SubSeq(wbuf, 1, n)
             /\ wbuf' = SubSeq(wbuf, n + 1, Len(wbuf))
       /\ out' = <<>>

\* A faulting write call loses only what it had not handed over yet.
AbortWrite == wbuf' = <<>> /\ out' = <<>> /\ UNCHANGED fifo

Take == /\ \E n \in 0..Len(fifo) :
              /\ out' = SubSeq(fifo, 1, n)
              /\ fifo' = SubSeq(fifo, n + 1, Len(fifo))
        /\ UNCHANGED wbuf

\* Unloading the module, with no write in progress, drops what is stored.
Drop == wbuf = <<>> /\ fifo' = <<>> /\ out' = <<>> /\ UNCHANGED wbuf

Next == StartWrite \/ Put \/ AbortWrite \/ Take \/ Drop

Spec == Init /\ [][Next]_vars
=============================================================================
