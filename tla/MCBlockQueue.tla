---------------------------- MODULE MCBlockQueue ----------------------------
(***************************************************************************)
(* BlockQueue for TLC, with the queue it implements: the unread bytes of   *)
(* the blocks, one block after the other, are the contents of the ByteFifo.*)
(***************************************************************************)
EXTENDS BlockQueue, SequencesExt

Unread(b) == [i \in 1..(b.wpos - b.rpos) |-> b.data[b.rpos + i - 1]]

Stored == FlattenSeq([i \in 1..Len(queue) |-> Unread(mem[queue[i]])])

Fifo == INSTANCE ByteFifo WITH fifo <- Stored, wbuf <- w.buf

(***************************************************************************)
(* The block list implements one FIFO of bytes: faults, sleeping copies,   *)
(* block boundaries and the death of a writer lose only bytes not yet      *)
(* handed over, and uninitialised memory never reaches a reader.           *)
(***************************************************************************)
FifoSpec == Fifo!Spec

=============================================================================
