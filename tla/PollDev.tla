------------------------------ MODULE PollDev ------------------------------
(***************************************************************************)
(* The character device of src/Tasks/dev/poll.le.3.14/poll.c: one message  *)
(* buffer with a read offset, blocking and non-blocking reads, poll, and   *)
(* writes that replace the message.  The driver takes no lock.  A step is  *)
(* one line, or a few that touch no shared data in between; with Preempt   *)
(* the calls of different processes overlap step by step, without it a     *)
(* call runs until it returns or goes to sleep.                            *)
(***************************************************************************)
EXTENDS Naturals

CONSTANTS Reader, Writer, \* processes that read and poll, processes that write
          LEN_MSG,        \* longest message, without the newline added to it
          MaxCount,       \* bound: longest read or write call
          MaxRoff,        \* bound: where the model stops counting the offset
          Preempt,        \* several processors, or copies that sleep
          Signals         \* whether sleeping processes get signals

ASSUME ProcessAssumption == Reader \cap Writer = {}
ASSUME LengthAssumption == LEN_MSG \in Nat \ {0} /\ MaxCount \in Nat
ASSUME RoffAssumption   == MaxRoff \in Nat /\ MaxRoff > LEN_MSG + 2
ASSUME FlagAssumption   == Preempt \in BOOLEAN /\ Signals \in BOOLEAN

VARIABLES roff, buf,  \* struct private; one byte after buf[] is modelled too
          rd,         \* readers: pc and the locals of the call in progress
          wr,         \* writers: pc and the call's arguments
          res,        \* how the last call of a reader ended
          hist        \* history, which no call reads: since the last write began an end
                      \* of file was met; since it rewound nobody began to read (fresh),
                      \* and who was between lines 29 and 37 then (torn); whom a wake-up
                      \* found between lines 25 and 26 (missed)

vars == <<roff, buf, rd, wr, res, hist>>

Char == {"c", "nl", "nul"}
Overrun == LEN_MSG + 2         \* first index behind buf[]

Smaller(a, b) == IF a < b THEN a ELSE b

Strlen(s) == CHOOSE i \in DOMAIN s :
               s[i] = "nul" /\ \A j \in DOMAIN s : j < i => s[j] # "nul"

\* The text of n bytes, ended by a newline or not; NULs if the copy faulted.
Text(n, last, i) == IF last = "fault" THEN "nul"
                    ELSE IF i = n - 1 /\ last = "nl" THEN "nl" ELSE "c"

Idle == [pc |-> "idle", nonblock |-> FALSE, count |-> 0, off |-> 0, len |-> 0]

\* The calls a process is inside of without sleeping, its own one aside.
Waiting == {"idle", "asleep", "woken", "pollsleep"}
Others(x) == {p \in Reader \ {x} : rd[p].pc \notin Waiting}
             \cup {w \in Writer \ {x} : wr[w].pc # "idle"}
CanRun(x) == Preempt \/ Others(x) = {}

ReaderAt(p, pc) == rd[p].pc = pc /\ CanRun(p)
WriterAt(w, pc) == wr[w].pc = pc /\ CanRun(w)

\* "not initialized yet!\n", shortened to one letter and the newline.
Init == /\ roff = 0
        /\ buf = [i \in 0..Overrun |-> CASE i = 0 -> "c" [] i = 1 -> "nl"
                                         [] OTHER -> "nul"]
        /\ rd = [p \in Reader |-> Idle]
        /\ wr = [p \in Writer |-> [pc |-> "idle", len |-> 0, last |-> "c"]]
        /\ res = [p \in Reader |-> "none"]
        /\ hist = [eof |-> FALSE, fresh |-> TRUE, torn |-> {}, missed |-> {}]

\* The readers that are between two lines of a read.
At(pcs) == {p \in Reader : rd[p].pc \in pcs}
-----------------------------------------------------------------------------
(***************************************************************************)
(* read                                                                    *)
(***************************************************************************)
Return(p, how) == /\ rd' = [rd EXCEPT ![p] = Idle]
                  /\ res' = [res EXCEPT ![p] = how]

ReadCall(p, n, nb) ==
  /\ ReaderAt(p, "idle")
  /\ rd' = [rd EXCEPT ![p] = [Idle EXCEPT !.pc = "test", !.nonblock = nb, !.count = n]]
  /\ UNCHANGED <<roff, buf, wr, res, hist>>

NoData == roff > Strlen(buf)

\* Lines 23-28, up to the call of interruptible_sleep_on.
ReadTest(p) ==
  /\ ReaderAt(p, "test")
  /\ IF NoData /\ rd[p].nonblock
       THEN Return(p, "again")
       ELSE /\ rd' = [rd EXCEPT ![p].pc = IF NoData THEN "tosleep" ELSE "reload",
                                ![p].off = roff]
            /\ UNCHANGED res
  /\ UNCHANGED <<roff, buf, wr, hist>>

\* interruptible_sleep_on: on the wait queue from here on, not before.
ReadSleep(p) ==
  /\ ReaderAt(p, "tosleep")
  /\ rd' = [rd EXCEPT ![p].pc = "asleep"]
  /\ UNCHANGED <<roff, buf, wr, res, hist>>

\* A signal ends the sleep; the driver does not look at it.
Signal(p) ==
  /\ Signals /\ rd[p].pc = "asleep"
  /\ rd' = [rd EXCEPT ![p].pc = "woken"]
  /\ UNCHANGED <<roff, buf, wr, res, hist>>

\* Mutant of Reloaded: the offset of before the sleep is kept.
ReloadedNot(p) == rd[p].off

\* Line 29.
Reloaded(p) == roff

\* Lines 29 and 30.
ReadReload(p) ==
  /\ ReaderAt(p, "reload") \/ ReaderAt(p, "woken")
  /\ LET off == Reloaded(p)
     IN rd' = [rd EXCEPT ![p].off = off,
                         ![p].pc = IF off = Strlen(buf) THEN "eof" ELSE "measure"]
  /\ hist' = [hist EXCEPT !.fresh = FALSE, !.missed = @ \ {p}]
  /\ UNCHANGED <<roff, buf, wr, res>>

\* Mutant of PastEof: end of file is answered again and again.
PastEofNot(off) == off

PastEof(off) == off + 1

\* Lines 31-32.
ReadEof(p) ==
  /\ ReaderAt(p, "eof")
  /\ roff' = Smaller(PastEof(rd[p].off), MaxRoff)
  /\ Return(p, "eof")
  /\ hist' = [hist EXCEPT !.eof = TRUE]
  /\ UNCHANGED <<buf, wr>>

\* Lines 34-35: behind the end the difference is negative, which compares as
\* a huge unsigned number, and count is taken.
ReadMeasure(p) ==
  /\ ReaderAt(p, "measure")
  /\ LET n == Strlen(buf)
     IN rd' = [rd EXCEPT ![p].pc = "copy",
                 ![p].len = IF rd[p].off > n THEN rd[p].count
                            ELSE Smaller(rd[p].count, n - rd[p].off)]
  /\ UNCHANGED <<roff, buf, wr, res, hist>>

\* Lines 36-39.
ReadCopied(p) ==
  /\ ReaderAt(p, "copy")
  /\ roff' = Smaller(rd[p].off + rd[p].len, MaxRoff)
  /\ Return(p, "data")
  /\ UNCHANGED <<buf, wr, hist>>

ReadFault(p) ==
  /\ ReaderAt(p, "copy")
  /\ Return(p, "fault")
  /\ UNCHANGED <<roff, buf, wr, hist>>
-----------------------------------------------------------------------------
(***************************************************************************)
(* poll: it sleeps out its pause (a wake-up of interruptible sleepers does *)
(* not end sleep_on_timeout) and then answers from the offset.             *)
(***************************************************************************)
PollCall(p) ==
  /\ ReaderAt(p, "idle")
  /\ rd' = [rd EXCEPT ![p].pc = "pollsleep"]
  /\ UNCHANGED <<roff, buf, wr, res, hist>>

PollAnswer(p) ==
  /\ ReaderAt(p, "pollsleep")
  /\ Return(p, IF roff <= Strlen(buf) THEN "in" ELSE "out")
  /\ UNCHANGED <<roff, buf, wr, hist>>
-----------------------------------------------------------------------------
(***************************************************************************)
(* write                                                                   *)
(***************************************************************************)
\* Mutant of CutLen: the message is not cut to LEN_MSG.
CutLenNot(n) == n

CutLen(n) == Smaller(n, LEN_MSG)

Goto(w, pc) == wr' = [wr EXCEPT ![w].pc = pc]

WriteCall(w, n, last) ==
  /\ WriterAt(w, "idle")
  /\ wr' = [wr EXCEPT ![w] = [pc |-> "copy", len |-> CutLen(n),
                              last |-> IF CutLen(n) < n THEN "c" ELSE last]]
  /\ hist' = [hist EXCEPT !.eof = FALSE]
  /\ UNCHANGED <<roff, buf, rd, res>>

\* Line 44; a fault is not looked at, the kernel has zeroed what is missing.
WriteCopy(w) ==
  /\ WriterAt(w, "copy")
  /\ \E last \in {wr[w].last, "fault"} :
       buf' = [i \in DOMAIN buf |-> IF i < wr[w].len THEN Text(wr[w].len, last, i)
                                    ELSE buf[i]]
  /\ Goto(w, "term")
  /\ UNCHANGED <<roff, rd, res, hist>>

\* Line 45.
WriteTerm(w) ==
  /\ WriterAt(w, "term")
  /\ buf' = [buf EXCEPT ![wr[w].len] = "nul"]
  /\ Goto(w, "newline")
  /\ UNCHANGED <<roff, rd, res, hist>>

\* Line 46.  buf[-1] is a byte of roff that is zero.
WriteNewline(w) ==
  /\ WriterAt(w, "newline")
  /\ LET n == wr[w].len
         e == Strlen(buf)
     IN IF n > 0 /\ buf[n - 1] = "nl" THEN UNCHANGED buf
        ELSE buf' = [buf EXCEPT ![e] = "nl", ![e + 1] = "nul"]
  /\ Goto(w, "rewind")
  /\ UNCHANGED <<roff, rd, res, hist>>

\* Mutant of Rewound: the reader goes on where it was.
RewoundNot == roff

Rewound == 0

\* Line 47.
WriteRewind(w) ==
  /\ WriterAt(w, "rewind")
  /\ roff' = Rewound
  /\ hist' = [hist EXCEPT !.fresh = TRUE, !.torn = At({"eof", "measure", "copy"})]
  /\ Goto(w, "wake")
  /\ UNCHANGED <<buf, rd, res>>

\* Mutant of Woken: readers are not woken up.
WokenNot(pc) == pc

\* Every interruptible sleeper on qwait is woken up.
Woken(pc) == IF pc = "asleep" THEN "woken" ELSE pc

\* Lines 48-49.
WriteWake(w) ==
  /\ WriterAt(w, "wake")
  /\ rd' = [p \in Reader |-> [rd[p] EXCEPT !.pc = Woken(rd[p].pc)]]
  /\ hist' = [hist EXCEPT !.missed = @ \cup At({"tosleep"})]
  /\ Goto(w, "idle")
  /\ UNCHANGED <<roff, buf, res>>
-----------------------------------------------------------------------------
ReadStep(p) == ReadTest(p) \/ ReadSleep(p) \/ ReadReload(p) \/ ReadEof(p)
               \/ ReadMeasure(p) \/ ReadCopied(p) \/ PollAnswer(p)
WriteStep(w) == WriteCopy(w) \/ WriteTerm(w) \/ WriteNewline(w) \/ WriteRewind(w)
                \/ WriteWake(w)

Next == \/ \E p \in Reader : \/ \E n \in 0..MaxCount, nb \in BOOLEAN : ReadCall(p, n, nb)
                             \/ PollCall(p) \/ ReadStep(p)
                             \/ Signal(p) \/ ReadFault(p)
        \/ \E w \in Writer : \/ \E n \in 0..MaxCount, last \in {"c", "nl"} :
                                  WriteCall(w, n, last)
                             \/ WriteStep(w)

Spec == Init /\ [][Next]_vars

\* A call that has begun and does not sleep is carried on by the scheduler.
FairSpec == Spec /\ \A p \in Reader : WF_vars(ReadStep(p))
                 /\ \A w \in Writer : WF_vars(WriteStep(w))
-----------------------------------------------------------------------------
(***************************************************************************)
(* A write stays inside buf[]: the byte behind it is never written, so the *)
(* newline that strcat adds always fits (lines 43-46).                     *)
(***************************************************************************)
WritesStayInBuffer == buf[Overrun] = "nul" /\ \E i \in 0..LEN_MSG+1 : buf[i] = "nul"

(***************************************************************************)
(* A read copies bytes of the message only, never what follows its end.    *)
(***************************************************************************)
ReadsOnlyMessage == \A p \in Reader :
  rd[p].pc = "copy" => rd[p].off + rd[p].len <= Strlen(buf)

(***************************************************************************)
(* After a read met the end of file and until the next write begins, reads *)
(* find nothing and poll does not announce data.                           *)
(***************************************************************************)
EofLasts ==
  [][\A p \in Reader :
       (hist.eof /\ rd[p].pc # "idle" /\ rd'[p].pc = "idle") => res'[p] \in {"again", "out"}]_vars

(***************************************************************************)
(* A reader sleeps only while there is nothing to read, unless a write in  *)
(* progress is going to wake it.                                           *)
(***************************************************************************)
SleepsOnlyWithoutData ==
  ((\A w \in Writer : wr[w].pc = "idle") /\ \E p \in Reader : rd[p].pc = "asleep") => NoData

(***************************************************************************)
(* Calls overlapping as they may, the one reader of the device sleeps on   *)
(* data, with no write in progress to wake it, only when a wake-up found   *)
(* it between its test and its sleep (lines 24-27 and 47-48): there is no  *)
(* other way to lose one; signals, stale offsets and a message being       *)
(* replaced add none.                                                      *)
(***************************************************************************)
OnlyMissedWakeUps == \A p \in Reader :
  (\A w \in Writer : wr[w].pc = "idle") /\ rd[p].pc = "asleep" => NoData \/ p \in hist.missed

(***************************************************************************)
(* Calls overlapping as they may, a new message is begun anywhere but at   *)
(* its start only when a read had loaded the old offset and not yet stored *)
(* the next one as the write rewound (lines 29-37 and 47).                 *)
(***************************************************************************)
OnlyTornReadsMoveIt == hist.fresh /\ roff # 0 => hist.torn # {}

(***************************************************************************)
(* A reader asleep comes back if writes keep being completed, however the  *)
(* test, the sleep and the wake-up interleave.                             *)
(***************************************************************************)
LaterWriteWakes == \A p \in Reader :
  ([]<>(\E w \in Writer : wr[w].pc = "wake")) => [](rd[p].pc = "asleep" => <>(rd[p].pc = "idle"))
=============================================================================
