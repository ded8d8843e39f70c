---------------------------- MODULE PollDevProofs ----------------------------
(***************************************************************************)
(* What holds of the device with blocking reads and poll, for messages and *)
(* calls of any length, each property from the weakest premise TLC finds   *)
(* no counterexample to: that writes do not overlap each other, though all *)
(* else overlaps step by step; that besides there is one reader; or that a *)
(* call is overtaken only while it sleeps, with one reader and no signals. *)
(***************************************************************************)
EXTENDS PollDev, TLAPS, WellFoundedInduction

\* Writes do not overlap each other; they may overlap reads, and reads each other.
WritersApart == ~ Preempt \/ \A v, w \in Writer : v = w

\* One reader, which writes and signals overlap as they may.
OneReader == WritersApart /\ \A p, q \in Reader : p = q

\* A call is overtaken only while it sleeps.
NoOverlap == ~ Preempt

\* One reader besides, which nothing but a write wakes.
OneAtATime == NoOverlap /\ ~ Signals /\ \A p, q \in Reader : p = q

Busy == {"test", "tosleep", "reload", "eof", "measure", "copy"}
Writing == {"copy", "term", "newline", "rewind", "wake"}
Result == {"none", "again", "eof", "data", "fault", "in", "out"}

Call == [pc : Waiting \cup Busy, nonblock : BOOLEAN, count : Nat, off : Nat, len : Nat]
Write == [pc : {"idle"} \cup Writing, len : 0..LEN_MSG, last : {"c", "nl"}]

Histories == [eof : BOOLEAN, fresh : BOOLEAN, torn : SUBSET Reader, missed : SUBSET Reader]

TypeOK ==
  /\ roff \in 0..MaxRoff /\ buf \in [0..Overrun -> Char]
  /\ rd \in [Reader -> Call] /\ wr \in [Writer -> Write] /\ res \in [Reader -> Result]
  /\ hist \in Histories

WritersIdle == \A w \in Writer : wr[w].pc = "idle"

(***************************************************************************)
(* The message: its text ends where the array has room for it, also in the *)
(* middle of the one write there is.                                       *)
(***************************************************************************)
OneWrites == \A v, w \in Writer : wr[v].pc # "idle" /\ wr[w].pc # "idle" => v = w
Ended == /\ buf[LEN_MSG + 1] = "nul" /\ buf[Overrun] = "nul"
         /\ \A w \in Writer : wr[w].pc = "newline" => buf[wr[w].len] = "nul"

BufferInv == TypeOK /\ OneWrites /\ Ended

(***************************************************************************)
(* The history: who holds an old offset when nobody has begun to read the  *)
(* new message did so when the write rewound; and a reader goes to sleep   *)
(* behind the end of the message, or a write in progress will wake it, or  *)
(* one has found it on its way to sleep.                                   *)
(***************************************************************************)
Holds == At({"eof", "measure", "copy"})
TornInv == hist.fresh => Holds \subseteq hist.torn /\ (roff = 0 \/ hist.torn # {})

SleepsInv == \A p \in Reader : rd[p].pc \in {"tosleep", "asleep"} =>
               NoData \/ ~ WritersIdle \/ p \in hist.missed

(***************************************************************************)
(* The offset: what a reader read of it is still so.                       *)
(***************************************************************************)
AloneBy(p) == rd[p].pc \in Busy => /\ WritersIdle
                                   /\ \A q \in Reader \ {p} : rd[q].pc \in Waiting
KnowsBy(p) == /\ rd[p].pc \in {"eof", "measure", "copy"} => rd[p].off = roff
              /\ rd[p].pc = "eof" => roff = Strlen(buf)

OffsetInv == \A p \in Reader : AloneBy(p) /\ KnowsBy(p)

(***************************************************************************)
(* The reader of the message: it is at its start after a wake-up, never    *)
(* behind its end, and the end of file lasts.                              *)
(***************************************************************************)
InsideBy(p) == /\ rd[p].pc \in {"reload", "eof", "measure", "copy"} => ~ NoData
               /\ rd[p].pc = "copy" => rd[p].off + rd[p].len <= Strlen(buf)
               /\ rd[p].pc = "woken" => roff = 0

MessageInv == /\ \A p \in Reader : InsideBy(p)
              /\ \A w \in Writer : wr[w].pc = "wake" => roff = 0
              /\ hist.eof => NoData /\ WritersIdle
-----------------------------------------------------------------------------
(***************************************************************************)
(* What a step does to the rest of the device, by the line a process is at.*)
(***************************************************************************)
ReaderActs(p) == \/ \E n \in 0..MaxCount, nb \in BOOLEAN : ReadCall(p, n, nb)
                 \/ PollCall(p) \/ ReadStep(p) \/ Signal(p) \/ ReadFault(p)
WriterActs(w) == \/ \E n \in 0..MaxCount, last \in {"c", "nl"} : WriteCall(w, n, last)
                 \/ WriteStep(w)

Goes(p, from, to) == rd[p].pc = from /\ rd'[p].pc = to
Leaves(p, from, how) == Goes(p, from, "idle") /\ res'[p] = how

\* Lines that move neither the offset nor the history.
Looks(p) == /\ UNCHANGED <<roff, hist>>
            /\ \/ Goes(p, "idle", "test") \/ Goes(p, "idle", "pollsleep")
               \/ Leaves(p, "test", "again")
               \/ Leaves(p, "pollsleep", IF NoData THEN "out" ELSE "in")
               \/ NoData /\ Goes(p, "test", "tosleep")
               \/ ~ NoData /\ Goes(p, "test", "reload")
               \/ Goes(p, "tosleep", "asleep")
               \/ Signals /\ Goes(p, "asleep", "woken")

Reloads(p) == /\ rd[p].pc \in {"reload", "woken"} /\ rd'[p].off = roff
              /\ rd'[p].pc = IF roff = Strlen(buf) THEN "eof" ELSE "measure"
              /\ roff' = roff /\ hist'.eof = hist.eof /\ ~ hist'.fresh
              /\ hist'.missed = hist.missed \ {p}

Ends(p) == /\ Leaves(p, "eof", "eof") /\ roff' = Smaller(rd[p].off + 1, MaxRoff)
           /\ hist'.fresh = hist.fresh /\ hist'.torn = hist.torn /\ hist'.missed = hist.missed

Measures(p) == /\ Goes(p, "measure", "copy") /\ UNCHANGED <<roff, hist>>
               /\ rd'[p].off = rd[p].off
               /\ rd[p].off <= Strlen(buf) => rd'[p].off + rd'[p].len <= Strlen(buf)

Copies(p) == /\ Goes(p, "copy", "idle") /\ UNCHANGED hist
             /\ roff' \in {roff, Smaller(rd[p].off + rd[p].len, MaxRoff)}

ReadMoves(p) == /\ UNCHANGED <<buf, wr>> /\ \A q \in Reader \ {p} : rd'[q] = rd[q]
                /\ rd[p].pc = "asleep" \/ CanRun(p)
                /\ Looks(p) \/ Reloads(p) \/ Ends(p) \/ Measures(p) \/ Copies(p)

\* A write but for its last two steps, the rewinding and the wake-up.
Writes(w) == /\ wr'[w].pc \in {"copy", "term", "newline", "rewind"} /\ UNCHANGED <<roff, rd>>
             /\ hist'.fresh = hist.fresh /\ hist'.torn = hist.torn /\ hist'.missed = hist.missed
             /\ hist'.eof = (hist.eof /\ wr[w].pc # "idle")

Rewinds(w) == /\ wr[w].pc = "rewind" /\ wr'[w].pc = "wake" /\ UNCHANGED <<buf, rd>>
              /\ roff' = 0 /\ hist'.eof = hist.eof
              /\ hist'.torn = Holds /\ hist'.missed = hist.missed

Wakes(w) == /\ wr[w].pc = "wake" /\ wr'[w].pc = "idle" /\ UNCHANGED <<roff, buf>>
            /\ hist'.fresh = hist.fresh /\ hist'.eof = hist.eof /\ hist'.torn = hist.torn
            /\ hist'.missed = hist.missed \cup At({"tosleep"})
            /\ \A p \in Reader : rd'[p].pc = Woken(rd[p].pc) /\ rd'[p].off = rd[p].off

WriteMoves(w) == /\ CanRun(w) /\ \A v \in Writer \ {w} : wr'[v] = wr[v]
                 /\ Writes(w) \/ Rewinds(w) \/ Wakes(w)
-----------------------------------------------------------------------------
(***************************************************************************)
(* strlen of an array that holds a NUL: the first one.                     *)
(***************************************************************************)
LEMMA Least ==
  ASSUME NEW T, T \subseteq Nat, T # {}
  PROVE  \E x \in T : \A y \in T : ~ (y < x)
<1> DEFINE R == {p \in Nat \X Nat : p[1] < p[2]}
<1>1. IsWellFoundedOn(R, Nat)
  BY NatLessThanWellFounded DEF OpToRel
<1>2. \A x, y \in Nat : y < x => <<y, x>> \in R
  OBVIOUS
<1> HIDE DEF R
<1>3. PICK x \in T : \A y \in T : ~ (<<y, x>> \in R)
  BY <1>1, WFMin
<1> QED BY <1>2, <1>3

\* Of any NUL in the array strlen ends at it or before.
LEMMA StrlenEnds ==
  ASSUME NEW s \in [0..Overrun -> Char], NEW k \in 0..Overrun, s[k] = "nul"
  PROVE  Strlen(s) \in 0..k /\ s[Strlen(s)] = "nul"
<1> DEFINE T == {i \in 0..Overrun : s[i] = "nul"}
<1>1. T \subseteq Nat /\ k \in T
  BY LengthAssumption DEF Overrun
<1>2. PICK m \in T : \A j \in T : ~ (j < m)
  BY <1>1, Least
<1>3. m \in DOMAIN s /\ s[m] = "nul" /\ \A j \in DOMAIN s : j < m => s[j] # "nul"
  BY <1>2
<1>4. /\ Strlen(s) \in DOMAIN s /\ s[Strlen(s)] = "nul"
      /\ \A j \in DOMAIN s : j < Strlen(s) => s[j] # "nul"
  BY <1>3 DEF Strlen
<1>5. ~ (k < Strlen(s)) /\ Strlen(s) \in 0..Overrun
  BY <1>4
<1> QED BY <1>4, <1>5, LengthAssumption DEF Overrun

\* The text in buf[] leaves room for its NUL.
LEMMA TextLength ==
  ASSUME TypeOK, Ended
  PROVE  Strlen(buf) \in 0..LEN_MSG + 1
<1>1. LEN_MSG + 1 \in 0..Overrun
  BY LengthAssumption DEF Overrun
<1> QED BY <1>1, StrlenEnds DEF TypeOK, Ended

\* The device as it is loaded.
LEMMA InitHolds == Init => BufferInv /\ TornInv /\ SleepsInv /\ OffsetInv /\ MessageInv
<1> SUFFICES ASSUME Init PROVE BufferInv /\ TornInv /\ SleepsInv /\ OffsetInv /\ MessageInv
  OBVIOUS
<1>1. TypeOK
  <2>1. buf \in [0..Overrun -> Char] BY DEF Init, Char
  <2> QED BY <2>1, LengthAssumption, RoffAssumption
       DEF Init, TypeOK, Histories, Call, Write, Result, Idle, Waiting
<1>2. LEN_MSG + 1 \in 0..Overrun /\ Overrun \in 0..Overrun /\ LEN_MSG + 1 >= 2 /\ Overrun > 2
  BY LengthAssumption DEF Overrun
<1>3. Ended
  BY <1>2, LengthAssumption DEF Init, Ended
<1>4. WritersIdle /\ roff = 0 /\ ~ hist.eof /\ \A p \in Reader : rd[p].pc = "idle"
  BY DEF Init, WritersIdle, Idle
<1>5. TornInv /\ SleepsInv
  BY <1>4 DEF TornInv, Holds, At, SleepsInv
<1> QED BY <1>1, <1>3, <1>4, <1>5 DEF BufferInv, OneWrites, WritersIdle, OffsetInv, AloneBy,
                                      KnowsBy, MessageInv, InsideBy, Busy

(***************************************************************************)
(* Changing the fields of a call in progress.                              *)
(***************************************************************************)
LEMMA CallFields ==
  ASSUME NEW pc \in Waiting \cup Busy, NEW x \in Nat, NEW c \in Call
  PROVE  /\ [c EXCEPT !.pc = pc] \in Call
         /\ [c EXCEPT !.pc = pc, !.off = x] \in Call
         /\ [c EXCEPT !.off = x, !.pc = pc] \in Call
         /\ [c EXCEPT !.pc = pc, !.len = x] \in Call
         /\ \A nb \in BOOLEAN : [c EXCEPT !.pc = pc, !.nonblock = nb, !.count = x] \in Call
<1> DEFINE P == Waiting \cup Busy
<1> USE DEF Call
<1>0. pc \in P OBVIOUS
<1> HIDE DEF P
<1>1. [c EXCEPT !.pc = pc] \in Call BY <1>0 DEF P
<1>2. [c EXCEPT !.pc = pc, !.off = x] \in Call BY <1>0 DEF P
<1>3. [c EXCEPT !.off = x, !.pc = pc] \in Call BY <1>0 DEF P
<1>4. [c EXCEPT !.pc = pc, !.len = x] \in Call BY <1>0 DEF P
<1>5. \A nb \in BOOLEAN : [c EXCEPT !.pc = pc, !.nonblock = nb, !.count = x] \in Call
  <2> TAKE nb \in BOOLEAN
  <2> QED BY <1>0 DEF P
<1> HIDE DEF Call
<1> QED BY <1>1, <1>2, <1>3, <1>4, <1>5, Zenon

(***************************************************************************)
(* Steps of a reader: they keep the buffer as it is, and are in the table  *)
(* above (lines 21-40 and 52-59).                                          *)
(***************************************************************************)
LEMMA Returns ==
  ASSUME TypeOK, NEW p \in Reader, NEW how \in Result, Return(p, how)
  PROVE  /\ rd' \in [Reader -> Call] /\ res' \in [Reader -> Result]
         /\ rd'[p].pc = "idle" /\ res'[p] = how /\ \A q \in Reader \ {p} : rd'[q] = rd[q]
<1>1. Idle \in Call /\ Idle.pc = "idle"
  BY DEF Idle, Call, Waiting
<1> QED BY <1>1 DEF TypeOK, Return

\* The call of a reader is replaced by another one.
LEMMA Changes ==
  ASSUME TypeOK, NEW p \in Reader, NEW call \in Call, rd' = [rd EXCEPT ![p] = call]
  PROVE  /\ rd' \in [Reader -> Call] /\ rd'[p] = call
         /\ \A q \in Reader \ {p} : rd'[q] = rd[q]
<1> QED BY DEF TypeOK

\* Every step of a reader is in the table.
LEMMA ReadEffects ==
  ASSUME TypeOK, Ended, NEW p \in Reader, ReaderActs(p)
  PROVE  TypeOK' /\ ReadMoves(p)
<1> USE DEF ReaderAt
<1>a. /\ Strlen(buf) \in 0..LEN_MSG + 1 /\ LEN_MSG + 2 < MaxRoff
      /\ LEN_MSG \in Nat /\ MaxRoff \in Nat /\ roff \in 0..MaxRoff
  BY TextLength, LengthAssumption, RoffAssumption DEF TypeOK
<1>b. /\ rd \in [Reader -> Call] /\ rd[p] \in Call
      /\ rd[p].off \in Nat /\ rd[p].len \in Nat /\ rd[p].count \in Nat
  BY DEF TypeOK, Call
<1>c. hist \in Histories
  BY DEF TypeOK
<1>t. ASSUME UNCHANGED <<buf, wr>>, roff' \in 0..MaxRoff, rd' \in [Reader -> Call],
             res' \in [Reader -> Result], hist' \in Histories
      PROVE  TypeOK'
  BY <1>t DEF TypeOK
<1>r. res \in [Reader -> Result]
  BY DEF TypeOK
<1>1. CASE \E n \in 0..MaxCount, nb \in BOOLEAN : ReadCall(p, n, nb)
  <2>0. PICK n \in 0..MaxCount, nb \in BOOLEAN : ReadCall(p, n, nb)
    BY <1>1
  <2> DEFINE call == [Idle EXCEPT !.pc = "test", !.nonblock = nb, !.count = n]
  <2>1. /\ CanRun(p) /\ UNCHANGED <<roff, buf, wr, res, hist>> /\ rd' = [rd EXCEPT ![p] = call]
        /\ rd[p].pc = "idle"
    BY <2>0, Zenon DEF ReadCall
  <2>a. Idle \in Call /\ n \in Nat /\ "test" \in Waiting \cup Busy
    BY LengthAssumption DEF Idle, Call, Waiting, Busy
  <2>b. call \in Call
    BY <2>a, CallFields, Zenon
  <2>c. call.pc = "test"
    BY DEF Idle
  <2> HIDE DEF call
  <2>2. /\ rd' \in [Reader -> Call] /\ rd'[p].pc = "test"
        /\ \A q \in Reader \ {p} : rd'[q] = rd[q]
    BY <2>1, <2>b, <2>c, Changes
  <2>3. Looks(p) BY <2>1, <2>2 DEF Looks, Goes
  <2> QED BY <2>1, <2>2, <2>3, <1>a, <1>c, <1>t, <1>r DEF ReadMoves
<1>2. CASE ReadTest(p)
  <2>1. CanRun(p) /\ UNCHANGED <<roff, buf, wr, hist>> /\ rd[p].pc = "test"
    BY <1>2 DEF ReadTest
  <2>2. CASE NoData /\ rd[p].nonblock
    <3>1. Return(p, "again") /\ "again" \in Result
      BY <1>2, <2>2 DEF ReadTest, Result
    <3>2. /\ rd' \in [Reader -> Call] /\ res' \in [Reader -> Result]
          /\ rd'[p].pc = "idle" /\ res'[p] = "again" /\ \A q \in Reader \ {p} : rd'[q] = rd[q]
      BY <3>1, Returns
    <3>3. Looks(p) BY <2>1, <3>2 DEF Looks, Leaves, Goes
    <3> QED BY <2>1, <3>2, <3>3, <1>a, <1>c, <1>t DEF ReadMoves
  <2>3. CASE ~ (NoData /\ rd[p].nonblock)
    <3>0. PICK pc \in {"tosleep", "reload"} : pc = IF NoData THEN "tosleep" ELSE "reload"
      OBVIOUS
    <3>1. rd' = [rd EXCEPT ![p].pc = pc, ![p].off = roff] /\ UNCHANGED res
      BY <1>2, <2>3, <3>0 DEF ReadTest
    <3> DEFINE call == [rd[p] EXCEPT !.pc = pc, !.off = roff]
    <3>a. pc \in Waiting \cup Busy /\ roff \in Nat BY <1>a DEF Busy
    <3>b. call \in Call BY <3>a, <1>b, CallFields, Zenon
    <3>c. call.pc = pc BY <1>b DEF Call
    <3>d. rd' = [rd EXCEPT ![p] = call] BY <3>1
    <3> HIDE DEF call
    <3>2. /\ rd' \in [Reader -> Call] /\ rd'[p].pc = pc
          /\ \A q \in Reader \ {p} : rd'[q] = rd[q]
      BY <3>b, <3>c, <3>d, Changes
    <3>3. Looks(p)
      <4>1. CASE NoData BY <4>1, <3>0, <3>2, <2>1 DEF Looks, Goes
      <4>2. CASE ~ NoData BY <4>2, <3>0, <3>2, <2>1 DEF Looks, Goes
      <4> QED BY <4>1, <4>2
    <3> QED BY <2>1, <3>1, <3>2, <3>3, <1>a, <1>c, <1>t, <1>r DEF ReadMoves
  <2> QED BY <2>2, <2>3
<1>3. CASE ReadSleep(p) \/ Signal(p) \/ PollCall(p)
  <2>1. PICK pc \in {"asleep", "woken", "pollsleep"} :
          /\ UNCHANGED <<roff, buf, wr, res, hist>> /\ rd' = [rd EXCEPT ![p].pc = pc]
          /\ rd[p].pc = "asleep" \/ CanRun(p)
          /\ \/ rd[p].pc = "tosleep" /\ pc = "asleep"
             \/ rd[p].pc = "idle" /\ pc = "pollsleep"
             \/ Signals /\ rd[p].pc = "asleep" /\ pc = "woken"
    BY <1>3 DEF ReadSleep, Signal, PollCall
  <2> DEFINE call == [rd[p] EXCEPT !.pc = pc]
  <2>a. pc \in Waiting \cup Busy /\ 0 \in Nat BY DEF Waiting
  <2>b. call \in Call BY <2>a, <1>b, CallFields, Zenon
  <2>c. call.pc = pc BY <1>b DEF Call
  <2>d. rd' = [rd EXCEPT ![p] = call] BY <2>1
  <2> HIDE DEF call
  <2>2. rd' \in [Reader -> Call] /\ rd'[p].pc = pc /\ \A q \in Reader \ {p} : rd'[q] = rd[q]
    BY <2>b, <2>c, <2>d, Changes
  <2>3. Looks(p) BY <2>1, <2>2 DEF Looks, Goes
  <2> QED BY <2>1, <2>2, <2>3, <1>a, <1>c, <1>t, <1>r DEF ReadMoves
<1>4. CASE ReadReload(p)
  <2>0. PICK pc \in {"eof", "measure"} : pc = IF roff = Strlen(buf) THEN "eof" ELSE "measure"
    OBVIOUS
  <2>1. /\ CanRun(p) /\ UNCHANGED <<roff, buf, wr, res>> /\ rd[p].pc \in {"reload", "woken"}
        /\ hist' = [hist EXCEPT !.fresh = FALSE, !.missed = @ \ {p}]
        /\ rd' = [rd EXCEPT ![p].off = roff, ![p].pc = pc]
    BY <1>4, <2>0 DEF ReadReload, Reloaded
  <2> DEFINE call == [rd[p] EXCEPT !.off = roff, !.pc = pc]
  <2>a. pc \in Waiting \cup Busy /\ roff \in Nat BY <1>a DEF Busy
  <2>b. call \in Call BY <2>a, <1>b, CallFields, Zenon
  <2>c. call.pc = pc /\ call.off = roff BY <1>b DEF Call
  <2>d. rd' = [rd EXCEPT ![p] = call] BY <2>1
  <2> HIDE DEF call
  <2>2. /\ rd' \in [Reader -> Call] /\ rd'[p].pc = pc /\ rd'[p].off = roff
        /\ \A q \in Reader \ {p} : rd'[q] = rd[q]
    BY <2>b, <2>c, <2>d, Changes
  <2>3. /\ hist' \in Histories /\ hist'.missed = hist.missed \ {p}
        /\ hist'.fresh = FALSE /\ hist'.eof = hist.eof
    BY <2>1, <1>c DEF Histories
  <2>4. Reloads(p) BY <2>0, <2>1, <2>2, <2>3 DEF Reloads
  <2> QED BY <2>1, <2>2, <2>3, <2>4, <1>a, <1>t, <1>r DEF ReadMoves
<1>5. CASE ReadEof(p)
  <2>1. /\ CanRun(p) /\ UNCHANGED <<buf, wr>> /\ rd[p].pc = "eof"
        /\ roff' = Smaller(rd[p].off + 1, MaxRoff) /\ Return(p, "eof") /\ "eof" \in Result
        /\ hist' = [hist EXCEPT !.eof = TRUE]
    BY <1>5 DEF ReadEof, PastEof, Result
  <2>2. /\ rd' \in [Reader -> Call] /\ res' \in [Reader -> Result]
        /\ rd'[p].pc = "idle" /\ res'[p] = "eof" /\ \A q \in Reader \ {p} : rd'[q] = rd[q]
    BY <2>1, Returns
  <2>3. roff' \in 0..MaxRoff
    BY <2>1, <1>a, <1>b DEF Smaller
  <2>4. /\ hist' \in Histories /\ hist'.fresh = hist.fresh
        /\ hist'.torn = hist.torn /\ hist'.missed = hist.missed
    BY <2>1, <1>c DEF Histories
  <2>5. Ends(p) BY <2>1, <2>2, <2>4 DEF Ends, Leaves, Goes
  <2> QED BY <2>1, <2>2, <2>3, <2>4, <2>5, <1>t DEF ReadMoves
<1>6. CASE ReadMeasure(p)
  <2>0. PICK n \in Nat : /\ n = IF rd[p].off > Strlen(buf) THEN rd[p].count
                                ELSE Smaller(rd[p].count, Strlen(buf) - rd[p].off)
                         /\ rd[p].off <= Strlen(buf) => rd[p].off + n <= Strlen(buf)
    BY <1>a, <1>b DEF Smaller
  <2>1. /\ CanRun(p) /\ UNCHANGED <<roff, buf, wr, res, hist>> /\ rd[p].pc = "measure"
        /\ rd' = [rd EXCEPT ![p].pc = "copy", ![p].len = n]
    BY <1>6, <2>0 DEF ReadMeasure
  <2> DEFINE call == [rd[p] EXCEPT !.pc = "copy", !.len = n]
  <2>a. "copy" \in Waiting \cup Busy BY DEF Busy
  <2>b. call \in Call BY <2>a, <1>b, CallFields, Zenon
  <2>c. call.pc = "copy" /\ call.len = n /\ call.off = rd[p].off BY <1>b DEF Call
  <2>d. rd' = [rd EXCEPT ![p] = call] BY <2>1
  <2> HIDE DEF call
  <2>2. /\ rd' \in [Reader -> Call] /\ rd'[p].pc = "copy"
        /\ rd'[p].off = rd[p].off /\ rd'[p].len = n
        /\ \A q \in Reader \ {p} : rd'[q] = rd[q]
    BY <2>b, <2>c, <2>d, Changes
  <2>3. Measures(p) BY <2>0, <2>1, <2>2 DEF Measures, Goes
  <2> QED BY <2>1, <2>2, <2>3, <1>a, <1>c, <1>t, <1>r DEF ReadMoves
<1>7. CASE ReadCopied(p) \/ ReadFault(p)
  <2>1. PICK how \in Result :
          /\ CanRun(p) /\ UNCHANGED <<buf, wr, hist>> /\ rd[p].pc = "copy" /\ Return(p, how)
          /\ roff' \in {roff, Smaller(rd[p].off + rd[p].len, MaxRoff)}
    BY <1>7 DEF ReadCopied, ReadFault, Result
  <2>2. /\ rd' \in [Reader -> Call] /\ res' \in [Reader -> Result]
        /\ rd'[p].pc = "idle" /\ \A q \in Reader \ {p} : rd'[q] = rd[q]
    BY <2>1, Returns
  <2>3. roff' \in 0..MaxRoff
    BY <2>1, <1>a, <1>b DEF Smaller
  <2>4. Copies(p) BY <2>1, <2>2 DEF Copies, Goes
  <2> QED BY <2>1, <2>2, <2>3, <2>4, <1>c, <1>t DEF ReadMoves
<1>8. CASE PollAnswer(p)
  <2>0. PICK how \in Result : how = IF NoData THEN "out" ELSE "in"
    BY DEF Result
  <2>1. /\ CanRun(p) /\ UNCHANGED <<roff, buf, wr, hist>> /\ rd[p].pc = "pollsleep"
        /\ Return(p, how)
    BY <1>8, <2>0, <1>a DEF PollAnswer, NoData
  <2>2. /\ rd' \in [Reader -> Call] /\ res' \in [Reader -> Result]
        /\ rd'[p].pc = "idle" /\ res'[p] = how /\ \A q \in Reader \ {p} : rd'[q] = rd[q]
    BY <2>1, Returns
  <2>3. Looks(p) BY <2>0, <2>1, <2>2 DEF Looks, Leaves, Goes
  <2> QED BY <2>1, <2>2, <2>3, <1>a, <1>c, <1>t DEF ReadMoves
<1> QED BY <1>1, <1>2, <1>3, <1>4, <1>5, <1>6, <1>7, <1>8, Zenon DEF ReaderActs, ReadStep

(***************************************************************************)
(* Steps of a writer: no other write is in progress, the text goes on      *)
(* ending where it must, and the step is in the table (lines 42-49).       *)
(***************************************************************************)
LEMMA NoOtherWriter ==
  ASSUME WritersApart, NEW w \in Writer, CanRun(w), TypeOK
  PROVE  \A v \in Writer \ {w} : wr[v].pc = "idle"
<1>1. CASE ~ Preempt
  BY <1>1, ProcessAssumption DEF CanRun, Others
<1>2. CASE \A u, v \in Writer : u = v
  BY <1>2
<1> QED BY <1>1, <1>2 DEF WritersApart

\* A step of a writer that leaves the text ended.
LEMMA WriteKeeps ==
  ASSUME WritersApart, BufferInv, NEW w \in Writer, CanRun(w),
         roff' \in 0..MaxRoff, buf' \in [0..Overrun -> Char], rd' \in [Reader -> Call],
         UNCHANGED res, hist' \in Histories,
         wr' \in [Writer -> Write], \A v \in Writer \ {w} : wr'[v] = wr[v],
         buf'[LEN_MSG + 1] = "nul", buf'[Overrun] = "nul",
         wr'[w].pc = "newline" => buf'[wr'[w].len] = "nul"
  PROVE  BufferInv'
<1>1. \A v \in Writer \ {w} : wr'[v].pc = "idle"
  BY NoOtherWriter DEF BufferInv
<1>2. TypeOK'
  BY DEF BufferInv, TypeOK
<1>3. OneWrites'
  BY <1>1 DEF OneWrites
<1>4. Ended'
  BY <1>1 DEF Ended
<1> QED BY <1>2, <1>3, <1>4 DEF BufferInv

\* Every step of a writer is in the table.
LEMMA WriteEffects ==
  ASSUME WritersApart, BufferInv, NEW w \in Writer, WriterActs(w)
  PROVE  BufferInv' /\ WriteMoves(w)
<1> USE DEF WriterAt
<1>0. /\ wr \in [Writer -> Write] /\ wr[w] \in Write /\ wr[w].len \in 0..LEN_MSG
      /\ hist \in Histories /\ roff \in 0..MaxRoff
      /\ buf \in [0..Overrun -> Char] /\ rd \in [Reader -> Call]
      /\ buf[LEN_MSG + 1] = "nul" /\ buf[Overrun] = "nul"
  BY DEF BufferInv, Ended, TypeOK, Write
<1>b. LEN_MSG \in Nat /\ LEN_MSG >= 1 /\ Overrun = LEN_MSG + 2
  BY LengthAssumption DEF Overrun
<1>c. ASSUME NEW pc \in Writing \cup {"idle"}, Goto(w, pc)
      PROVE  /\ wr' \in [Writer -> Write] /\ wr'[w].pc = pc /\ wr'[w].len = wr[w].len
             /\ \A v \in Writer \ {w} : wr'[v] = wr[v]
  <2>1. [wr[w] EXCEPT !.pc = pc] \in Write
    BY <1>0 DEF Write
  <2>2. wr' = [wr EXCEPT ![w] = [wr[w] EXCEPT !.pc = pc]]
    BY <1>c DEF Goto
  <2> QED BY <2>1, <2>2, <1>0 DEF Write
<1>d. UNCHANGED hist => /\ hist'.fresh = hist.fresh /\ hist'.eof = hist.eof
                        /\ hist'.torn = hist.torn /\ hist'.missed = hist.missed
  OBVIOUS
<1>1. CASE \E n \in 0..MaxCount, last \in {"c", "nl"} : WriteCall(w, n, last)
  <2>0. PICK n \in 0..MaxCount, last \in {"c", "nl"} : WriteCall(w, n, last)
    BY <1>1
  <2> DEFINE call == [pc |-> "copy", len |-> CutLen(n),
                      last |-> IF CutLen(n) < n THEN "c" ELSE last]
  <2>1. /\ CanRun(w) /\ UNCHANGED <<roff, buf, rd, res>> /\ wr[w].pc = "idle"
        /\ wr' = [wr EXCEPT ![w] = call] /\ hist' = [hist EXCEPT !.eof = FALSE]
    BY <2>0, Zenon DEF WriteCall
  <2>2. CutLen(n) \in 0..LEN_MSG
    BY <1>b, LengthAssumption DEF CutLen, Smaller
  <2>3. call \in Write /\ call.pc = "copy"
    BY <2>2 DEF Write, Writing
  <2> HIDE DEF call
  <2>4. /\ wr' \in [Writer -> Write] /\ wr'[w].pc = "copy"
        /\ \A v \in Writer \ {w} : wr'[v] = wr[v]
    BY <2>1, <2>3, <1>0
  <2>5. /\ hist' \in Histories /\ hist'.eof = FALSE
        /\ hist'.fresh = hist.fresh /\ hist'.torn = hist.torn /\ hist'.missed = hist.missed
    BY <2>1, <1>0 DEF Histories
  <2>6. BufferInv'
    BY <2>1, <2>4, <2>5, <1>0, WriteKeeps
  <2>7. Writes(w)
    BY <2>1, <2>4, <2>5 DEF Writes
  <2> QED BY <2>1, <2>4, <2>6, <2>7 DEF WriteMoves
<1>2. CASE WriteCopy(w)
  <2>1. PICK last \in {wr[w].last, "fault"} :
          /\ CanRun(w) /\ UNCHANGED <<roff, rd, res, hist>> /\ wr[w].pc = "copy"
          /\ buf' = [i \in DOMAIN buf |-> IF i < wr[w].len THEN Text(wr[w].len, last, i)
                                          ELSE buf[i]]
          /\ Goto(w, "term")
    BY <1>2 DEF WriteCopy
  <2>2. /\ wr' \in [Writer -> Write] /\ wr'[w].pc = "term"
        /\ \A v \in Writer \ {w} : wr'[v] = wr[v]
    BY <2>1, <1>c DEF Writing
  <2>3. \A i \in 0..Overrun : Text(wr[w].len, last, i) \in Char
    BY DEF Text, Char
  <2>4. buf' \in [0..Overrun -> Char]
    BY <2>1, <2>3, <1>0
  <2>5. buf'[LEN_MSG + 1] = "nul" /\ buf'[Overrun] = "nul"
    BY <2>1, <1>0, <1>b
  <2>6. BufferInv'
    BY <2>1, <2>2, <2>4, <2>5, <1>0, WriteKeeps
  <2>7. Writes(w)
    BY <2>1, <2>2, <1>0, <1>d DEF Writes, Histories
  <2> QED BY <2>1, <2>2, <2>6, <2>7 DEF WriteMoves
<1>3. CASE WriteTerm(w)
  <2>1. /\ CanRun(w) /\ UNCHANGED <<roff, rd, res, hist>> /\ wr[w].pc = "term"
        /\ buf' = [buf EXCEPT ![wr[w].len] = "nul"] /\ Goto(w, "newline")
    BY <1>3 DEF WriteTerm
  <2>2. /\ wr' \in [Writer -> Write] /\ wr'[w].pc = "newline" /\ wr'[w].len = wr[w].len
        /\ \A v \in Writer \ {w} : wr'[v] = wr[v]
    BY <2>1, <1>c DEF Writing
  <2>3. /\ buf' \in [0..Overrun -> Char] /\ buf'[wr[w].len] = "nul"
        /\ buf'[LEN_MSG + 1] = "nul" /\ buf'[Overrun] = "nul"
    BY <2>1, <1>0, <1>b DEF Char
  <2>6. BufferInv'
    BY <2>1, <2>2, <2>3, <1>0, WriteKeeps
  <2>7. Writes(w)
    BY <2>1, <2>2, <1>0, <1>d DEF Writes, Histories
  <2> QED BY <2>1, <2>2, <2>6, <2>7 DEF WriteMoves
<1>4. CASE WriteNewline(w)
  <2>1. /\ CanRun(w) /\ UNCHANGED <<roff, rd, res, hist>> /\ wr[w].pc = "newline"
        /\ \/ buf' = buf
           \/ buf' = [buf EXCEPT ![Strlen(buf)] = "nl", ![Strlen(buf) + 1] = "nul"]
        /\ Goto(w, "rewind")
    BY <1>4 DEF WriteNewline
  <2>2. /\ wr' \in [Writer -> Write] /\ wr'[w].pc = "rewind"
        /\ \A v \in Writer \ {w} : wr'[v] = wr[v]
    BY <2>1, <1>c DEF Writing
  <2>3. Strlen(buf) \in 0..LEN_MSG
    <3>1. wr[w].len \in 0..Overrun /\ buf[wr[w].len] = "nul"
      BY <2>1, <1>0, <1>b DEF BufferInv, Ended
    <3>2. Strlen(buf) \in 0..wr[w].len
      BY <3>1, <1>0, StrlenEnds
    <3> QED BY <3>2, <1>0, <1>b
  <2>4. /\ buf' \in [0..Overrun -> Char]
        /\ buf'[LEN_MSG + 1] = "nul" /\ buf'[Overrun] = "nul"
    <3>1. CASE buf' = buf
      BY <3>1, <1>0
    <3>2. CASE buf' = [buf EXCEPT ![Strlen(buf)] = "nl", ![Strlen(buf) + 1] = "nul"]
      BY <3>2, <2>3, <1>0, <1>b DEF Char
    <3> QED BY <2>1, <3>1, <3>2
  <2>6. BufferInv'
    BY <2>1, <2>2, <2>4, <1>0, WriteKeeps
  <2>7. Writes(w)
    BY <2>1, <2>2, <1>0, <1>d DEF Writes, Histories
  <2> QED BY <2>1, <2>2, <2>6, <2>7 DEF WriteMoves
<1>5. CASE WriteRewind(w)
  <2>1. /\ CanRun(w) /\ UNCHANGED <<buf, rd, res>> /\ wr[w].pc = "rewind" /\ roff' = 0
        /\ hist' = [hist EXCEPT !.fresh = TRUE, !.torn = Holds] /\ Goto(w, "wake")
    BY <1>5 DEF WriteRewind, Rewound, Holds
  <2>2. /\ wr' \in [Writer -> Write] /\ wr'[w].pc = "wake"
        /\ \A v \in Writer \ {w} : wr'[v] = wr[v]
    BY <2>1, <1>c DEF Writing
  <2>3. /\ hist' \in Histories /\ hist'.eof = hist.eof
        /\ hist'.torn = Holds /\ hist'.missed = hist.missed
    <3>1. Holds \in SUBSET Reader BY DEF Holds, At
    <3> QED BY <2>1, <3>1, <1>0 DEF Histories
  <2>4. roff' \in 0..MaxRoff
    BY <2>1, RoffAssumption
  <2>6. BufferInv'
    BY <2>1, <2>2, <2>3, <2>4, <1>0, WriteKeeps
  <2>7. Rewinds(w)
    BY <2>1, <2>2, <2>3 DEF Rewinds
  <2> QED BY <2>1, <2>2, <2>6, <2>7 DEF WriteMoves
<1>6. CASE WriteWake(w)
  <2>1. /\ CanRun(w) /\ UNCHANGED <<roff, buf, res>> /\ wr[w].pc = "wake"
        /\ hist' = [hist EXCEPT !.missed = @ \cup At({"tosleep"})]
        /\ rd' = [p \in Reader |-> [rd[p] EXCEPT !.pc = Woken(rd[p].pc)]]
        /\ Goto(w, "idle")
    BY <1>6 DEF WriteWake
  <2>2. /\ wr' \in [Writer -> Write] /\ wr'[w].pc = "idle"
        /\ \A v \in Writer \ {w} : wr'[v] = wr[v]
    BY <2>1, <1>c
  <2>3. ASSUME NEW p \in Reader
        PROVE  /\ [rd[p] EXCEPT !.pc = Woken(rd[p].pc)] \in Call
               /\ rd'[p].pc = Woken(rd[p].pc) /\ rd'[p].off = rd[p].off
    <3>1. rd[p] \in Call /\ Woken(rd[p].pc) \in Waiting \cup Busy /\ 0 \in Nat
      BY <1>0 DEF Woken, Waiting, Call
    <3>2. [rd[p] EXCEPT !.pc = Woken(rd[p].pc)] \in Call
      BY <3>1, CallFields, Zenon
    <3>3. rd'[p] = [rd[p] EXCEPT !.pc = Woken(rd[p].pc)]
      BY <2>1
    <3> QED BY <3>1, <3>2, <3>3 DEF Call
  <2>4. rd' \in [Reader -> Call]
    BY <2>1, <2>3
  <2>5. /\ hist' \in Histories /\ hist'.fresh = hist.fresh /\ hist'.eof = hist.eof
        /\ hist'.torn = hist.torn /\ hist'.missed = hist.missed \cup At({"tosleep"})
    <3>1. At({"tosleep"}) \in SUBSET Reader BY DEF At
    <3> QED BY <2>1, <3>1, <1>0 DEF Histories
  <2>6. BufferInv'
    BY <2>1, <2>2, <2>4, <2>5, <1>0, WriteKeeps
  <2>7. Wakes(w)
    BY <2>1, <2>2, <2>3, <2>5 DEF Wakes
  <2> QED BY <2>1, <2>2, <2>6, <2>7 DEF WriteMoves
<1> QED BY <1>1, <1>2, <1>3, <1>4, <1>5, <1>6, Zenon DEF WriterActs, WriteStep

(***************************************************************************)
(* The first layer: the buffer, when writes do not overlap each other.     *)
(***************************************************************************)
LEMMA BufferStep == WritersApart /\ BufferInv /\ [Next]_vars => BufferInv'
<1> SUFFICES ASSUME WritersApart, BufferInv, [Next]_vars PROVE BufferInv'
  OBVIOUS
<1>1. CASE UNCHANGED vars
  BY <1>1 DEF vars, BufferInv, TypeOK, OneWrites, Ended
<1>2. ASSUME NEW p \in Reader, ReaderActs(p) PROVE BufferInv'
  BY <1>2, ReadEffects DEF BufferInv, ReadMoves, OneWrites, Ended
<1>3. ASSUME NEW w \in Writer, WriterActs(w) PROVE BufferInv'
  BY <1>3, WriteEffects
<1> QED BY <1>1, <1>2, <1>3, Zenon DEF Next, ReaderActs, WriterActs

\* The premises are about constants, so they never change.
LEMMA PremisesLast ==
  /\ WritersApart => WritersApart'
  /\ OneReader => OneReader' /\ WritersApart
  /\ NoOverlap => NoOverlap' /\ WritersApart
  /\ OneAtATime => OneAtATime' /\ NoOverlap
<1> QED BY DEF WritersApart, OneReader, NoOverlap, OneAtATime

\* The buffer is in order in every state.
LEMMA BufferInvariance == WritersApart /\ Spec => []BufferInv
<1> QED BY PremisesLast, InitHolds, BufferStep, PTL DEF Spec
-----------------------------------------------------------------------------
(***************************************************************************)
(* The history, whatever overlaps: an offset is loaded by the line that    *)
(* begins to read a message, and a write that rewinds notes who holds one. *)
(***************************************************************************)
LEMMA TornStep == WritersApart /\ BufferInv /\ TornInv /\ [Next]_vars => TornInv'
<1> SUFFICES ASSUME WritersApart, BufferInv, TornInv, [Next]_vars PROVE TornInv'
  OBVIOUS
<1> USE DEF Holds, At
<1>1. CASE UNCHANGED vars
  BY <1>1 DEF vars, TornInv
<1>2. ASSUME NEW p \in Reader, ReaderActs(p) PROVE TornInv'
  <2>1. ReadMoves(p) /\ \A q \in Reader \ {p} : rd'[q] = rd[q]
    BY <1>2, ReadEffects DEF BufferInv, ReadMoves
  <2>2. CASE Looks(p)
    <3>1. UNCHANGED <<roff, hist>> /\ rd'[p].pc \notin {"eof", "measure", "copy"}
      BY <2>2 DEF Looks, Goes, Leaves
    <3> QED BY <2>1, <3>1 DEF TornInv
  <2>3. CASE Reloads(p) BY <2>3 DEF Reloads, TornInv
  <2>4. CASE Ends(p)
    <3>1. /\ rd[p].pc = "eof" /\ rd'[p].pc = "idle"
          /\ hist'.fresh = hist.fresh /\ hist'.torn = hist.torn
      BY <2>4 DEF Ends, Leaves, Goes
    <3> QED BY <2>1, <3>1 DEF TornInv
  <2>5. CASE Measures(p)
    <3>1. rd[p].pc = "measure" /\ rd'[p].pc = "copy" /\ UNCHANGED <<roff, hist>>
      BY <2>5 DEF Measures, Goes
    <3> QED BY <2>1, <3>1 DEF TornInv
  <2>6. CASE Copies(p)
    <3>1. rd[p].pc = "copy" /\ rd'[p].pc = "idle" /\ UNCHANGED hist
      BY <2>6 DEF Copies, Goes
    <3> QED BY <2>1, <3>1 DEF TornInv
  <2> QED BY <2>1, <2>2, <2>3, <2>4, <2>5, <2>6 DEF ReadMoves
<1>3. ASSUME NEW w \in Writer, WriterActs(w) PROVE TornInv'
  <2>1. WriteMoves(w) BY <1>3, WriteEffects
  <2>2. CASE Writes(w) BY <2>2 DEF Writes, TornInv
  <2>3. CASE Rewinds(w) BY <2>3 DEF Rewinds, TornInv
  <2>4. CASE Wakes(w)
    <3>1. /\ roff' = roff /\ hist'.fresh = hist.fresh /\ hist'.torn = hist.torn
          /\ \A p \in Reader : rd'[p].pc = rd[p].pc \/ rd'[p].pc = "woken"
      BY <2>4 DEF Wakes, Woken
    <3> QED BY <3>1 DEF TornInv
  <2> QED BY <2>1, <2>2, <2>3, <2>4 DEF WriteMoves
<1> QED BY <1>1, <1>2, <1>3, Zenon DEF Next, ReaderActs, WriterActs

(***************************************************************************)
(* The one reader: as it sleeps nobody but a write changes offset or       *)
(* message, and a write ends with the wake-up.                             *)
(***************************************************************************)
LEMMA SleepsStep == OneReader /\ BufferInv /\ SleepsInv /\ [Next]_vars => SleepsInv'
<1> SUFFICES ASSUME OneReader, BufferInv, SleepsInv, [Next]_vars PROVE SleepsInv'
  OBVIOUS
<1>1. CASE UNCHANGED vars
  BY <1>1 DEF vars, SleepsInv, NoData, WritersIdle
<1>2. ASSUME NEW p \in Reader, ReaderActs(p) PROVE SleepsInv'
  <2>1. ReadMoves(p) /\ UNCHANGED <<buf, wr>> /\ \A q \in Reader : q = p
    BY <1>2, ReadEffects DEF BufferInv, ReadMoves, OneReader
  <2>2. CASE Looks(p)
    <3>1. UNCHANGED <<roff, hist>> /\ (NoData' <=> NoData)
      BY <2>1, <2>2 DEF Looks, NoData
    <3>2. rd'[p].pc \in {"tosleep", "asleep"} => NoData \/ rd[p].pc = "tosleep"
      BY <2>2 DEF Looks, Goes, Leaves
    <3> QED BY <2>1, <3>1, <3>2 DEF SleepsInv, WritersIdle
  <2>3. CASE ~ Looks(p)
    <3>1. rd'[p].pc \notin {"tosleep", "asleep"}
      BY <2>1, <2>3 DEF ReadMoves, Reloads, Ends, Measures, Copies, Goes, Leaves
    <3> QED BY <2>1, <3>1 DEF SleepsInv
  <2> QED BY <2>2, <2>3
<1>3. ASSUME NEW w \in Writer, WriterActs(w) PROVE SleepsInv'
  <2>1. WriteMoves(w) BY <1>3, PremisesLast, WriteEffects
  <2>2. CASE Writes(w) \/ Rewinds(w)
    BY <2>2 DEF Writes, Rewinds, SleepsInv, WritersIdle
  <2>3. CASE Wakes(w)
    <3>1. /\ hist'.missed = hist.missed \cup At({"tosleep"})
          /\ \A p \in Reader : rd'[p].pc \in {"tosleep", "asleep"} => rd[p].pc = "tosleep"
      BY <2>3 DEF Wakes, Woken
    <3> QED BY <3>1 DEF SleepsInv, At
  <2> QED BY <2>1, <2>2, <2>3 DEF WriteMoves
<1> QED BY <1>1, <1>2, <1>3, Zenon DEF Next, ReaderActs, WriterActs
-----------------------------------------------------------------------------
(***************************************************************************)
(* Without overlap a step of a reader finds no write in progress and no    *)
(* other reader but sleeping ones, a step of a writer no other call.       *)
(***************************************************************************)
LEMMA ReaderAlone ==
  ASSUME NoOverlap, NEW p \in Reader, CanRun(p)
  PROVE  WritersIdle /\ \A q \in Reader \ {p} : rd[q].pc \in Waiting
<1>1. Others(p) = {}
  BY DEF CanRun, NoOverlap
<1> QED BY <1>1, ProcessAssumption DEF Others, WritersIdle

\* The same for a step of a writer.
LEMMA WriterAlone ==
  ASSUME NoOverlap, NEW w \in Writer, CanRun(w)
  PROVE  /\ \A v \in Writer \ {w} : wr[v].pc = "idle"
         /\ \A p \in Reader : rd[p].pc \in Waiting
<1>1. Others(w) = {}
  BY DEF CanRun, NoOverlap
<1> QED BY <1>1, ProcessAssumption DEF Others

(***************************************************************************)
(* The second layer: the offset, when no calls overlap, moves under nobody *)
(* who has loaded it.                                                      *)
(***************************************************************************)
LEMMA ReadKeepsOffset ==
  ASSUME NoOverlap, BufferInv, OffsetInv, NEW p \in Reader, ReaderActs(p)
  PROVE  OffsetInv'
<1>1. ReadMoves(p) /\ UNCHANGED <<buf, wr>> /\ \A q \in Reader \ {p} : rd'[q] = rd[q]
  BY ReadEffects DEF BufferInv, ReadMoves
<1>3. /\ AloneBy(p) /\ KnowsBy(p) /\ \A q \in Reader : AloneBy(q) /\ KnowsBy(q)
  BY DEF OffsetInv
<1>4. CASE rd[p].pc = "asleep"
  <2>1. UNCHANGED roff /\ rd'[p].pc = "woken"
    BY <1>1, <1>4 DEF ReadMoves, Looks, Reloads, Ends, Measures, Copies, Goes, Leaves
  <2>2. AloneBy(p)' /\ KnowsBy(p)'
    BY <2>1 DEF AloneBy, KnowsBy, Busy
  <2>3. ASSUME NEW q \in Reader \ {p} PROVE AloneBy(q)' /\ KnowsBy(q)'
    <3>1. rd'[q] = rd[q] /\ AloneBy(q) /\ KnowsBy(q)
      BY <1>1, <1>3
    <3>2. AloneBy(q)'
      BY <3>1, <1>1, <2>1 DEF AloneBy, WritersIdle, Waiting
    <3>3. KnowsBy(q)'
      BY <3>1, <1>1, <2>1 DEF KnowsBy
    <3> QED BY <3>2, <3>3
  <2> QED BY <2>2, <2>3 DEF OffsetInv
<1>5. CASE CanRun(p)
  <2>1. WritersIdle /\ WritersIdle' /\ \A q \in Reader \ {p} : rd[q].pc \in Waiting
    BY <1>1, <1>5, ReaderAlone DEF WritersIdle
  <2>2. KnowsBy(p)'
    <3>1. CASE Looks(p)
      <4>1. rd'[p].pc \notin {"eof", "measure", "copy"} BY <3>1 DEF Looks, Goes, Leaves
      <4> QED BY <4>1 DEF KnowsBy
    <3>2. CASE Reloads(p) BY <3>2, <1>1 DEF Reloads, KnowsBy
    <3>3. CASE Measures(p)
      <4>1. /\ rd[p].pc = "measure" /\ rd'[p].pc = "copy" /\ UNCHANGED roff
            /\ rd'[p].off = rd[p].off
        BY <3>3 DEF Measures, Goes
      <4> QED BY <4>1, <1>3 DEF KnowsBy
    <3>4. CASE Ends(p) \/ Copies(p)
      <4>1. rd'[p].pc = "idle" BY <3>4 DEF Ends, Copies, Leaves, Goes
      <4> QED BY <4>1 DEF KnowsBy
    <3> QED BY <1>1, <3>1, <3>2, <3>3, <3>4 DEF ReadMoves
  <2>3. AloneBy(p)'
    BY <1>1, <2>1 DEF AloneBy
  <2>4. ASSUME NEW q \in Reader \ {p} PROVE AloneBy(q)' /\ KnowsBy(q)'
    <3>1. rd'[q] = rd[q] /\ rd[q].pc \in Waiting
      BY <1>1, <2>1
    <3> QED BY <3>1 DEF AloneBy, KnowsBy, Waiting, Busy
  <2> QED BY <2>2, <2>3, <2>4 DEF OffsetInv
<1> QED BY <1>1, <1>4, <1>5 DEF ReadMoves

\* A write finds readers asleep only.
LEMMA WriteKeepsOffset ==
  ASSUME NoOverlap, BufferInv, OffsetInv, NEW w \in Writer, WriterActs(w)
  PROVE  OffsetInv'
<1>1. WriteMoves(w) /\ CanRun(w)
  BY PremisesLast, WriteEffects DEF WriteMoves
<1>2. \A p \in Reader : rd[p].pc \in Waiting
  BY <1>1, WriterAlone
<1>3. \A p \in Reader : rd'[p].pc \in Waiting
  BY <1>1, <1>2 DEF WriteMoves, Writes, Rewinds, Wakes, Woken, Waiting
<1> QED BY <1>3 DEF OffsetInv, AloneBy, KnowsBy, Waiting, Busy

\* Every step keeps what readers know of the offset.
LEMMA OffsetStep == NoOverlap /\ BufferInv /\ OffsetInv /\ [Next]_vars => OffsetInv'
<1> SUFFICES ASSUME NoOverlap, BufferInv, OffsetInv, [Next]_vars PROVE OffsetInv'
  OBVIOUS
<1>1. CASE UNCHANGED vars
  BY <1>1 DEF vars, OffsetInv, AloneBy, KnowsBy, WritersIdle
<1> QED BY <1>1, ReadKeepsOffset, WriteKeepsOffset, Zenon DEF Next, ReaderActs, WriterActs

\* What readers know of the offset is so in every state.
LEMMA OffsetInvariance == NoOverlap /\ Spec => [](BufferInv /\ OffsetInv)
<1> QED BY PremisesLast, BufferInvariance, InitHolds, OffsetStep, PTL DEF Spec
-----------------------------------------------------------------------------
(***************************************************************************)
(* The third layer: the only reader, which nothing but a write wakes.      *)
(***************************************************************************)
LEMMA ReadKeepsMessage ==
  ASSUME OneAtATime, BufferInv, OffsetInv, MessageInv, NEW p \in Reader, ReaderActs(p)
  PROVE  MessageInv'
<1>1. ReadMoves(p) /\ UNCHANGED <<buf, wr>> /\ \A q \in Reader : q = p
  BY ReadEffects DEF BufferInv, ReadMoves, OneAtATime
<1>2. /\ Strlen(buf) \in 0..LEN_MSG + 1 /\ LEN_MSG + 2 < MaxRoff
      /\ LEN_MSG \in Nat /\ MaxRoff \in Nat /\ roff \in 0..MaxRoff
      /\ rd[p].off \in Nat /\ rd[p].len \in Nat
  BY TextLength, LengthAssumption, RoffAssumption DEF BufferInv, TypeOK, Call
<1>3. InsideBy(p) /\ KnowsBy(p) /\ AloneBy(p) /\ (hist.eof => NoData /\ WritersIdle)
  BY DEF MessageInv, OffsetInv
<1>4. WritersIdle /\ WritersIdle'
  <2>1. ~ Signals
    BY DEF OneAtATime
  <2>2. CASE CanRun(p)
    BY <2>2, <1>1, PremisesLast, ReaderAlone DEF WritersIdle
  <2>3. CASE rd[p].pc = "asleep"
    BY <2>1, <2>3, <1>1 DEF ReadMoves, Looks, Reloads, Ends, Measures, Copies, Goes, Leaves
  <2> QED BY <1>1, <2>2, <2>3 DEF ReadMoves
<1>5. InsideBy(p)' /\ (hist'.eof => NoData')
  <2>1. CASE Looks(p)
    <3>1. UNCHANGED <<roff, hist>> /\ rd'[p].pc \notin {"eof", "measure", "copy", "woken"}
      BY <2>1 DEF Looks, Goes, Leaves, OneAtATime
    <3>2. rd'[p].pc = "reload" => ~ NoData
      BY <2>1 DEF Looks, Goes, Leaves
    <3> QED BY <3>1, <3>2, <1>1, <1>3 DEF InsideBy, NoData
  <2>2. CASE Reloads(p)
    <3>1. rd'[p].pc \in {"eof", "measure"} /\ roff' = roff /\ hist'.eof = hist.eof /\ ~ NoData
      BY <2>2, <1>2, <1>3 DEF Reloads, InsideBy, NoData
    <3> QED BY <3>1, <1>1, <1>3 DEF InsideBy, NoData
  <2>3. CASE Ends(p)
    <3>1. rd[p].off = Strlen(buf) /\ rd'[p].pc = "idle" /\ roff' = Smaller(rd[p].off + 1, MaxRoff)
      BY <2>3, <1>3 DEF Ends, Leaves, Goes, KnowsBy
    <3>2. NoData'
      BY <3>1, <1>1, <1>2 DEF NoData, Smaller
    <3> QED BY <3>1, <3>2 DEF InsideBy
  <2>4. CASE Measures(p)
    <3>1. /\ rd[p].pc = "measure" /\ rd'[p].pc = "copy" /\ UNCHANGED <<roff, hist>>
          /\ rd[p].off <= Strlen(buf) => rd'[p].off + rd'[p].len <= Strlen(buf)
      BY <2>4 DEF Measures, Goes
    <3>2. ~ NoData /\ rd[p].off = roff
      BY <3>1, <1>3 DEF InsideBy, KnowsBy
    <3>3. rd[p].off <= Strlen(buf)
      BY <3>2, <1>2 DEF NoData
    <3> QED BY <3>1, <3>2, <3>3, <1>1, <1>3 DEF InsideBy, NoData
  <2>5. CASE Copies(p)
    <3>1. rd[p].pc = "copy" /\ rd'[p].pc = "idle" /\ UNCHANGED hist
      BY <2>5 DEF Copies, Goes
    <3> QED BY <3>1, <1>3 DEF InsideBy
  <2> QED BY <1>1, <2>1, <2>2, <2>3, <2>4, <2>5 DEF ReadMoves
<1> QED BY <1>1, <1>4, <1>5 DEF MessageInv, WritersIdle

\* A write ends with the offset at the start and the reader up.
LEMMA WriteKeepsMessage ==
  ASSUME OneAtATime, BufferInv, OffsetInv, MessageInv, NEW w \in Writer, WriterActs(w)
  PROVE  MessageInv'
<1>1. WriteMoves(w) /\ CanRun(w) /\ \A v \in Writer \ {w} : wr'[v] = wr[v]
  BY PremisesLast, WriteEffects DEF WriteMoves
<1>2. /\ \A p \in Reader : rd[p].pc \in Waiting
      /\ \A v \in Writer \ {w} : wr'[v].pc = "idle"
  BY <1>1, PremisesLast, WriterAlone
<1>3. /\ \A p \in Reader : rd[p].pc = "woken" => roff = 0
      /\ wr[w].pc = "wake" => roff = 0
      /\ wr[w].pc # "idle" => ~ hist.eof
  BY DEF MessageInv, InsideBy, WritersIdle
<1>4. CASE Writes(w) \/ Rewinds(w)
  <2>1. rd' = rd /\ ~ hist'.eof /\ roff' \in {roff, 0} /\ (wr'[w].pc = "wake" => roff' = 0)
    BY <1>3, <1>4 DEF Writes, Rewinds
  <2> QED BY <2>1, <1>2, <1>3 DEF MessageInv, InsideBy, Waiting
<1>5. CASE Wakes(w)
  <2>1. /\ \A p \in Reader : rd'[p].pc \in {"idle", "woken", "pollsleep"}
        /\ roff' = roff /\ hist'.eof = hist.eof /\ roff = 0 /\ ~ hist.eof /\ wr'[w].pc = "idle"
    BY <1>2, <1>3, <1>5 DEF Wakes, Woken, Waiting
  <2> QED BY <2>1, <1>2 DEF MessageInv, InsideBy
<1> QED BY <1>1, <1>4, <1>5 DEF WriteMoves

\* Every step keeps the reader inside of the message.
LEMMA MessageStep ==
  OneAtATime /\ BufferInv /\ OffsetInv /\ MessageInv /\ [Next]_vars => MessageInv'
<1> SUFFICES ASSUME OneAtATime, BufferInv, OffsetInv, MessageInv, [Next]_vars PROVE MessageInv'
  OBVIOUS
<1>1. CASE UNCHANGED vars
  BY <1>1 DEF vars, MessageInv, InsideBy, NoData, WritersIdle
<1> QED BY <1>1, ReadKeepsMessage, WriteKeepsMessage, Zenon DEF Next, ReaderActs, WriterActs

\* The reader is inside of the message in every state.
LEMMA MessageInvariance == OneAtATime /\ Spec => [](BufferInv /\ OffsetInv /\ MessageInv)
<1> QED BY PremisesLast, OffsetInvariance, InitHolds, MessageStep, PTL DEF Spec
-----------------------------------------------------------------------------
(***************************************************************************)
(* The newline that strcat adds to a message always fits: no write of any  *)
(* length changes the byte behind buf[], however many processes read at    *)
(* the same time (lines 43-46).                                            *)
(***************************************************************************)
THEOREM NewlineFits == WritersApart /\ Spec => []WritesStayInBuffer
<1>1. BufferInv => WritesStayInBuffer
  BY LengthAssumption DEF BufferInv, Ended, WritesStayInBuffer
<1> QED BY <1>1, BufferInvariance, PTL

(***************************************************************************)
(* Reads and writes overlapping line by line, with signals: the one reader *)
(* of the device loses no wake-up but by having tested and not yet gone to *)
(* sleep when it comes (lines 24-27 and 47-48).                            *)
(***************************************************************************)
THEOREM WakeUpsAreMissedOneWay == OneReader /\ Spec => []OnlyMissedWakeUps
<1>1. SleepsInv => OnlyMissedWakeUps
  BY DEF SleepsInv, WritersIdle, OnlyMissedWakeUps
<1> QED BY <1>1, PremisesLast, BufferInvariance, InitHolds, SleepsStep, PTL DEF Spec

(***************************************************************************)
(* However many readers overlap a write and each other, with signals: the  *)
(* offset it has set to the start of its message is moved, before somebody *)
(* begins to read that message, only if the write rewound between two      *)
(* lines of a read (lines 29-37 and 47).                                   *)
(***************************************************************************)
THEOREM OffsetsAreTornOneWay == WritersApart /\ Spec => []OnlyTornReadsMoveIt
<1>1. TornInv => OnlyTornReadsMoveIt
  BY DEF TornInv, OnlyTornReadsMoveIt
<1> QED BY <1>1, PremisesLast, BufferInvariance, InitHolds, TornStep, PTL DEF Spec

(***************************************************************************)
(* The subtraction of line 34 does not wrap around: the only reader copies *)
(* bytes of the message, although the offset was read before the length.   *)
(***************************************************************************)
THEOREM NoWrapAround == OneAtATime /\ Spec => []ReadsOnlyMessage
<1>1. MessageInv => ReadsOnlyMessage
  BY DEF MessageInv, InsideBy, ReadsOnlyMessage
<1> QED BY <1>1, MessageInvariance, PTL

(***************************************************************************)
(* After an end of file no call of the reader finds data until a write     *)
(* begins: read answers EAGAIN or sleeps, poll does not announce data.     *)
(***************************************************************************)
THEOREM EndOfFileLasts == OneAtATime /\ Spec => EofLasts
<1> DEFINE Answers(p) == (hist.eof /\ rd[p].pc # "idle" /\ rd'[p].pc = "idle")
                           => res'[p] \in {"again", "out"}
<1>1. OneAtATime /\ BufferInv /\ MessageInv /\ [Next]_vars
        => [\A p \in Reader : Answers(p)]_vars
  <2> SUFFICES ASSUME OneAtATime, BufferInv, MessageInv, Next, NEW p \in Reader, hist.eof,
                      rd[p].pc # "idle", rd'[p].pc = "idle"
               PROVE  res'[p] \in {"again", "out"}
    OBVIOUS
  <2>1. NoData /\ WritersIdle /\ rd[p].pc \notin {"reload", "eof", "measure", "copy"}
    BY DEF MessageInv, InsideBy
  <2>2. ASSUME NEW q \in Reader, ReaderActs(q) PROVE res'[p] \in {"again", "out"}
    <3>1. ReadMoves(p)
      BY <2>2, ReadEffects DEF OneAtATime, BufferInv
    <3>2. Looks(p)
      BY <3>1, <2>1 DEF ReadMoves, Reloads, Ends, Measures, Copies, Goes, Leaves
    <3> QED BY <3>2, <2>1 DEF Looks, Goes, Leaves
  <2>3. ASSUME NEW w \in Writer, WriterActs(w) PROVE FALSE
    <3>1. WriteMoves(w)
      BY <2>3, PremisesLast, WriteEffects
    <3>2. rd'[p].pc = rd[p].pc
      BY <3>1, <2>1 DEF WriteMoves, Writes, Rewinds, Wakes, WritersIdle
    <3> QED BY <3>2
  <2> QED BY <2>2, <2>3, Zenon DEF Next, ReaderActs, WriterActs
<1> QED BY <1>1, PremisesLast, MessageInvariance, PTL DEF Spec, EofLasts
=============================================================================
