------------------------------ MODULE TextNodes ------------------------------
(***************************************************************************)
(* Files of /dev, /proc and /sys that hold a text or a number, and the     *)
(* processes that open, read, write and close them.  How a driver answers  *)
(* a read, how it knows the end of the file, whether it looks at the size  *)
(* it is asked for, what an open file has of its own: that is its record   *)
(* here, and one set of actions follows the records.                       *)
(*                                                                         *)
(* A byte is <<who wrote it, its place>>; NUL ends a string.  The line     *)
(* feed some drivers add and others strip is left out.                     *)
(***************************************************************************)
EXTENDS Integers, Sequences, SequencesExt, FiniteSets, FiniteSetsExt

CONSTANTS Client,     \* open files
          LEN_MSG,    \* longest text: a buffer has LEN_MSG + 1 bytes
          PageSize,   \* bytes of the page that read_proc fills
          Counts,     \* sizes of a read
          Lengths,    \* sizes of a write
          MaxReads,   \* reads of a program that reads to the end
          NUL, Junk, Origin   \* the end, a byte of something else, the first writer

\* A program that reads asks for one byte at least, and no byte is the end.
ASSUME LengthAssumption ==
  LEN_MSG \in Nat \ {0} /\ Counts \subseteq Nat \ {0} /\ Lengths \subseteq Nat
ASSUME PageAssumption == PageSize \in Nat \ {0}
ASSUME NulAssumption == NUL \notin (Client \cup {Origin}) \X Nat
-----------------------------------------------------------------------------
(***************************************************************************)
(* The records.                                                            *)
(*   read   how a read finds the end of file and what it copies            *)
(*   write  how a write goes into the buffer                               *)
(*   opens  what open tests: nothing, a counter under the lock of the misc *)
(*          devices, or a counter under no lock                            *)
(*   bounded, counts    whether a write looks at the size of the buffer,   *)
(*          and whether interrupts change the number                       *)
(*   ownText, ownMark   whether the text, and the mark that says it has    *)
(*          been read, belong to the open file                             *)
(***************************************************************************)
Node(read, write) == [read |-> read, write |-> write, opens |-> "freely", bounded |-> TRUE,
                      counts |-> FALSE, ownText |-> FALSE, ownMark |-> FALSE]

dev_read == Node("whole", "none")
fixdev   == [dev_read EXCEPT !.opens = "unlocked"]
ioctl_dev     == Node("ioctl", "none")
ioctl_dev_old == Node("ioctl", "none")
ioctl_dev_new == Node("ioctl", "none")

\* With mode 1 one process at a time; with mode 2 each has its own buffer.
Marked(mode, ownMark) ==
  [Node("marked", "string") EXCEPT !.opens = IF mode = 1 THEN "locked" ELSE @,
                                   !.ownText = mode = 2, !.ownMark = ownMark]
mmopen(mode)   == Marked(mode, mode = 2)
mmopen_0(mode) == Marked(mode, FALSE)

queues == Node("whole", "string")

fops_rw     == Node("window", "string")
fops_rw_old == Node("window", "string")

\* A number is printed into a buffer of the call, and parsed from one.
Counting(node) == [node EXCEPT !.counts = TRUE]
modpasu_value    == Node("once", "number")
modpasu_multiply == Node("once", "number")
procdat          == Node("once", "number")
procdatlt        == Node("once", "number")
irqcntp  == Counting(Node("counted", "none"))
irqcntpv == Counting(Node("counted", "none"))

\* sysfs asks an attribute for its page once, and serves the reads from it.
Unbounded(node) == [node EXCEPT !.bounded = FALSE]
xxx     == Unbounded(Node("page", "string"))
xxm     == Unbounded(Node("page", "string"))
xxe     == Unbounded(Node("error", "string"))
sysdat  == Unbounded(Node("page", "number"))
syskdat == Node("page", "number")
irqcnts == Counting(Node("page", "none"))
mdsys   == Counting(Node("page", "number"))
mdsysc  == Counting(Node("page", "number"))

\* read_proc fills a page from which the kernel then copies.  It copies all of a
\* longer text and returns its length; the kernel takes that for the size of the
\* page.  What the copy does to the memory behind the page is left out.
proc_node_read     == Node("refill", "none")
proc_node_read_old == Node("refill", "none")
variants(v)     == Node(IF v = 2 THEN "fill once" ELSE "refill", "block")
variants_old(v) == Node(IF v = 2 THEN "fill once" ELSE "refill", "block")

Nodes == {dev_read, fixdev, queues, ioctl_dev, ioctl_dev_old, ioctl_dev_new, fops_rw, fops_rw_old,
          modpasu_value, modpasu_multiply, procdat, procdatlt, irqcntp, irqcntpv,
          xxx, xxm, xxe, sysdat, syskdat, irqcnts, mdsys, mdsysc,
          proc_node_read, proc_node_read_old}
         \cup (UNION {{mmopen(m), mmopen_0(m)} : m \in 0..2})
         \cup (UNION {{variants(v), variants_old(v)} : v \in 0..3})
-----------------------------------------------------------------------------
(***************************************************************************)
(* The programs: how often each writes and reads, and the sizes it reads.  *)
(* The first who opens chooses among them; cat is cat(1).                  *)
(***************************************************************************)
Program(writes, reads, sizes) == [writes |-> writes, reads |-> reads, sizes |-> sizes]

cat        == Program(0, MaxReads, Counts)
mcat       == Program(0, MaxReads, Counts)
mcat_proc  == Program(0, MaxReads, Counts)
rtest      == Program(0, MaxReads, Counts \cap {1})
recho      == Program(1, 0, {0})
pmopen     == Program(1, MaxReads, {LEN_MSG})
simple     == Program(1, MaxReads, {LEN_MSG + 1})
read_string  == Program(0, 1, {LEN_MSG + 1})
write_string == Program(1, 0, {0})
ioctl        == Program(0, 1, {LEN_MSG + 1})

Programs == {cat, mcat, mcat_proc, rtest, recho, pmopen, simple, read_string, write_string, ioctl}
-----------------------------------------------------------------------------
VARIABLES node,    \* the record of the file's driver
          text,    \* its buffer
          odd,     \* its mark: the text has been read
          opened,  \* its counter of openings
          beyond,  \* a write went past the end of a buffer
          file,    \* Client -> the open file and the call in progress
          tidy     \* sessions so far kept apart, and read to the end or not at all

vars == <<node, text, odd, opened, beyond, file, tidy>>

Bytes == 1..LEN_MSG + 1
Smaller(a, b) == IF a < b THEN a ELSE b

\* A buffer that holds a string, and the string in a buffer.
Filled(s) == [i \in Bytes |-> IF i <= Len(s) THEN s[i] ELSE NUL]
Str(buf) == LET ends == {i \in Bytes : buf[i] = NUL}
            IN IF ends = {} THEN buf ELSE SubSeq(buf, 1, Min(ends) - 1)
Message(from, n) == [i \in 1..n |-> <<from, i>>]
Over(buf, s) == [i \in Bytes |-> IF i <= Len(s) THEN s[i] ELSE buf[i]]
Ended(buf, n) == [i \in Bytes |-> IF i = n + 1 THEN NUL ELSE buf[i]]
Initially == Filled(Message(Origin, Smaller(2, LEN_MSG)))

Closed == [st |-> "closed", writes |-> 0, reads |-> 0, count |-> 0, taken |-> 0,
           pos |-> 0, odd |-> FALSE, own |-> Initially, page |-> <<>>,
           copied |-> <<>>, got |-> <<>>, result |-> "more", used |-> FALSE, over |-> FALSE,
           alone |-> TRUE, quiet |-> TRUE, expect |-> <<>>]

Init == /\ node \in Nodes
        /\ text = Initially /\ odd = FALSE /\ opened = 0 /\ beyond = FALSE
        /\ file = [c \in Client |-> Closed] /\ tidy = TRUE

Buf(c) == IF node.ownText THEN file[c].own ELSE text
Mark(c) == IF node.ownMark THEN file[c].odd ELSE odd
In(c, st) == file[c].st = st
Others(c) == {d \in Client \ {c} : ~ In(d, "closed")}

\* The file becomes f; the mark of its text becomes m.
Becomes(c, f, m) ==
  /\ file' = [file EXCEPT ![c] = [f EXCEPT !.odd = IF node.ownMark THEN m ELSE @]]
  /\ odd' = IF node.ownMark THEN odd ELSE m
-----------------------------------------------------------------------------
(***************************************************************************)
(* open and release.  misc_open calls open under its mutex; chrdev_open    *)
(* does not, and what the compiler makes of the increment may use the      *)
(* value it tested.                                                        *)
(***************************************************************************)
Opened(c) == \E p \in Programs : \E n \in p.sizes :
  /\ file' = [d \in Client |->
        IF d # c THEN [file[d] EXCEPT !.alone = FALSE]
        ELSE [Closed EXCEPT !.st = "open", !.writes = p.writes, !.reads = p.reads, !.count = n,
                !.alone = Others(c) = {},
                !.quiet = node.ownText \/ ~ \E w \in Client : In(w, "writing"),
                !.expect = IF node.ownText THEN Str(Initially) ELSE Str(text)]]
  /\ UNCHANGED <<node, text, odd, beyond, tidy>>

Open(c) == /\ node.opens = "freely" /\ In(c, "closed")
           /\ Opened(c) /\ UNCHANGED opened

OpenLocked(c) == /\ node.opens = "locked" /\ In(c, "closed") /\ opened = 0
                 /\ Opened(c) /\ opened' = opened + 1

OpenTested(c) == /\ node.opens = "unlocked" /\ In(c, "closed") /\ opened = 0
                 /\ file' = [file EXCEPT ![c].st = "opening"]
                 /\ UNCHANGED <<node, text, odd, opened, beyond, tidy>>
OpenCounted(c) == /\ In(c, "opening")
                  /\ Opened(c) /\ opened' \in {opened + 1, 1}

Release(c) == opened' = IF node.opens = "freely" THEN opened ELSE opened - 1
Close(c) == /\ In(c, "open")
            /\ file' = [file EXCEPT ![c] = Closed]
            /\ tidy' = (tidy /\ file[c].alone /\ (~ file[c].used \/ file[c].result = "eof"))
            /\ Release(c)
            /\ UNCHANGED <<node, text, odd, beyond>>
-----------------------------------------------------------------------------
(***************************************************************************)
(* read: first the test for the end of file, then the copy, of a length    *)
(* that a whole text was measured for before.  A program reads until it is *)
(* given nothing or an error.                                              *)
(***************************************************************************)
AtEnd(c) == \/ node.read \in {"whole", "once"} /\ file[c].pos # 0
            \/ node.read = "window" /\ file[c].pos >= Len(Str(Buf(c)))
            \/ node.read \in {"marked", "counted"} /\ Mark(c)
Fails(c) == \/ node.read = "whole" /\ file[c].count < Len(Str(Buf(c)))
            \/ node.read = "error"

Read(c) ==
  /\ In(c, "open") /\ file[c].result = "more"
  /\ file[c].writes = 0 /\ file[c].reads > 0
  /\ LET f == [file[c] EXCEPT !.reads = @ - 1, !.used = TRUE]
     IN \/ Fails(c) /\ Becomes(c, [f EXCEPT !.result = "error"], Mark(c))
        \/ /\ ~ Fails(c) /\ AtEnd(c)
           /\ Becomes(c, [f EXCEPT !.result = "eof", !.pos = IF node.read = "window" THEN 0 ELSE @],
                      FALSE)
        \/ /\ ~ Fails(c) /\ ~ AtEnd(c)
           /\ Becomes(c, [f EXCEPT !.st = "copying",
                                !.taken = IF node.read = "whole" THEN Len(Str(Buf(c))) ELSE @],
                      Mark(c) \/ node.read = "counted")
  /\ UNCHANGED <<node, text, opened, beyond, tidy>>

\* At most count bytes from pos on.  A text that became shorter than pos
\* since the test leaves no limit: the difference is not negative.
From(s, f) == SubSeq(s, f.pos + 1, f.pos + Smaller(f.count, Len(s) - f.pos))
Window(buf, f) ==
  IF f.pos <= Len(Str(buf)) THEN From(Str(buf), f)
  ELSE [i \in 1..f.count |-> IF f.pos + i \in Bytes THEN buf[f.pos + i] ELSE Junk]

Page(c) == IF file[c].pos = 0 THEN Str(Buf(c)) ELSE file[c].page
\* What there is of a text for those who read: through read_proc, a page.
Shown(s) == IF node.read \in {"refill", "fill once"} THEN SubSeq(s, 1, Smaller(Len(s), PageSize))
            ELSE s

Junks(s) == [i \in DOMAIN s |-> Junk]
Copied(c) ==
  LET f == file[c]  s == Shown(Str(Buf(c))) IN
  CASE node.read = "window" -> Window(Buf(c), f)
    [] node.read = "page"   -> From(Page(c), f)
    [] node.read = "refill" -> IF f.pos < Len(s) THEN From(s, f) ELSE <<>>
    [] node.read = "fill once" -> IF f.pos = 0 THEN From(s, f)
                                  ELSE IF f.pos < Len(s) THEN Junks(From(s, f)) ELSE <<>>
    [] node.read = "ioctl"  -> s \o <<Junk>>
    [] node.read = "whole"  -> SubSeq(Buf(c), 1, f.taken)
    [] OTHER -> s

\* These never look at count, and their line feed comes on top.  More than count
\* bytes go past the end of the program's buffer.
Careless == node.read \in {"marked", "counted", "once"}
Overruns(f, s) == Len(s) + (IF Careless THEN 1 ELSE 0) > f.count

\* Mutant of Advanced: the position stays.
AdvancedNot(f, n) == f.pos
Advanced(f, n) == IF node.read = "marked" THEN f.pos ELSE f.pos + n
Delivered(f, s) ==
  [f EXCEPT !.st = "open", !.copied = <<>>, !.got = @ \o s, !.pos = Advanced(f, Len(s)),
            !.over = @ \/ Overruns(f, s),
            !.result = IF s = <<>> /\ node.read # "marked" THEN "eof" ELSE @]

Copy(c) == /\ In(c, "copying")
           /\ LET f == [file[c] EXCEPT !.page = IF node.read = "page" THEN Page(c) ELSE @]
              IN IF node.read = "marked"
                 THEN Becomes(c, [f EXCEPT !.st = "returning", !.copied = Copied(c)], TRUE)
                 ELSE Becomes(c, Delivered(f, Copied(c)), Mark(c))
           /\ UNCHANGED <<node, text, opened, beyond, tidy>>

\* mopen_read measures its buffer again for the number it returns.
Return(c) == /\ In(c, "returning")
             /\ LET s == [i \in 1..Len(Str(Buf(c))) |->
                            IF i <= Len(file[c].copied) THEN file[c].copied[i] ELSE Junk]
                IN Becomes(c, Delivered(file[c], s), Mark(c))
             /\ UNCHANGED <<node, text, opened, beyond, tidy>>
-----------------------------------------------------------------------------
(***************************************************************************)
(* write, before the first read of the program.  A string is copied into   *)
(* the buffer and ended in a second step; so is a block, which is blotted  *)
(* out and measured first; a number is stored at once.                     *)
(***************************************************************************)
\* Mutant of Taken: one byte more than there is room for with the NUL.
TakenOneMore(n) == Smaller(n, LEN_MSG + 1)
Taken(n) == IF ~ node.bounded THEN n
            ELSE Smaller(n, IF node.write = "block" THEN LEN_MSG + 1 ELSE LEN_MSG)

CanWrite(c) == In(c, "open") /\ file[c].writes > 0

\* c puts buf into its buffer and goes to st; others see it if it is theirs.
Stores(c, st, n, buf) ==
  /\ text' = IF node.ownText THEN text ELSE buf
  /\ file' = [d \in Client |->
        IF d = c THEN [file[c] EXCEPT !.st = st, !.expect = Str(buf), !.writes = 0, !.taken = n,
                                      !.own = IF node.ownText THEN buf ELSE @]
        ELSE [file[d] EXCEPT !.quiet = @ /\ node.ownText]]

Write(c, n) ==
  /\ CanWrite(c) /\ node.write \in {"string", "block"}
  /\ Stores(c, "writing", Taken(n),
            IF node.write = "block" THEN Filled([i \in 1..Taken(n) |-> Junk])
            ELSE Over(Buf(c), Message(c, Taken(n))))
  /\ beyond' = (beyond \/ (Taken(n) > LEN_MSG /\ node.write = "string"))
  /\ UNCHANGED <<node, odd, opened, tidy>>

\* After an empty write mopen looks at the byte before its buffer: with a line
\* feed there the buffer stays as it was.
WriteEnds(c) ==
  /\ In(c, "writing")
  /\ \/ Stores(c, "open", file[c].taken,
               IF node.write = "block" THEN Over(text, Message(c, file[c].taken))
               ELSE Ended(Buf(c), file[c].taken))
     \/ /\ node.read = "marked" /\ file[c].taken = 0
        /\ Stores(c, "open", 0, Buf(c))
  /\ UNCHANGED <<node, odd, opened, beyond, tidy>>

\* No digits at all are the number 0, or one that lay on the stack; what is
\* no number may be refused.
Number(from, n) == IF n = 0 THEN <<<<from, 0>>>> ELSE Message(from, Smaller(n, LEN_MSG))
WriteNumber(c, n) ==
  /\ CanWrite(c) /\ node.write = "number"
  /\ Stores(c, "open", 0, Filled(Number(c, n)))
  /\ beyond' = (beyond \/ (~ node.bounded /\ n > LEN_MSG))
  /\ UNCHANGED <<node, odd, opened, tidy>>
RefuseNumber(c) ==
  /\ CanWrite(c) /\ node.write = "number"
  /\ file' = [file EXCEPT ![c].result = "error"]
  /\ UNCHANGED <<node, text, odd, opened, beyond, tidy>>

Interrupt == /\ node.counts
             /\ \E n \in 1..LEN_MSG : text' = Filled(Message(Origin, n))
             /\ file' = [c \in Client |-> [file[c] EXCEPT !.quiet = FALSE]]
             /\ UNCHANGED <<node, odd, opened, beyond, tidy>>
-----------------------------------------------------------------------------
Session(c) ==
  \/ Open(c) \/ OpenLocked(c) \/ OpenTested(c) \/ OpenCounted(c) \/ Close(c)
  \/ Read(c) \/ Copy(c) \/ Return(c)
  \/ \E n \in Lengths : Write(c, n) \/ WriteNumber(c, n)
  \/ WriteEnds(c) \/ RefuseNumber(c)
Next == Interrupt \/ \E c \in Client : Session(c)
Spec == Init /\ [][Next]_vars
-----------------------------------------------------------------------------
\* The place in the text is known to the open file alone.
Private == node.ownMark \/ node.read \notin {"marked", "counted"}

(***************************************************************************)
(* What cat prints is the text: nothing twice, nothing of another text,    *)
(* never more than it has room for, and at the end of file all of it, or   *)
(* through read_proc a page full of it.  Nobody may write meanwhile; where *)
(* the mark of the end of file is shared by all open files, the sessions   *)
(* must also have kept apart and been read to the end.  Drivers that do    *)
(* not look at the size of a read do go past the end of a small buffer;    *)
(* of a program they did that to, nothing is said.  Nor of the second      *)
(* variant of read_proc, which fills its page for the first read only.     *)
(***************************************************************************)
CatGetsText ==
  \A c \in Client :
    LET f == file[c] IN
    In(c, "open") /\ f.quiet /\ (Private \/ (f.alone /\ tidy))
      => \/ node.read \in {"fill once", "ioctl"}
         \/ Careless /\ f.over
         \/ /\ ~ f.over /\ IsPrefix(f.got, f.expect)
            /\ f.result = "eof" => f.got = Shown(f.expect)

(***************************************************************************)
(* The string of a driver that limits a write ends inside its buffer, also *)
(* in the middle of two writes at once: no reader runs past it.            *)
(***************************************************************************)
StringEnds ==
  node.write = "string" /\ node.bounded
    => ~ beyond /\ text[LEN_MSG + 1] = NUL /\ \A c \in Client : file[c].own[LEN_MSG + 1] = NUL
=============================================================================
