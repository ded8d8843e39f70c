---------------------------- MODULE TextNodesProofs ----------------------------
(***************************************************************************)
(* What holds of the files that hold a text for buffers of any size, any   *)
(* number of open files and reads and writes of any sizes: strings end in  *)
(* their buffers, and what a program reads is the text.                    *)
(***************************************************************************)
EXTENDS TextNodes, SequenceTheorems, WellFoundedInduction, TLAPS

Byte == ((Client \cup {Origin}) \X Nat) \cup {NUL, Junk}
Buffer == [Bytes -> Byte]

\* An open file is the record of its fields, whatever they hold.
IsFile(f) ==
  f = [st |-> f.st, writes |-> f.writes, reads |-> f.reads, count |-> f.count, taken |-> f.taken,
       pos |-> f.pos, odd |-> f.odd, own |-> f.own, page |-> f.page, copied |-> f.copied,
       got |-> f.got, result |-> f.result, used |-> f.used, over |-> f.over,
       alone |-> f.alone, quiet |-> f.quiet, expect |-> f.expect]
Shaped(f) == IsFile(f) /\ f.own \in Buffer /\ f.count \in Nat /\ f.taken \in Nat
Shapes == /\ node \in Nodes /\ text \in Buffer /\ file = [c \in Client |-> file[c]]
          /\ \A c \in Client : Shaped(file[c])

\* What is true of a file whoever else there is.
Began(f) ==
  /\ ~ f.used => /\ f.pos = 0 /\ f.got = <<>> /\ f.result # "eof" /\ ~ f.over
                 /\ f.st \notin {"copying", "returning"}
  /\ f.writes > 0 \/ f.st = "writing" => ~ f.used
  /\ f.st = "writing" => node.write \in {"string", "block"}
  /\ f.reads > 0 \/ f.st = "copying" => f.count # 0
  /\ f.st \in {"copying", "returning"} => f.result = "more"
  /\ f.st = "returning" => node.read = "marked"

Live(f) == f.st \notin {"closed", "opening"}
Sure(f) == Private \/ (f.alone /\ tidy)

\* The mark m is set between the copy of a text and the end of file that follows.
Marks(f, m) ==
  Live(f) /\ Sure(f) /\ node.read \in {"marked", "counted"} =>
    /\ ~ f.used \/ f.result = "eof" => ~ m
    /\ f.st = "copying" => (m <=> node.read = "counted")
    /\ f.st = "returning" => m

\* What was read of the text s, with the mark m.
Copies(f, s, m) ==
  /\ f.result = "eof" => f.got = Shown(s)
  /\ ~ Careless => ~ f.over
  /\ node.read \in {"window", "page", "refill"} =>
       /\ f.result # "eof" => f.pos \in 0..Len(Shown(s)) /\ f.got = SubSeq(Shown(s), 1, f.pos)
       /\ node.read = "window" /\ f.st = "copying" => f.pos < Len(s)
       /\ node.read = "page" /\ f.pos # 0 => f.page = s
  /\ node.read \in {"whole", "once"} =>
       /\ f.result # "eof" => f.got = IF f.pos = 0 THEN <<>> ELSE s
       /\ f.st = "copying" => f.pos = 0
       /\ f.st = "copying" /\ node.read = "whole" => f.taken = Len(s) /\ f.taken <= f.count
  /\ node.read \in {"marked", "counted"} =>
       /\ f.st \in {"open", "writing"} /\ f.result # "eof" => f.got = IF m THEN s ELSE <<>>
       /\ f.st \in {"copying", "returning"} => f.got = <<>>
       /\ f.st = "returning" => f.copied = s
  /\ node.read = "error" => f.got = <<>> /\ f.result # "eof" /\ f.st # "copying"
Exempt == node.read \in {"fill once", "ioctl"}
Reads(f, s, m) ==
  Live(f) /\ Sure(f) /\ f.quiet => f.expect = s /\ (Exempt \/ Copies(f, s, m))
Fits(f, s, m) == Began(f) /\ Marks(f, m) /\ Reads(f, s, m)

\* A session that keeps apart is the only one; after those that did, and were read
\* to the end, the mark of the text is not set.
AloneLive == \A c, d \in Client : c # d /\ file[c].alone /\ Live(file[c]) => ~ Live(file[d])
MarkLeft == ~ Private /\ tidy /\ (\A c \in Client : ~ Live(file[c])) => ~ odd

\* A number that interrupts count has a digit.
Digit == node.read = "counted" => text[1] # NUL

IInv == /\ Shapes /\ AloneLive /\ MarkLeft /\ Digit /\ StringEnds
        /\ \A c \in Client : Fits(file[c], Str(Buf(c)), Mark(c))
-----------------------------------------------------------------------------
(***************************************************************************)
(* Strings, and the parts of them that reads return.                       *)
(***************************************************************************)

\* A set of numbers that is not empty has a least one, which is its Min.
LEMMA MinIs ==
  ASSUME NEW T, T \subseteq Nat, T # {}
  PROVE  Min(T) \in T /\ \A y \in T : Min(T) <= y
<1> DEFINE R == {p \in Nat \X Nat : p[1] < p[2]}
<1>1. IsWellFoundedOn(R, Nat)
  BY NatLessThanWellFounded DEF OpToRel
<1>2. \A x, y \in Nat : y < x => <<y, x>> \in R
  OBVIOUS
<1> HIDE DEF R
<1>3. PICK x \in T : \A y \in T : ~ (<<y, x>> \in R)
  BY <1>1, WFMin
<1>4. ASSUME NEW y \in T PROVE x <= y
  <2>1. x \in Nat /\ y \in Nat OBVIOUS
  <2>2. ~ (y < x) BY <1>2, <1>3, <2>1
  <2> QED BY <2>1, <2>2
<1> QED BY <1>4 DEF Min

\* A sequence begins with its parts, one after the other.
LEMMA PartsFollow ==
  ASSUME NEW S, NEW s \in Seq(S), NEW p \in Nat, NEW k \in Nat, p + k <= Len(s)
  PROVE  SubSeq(s, 1, p) \o SubSeq(s, p + 1, p + k) = SubSeq(s, 1, p + k)
<1>1. Len(s) \in Nat /\ \A i \in 1..Len(s) : s[i] \in S BY LenProperties, ElementOfSeq
<1>2. PICK a : a = SubSeq(s, 1, p) OBVIOUS
<1>3. PICK b : b = SubSeq(s, p + 1, p + k) OBVIOUS
<1>4. PICK c : c = SubSeq(s, 1, p + k) OBVIOUS
<1>5. a \in Seq(S) /\ Len(a) = p /\ \A i \in 1..p : a[i] = s[i]
  <2>1. \A i \in 1..p : s[i] \in S BY <1>1
  <2>2. /\ a \in Seq(S) /\ Len(a) = IF 1 <= p THEN p - 1 + 1 ELSE 0
        /\ \A i \in 1..p - 1 + 1 : a[i] = s[1 + i - 1]
    BY <1>2, <2>1, SubSeqProperties
  <2> QED BY <2>2
<1>6. b \in Seq(S) /\ Len(b) = k /\ \A i \in 1..k : b[i] = s[p + i]
  <2>1. \A i \in p + 1..p + k : s[i] \in S BY <1>1
  <2>2. /\ b \in Seq(S) /\ Len(b) = IF p + 1 <= p + k THEN (p + k) - (p + 1) + 1 ELSE 0
        /\ \A i \in 1..(p + k) - (p + 1) + 1 : b[i] = s[(p + 1) + i - 1]
    BY <1>3, <2>1, SubSeqProperties
  <2> QED BY <2>2
<1>7. c \in Seq(S) /\ Len(c) = p + k /\ \A i \in 1..p + k : c[i] = s[i]
  <2>1. \A i \in 1..p + k : s[i] \in S BY <1>1
  <2>2. /\ c \in Seq(S) /\ Len(c) = IF 1 <= p + k THEN (p + k) - 1 + 1 ELSE 0
        /\ \A i \in 1..(p + k) - 1 + 1 : c[i] = s[1 + i - 1]
    BY <1>4, <2>1, SubSeqProperties
  <2> QED BY <2>2
<1>8. PICK d : d = a \o b OBVIOUS
<1>9. /\ d \in Seq(S) /\ Len(d) = p + k
      /\ \A i \in 1..p + k : d[i] = IF i <= p THEN a[i] ELSE b[i - p]
  BY <1>5, <1>6, <1>8, ConcatProperties
<1>10. ASSUME NEW i \in 1..p + k PROVE d[i] = c[i]
  <2>1. CASE i <= p BY <1>5, <1>7, <1>9, <2>1
  <2>2. CASE ~ (i <= p)
    <3>1. i - p \in 1..k /\ p + (i - p) = i BY <2>2
    <3> QED BY <1>6, <1>7, <1>9, <2>2, <3>1
  <2> QED BY <2>1, <2>2
<1>11. d = c BY <1>7, <1>9, <1>10, SeqEqual
<1> QED BY <1>2, <1>3, <1>4, <1>8, <1>11

\* The string of a buffer is its beginning.
LEMMA StrFacts ==
  ASSUME NEW buf \in Buffer
  PROVE  /\ Str(buf) \in Seq(Byte) /\ Len(Str(buf)) \in 0..LEN_MSG + 1
         /\ SubSeq(buf, 1, Len(Str(buf))) = Str(buf)
         /\ buf[1] # NUL => Str(buf) # <<>>
<1> DEFINE ends == {i \in Bytes : buf[i] = NUL}
<1>1. /\ buf \in Seq(Byte) /\ Len(buf) = LEN_MSG + 1 /\ LEN_MSG \in Nat
      /\ \A i \in 1..LEN_MSG + 1 : buf[i] \in Byte
  BY LengthAssumption DEF Buffer, Bytes
<1>2. CASE ends = {}
  <2>1. Str(buf) = buf BY <1>2 DEF Str
  <2>2. SubSeq(buf, 1, Len(buf)) = buf BY <1>1, SubSeqFull
  <2> QED BY <1>1, <2>1, <2>2, EmptySeq
<1>3. CASE ends # {}
  <2>1. PICK n : n = Min(ends) OBVIOUS
  <2>2. n \in 1..LEN_MSG + 1 /\ buf[n] = NUL
    <3>1. ends \subseteq Nat BY DEF Bytes
    <3>2. Min(ends) \in ends BY <1>3, <3>1, MinIs
    <3> QED BY <2>1, <3>2 DEF Bytes
  <2>3. Str(buf) = SubSeq(buf, 1, n - 1) BY <1>3, <2>1 DEF Str
  <2>4. \A i \in 1..n - 1 : buf[i] \in Byte BY <1>1, <2>2
  <2>5. SubSeq(buf, 1, n - 1) \in Seq(Byte) /\ Len(SubSeq(buf, 1, n - 1)) = n - 1
    <3>1. /\ SubSeq(buf, 1, n - 1) \in Seq(Byte)
          /\ Len(SubSeq(buf, 1, n - 1)) = IF 1 <= n - 1 THEN n - 1 - 1 + 1 ELSE 0
      BY <2>2, <2>4, SubSeqProperties
    <3> QED BY <2>2, <3>1
  <2>6. buf[1] # NUL => n - 1 # 0 BY <2>2
  <2> QED BY <1>1, <2>2, <2>3, <2>5, <2>6, EmptySeq
<1> QED BY <1>2, <1>3

\* At most count bytes of a string from pos on, and what they are added to.
LEMMA FromFacts ==
  ASSUME NEW S, NEW s \in Seq(S), NEW f, f.pos \in 0..Len(s), f.count \in Nat
  PROVE  /\ f.pos + Len(From(s, f)) \in 0..Len(s)
         /\ SubSeq(s, 1, f.pos) \o From(s, f) = SubSeq(s, 1, f.pos + Len(From(s, f)))
         /\ f.count # 0 /\ From(s, f) = <<>> => f.pos = Len(s)
         /\ Len(From(s, f)) <= f.count
<1>1. PICK n \in Nat, p \in Nat, m \in Nat : n = Len(s) /\ p = f.pos /\ m = f.count /\ p <= n
  BY LenProperties
<1>2. PICK k \in Nat : k = Smaller(m, n - p) /\ p + k <= n /\ (m # 0 /\ k = 0 => p = n) /\ k <= m
  BY <1>1 DEF Smaller
<1>3. From(s, f) = SubSeq(s, p + 1, p + k) BY <1>1, <1>2 DEF From
<1>4. Len(SubSeq(s, p + 1, p + k)) = k
  <2>1. \A i \in p + 1..p + k : s[i] \in S BY <1>1, <1>2, ElementOfSeq
  <2>2. Len(SubSeq(s, p + 1, p + k)) = IF p + 1 <= p + k THEN (p + k) - (p + 1) + 1 ELSE 0
    BY <2>1, SubSeqProperties
  <2> QED BY <2>2
<1>5. SubSeq(s, 1, p) \o SubSeq(s, p + 1, p + k) = SubSeq(s, 1, p + k)
  <2>1. p + k <= Len(s) BY <1>1, <1>2
  <2> QED BY <2>1, PartsFollow
<1>6. SubSeq(s, p + 1, p + k) = <<>> => k = 0 BY <1>4, EmptySeq
<1>7. PICK e : e = From(s, f) OBVIOUS
<1>8. Len(e) = k /\ (e = <<>> => k = 0) /\ SubSeq(s, 1, p) \o e = SubSeq(s, 1, p + k)
  BY <1>3, <1>4, <1>5, <1>6, <1>7
<1>9. p + Len(e) \in 0..n /\ (m # 0 /\ e = <<>> => p = n) /\ Len(e) <= m BY <1>2, <1>8
<1>10. SubSeq(s, 1, p) \o e = SubSeq(s, 1, p + Len(e)) BY <1>8
<1> QED BY <1>1, <1>7, <1>9, <1>10

\* The first bytes of a string are a prefix of it.
LEMMA PartIsPrefix ==
  ASSUME NEW S, NEW s \in Seq(S), NEW p \in 0..Len(s)
  PROVE  IsPrefix(SubSeq(s, 1, p), s)
<1>1. Len(s) \in Nat /\ \A i \in 1..p : s[i] \in S BY LenProperties, ElementOfSeq
<1>2. PICK a : a = SubSeq(s, 1, p) OBVIOUS
<1>3. a \in Seq(S) /\ Len(a) = IF 1 <= p THEN p - 1 + 1 ELSE 0
  BY <1>1, <1>2, SubSeqProperties
<1>4. Len(a) = p BY <1>3
<1>5. SubSeq(a, 1, Len(a)) = a BY <1>3, SubSeqFull
<1> QED BY <1>1, <1>2, <1>4, <1>5 DEF IsPrefix

\* What is shown of a string is a string, its beginning.
LEMMA ShownFacts ==
  ASSUME NEW S, NEW s \in Seq(S)
  PROVE  /\ Shown(s) \in Seq(S) /\ Len(Shown(s)) \in 0..Len(s)
         /\ Shown(s) = SubSeq(s, 1, Len(Shown(s)))
<1>1. Len(s) \in Nat /\ SubSeq(s, 1, Len(s)) = s BY LenProperties, SubSeqFull
<1>2. CASE node.read \in {"refill", "fill once"}
  <2>0. PICK l \in Nat : l = Len(s) BY <1>1
  <2>1. PICK n \in 0..l : n = Smaller(l, PageSize)
    <3>1. PICK p \in Nat : p = PageSize BY PageAssumption
    <3>2. Smaller(l, p) \in 0..l BY DEF Smaller
    <3> QED BY <3>1, <3>2
  <2>2. Shown(s) = SubSeq(s, 1, n) BY <1>2, <2>0, <2>1 DEF Shown
  <2>3. \A i \in 1..n : s[i] \in S BY <2>0, ElementOfSeq
  <2>4. SubSeq(s, 1, n) \in Seq(S) /\ Len(SubSeq(s, 1, n)) = IF 1 <= n THEN n - 1 + 1 ELSE 0
    BY <1>1, <2>3, SubSeqProperties
  <2> QED BY <2>0, <2>2, <2>4
<1>3. CASE node.read \notin {"refill", "fill once"}
  <2>1. Shown(s) = s BY <1>3 DEF Shown
  <2> QED BY <1>1, <2>1
<1> QED BY <1>2, <1>3

\* Parts of what is shown are parts of the string.
LEMMA ShownPart ==
  ASSUME NEW S, NEW s \in Seq(S), NEW k \in 0..Len(Shown(s))
  PROVE  k \in 0..Len(s) /\ SubSeq(Shown(s), 1, k) = SubSeq(s, 1, k)
<1>1. PICK n \in 0..Len(s) : n = Len(Shown(s)) /\ Shown(s) = SubSeq(s, 1, n) BY ShownFacts
<1>2. Len(s) \in Nat /\ \A i \in 1..Len(s) : s[i] \in S BY LenProperties, ElementOfSeq
<1>3. PICK t : t = Shown(s) OBVIOUS
<1>4. t \in Seq(S) /\ Len(t) = n /\ \A i \in 1..n : t[i] = s[i]
  <2>1. \A i \in 1..n : s[i] \in S BY <1>2
  <2>2. \A i \in 1..n - 1 + 1 : SubSeq(s, 1, n)[i] = s[1 + i - 1]
    BY <1>2, <2>1, SubSeqProperties
  <2> QED BY <1>1, <1>2, <1>3, <2>2, ShownFacts
<1>5. k \in 0..n BY <1>1
<1>6. PICK a : a = SubSeq(t, 1, k) OBVIOUS
<1>7. PICK b : b = SubSeq(s, 1, k) OBVIOUS
<1>8. a \in Seq(S) /\ Len(a) = k /\ \A i \in 1..k : a[i] = t[i]
  <2>1. \A i \in 1..k : t[i] \in S BY <1>2, <1>4, <1>5
  <2>2. /\ a \in Seq(S) /\ Len(a) = IF 1 <= k THEN k - 1 + 1 ELSE 0
        /\ \A i \in 1..k - 1 + 1 : a[i] = t[1 + i - 1]
    BY <1>5, <1>6, <2>1, SubSeqProperties
  <2> QED BY <1>5, <2>2
<1>9. b \in Seq(S) /\ Len(b) = k /\ \A i \in 1..k : b[i] = s[i]
  <2>1. \A i \in 1..k : s[i] \in S BY <1>2, <1>5
  <2>2. /\ b \in Seq(S) /\ Len(b) = IF 1 <= k THEN k - 1 + 1 ELSE 0
        /\ \A i \in 1..k - 1 + 1 : b[i] = s[1 + i - 1]
    BY <1>5, <1>7, <2>1, SubSeqProperties
  <2> QED BY <1>5, <2>2
<1>10. \A i \in 1..k : a[i] = b[i] BY <1>4, <1>5, <1>8, <1>9
<1>11. a = b BY <1>8, <1>9, <1>10, SeqEqual
<1> QED BY <1>2, <1>3, <1>5, <1>6, <1>7, <1>11

\* Buffers stay buffers, whatever is written into them.
LEMMA MessageFacts ==
  ASSUME NEW from \in Client \cup {Origin}, NEW n \in Nat
  PROVE  /\ Message(from, n) \in Seq(Byte) /\ Len(Message(from, n)) = n
         /\ n # 0 => Message(from, n)[1] # NUL
<1>1. \A i \in 1..n : <<from, i>> \in (Client \cup {Origin}) \X Nat OBVIOUS
<1>2. \A i \in 1..n : <<from, i>> \in Byte /\ <<from, i>> # NUL
  BY <1>1, NulAssumption DEF Byte
<1>3. Message(from, n) \in [1..n -> Byte] BY <1>2 DEF Message
<1>4. PICK s : s = Message(from, n) OBVIOUS
<1>5. s \in Seq(Byte) /\ Len(s) = n BY <1>3, <1>4
<1>6. n # 0 => 1 \in 1..n OBVIOUS
<1>7. n # 0 => s[1] # NUL BY <1>2, <1>4, <1>6 DEF Message
<1> QED BY <1>4, <1>5, <1>7

\* What is put into a buffer leaves a buffer; a text that fits leaves its last byte alone.
LEMMA BufferFacts ==
  ASSUME NEW buf \in Buffer, NEW s \in Seq(Byte), NEW n \in Nat
  PROVE  /\ Filled(s) \in Buffer /\ Over(buf, s) \in Buffer /\ Ended(buf, n) \in Buffer
         /\ Len(s) <= LEN_MSG => /\ Filled(s)[LEN_MSG + 1] = NUL
                                 /\ Over(buf, s)[LEN_MSG + 1] = buf[LEN_MSG + 1]
         /\ buf[LEN_MSG + 1] = NUL => Ended(buf, n)[LEN_MSG + 1] = NUL
         /\ s # <<>> => Filled(s)[1] = s[1]
<1>1. Len(s) \in Nat /\ LEN_MSG \in Nat /\ \A i \in 1..Len(s) : s[i] \in Byte
  BY LenProperties, ElementOfSeq, LengthAssumption
<1>2. NUL \in Byte BY DEF Byte
<1>3. \A i \in Bytes : i \in Nat /\ i >= 1 /\ buf[i] \in Byte BY <1>1 DEF Bytes, Buffer
<1>4. LEN_MSG + 1 \in Bytes /\ 1 \in Bytes BY <1>1 DEF Bytes
<1>5. Filled(s) \in Buffer BY <1>1, <1>2, <1>3 DEF Filled, Buffer
<1>6. Over(buf, s) \in Buffer BY <1>1, <1>3 DEF Over, Buffer
<1>7. Ended(buf, n) \in Buffer BY <1>2, <1>3 DEF Ended, Buffer
<1>8. Len(s) <= LEN_MSG => /\ Filled(s)[LEN_MSG + 1] = NUL
                           /\ Over(buf, s)[LEN_MSG + 1] = buf[LEN_MSG + 1]
  BY <1>1, <1>4 DEF Filled, Over
<1>9. buf[LEN_MSG + 1] = NUL => Ended(buf, n)[LEN_MSG + 1] = NUL BY <1>4 DEF Ended
<1>10. s # <<>> => Len(s) >= 1 BY <1>1, EmptySeq
<1>11. s # <<>> => Filled(s)[1] = s[1] BY <1>1, <1>4, <1>10 DEF Filled
<1> QED BY <1>5, <1>6, <1>7, <1>8, <1>9, <1>11

\* The text a file begins with.
LEMMA InitiallyFacts ==
  Initially \in Buffer /\ Initially[LEN_MSG + 1] = NUL /\ Initially[1] # NUL
<1>1. PICK n \in Nat : n = Smaller(2, LEN_MSG) /\ n <= LEN_MSG /\ n # 0
  BY LengthAssumption DEF Smaller
<1>2. PICK s : s = Message(Origin, n) OBVIOUS
<1>3. s \in Seq(Byte) /\ Len(s) = n /\ s[1] # NUL BY <1>1, <1>2, MessageFacts
<1>4. s # <<>> BY <1>1, <1>3, EmptySeq
<1>5. Initially = Filled(s) BY <1>1, <1>2 DEF Initially
<1>6. [i \in Bytes |-> NUL] \in Buffer BY DEF Buffer, Byte
<1> QED BY <1>1, <1>3, <1>4, <1>5, <1>6, BufferFacts
-----------------------------------------------------------------------------
(***************************************************************************)
(* The records of the drivers.                                             *)
(***************************************************************************)
Kinds == {"whole", "ioctl", "marked", "window", "once", "counted", "page", "error",
          "refill", "fill once"}

\* Every driver reads in one of these ways; a number that is counted is not written.
LEMMA NodeFacts ==
  ASSUME NEW n \in Nodes
  PROVE  /\ n.read \in Kinds
         /\ n.read = "counted" => n.write = "none" /\ ~ n.ownText
<1> DEFINE Good(r) == /\ r.read \in Kinds
                      /\ r.read = "counted" => r.write = "none" /\ ~ r.ownText
<1>1. ASSUME NEW m \in 0..2 PROVE Good(mmopen(m)) /\ Good(mmopen_0(m))
  BY DEF mmopen, mmopen_0, Marked, Node, Kinds
<1>2. ASSUME NEW v \in 0..3 PROVE Good(variants(v)) /\ Good(variants_old(v))
  BY DEF variants, variants_old, Node, Kinds
<1>3. /\ Good(dev_read) /\ Good(fixdev) /\ Good(queues) /\ Good(ioctl_dev)
      /\ Good(ioctl_dev_old) /\ Good(ioctl_dev_new) /\ Good(fops_rw) /\ Good(fops_rw_old)
  BY DEF dev_read, fixdev, queues, ioctl_dev, ioctl_dev_old, ioctl_dev_new, fops_rw,
         fops_rw_old, Node, Kinds
<1>4. /\ Good(modpasu_value) /\ Good(modpasu_multiply) /\ Good(procdat) /\ Good(procdatlt)
      /\ Good(irqcntp) /\ Good(irqcntpv)
  BY DEF modpasu_value, modpasu_multiply, procdat, procdatlt, irqcntp, irqcntpv, Counting,
         Node, Kinds
<1>5. /\ Good(xxx) /\ Good(xxm) /\ Good(xxe) /\ Good(sysdat) /\ Good(syskdat)
      /\ Good(irqcnts) /\ Good(mdsys) /\ Good(mdsysc)
      /\ Good(proc_node_read) /\ Good(proc_node_read_old)
  BY DEF xxx, xxm, xxe, sysdat, syskdat, irqcnts, mdsys, mdsysc, proc_node_read,
         proc_node_read_old, Unbounded, Counting, Node, Kinds
<1> HIDE DEF Good
<1>6. \/ n \in {dev_read, fixdev, queues, ioctl_dev, ioctl_dev_old, ioctl_dev_new, fops_rw,
                fops_rw_old, modpasu_value, modpasu_multiply, procdat, procdatlt, irqcntp,
                irqcntpv, xxx, xxm, xxe, sysdat, syskdat, irqcnts, mdsys, mdsysc,
                proc_node_read, proc_node_read_old}
      \/ n \in UNION {{mmopen(m), mmopen_0(m)} : m \in 0..2}
      \/ n \in UNION {{variants(v), variants_old(v)} : v \in 0..3}
  BY Zenon DEF Nodes
<1>7. ASSUME n \in UNION {{mmopen(m), mmopen_0(m)} : m \in 0..2} PROVE Good(n)
  <2>1. PICK m \in 0..2 : n = mmopen(m) \/ n = mmopen_0(m) BY <1>7, Zenon
  <2> QED BY <1>1, <2>1, Zenon
<1>8. ASSUME n \in UNION {{variants(v), variants_old(v)} : v \in 0..3} PROVE Good(n)
  <2>1. PICK v \in 0..3 : n = variants(v) \/ n = variants_old(v) BY <1>8, Zenon
  <2> QED BY <1>2, <2>1, Zenon
<1>9. ASSUME n \in {dev_read, fixdev, queues, ioctl_dev, ioctl_dev_old, ioctl_dev_new, fops_rw,
                    fops_rw_old, modpasu_value, modpasu_multiply, procdat, procdatlt, irqcntp,
                    irqcntpv, xxx, xxm, xxe, sysdat, syskdat, irqcnts, mdsys, mdsysc,
                    proc_node_read, proc_node_read_old}
      PROVE  Good(n)
  BY <1>3, <1>4, <1>5, <1>9, Zenon
<1>10. Good(n) BY <1>6, <1>7, <1>8, <1>9, Zenon
<1> QED BY <1>10 DEF Good

-----------------------------------------------------------------------------
(***************************************************************************)
(* The invariant holds of the first states.                                *)
(***************************************************************************)
LEMMA ClosedFacts == Shaped(Closed) /\ Began(Closed) /\ ~ Live(Closed)
<1>1. IsFile(Closed) BY DEF IsFile, Closed
<1>2. Closed.own \in Buffer /\ Closed.count \in Nat /\ Closed.taken \in Nat
  BY InitiallyFacts DEF Closed
<1>3. Began(Closed) BY DEF Began, Closed
<1> QED BY <1>1, <1>2, <1>3 DEF Live, Closed, Shaped

\* Of a file that nobody has open nothing else is said.
LEMMA NotLive == ASSUME NEW f, Began(f), ~ Live(f), NEW s, NEW m PROVE Fits(f, s, m)
BY DEF Fits, Marks, Reads

\* All files are closed and the text is there.
LEMMA InitInv == Init => IInv
<1> SUFFICES ASSUME Init PROVE IInv OBVIOUS
<1>1. \A c \in Client : file[c] = Closed BY DEF Init
<1>2. Shapes BY <1>1, InitiallyFacts, ClosedFacts DEF Init, Shapes
<1>3. AloneLive /\ MarkLeft BY <1>1, ClosedFacts DEF Init, AloneLive, MarkLeft
<1>4. Digit BY InitiallyFacts DEF Init, Digit
<1>5. StringEnds
  <2>1. \A c \in Client : file[c].own = Initially BY <1>1 DEF Closed
  <2> QED BY <2>1, InitiallyFacts DEF Init, StringEnds
<1>6. ASSUME NEW c \in Client PROVE Fits(file[c], Str(Buf(c)), Mark(c))
  BY <1>1, ClosedFacts, NotLive
<1> QED BY <1>2, <1>3, <1>4, <1>5, <1>6 DEF IInv
-----------------------------------------------------------------------------
(***************************************************************************)
(* A step of one open file that leaves the text alone.                     *)
(***************************************************************************)

\* All that Fits says of a file, whatever its own mark.
SameFile(f, g) ==
  /\ g.st = f.st /\ g.writes = f.writes /\ g.reads = f.reads /\ g.count = f.count
  /\ g.taken = f.taken /\ g.pos = f.pos /\ g.own = f.own /\ g.page = f.page
  /\ g.copied = f.copied /\ g.got = f.got /\ g.result = f.result /\ (g.used <=> f.used)
  /\ (g.over <=> f.over) /\ (g.alone <=> f.alone) /\ (g.quiet <=> f.quiet) /\ g.expect = f.expect

\* A file that gets a new mark of its own stays what it is otherwise.
LEMMA OddFacts ==
  ASSUME NEW g, IsFile(g), NEW m, NEW h,
         h = [g EXCEPT !.odd = IF node.ownMark THEN m ELSE @]
  PROVE  IsFile(h) /\ SameFile(g, h) /\ (node.ownMark => h.odd = m)
<1>1. PICK v : v = IF node.ownMark THEN m ELSE g.odd OBVIOUS
<1>2. h = [g EXCEPT !.odd = v] BY <1>1
<1>3. IsFile(h) /\ h.odd = v BY <1>2 DEF IsFile
<1>4. SameFile(g, h) BY <1>2 DEF IsFile, SameFile
<1> QED BY <1>1, <1>3, <1>4

\* A file that differs in its mark only has got the same.
LEMMA SameFits ==
  ASSUME NEW f, NEW g, NEW s, NEW m, SameFile(f, g), Fits(f, s, m)
  PROVE  Fits(g, s, m)
<1>1. Began(g) BY DEF SameFile, Fits, Began
<1>2. (Live(g) <=> Live(f)) /\ (Sure(g) <=> Sure(f)) BY DEF SameFile, Live, Sure
<1>3. Marks(g, m) BY <1>2 DEF SameFile, Fits, Marks
<1>4. Copies(f, s, m) => Copies(g, s, m) BY DEF SameFile, Copies
<1>5. Reads(g, s, m) BY <1>2, <1>4 DEF SameFile, Fits, Reads
<1> QED BY <1>1, <1>3, <1>5 DEF Fits

\* The mark that all open files share is of no concern to a file that is not alone.
LEMMA OtherMark ==
  ASSUME NEW f, NEW s, NEW m, NEW n, Fits(f, s, m), ~ Live(f) \/ ~ f.alone,
         m = n \/ ~ node.ownMark
  PROVE  Fits(f, s, n)
<1>1. CASE m = n BY <1>1
<1>2. CASE ~ Live(f) BY <1>2, NotLive DEF Fits
<1>3. CASE ~ f.alone /\ ~ node.ownMark
  <2>1. Sure(f) => node.read \notin {"marked", "counted"} BY <1>3 DEF Sure, Private
  <2>2. Marks(f, n) BY <2>1 DEF Marks
  <2>3. Sure(f) /\ Copies(f, s, m) => Copies(f, s, n) BY <2>1 DEF Copies
  <2>4. Reads(f, s, n) BY <2>3 DEF Fits, Reads
  <2> QED BY <2>2, <2>4 DEF Fits
<1> QED BY <1>1, <1>2, <1>3

\* What fits a file as it is in the next state.
LEMMA FitsNext ==
  ASSUME node' = node, tidy' => tidy, NEW d \in Client, NEW h, NEW s, NEW m, Fits(h, s, m),
         h = file'[d], s = Str(Buf(d)'), m = Mark(d)'
  PROVE  Fits(file[d], Str(Buf(d)), Mark(d))'
<1>1. Str(Buf(d))' = s BY DEF Str
<1>2. Private' = Private BY DEF Private
<1>3. Live(file[d])' <=> Live(h) BY DEF Live
<1>4. Sure(file[d])' => Sure(h) BY <1>2 DEF Sure
<1>5. Began(h) => Began(file[d])' BY DEF Began
<1>6. Marks(h, m) => Marks(file[d], Mark(d))' BY <1>3, <1>4 DEF Marks
<1>10. Shown(Str(Buf(d)))' = Shown(s) /\ (Careless' <=> Careless) BY <1>1 DEF Shown, Careless
<1>7. Copies(h, s, m) => Copies(file[d], Str(Buf(d)), Mark(d))'
  <2>1. SUFFICES ASSUME Copies(h, s, m) PROVE Copies(file[d], Str(Buf(d)), Mark(d))' OBVIOUS
  <2>2. PICK w : w = Shown(s) OBVIOUS
  <2> QED BY <1>1, <1>10, <2>1, <2>2 DEF Copies
<1>8. Exempt' <=> Exempt BY DEF Exempt
<1>9. Reads(h, s, m) => Reads(file[d], Str(Buf(d)), Mark(d))'
  BY <1>1, <1>3, <1>4, <1>7, <1>8 DEF Reads
<1> QED BY <1>5, <1>6, <1>9 DEF Fits

\* A step of one file that changes no text keeps the invariant if it keeps that file.
LEMMA BecomesKeeps ==
  ASSUME IInv, NEW c \in Client, Live(file[c]), NEW g, NEW m, Becomes(c, g, m),
         UNCHANGED <<node, text, beyond, tidy>>, Shaped(g), Live(g), g.own = file[c].own,
         g.alone <=> file[c].alone, Fits(g, Str(Buf(c)), m)
  PROVE  IInv'
<1>1. PICK h : h = [g EXCEPT !.odd = IF node.ownMark THEN m ELSE @] OBVIOUS
<1>2. /\ IsFile(h) /\ SameFile(g, h) /\ (node.ownMark => h.odd = m)
  BY <1>1, OddFacts DEF Shaped
<1>3. Shaped(h) /\ Live(h) /\ h.own = file[c].own /\ (h.alone <=> file[c].alone)
  BY <1>2 DEF Shaped, SameFile, Live
<1>4. Fits(h, Str(Buf(c)), m) BY <1>2, SameFits
<1>5. /\ file' = [file EXCEPT ![c] = h] /\ odd' = IF node.ownMark THEN odd ELSE m
      /\ node' = node /\ text' = text /\ beyond' = beyond /\ tidy' = tidy
  BY <1>1 DEF Becomes
<1>6. /\ file' = [d \in Client |-> file'[d]] /\ file'[c] = h
      /\ \A d \in Client \ {c} : file'[d] = file[d]
  BY <1>5 DEF IInv, Shapes
<1>7. Shapes' BY <1>3, <1>5, <1>6 DEF IInv, Shapes, Shaped, IsFile
<1>8. \A d \in Client : /\ (file'[d].alone <=> file[d].alone) /\ (Live(file'[d]) <=> Live(file[d]))
                        /\ file'[d].own = file[d].own
  BY <1>3, <1>6
<1>9. AloneLive' BY <1>8 DEF IInv, AloneLive, Live
<1>10. MarkLeft' BY <1>3, <1>6 DEF MarkLeft, Live
<1>11. Digit' /\ StringEnds' BY <1>5, <1>8 DEF IInv, Digit, StringEnds
<1>12. ASSUME NEW d \in Client PROVE Fits(file[d], Str(Buf(d)), Mark(d))'
  <2>1. Buf(d)' = Buf(d) BY <1>5, <1>8 DEF Buf
  <2>2. PICK s : s = Str(Buf(d)) OBVIOUS
  <2>3. PICK n : n = Mark(d)' OBVIOUS
  <2>4. CASE d = c
    <3>1. Mark(c)' = m BY <1>2, <1>5, <1>6 DEF Mark
    <3>2. Fits(h, s, m) BY <1>4, <2>2, <2>4
    <3> QED BY <1>5, <1>6, <2>1, <2>2, <2>4, <3>1, <3>2, FitsNext
  <2>5. CASE d # c
    <3>1. PICK f : f = file[d] OBVIOUS
    <3>2. PICK k : k = Mark(d) OBVIOUS
    <3>3. Fits(f, s, k) BY <2>2, <3>1, <3>2 DEF IInv
    <3>4. ~ Live(f) \/ ~ f.alone BY <2>5, <3>1 DEF IInv, AloneLive
    <3>5. k = n \/ ~ node.ownMark BY <1>5, <1>6, <2>3, <2>5, <3>2 DEF Mark
    <3>6. Fits(f, s, n) BY <3>3, <3>4, <3>5, OtherMark
    <3>7. f = file'[d] /\ s = Str(Buf(d)') BY <1>6, <2>1, <2>2, <2>5, <3>1
    <3> QED BY <1>5, <2>3, <3>6, <3>7, FitsNext
  <2> QED BY <2>4, <2>5
<1> QED BY <1>7, <1>9, <1>10, <1>11, <1>12 DEF IInv
-----------------------------------------------------------------------------
(***************************************************************************)
(* read.                                                                   *)
(***************************************************************************)
\* f after it was asked once more.
Asked(f, g) ==
  /\ Shaped(g) /\ g.used /\ g.writes = f.writes /\ g.count = f.count /\ g.own = f.own
  /\ g.page = f.page /\ g.copied = f.copied /\ g.got = f.got /\ g.expect = f.expect
  /\ (g.over <=> f.over) /\ (g.alone <=> f.alone) /\ (g.quiet <=> f.quiet)

\* It is open, and there is more to read as far as it knows.
Asks(f) == f.st = "open" /\ f.result = "more" /\ f.writes = 0 /\ f.reads > 0

\* What holds of a file as its program asks for more.
LEMMA AskedFacts ==
  ASSUME NEW f, NEW g, Asked(f, g), Live(g), Asks(f), NEW s, NEW m, Fits(f, s, m),
         g.st \in {"open", "copying"}, g.st = "copying" => g.result = "more"
  PROVE  /\ Began(g) /\ (Sure(g) <=> Sure(f)) /\ Live(f) /\ (g.quiet <=> f.quiet)
         /\ Sure(f) /\ f.quiet => /\ g.expect = s
                                  /\ Exempt \/ Copies(f, s, m)
         /\ Sure(f) /\ node.read \in {"marked", "counted"} /\ ~ f.used => ~ m
<1>1. Began(g) BY DEF Asked, Asks, Fits, Began
<1>2. (Sure(g) <=> Sure(f)) /\ Live(f) BY DEF Asked, Asks, Sure, Live
<1>3. Sure(f) /\ f.quiet => /\ g.expect = s
                            /\ Exempt \/ Copies(f, s, m)
  BY <1>2 DEF Asked, Fits, Reads
<1>4. Sure(f) /\ node.read \in {"marked", "counted"} /\ ~ f.used => ~ m
  BY <1>2 DEF Fits, Marks
<1>5. g.quiet <=> f.quiet BY DEF Asked
<1> QED BY <1>1, <1>2, <1>3, <1>4, <1>5

\* A read that returns an error gives nothing.
LEMMA ReadFails ==
  ASSUME NEW f, NEW g, Asks(f), Asked(f, g), g.st = "open", g.result = "error", g.pos = f.pos,
         NEW s, NEW m, Fits(f, s, m)
  PROVE  Fits(g, s, m)
<1>0. Live(g) BY DEF Live
<1>1. /\ Began(g) /\ (Sure(g) <=> Sure(f)) /\ (g.quiet <=> f.quiet)
      /\ Sure(f) /\ f.quiet => /\ g.expect = s
                               /\ Exempt \/ Copies(f, s, m)
  BY <1>0, AskedFacts
<1>2. Marks(g, m) BY DEF Asked, Marks
<1>3. Copies(f, s, m) => Copies(g, s, m) BY DEF Asked, Asks, Copies
<1> QED BY <1>1, <1>2, <1>3 DEF Fits, Reads

\* The end of file is found where the text has been given.
LEMMA ReadEnds ==
  ASSUME NEW f, NEW g, Asks(f), Asked(f, g), g.st = "open", g.result = "eof",
         NEW s \in Seq(Byte), NEW m, Fits(f, s, m), node.read # "error",
         \/ node.read \in {"whole", "once"} /\ f.pos # 0
         \/ node.read = "window" /\ f.pos >= Len(s)
         \/ node.read \in {"marked", "counted"} /\ m
  PROVE  Fits(g, s, FALSE)
<1>0. Live(g) BY DEF Live
<1>1. /\ Began(g) /\ (Sure(g) <=> Sure(f)) /\ (g.quiet <=> f.quiet)
      /\ Sure(f) /\ f.quiet => /\ g.expect = s
                               /\ Exempt \/ Copies(f, s, m)
  BY <1>0, AskedFacts
<1>2. Marks(g, FALSE) BY DEF Asked, Marks
<1>3. Copies(f, s, m) => f.got = s
  <2>0. Shown(s) = s BY DEF Shown
  <2>1. Len(s) \in Nat /\ SubSeq(s, 1, Len(s)) = s BY LenProperties, SubSeqFull
  <2>2. CASE node.read = "window"
    <3>1. Copies(f, s, m) => f.pos \in 0..Len(s) /\ f.got = SubSeq(s, 1, f.pos)
      BY <2>0, <2>2 DEF Asks, Copies
    <3>2. f.pos >= Len(s) BY <2>2
    <3>3. f.pos \in 0..Len(s) => f.pos = Len(s) BY <2>1, <3>2
    <3> QED BY <2>1, <3>1, <3>3
  <2>3. CASE node.read # "window" BY <2>3 DEF Asks, Copies
  <2> QED BY <2>2, <2>3
<1>4. Copies(f, s, m) => Copies(g, s, FALSE)
  <2>1. Shown(s) = s BY DEF Shown
  <2> QED BY <1>3, <2>1 DEF Asked, Copies
<1> QED BY <1>1, <1>2, <1>3, <1>4 DEF Fits, Reads

\* Else there is text left to copy.
LEMMA ReadBegins ==
  ASSUME NEW f, NEW g, Asks(f), Asked(f, g), g.st = "copying", g.result = "more", g.pos = f.pos,
         NEW s \in Seq(Byte), NEW m, NEW n, Fits(f, s, m), node.read # "error",
         node.read = "whole" => g.taken = Len(s) /\ g.taken <= g.count,
         ~ (\/ node.read \in {"whole", "once"} /\ f.pos # 0
            \/ node.read = "window" /\ f.pos >= Len(s)
            \/ node.read \in {"marked", "counted"} /\ m),
         n <=> (m \/ node.read = "counted")
  PROVE  Fits(g, s, n)
<1>0. Live(g) BY DEF Live
<1>1. /\ Began(g) /\ (Sure(g) <=> Sure(f)) /\ (g.quiet <=> f.quiet)
      /\ Sure(f) /\ f.quiet => /\ g.expect = s
                               /\ Exempt \/ Copies(f, s, m)
  BY <1>0, AskedFacts
<1>2. Marks(g, n) BY DEF Asked, Marks
<1>3. Copies(f, s, m) => Copies(g, s, n)
  <2> SUFFICES ASSUME Copies(f, s, m) PROVE Copies(g, s, n) OBVIOUS
  <2>1. Len(s) \in Nat BY LenProperties
  <2>2. node.read \in {"window", "page", "refill"} =>
           /\ f.pos \in 0..Len(Shown(s)) /\ f.got = SubSeq(Shown(s), 1, f.pos)
           /\ node.read = "window" => f.pos < Len(s)
    <3>1. node.read = "window" => Shown(s) = s BY DEF Shown
    <3> QED BY <2>1, <3>1 DEF Asks, Copies
  <2>3. node.read = "page" /\ f.pos # 0 => f.page = s BY DEF Copies
  <2>4. node.read \in {"whole", "once"} => f.pos = 0 /\ f.got = <<>> BY DEF Asks, Copies
  <2>5. node.read \in {"marked", "counted"} => f.got = <<>> BY DEF Asks, Copies
  <2> QED BY <2>2, <2>3, <2>4, <2>5 DEF Asked, Copies
<1> QED BY <1>1, <1>2, <1>3 DEF Fits, Reads

\* A read begins a copy, finds the end of the file, or fails.
LEMMA ReadStep == ASSUME IInv, NEW c \in Client, Read(c) PROVE IInv'
<1> DEFINE s == Str(Buf(c))
<1>1. PICK f : f = file[c] OBVIOUS
<1>2. PICK m : m = Mark(c) OBVIOUS
<1>3. /\ Shaped(f) /\ Asks(f) /\ Live(f) /\ Fits(f, s, m)
      /\ UNCHANGED <<node, text, beyond, tidy>>
  BY <1>1, <1>2 DEF IInv, Shapes, Read, Asks, In, Live
<1>4. Buf(c) \in Buffer BY DEF IInv, Shapes, Shaped, Buf
<1>5. s \in Seq(Byte) BY <1>4, StrFacts
<1>6. PICK a : a = f.reads - 1 OBVIOUS
<1> DEFINE e == [f EXCEPT !.reads = a, !.used = TRUE]
<1>7. \/ Fails(c) /\ Becomes(c, [e EXCEPT !.result = "error"], m)
      \/ /\ ~ Fails(c) /\ AtEnd(c)
         /\ Becomes(c, [e EXCEPT !.result = "eof", !.pos = IF node.read = "window" THEN 0 ELSE @],
                    FALSE)
      \/ /\ ~ Fails(c) /\ ~ AtEnd(c)
         /\ Becomes(c, [e EXCEPT !.st = "copying",
                              !.taken = IF node.read = "whole" THEN Len(s) ELSE @],
                    m \/ node.read = "counted")
  BY <1>1, <1>2, <1>6, Zenon DEF Read
<1>8. AtEnd(c) <=> \/ node.read \in {"whole", "once"} /\ f.pos # 0
                   \/ node.read = "window" /\ f.pos >= Len(s)
                   \/ node.read \in {"marked", "counted"} /\ m
  BY <1>1, <1>2 DEF AtEnd
<1>9. ~ Fails(c) => node.read # "error" BY DEF Fails
<1> HIDE DEF s
<1>10. CASE Fails(c) /\ Becomes(c, [e EXCEPT !.result = "error"], m)
  <2>1. PICK g : g = [e EXCEPT !.result = "error"] OBVIOUS
  <2>2. /\ Asked(f, g) /\ g.st = "open" /\ g.result = "error" /\ g.pos = f.pos
    BY <1>3, <2>1 DEF Shaped, IsFile, Asked, Asks
  <2>3. Fits(g, s, m) BY <1>3, <2>2, ReadFails
  <2>4. Shaped(g) /\ Live(g) /\ g.own = f.own /\ (g.alone <=> f.alone)
    BY <2>2 DEF Asked, Live
  <2>5. Becomes(c, g, m) BY <1>10, <2>1
  <2> QED BY <1>1, <1>3, <2>3, <2>4, <2>5, BecomesKeeps DEF s
<1>11. CASE /\ ~ Fails(c) /\ AtEnd(c)
            /\ Becomes(c, [e EXCEPT !.result = "eof",
                                    !.pos = IF node.read = "window" THEN 0 ELSE @], FALSE)
  <2>1. PICK p : p = IF node.read = "window" THEN 0 ELSE f.pos OBVIOUS
  <2>2. PICK g : g = [e EXCEPT !.result = "eof", !.pos = p] OBVIOUS
  <2>3. Becomes(c, g, FALSE)
    <3>1. e.pos = f.pos BY <1>3 DEF Shaped, IsFile
    <3> HIDE DEF e
    <3> QED BY <1>11, <2>1, <2>2, <3>1
  <2>4. Asked(f, g) /\ g.st = "open" /\ g.result = "eof"
    BY <1>3, <2>2 DEF Shaped, IsFile, Asked, Asks
  <2>5. Fits(g, s, FALSE) BY <1>3, <1>5, <1>8, <1>9, <1>11, <2>4, ReadEnds
  <2>6. Shaped(g) /\ Live(g) /\ g.own = f.own /\ (g.alone <=> f.alone)
    BY <2>4 DEF Asked, Live
  <2> QED BY <1>1, <1>3, <2>3, <2>5, <2>6, BecomesKeeps DEF s
<1>12. CASE /\ ~ Fails(c) /\ ~ AtEnd(c)
            /\ Becomes(c, [e EXCEPT !.st = "copying",
                                    !.taken = IF node.read = "whole" THEN Len(s) ELSE @],
                       m \/ node.read = "counted")
  <2>1. PICK t : t = IF node.read = "whole" THEN Len(s) ELSE f.taken OBVIOUS
  <2>2. PICK g : g = [e EXCEPT !.st = "copying", !.taken = t] OBVIOUS
  <2>3. PICK n : n = (m \/ node.read = "counted") OBVIOUS
  <2>4. Becomes(c, g, n)
    <3>1. e.taken = f.taken BY <1>3 DEF Shaped, IsFile
    <3> HIDE DEF e
    <3> QED BY <1>12, <2>1, <2>2, <2>3, <3>1
  <2>5. t \in Nat BY <1>3, <1>5, <2>1, LenProperties DEF Shaped
  <2>6. /\ Asked(f, g) /\ g.st = "copying" /\ g.result = "more" /\ g.pos = f.pos
        /\ g.taken = t /\ g.count = f.count
    BY <1>3, <2>2, <2>5 DEF Shaped, IsFile, Asked, Asks
  <2>9. node.read = "whole" => g.taken = Len(s) /\ g.taken <= g.count
    <3>1. PICK l \in Nat : l = Len(s) BY <1>5, LenProperties
    <3>2. node.read = "whole" => ~ (f.count < l) BY <1>1, <1>12, <3>1 DEF Fails, s
    <3>3. f.count \in Nat BY <1>3 DEF Shaped
    <3> QED BY <2>1, <2>6, <3>1, <3>2, <3>3
  <2>7. Fits(g, s, n) BY <1>3, <1>5, <1>8, <1>9, <1>12, <2>3, <2>6, <2>9, ReadBegins
  <2>8. Shaped(g) /\ Live(g) /\ g.own = f.own /\ (g.alone <=> f.alone)
    BY <2>6 DEF Asked, Live
  <2> QED BY <1>1, <1>3, <2>4, <2>7, <2>8, BecomesKeeps DEF s
<1> QED BY <1>7, <1>10, <1>11, <1>12
-----------------------------------------------------------------------------
(***************************************************************************)
(* What the copy delivers.                                                 *)
(***************************************************************************)
\* f after x was given to its program.
Given(f, g, x) ==
  /\ Shaped(g) /\ g.st = "open" /\ g.got = f.got \o x /\ g.pos = Advanced(f, Len(x))
  /\ g.result = IF x = <<>> /\ node.read # "marked" THEN "eof" ELSE f.result
  /\ g.writes = f.writes /\ g.reads = f.reads /\ g.count = f.count /\ g.own = f.own
  /\ g.expect = f.expect /\ (g.used <=> f.used) /\ (g.alone <=> f.alone)
  /\ (g.quiet <=> f.quiet) /\ (~ f.over /\ ~ Overruns(f, x) => ~ g.over)

\* Its page is p.
Paged(f, p) == [f EXCEPT !.page = p]

\* A read that gave the bytes x has added them to what the program has got.
LEMMA DeliveredFacts ==
  ASSUME NEW f, Shaped(f), NEW x, NEW p, NEW e, e = Paged(f, p),
         NEW g, g = Delivered(e, x)
  PROVE  Given(f, g, x) /\ g.page = p
<1>1. PICK w : w = f.got \o x OBVIOUS
<1>2. PICK a : a = Advanced(f, Len(x)) OBVIOUS
<1>3. PICK r : r = IF x = <<>> /\ node.read # "marked" THEN "eof" ELSE f.result OBVIOUS
<1>10. PICK v : v = (e.over \/ Overruns(e, x)) OBVIOUS
<1>4. PICK h : h = [e EXCEPT !.st = "open", !.copied = <<>>, !.got = w, !.pos = a,
                             !.over = v, !.result = r]
  OBVIOUS
<1>5. /\ e.got = f.got /\ e.pos = f.pos /\ e.result = f.result /\ e.count = f.count
      /\ e.over = f.over
  BY DEF Shaped, IsFile, Paged
<1>6. g = h
  <2>1. Advanced(e, Len(x)) = a BY <1>2, <1>5 DEF Advanced
  <2>2. g = [e EXCEPT !.st = "open", !.copied = <<>>, !.got = e.got \o x,
                      !.pos = Advanced(e, Len(x)), !.over = e.over \/ Overruns(e, x),
                      !.result = IF x = <<>> /\ node.read # "marked" THEN "eof" ELSE e.result]
    BY Zenon DEF Delivered
  <2>3. e.got \o x = w BY <1>1, <1>5, Zenon
  <2>4. (IF x = <<>> /\ node.read # "marked" THEN "eof" ELSE e.result) = r BY <1>3, <1>5
  <2> QED BY <1>4, <1>10, <2>1, <2>2, <2>3, <2>4, Zenon
<1>7. /\ IsFile(h) /\ h.own = f.own /\ h.count = f.count /\ h.taken = f.taken
      /\ h.st = "open" /\ h.got = w /\ h.pos = a /\ h.result = r /\ h.page = p /\ h.over = v
  BY <1>4 DEF Shaped, IsFile, Paged
<1>8. /\ h.writes = f.writes /\ h.reads = f.reads /\ h.expect = f.expect /\ (h.used <=> f.used)
      /\ (h.alone <=> f.alone) /\ (h.quiet <=> f.quiet)
  BY <1>4 DEF Shaped, IsFile, Paged
<1>9. Shaped(h) BY <1>7 DEF Shaped
<1>11. ~ f.over /\ ~ Overruns(f, x) => ~ h.over
  <2>1. Overruns(e, x) <=> Overruns(f, x) BY <1>5 DEF Overruns
  <2>2. ~ f.over /\ ~ Overruns(f, x) => ~ v BY <1>5, <1>10, <2>1, Zenon
  <2> QED BY <1>7, <2>2, Zenon
<1> QED BY <1>1, <1>2, <1>3, <1>6, <1>7, <1>8, <1>9, <1>11, Zenon DEF Given

\* A read of a part: what was given so far and the copy are what is given now.
LEMMA GivesPart ==
  ASSUME NEW f, NEW g, NEW s \in Seq(Byte), NEW t \in Seq(Byte), NEW m, NEW x,
         node.read \in {"window", "page", "refill"}, f.st = "copying", f.result = "more",
         f.count \in Nat \ {0}, Copies(f, s, m), Given(f, g, x),
         t = Shown(s),
         x = From(t, f) \/ (x = <<>> /\ f.pos = Len(t)),
         node.read = "page" => g.page = s
  PROVE  Copies(g, s, m)
<1>1. f.pos \in 0..Len(t) /\ f.got = SubSeq(t, 1, f.pos) /\ Len(t) \in Nat
  BY LenProperties DEF Copies
<1>2. SubSeq(t, 1, Len(t)) = t BY SubSeqFull
<1>3. /\ f.pos + Len(x) \in 0..Len(t) /\ f.got \o x = SubSeq(t, 1, f.pos + Len(x))
      /\ x = <<>> => f.pos + Len(x) = Len(t)
      /\ Len(x) <= f.count
  <2>1. CASE x = From(t, f)
    <3>1. /\ f.pos + Len(x) \in 0..Len(t)
          /\ SubSeq(t, 1, f.pos) \o x = SubSeq(t, 1, f.pos + Len(x))
          /\ x = <<>> => f.pos = Len(t)
          /\ Len(x) <= f.count
      BY <1>1, <2>1, FromFacts
    <3>2. x = <<>> => f.pos + Len(x) = Len(t) BY <1>1, <3>1, EmptySeq
    <3> QED BY <1>1, <3>1, <3>2, Zenon
  <2>2. CASE x = <<>> /\ f.pos = Len(t)
    <3>1. f.got = t BY <1>1, <1>2, <2>2
    <3>2. t \o <<>> = t BY ConcatEmptySeq
    <3>3. f.pos + Len(x) = Len(t) /\ Len(x) <= f.count BY <1>1, <2>2, EmptySeq
    <3>4. f.got \o x = t BY <2>2, <3>1, <3>2, Zenon
    <3> QED BY <1>1, <1>2, <2>2, <3>3, <3>4
  <2> QED BY <2>1, <2>2
<1>4. PICK k : k = f.pos + Len(x) OBVIOUS
<1>5. g.pos = k BY <1>4 DEF Given, Advanced
<1>6. g.got = SubSeq(t, 1, k) BY <1>3, <1>4, Zenon DEF Given
<1>7. g.result = "eof" => k = Len(t) BY <1>3, <1>4 DEF Given
<1>8. g.st = "open" BY DEF Given
<1>9. g.result = "eof" => g.got = t BY <1>2, <1>6, <1>7
<1>10. k \in 0..Len(t) BY <1>3, <1>4
<1>11. ~ g.over
  <2>1. ~ Careless /\ ~ f.over BY DEF Careless, Copies
  <2>2. PICK l : l = Len(x) OBVIOUS
  <2>3. l \in Int BY <1>1, <1>3, <2>2
  <2>4. ~ Overruns(f, x) BY <1>3, <2>1, <2>2, <2>3 DEF Overruns
  <2> QED BY <2>1, <2>4 DEF Given
<1> QED BY <1>5, <1>6, <1>8, <1>9, <1>10, <1>11 DEF Copies

\* A read of the whole text.
LEMMA GivesWhole ==
  ASSUME NEW f, NEW g, NEW s \in Seq(Byte), NEW m,
         node.read \in {"whole", "once", "marked", "counted"},
         f.st \in {"copying", "returning"}, f.st = "returning" => node.read = "marked",
         f.result = "more", Live(f), Sure(f), Marks(f, m), Copies(f, s, m), Given(f, g, s),
         node.read = "counted" => s # <<>>, node.read = "marked" => f.st = "returning"
  PROVE  Copies(g, s, m)
<1>1. f.got = <<>> BY DEF Copies
<1>2. <<>> \o s = s BY ConcatEmptySeq
<1>3. g.got = s BY <1>1, <1>2, Zenon DEF Given
<1>4. g.st = "open" /\ Shown(s) = s BY DEF Given, Shown
<1>7. ~ Careless => ~ g.over
  <2> SUFFICES ASSUME ~ Careless PROVE ~ g.over OBVIOUS
  <2>1. node.read = "whole" /\ f.st = "copying" BY DEF Careless
  <2>2. ~ f.over /\ Len(s) <= f.count BY <2>1 DEF Copies
  <2>3. PICK l \in Nat : l = Len(s) BY LenProperties
  <2>4. f.count \in Nat BY DEF Given, Shaped
  <2>5. ~ Overruns(f, s) BY <2>2, <2>3, <2>4 DEF Overruns
  <2> QED BY <2>2, <2>5 DEF Given
<1>5. CASE node.read \in {"whole", "once"}
  <2>1. Len(s) \in Nat /\ f.pos = 0 BY <1>5, LenProperties DEF Copies
  <2>2. PICK k \in Nat : k = Len(s) BY <2>1
  <2>3. g.pos = k BY <1>5, <2>1, <2>2 DEF Given, Advanced
  <2>4. k = 0 => s = <<>> BY <2>2, EmptySeq
  <2> QED BY <1>3, <1>4, <1>5, <1>7, <2>3, <2>4 DEF Copies
<1>6. CASE node.read \in {"marked", "counted"}
  <2>1. g.result # "eof" BY <1>6 DEF Given
  <2>2. m BY <1>6 DEF Marks
  <2> QED BY <1>3, <1>4, <1>6, <1>7, <2>1, <2>2 DEF Copies
<1> QED BY <1>5, <1>6

\* What a copy gives, fits.
LEMMA GivenFits ==
  ASSUME NEW f, NEW g, NEW s, NEW m, NEW x, f.st \in {"copying", "returning"}, Given(f, g, x),
         Fits(f, s, m), node.read = "counted" => x # <<>>,
         ~ Exempt /\ Sure(f) /\ Copies(f, s, m) => Copies(g, s, m)
  PROVE  Fits(g, s, m)
<1>1. f.used /\ f.result = "more" BY DEF Fits, Began
<1>2. Live(f) /\ Live(g) /\ (Sure(g) <=> Sure(f)) BY DEF Given, Live, Sure
<1>3. Began(g) BY <1>1 DEF Given, Fits, Began
<1>4. Marks(g, m) BY <1>1 DEF Given, Marks
<1>5. Reads(g, s, m) BY <1>2 DEF Given, Fits, Reads
<1> QED BY <1>3, <1>4, <1>5 DEF Fits

\* The copy is taken from the string of the buffer, or from the page of it.
LEMMA CopyOf ==
  ASSUME NEW c \in Client, NEW f, f = file[c], NEW s \in Seq(Byte), s = Str(Buf(c)),
         f.st = "copying"
  PROVE  /\ node.read = "window" /\ f.pos \in 0..Len(s) => Copied(c) = From(s, f)
         /\ node.read = "page" => Copied(c) = From(Page(c), f)
         /\ node.read = "refill" =>
              Copied(c) = IF f.pos < Len(Shown(s)) THEN From(Shown(s), f) ELSE <<>>
         /\ node.read = "whole" => Copied(c) = SubSeq(Buf(c), 1, f.taken)
         /\ node.read \in {"once", "marked", "counted"} => Copied(c) = s
<1>1. Len(s) \in Nat BY LenProperties
<1>2. PICK buf : buf = Buf(c) OBVIOUS
<1>3. ASSUME node.read = "window", f.pos \in 0..Len(s) PROVE Copied(c) = From(s, f)
  <2>1. Copied(c) = Window(Buf(c), f) BY <1>3 DEF Copied
  <2>2. Window(buf, f) = IF f.pos <= Len(s) THEN From(s, f)
                         ELSE [i \in 1..f.count |-> IF f.pos + i \in Bytes THEN buf[f.pos + i] ELSE Junk]
    BY <1>2, Zenon DEF Window
  <2>3. f.pos <= Len(s) BY <1>1, <1>3
  <2> QED BY <1>2, <2>1, <2>2, <2>3
<1>4. node.read = "page" => Copied(c) = From(Page(c), f) BY DEF Copied
<1>5. node.read = "refill" =>
        Copied(c) = IF f.pos < Len(Shown(s)) THEN From(Shown(s), f) ELSE <<>>
  BY DEF Copied
<1>6. node.read = "whole" => Copied(c) = SubSeq(Buf(c), 1, f.taken) BY DEF Copied
<1>7. node.read \in {"once", "marked", "counted"} => Copied(c) = s
  BY DEF Copied, Shown
<1> QED BY <1>3, <1>4, <1>5, <1>6, <1>7

\* The copy hands over the next part of the text, or the whole.
LEMMA CopyStep == ASSUME IInv, NEW c \in Client, Copy(c) PROVE IInv'
<1>1. PICK f : f = file[c] OBVIOUS
<1>2. PICK m : m = Mark(c) OBVIOUS
<1>3. Buf(c) \in Buffer BY DEF IInv, Shapes, Shaped, Buf
<1>4. PICK s \in Seq(Byte) : s = Str(Buf(c)) BY <1>3, StrFacts
<1>5. /\ Shaped(f) /\ f.st = "copying" /\ Live(f) /\ Fits(f, s, m) /\ node \in Nodes
      /\ UNCHANGED <<node, text, beyond, tidy>>
  BY <1>1, <1>2, <1>4 DEF IInv, Shapes, Copy, In, Live
<1>6. f.result = "more" /\ f.used /\ f.count \in Nat \ {0}
  BY <1>5 DEF Fits, Began, Shaped
<1>7. PICK p : p = IF node.read = "page" THEN Page(c) ELSE f.page OBVIOUS
<1>8. PICK x : x = Copied(c) OBVIOUS
<1>9. PICK e : e = Paged(f, p) OBVIOUS
<1>10. IF node.read = "marked"
      THEN Becomes(c, [e EXCEPT !.st = "returning", !.copied = x], TRUE)
      ELSE Becomes(c, Delivered(e, x), m)
  <2>1. e = [file[c] EXCEPT !.page = IF node.read = "page" THEN Page(c) ELSE @]
    BY <1>1, <1>7, <1>9 DEF Paged
  <2> QED BY <1>2, <1>8, <2>1, Zenon DEF Copy
<1>11. CASE node.read = "marked"
  <2>1. PICK g : g = [e EXCEPT !.st = "returning", !.copied = x] OBVIOUS
  <2>2. Becomes(c, g, TRUE) BY <1>10, <1>11, <2>1
  <2>3. x = s BY <1>1, <1>4, <1>5, <1>8, <1>11, CopyOf
  <2>4. /\ Shaped(g) /\ g.st = "returning" /\ g.copied = s /\ g.got = f.got
        /\ g.result = f.result /\ g.writes = f.writes /\ g.reads = f.reads /\ g.count = f.count
        /\ g.own = f.own /\ g.expect = f.expect /\ (g.used <=> f.used)
        /\ (g.over <=> f.over) /\ (g.alone <=> f.alone) /\ (g.quiet <=> f.quiet)
    BY <1>5, <1>9, <2>1, <2>3 DEF Shaped, IsFile, Paged
  <2>5. Live(g) /\ (Sure(g) <=> Sure(f)) BY <2>4 DEF Live, Sure
  <2>6. Began(g) BY <1>5, <1>6, <1>11, <2>4 DEF Fits, Began
  <2>7. Marks(g, TRUE) BY <1>6, <2>4 DEF Marks
  <2>8. Copies(f, s, m) => Copies(g, s, TRUE) BY <1>5, <1>6, <1>11, <2>4 DEF Copies
  <2>9. Reads(g, s, TRUE) BY <1>5, <2>4, <2>5, <2>8 DEF Fits, Reads
  <2>10. Fits(g, s, TRUE) BY <2>6, <2>7, <2>9 DEF Fits
  <2> QED BY <1>1, <1>4, <1>5, <2>2, <2>4, <2>5, <2>10, BecomesKeeps
<1>12. CASE node.read # "marked"
  <2>1. PICK g : g = Delivered(e, x) OBVIOUS
  <2>2. Becomes(c, g, m) BY <1>10, <1>12, <2>1
  <2>3. Given(f, g, x) /\ g.page = p BY <1>5, <1>9, <2>1, DeliveredFacts
  <2>4. node.read = "counted" => x = s /\ s # <<>>
    <3>1. node.read = "counted" => x = s BY <1>1, <1>4, <1>5, <1>8, CopyOf
    <3>2. node.read = "counted" => Buf(c) = text BY <1>5, NodeFacts DEF Buf
    <3> QED BY <1>3, <1>4, <3>1, <3>2, StrFacts DEF IInv, Digit
  <2>5. ASSUME ~ Exempt, Sure(f), Copies(f, s, m)
        PROVE  Copies(g, s, m)
    <3>1. node.read \in Kinds BY <1>5, NodeFacts
    <3>2. node.read \notin {"error", "marked"} BY <1>5, <1>12, <2>5 DEF Copies
    <3>3. CASE node.read \in {"window", "page", "refill"}
      <4>1. node.read = "page" => p = s
        BY <1>1, <1>4, <1>7, <2>5 DEF Copies, Page
      <4>0. PICK t \in Seq(Byte) : t = Shown(s) BY <1>4, ShownFacts
      <4>2. x = From(t, f) \/ (x = <<>> /\ f.pos = Len(t))
        <5>1. f.pos \in 0..Len(t) /\ Len(t) \in Nat
          BY <1>6, <2>5, <3>3, <4>0, LenProperties DEF Copies
        <5>2. CASE node.read = "window"
          <6>1. t = s BY <4>0, <5>2 DEF Shown
          <6> QED BY <1>1, <1>4, <1>5, <1>8, <5>1, <5>2, <6>1, CopyOf
        <5>3. CASE node.read = "page"
          <6>1. p = Page(c) /\ t = s BY <1>7, <4>0, <5>3 DEF Shown
          <6> QED BY <1>1, <1>4, <1>5, <1>8, <4>1, <5>3, <6>1, CopyOf
        <5>4. CASE node.read = "refill"
          <6>1. x = IF f.pos < Len(t) THEN From(t, f) ELSE <<>>
            BY <1>1, <1>4, <1>5, <1>8, <4>0, <5>4, CopyOf
          <6> QED BY <5>1, <6>1
        <5> QED BY <3>3, <5>2, <5>3, <5>4
      <4> QED BY <1>5, <1>6, <2>3, <2>5, <3>3, <4>0, <4>1, <4>2, GivesPart
    <3>4. CASE node.read \in {"whole", "once", "counted"}
      <4>1. Marks(f, m) BY <1>5 DEF Fits
      <4>2. x = s
        <5>1. CASE node.read = "whole"
          <6>1. f.taken = Len(s) BY <1>5, <2>5, <5>1 DEF Copies
          <6>2. x = SubSeq(Buf(c), 1, f.taken) BY <1>1, <1>4, <1>5, <1>8, <5>1, CopyOf
          <6> QED BY <1>3, <1>4, <6>1, <6>2, StrFacts
        <5>2. CASE node.read \in {"once", "counted"}
          BY <1>1, <1>4, <1>5, <1>8, <5>2, CopyOf
        <5> QED BY <3>4, <5>1, <5>2
      <4>3. /\ node.read \in {"whole", "once", "marked", "counted"}
            /\ f.st \in {"copying", "returning"} /\ f.st # "returning" /\ node.read # "marked"
        BY <1>5, <3>4
      <4>4. Given(f, g, s) BY <2>3, <4>2
      <4> QED BY <1>5, <1>6, <2>4, <2>5, <4>1, <4>3, <4>4, GivesWhole
    <3> QED BY <2>5, <3>1, <3>2, <3>3, <3>4, Zenon DEF Kinds, Exempt
  <2>6. Fits(g, s, m) BY <1>5, <2>3, <2>4, <2>5, GivenFits
  <2>7. Shaped(g) /\ Live(g) /\ g.own = f.own /\ (g.alone <=> f.alone) BY <2>3 DEF Given, Live
  <2> QED BY <1>1, <1>4, <1>5, <2>2, <2>6, <2>7, BecomesKeeps
<1> QED BY <1>11, <1>12

\* A read of mopen that measures the text again returns what it copied.
LEMMA ReturnStep == ASSUME IInv, NEW c \in Client, Return(c) PROVE IInv'
<1>1. PICK f : f = file[c] OBVIOUS
<1>2. PICK m : m = Mark(c) OBVIOUS
<1>3. Buf(c) \in Buffer BY DEF IInv, Shapes, Shaped, Buf
<1>4. PICK s \in Seq(Byte) : s = Str(Buf(c)) BY <1>3, StrFacts
<1>5. /\ Shaped(f) /\ f.st = "returning" /\ Live(f) /\ Fits(f, s, m)
      /\ UNCHANGED <<node, text, beyond, tidy>>
  BY <1>1, <1>2, <1>4 DEF IInv, Shapes, Return, In, Live
<1>6. f.result = "more" /\ node.read = "marked" BY <1>5 DEF Fits, Began
<1>7. PICK x : x = [i \in 1..Len(s) |-> IF i <= Len(f.copied) THEN f.copied[i] ELSE Junk]
  OBVIOUS
<1>8. PICK g : g = Delivered(f, x) OBVIOUS
<1>9. Becomes(c, g, m) BY <1>1, <1>2, <1>4, <1>7, <1>8, Zenon DEF Return
<1>10. Given(f, g, x)
  <2>1. f = Paged(f, f.page) BY <1>5 DEF Shaped, IsFile, Paged
  <2> QED BY <1>5, <1>8, <2>1, DeliveredFacts
<1>11. ASSUME Sure(f), Copies(f, s, m) PROVE Copies(g, s, m)
  <2>1. Marks(f, m) BY <1>5 DEF Fits
  <2>2. f.copied = s BY <1>5, <1>6, <1>11 DEF Copies
  <2>3. x = [i \in 1..Len(s) |-> s[i]] BY <1>7, <2>2
  <2>4. x = s BY <2>3
  <2>5. /\ node.read \in {"whole", "once", "marked", "counted"} /\ node.read # "counted"
        /\ f.st \in {"copying", "returning"} /\ f.st = "returning" /\ node.read = "marked"
        /\ f.result = "more" /\ Copies(f, s, m)
    BY <1>5, <1>6, <1>11
  <2>6. Given(f, g, s) BY <1>10, <2>4
  <2> QED BY <1>5, <1>11, <2>1, <2>5, <2>6, GivesWhole
<1>12. Fits(g, s, m) BY <1>5, <1>6, <1>10, <1>11, GivenFits
<1>13. Shaped(g) /\ Live(g) /\ g.own = f.own /\ (g.alone <=> f.alone) BY <1>10 DEF Given, Live
<1> QED BY <1>1, <1>4, <1>5, <1>9, <1>12, <1>13, BecomesKeeps
-----------------------------------------------------------------------------
(***************************************************************************)
(* write, and what it does to those who read meanwhile.                    *)
(***************************************************************************)
\* h is f, of which perhaps less is claimed than before.
Doubted(f, h) ==
  /\ Shaped(h) /\ h.st = f.st /\ h.writes = f.writes /\ h.reads = f.reads /\ h.count = f.count
  /\ h.taken = f.taken /\ h.pos = f.pos /\ h.odd = f.odd /\ h.own = f.own /\ h.page = f.page
  /\ h.copied = f.copied /\ h.got = f.got /\ h.result = f.result /\ (h.used <=> f.used)
  /\ (h.over <=> f.over) /\ (h.alone => f.alone) /\ (h.quiet => f.quiet)
  /\ h.expect = f.expect

\* Another session begins, or a write: a file may lose its quiet or its being alone.
LEMMA DoubtFacts ==
  ASSUME NEW f, Shaped(f), NEW v, NEW h,
         \/ h = f
         \/ h = [f EXCEPT !.quiet = v] /\ (v => f.quiet)
         \/ h = [f EXCEPT !.alone = FALSE]
  PROVE  Doubted(f, h)
<1>1. CASE h = f BY <1>1 DEF Doubted
<1>2. CASE h = [f EXCEPT !.quiet = v] /\ (v => f.quiet)
  <2>1. Shaped(h) BY <1>2 DEF Shaped, IsFile
  <2>2. /\ h.st = f.st /\ h.writes = f.writes /\ h.reads = f.reads /\ h.count = f.count
        /\ h.taken = f.taken /\ h.pos = f.pos /\ h.odd = f.odd /\ h.own = f.own /\ h.page = f.page
        /\ h.copied = f.copied /\ h.got = f.got /\ h.result = f.result /\ (h.used <=> f.used)
        /\ (h.over <=> f.over) /\ (h.alone => f.alone) /\ h.expect = f.expect
    BY <1>2 DEF Shaped, IsFile
  <2>3. h.quiet = v BY <1>2 DEF Shaped, IsFile
  <2> QED BY <1>2, <2>1, <2>2, <2>3, Zenon DEF Doubted
<1>3. CASE h = [f EXCEPT !.alone = FALSE]
  <2>1. Shaped(h) BY <1>3 DEF Shaped, IsFile
  <2>2. /\ h.st = f.st /\ h.writes = f.writes /\ h.reads = f.reads /\ h.count = f.count
        /\ h.taken = f.taken /\ h.pos = f.pos /\ h.odd = f.odd /\ h.own = f.own /\ h.page = f.page
        /\ h.copied = f.copied /\ h.got = f.got /\ h.result = f.result /\ (h.used <=> f.used)
        /\ (h.over <=> f.over) /\ (h.quiet <=> f.quiet) /\ h.expect = f.expect /\ ~ h.alone
    BY <1>3 DEF Shaped, IsFile
  <2> QED BY <2>1, <2>2 DEF Doubted
<1> QED BY <1>1, <1>2, <1>3

\* A file in doubt has still got its part, of the text as it is if that did not change.
LEMMA DoubtedFits ==
  ASSUME NEW f, NEW h, NEW s, NEW t, NEW m, Doubted(f, h), Fits(f, s, m),
         h.quiet /\ Live(f) => t = s
  PROVE  Fits(h, t, m)
<1>1. Began(h) BY DEF Doubted, Fits, Began
<1>2. (Live(h) <=> Live(f)) /\ (Sure(h) => Sure(f)) BY DEF Doubted, Live, Sure
<1>3. Marks(h, m) BY <1>2 DEF Doubted, Fits, Marks
<1>4. Copies(f, s, m) => Copies(h, s, m) BY DEF Doubted, Copies
<1>5. Reads(h, t, m)
  <2> SUFFICES ASSUME Live(h), Sure(h), h.quiet PROVE h.expect = t /\ (Exempt \/ Copies(h, t, m))
    BY DEF Reads
  <2>1. t = s BY <1>2
  <2>2. f.expect = s /\ (Exempt \/ Copies(f, s, m)) BY <1>2 DEF Doubted, Fits, Reads
  <2> QED BY <1>4, <2>1, <2>2 DEF Doubted
<1> QED BY <1>1, <1>3, <1>5 DEF Fits

\* A file that has not been read yet.
LEMMA UnreadFits ==
  ASSUME NEW g, NEW s \in Seq(Byte), NEW m, g.st \in {"open", "writing"}, ~ g.used,
         g.pos = 0, g.got = <<>>, g.result # "eof", ~ g.over, g.expect = s,
         Began(g), Marks(g, m)
  PROVE  Fits(g, s, m)
<1>1. PICK t \in Seq(Byte) : t = Shown(s) BY ShownFacts
<1>2. SubSeq(t, 1, 0) = <<>> BY SubSeqEmpty
<1>3. 0 \in 0..Len(t)
  <2>1. Len(t) \in Nat BY LenProperties
  <2> QED BY <2>1
<1>4. Live(g) BY DEF Live
<1>5. Sure(g) => Copies(g, s, m) BY <1>1, <1>2, <1>3, <1>4 DEF Marks, Copies
<1> QED BY <1>5 DEF Fits, Reads

\* What all but the end of the string is kept by, when c stores buf.
LEMMA StoresKeeps ==
  ASSUME IInv, NEW c \in Client, Live(file[c]), ~ file[c].used, NEW st \in {"open", "writing"},
         st = "writing" => node.write \in {"string", "block"}, NEW n \in Nat,
         NEW buf \in Buffer, Stores(c, st, n, buf), node.read # "counted",
         UNCHANGED <<node, odd, tidy>>, StringEnds'
  PROVE  IInv'
<1>1. PICK f : f = file[c] OBVIOUS
<1>2. PICK s : s = Str(buf) OBVIOUS
<1>3. PICK o : o = IF node.ownText THEN buf ELSE f.own OBVIOUS
<1>4. PICK g : g = [f EXCEPT !.st = st, !.expect = s, !.writes = 0, !.taken = n, !.own = o]
  OBVIOUS
<1>5. /\ file' = [d \in Client |-> file'[d]] /\ file'[c] = g
      /\ \A d \in Client \ {c} : file'[d] = [file[d] EXCEPT !.quiet = @ /\ node.ownText]
      /\ text' = IF node.ownText THEN text ELSE buf
      /\ node' = node /\ odd' = odd /\ tidy' = tidy
  BY <1>1, <1>2, <1>3, <1>4 DEF Stores
<1>6. Shaped(f) /\ Began(f) /\ Marks(f, Mark(c)) BY <1>1 DEF IInv, Shapes, Fits
<1>7. o \in Buffer BY <1>3, <1>6 DEF Shaped
<1>8. /\ Shaped(g) /\ g.st = st /\ g.expect = s /\ g.writes = 0 /\ g.own = o
      /\ g.reads = f.reads /\ g.count = f.count /\ g.pos = f.pos /\ g.odd = f.odd
      /\ g.got = f.got /\ g.result = f.result /\ (g.used <=> f.used) /\ (g.alone <=> f.alone)
      /\ (g.over <=> f.over)
  BY <1>4, <1>6, <1>7 DEF Shaped, IsFile
<1>9. ASSUME NEW d \in Client \ {c}
      PROVE  Doubted(file[d], file'[d]) /\ (file'[d].quiet => node.ownText)
  <2>1. PICK v : v = (file[d].quiet /\ node.ownText) OBVIOUS
  <2>2. Shaped(file[d]) BY DEF IInv, Shapes
  <2>3. file'[d] = [file[d] EXCEPT !.quiet = v] BY <1>5, <2>1
  <2>4. Doubted(file[d], file'[d]) BY <2>1, <2>2, <2>3, DoubtFacts
  <2>5. file'[d].quiet = v BY <2>2, <2>3 DEF Shaped, IsFile
  <2> QED BY <2>1, <2>4, <2>5
<1>10. Live(g) /\ Live(f) BY <1>1, <1>8 DEF Live
<1>11. \A d \in Client : (file'[d].alone => file[d].alone) /\ (Live(file'[d]) <=> Live(file[d]))
  BY <1>1, <1>5, <1>8, <1>9, <1>10 DEF Doubted, Live
<1>12. Shapes'
  <2>1. text' \in Buffer BY <1>5 DEF IInv, Shapes
  <2>2. \A d \in Client : Shaped(file'[d]) BY <1>5, <1>8, <1>9 DEF Doubted
  <2> QED BY <1>5, <2>1, <2>2 DEF IInv, Shapes, Shaped, IsFile
<1>13. AloneLive' BY <1>11 DEF IInv, AloneLive, Live
<1>14. MarkLeft' BY <1>5, <1>10 DEF MarkLeft, Live
<1>15. Digit' BY <1>5 DEF Digit
<1>16. ASSUME NEW d \in Client PROVE Fits(file[d], Str(Buf(d)), Mark(d))'
  <2>1. PICK m : m = Mark(d) OBVIOUS
  <2>2. CASE d = c
    <3>1. Mark(c)' = m BY <1>1, <1>5, <1>8, <2>1, <2>2 DEF Mark
    <3>2. Buf(c)' = buf BY <1>3, <1>5, <1>8 DEF Buf
    <3>3. s \in Seq(Byte) BY <1>2, StrFacts
    <3>4. /\ ~ g.used /\ g.pos = 0 /\ g.got = <<>> /\ g.result # "eof" /\ ~ g.over
          /\ g.st \in {"open", "writing"} /\ g.expect = s
      BY <1>1, <1>6, <1>8 DEF Began
    <3>5. Began(g) BY <1>6, <1>8, <3>4 DEF Began
    <3>6. Sure(g) <=> Sure(f) BY <1>8 DEF Sure
    <3>7. Marks(g, m) BY <1>1, <1>6, <1>8, <1>10, <2>1, <2>2, <3>6 DEF Marks
    <3>8. Fits(g, s, m) BY <3>3, <3>4, <3>5, <3>7, UnreadFits
    <3>9. g = file'[d] /\ s = Str(Buf(d)') /\ m = Mark(d)'
      BY <1>2, <1>5, <2>2, <3>1, <3>2
    <3> QED BY <1>5, <3>8, <3>9, FitsNext
  <2>3. CASE d # c
    <3>1. PICK h : h = file'[d] OBVIOUS
    <3>2. PICK t : t = Str(Buf(d)') OBVIOUS
    <3>3. Doubted(file[d], h) /\ (h.quiet => node.ownText) BY <1>9, <2>3, <3>1
    <3>4. Mark(d)' = m BY <1>5, <2>1, <3>1, <3>3 DEF Mark, Doubted
    <3>5. h.quiet => Buf(d)' = Buf(d) BY <1>5, <3>1, <3>3 DEF Buf, Doubted
    <3>6. h.quiet => t = Str(Buf(d)) BY <3>2, <3>5
    <3>7. Fits(file[d], Str(Buf(d)), m) BY <2>1 DEF IInv
    <3>8. Fits(h, t, m) BY <3>3, <3>6, <3>7, DoubtedFits
    <3> QED BY <1>5, <3>1, <3>2, <3>4, <3>8, FitsNext
  <2> QED BY <2>2, <2>3
<1> QED BY <1>12, <1>13, <1>14, <1>15, <1>16 DEF IInv

\* Where the last byte of all buffers is NUL, it stays so if it is of buf.
LEMMA StoresOwn ==
  ASSUME IInv, NEW c \in Client, NEW st, NEW n, NEW buf, Stores(c, st, n, buf),
         text[LEN_MSG + 1] = NUL, \A d \in Client : file[d].own[LEN_MSG + 1] = NUL,
         buf[LEN_MSG + 1] = NUL
  PROVE  /\ text'[LEN_MSG + 1] = NUL
         /\ \A d \in Client : file'[d].own[LEN_MSG + 1] = NUL
<1>1. text' = IF node.ownText THEN text ELSE buf BY DEF Stores
<1>2. ASSUME NEW d \in Client PROVE file'[d].own[LEN_MSG + 1] = NUL
  <2>1. PICK f : f = file[d] /\ IsFile(f) BY DEF IInv, Shapes, Shaped
  <2>2. CASE d = c
    <3>1. PICK o : o = IF node.ownText THEN buf ELSE f.own OBVIOUS
    <3>2. PICK s : s = Str(buf) OBVIOUS
    <3>3. file'[d] = [f EXCEPT !.st = st, !.expect = s, !.writes = 0, !.taken = n, !.own = o]
      BY <2>1, <2>2, <3>1, <3>2 DEF Stores
    <3>4. file'[d].own = o BY <2>1, <3>3 DEF IsFile
    <3> QED BY <2>1, <3>1, <3>4
  <2>3. CASE d # c
    <3>1. PICK v : v = (f.quiet /\ node.ownText) OBVIOUS
    <3>2. file'[d] = [f EXCEPT !.quiet = v] BY <2>1, <2>3, <3>1 DEF Stores
    <3>3. file'[d].own = f.own BY <2>1, <3>2 DEF IsFile
    <3> QED BY <2>1, <3>3
  <2> QED BY <2>2, <2>3
<1> QED BY <1>1, <1>2

\* A copy into the buffer ends the quiet of those who read it.
LEMMA WriteStep == ASSUME IInv, NEW c \in Client, NEW n \in Lengths, Write(c, n) PROVE IInv'
<1>1. PICK k : k = Taken(n) OBVIOUS
<1>2. k \in Nat /\ (node.write = "string" /\ node.bounded => k <= LEN_MSG)
  BY <1>1, LengthAssumption DEF Taken, Smaller
<1>3. PICK x : x = Message(c, k) OBVIOUS
<1>4. x \in Seq(Byte) /\ Len(x) = k BY <1>2, <1>3, MessageFacts
<1>5. PICK z : z = [i \in 1..k |-> Junk] OBVIOUS
<1>6. z \in Seq(Byte) BY <1>2, <1>5 DEF Byte
<1>7. PICK buf : buf = IF node.write = "block" THEN Filled(z) ELSE Over(Buf(c), x) OBVIOUS
<1>8. Buf(c) \in Buffer BY DEF IInv, Shapes, Shaped, Buf
<1>9. buf \in Buffer BY <1>4, <1>6, <1>7, <1>8, BufferFacts
<1>10. /\ Stores(c, "writing", k, buf) /\ node.write \in {"string", "block"}
       /\ UNCHANGED <<node, odd, tidy>>
       /\ beyond' = (beyond \/ (k > LEN_MSG /\ node.write = "string"))
  BY <1>1, <1>3, <1>5, <1>7, Zenon DEF Write
<1>11. Live(file[c]) /\ ~ file[c].used
  BY DEF Write, CanWrite, In, Live, IInv, Fits, Began
<1>12. node \in Nodes /\ node.read # "counted" BY <1>10, NodeFacts DEF IInv, Shapes
<1>13. StringEnds'
  <2> SUFFICES ASSUME node.write = "string", node.bounded
               PROVE  /\ ~ beyond' /\ text'[LEN_MSG + 1] = NUL
                      /\ \A d \in Client : file'[d].own[LEN_MSG + 1] = NUL
    BY <1>10 DEF StringEnds
  <2>1. ~ beyond /\ text[LEN_MSG + 1] = NUL /\ \A d \in Client : file[d].own[LEN_MSG + 1] = NUL
    BY DEF IInv, StringEnds
  <2>2. k <= LEN_MSG /\ ~ (k > LEN_MSG) BY <1>2, LengthAssumption
  <2>3. ~ beyond' BY <1>10, <2>1, <2>2
  <2>4. buf[LEN_MSG + 1] = NUL
    <3>1. Buf(c)[LEN_MSG + 1] = NUL BY <2>1 DEF Buf
    <3>2. buf = Over(Buf(c), x) BY <1>7
    <3> QED BY <1>4, <1>8, <2>2, <3>1, <3>2, BufferFacts
  <2> QED BY <1>10, <2>1, <2>3, <2>4, StoresOwn
<1> QED BY <1>2, <1>9, <1>10, <1>11, <1>12, <1>13, StoresKeeps

\* The terminator goes behind the bytes, inside the buffer if writes are limited.
LEMMA WriteEndsStep == ASSUME IInv, NEW c \in Client, WriteEnds(c) PROVE IInv'
<1>1. PICK f : f = file[c] OBVIOUS
<1>2. /\ Live(f) /\ ~ f.used /\ f.st = "writing" /\ node.write \in {"string", "block"}
      /\ f.taken \in Nat
  BY <1>1 DEF WriteEnds, In, Live, IInv, Fits, Began, Shapes, Shaped
<1>3. PICK k \in Nat : k = f.taken BY <1>2
<1>4. PICK x : x = Message(c, k) OBVIOUS
<1>5. x \in Seq(Byte) BY <1>3, <1>4, MessageFacts
<1>6. Buf(c) \in Buffer /\ text \in Buffer BY DEF IInv, Shapes, Shaped, Buf
<1>7. PICK n \in Nat, buf \in Buffer :
         /\ Stores(c, "open", n, buf)
         /\ node.write = "string" =>
              buf = Buf(c) \/ buf = Ended(Buf(c), k)
  <2>1. \/ Stores(c, "open", f.taken,
                  IF node.write = "block" THEN Over(text, Message(c, f.taken))
                  ELSE Ended(Buf(c), f.taken))
        \/ Stores(c, "open", 0, Buf(c))
    BY <1>1, Zenon DEF WriteEnds
  <2>2. CASE Stores(c, "open", 0, Buf(c)) BY <1>6, <2>2
  <2>3. CASE Stores(c, "open", f.taken,
                    IF node.write = "block" THEN Over(text, Message(c, f.taken))
                    ELSE Ended(Buf(c), f.taken))
    <3>1. PICK buf : buf = IF node.write = "block" THEN Over(text, x) ELSE Ended(Buf(c), k)
      OBVIOUS
    <3>2. buf \in Buffer BY <1>3, <1>5, <1>6, <3>1, BufferFacts
    <3>3. Stores(c, "open", k, buf) BY <1>3, <1>4, <2>3, <3>1
    <3>4. node.write = "string" => buf = Ended(Buf(c), k) BY <3>1
    <3> QED BY <3>2, <3>3, <3>4
  <2> QED BY <2>1, <2>2, <2>3
<1>8. UNCHANGED <<node, odd, tidy, beyond>> BY DEF WriteEnds
<1>9. node.read # "counted" BY <1>2, NodeFacts DEF IInv, Shapes
<1>10. StringEnds'
  <2> SUFFICES ASSUME node.write = "string", node.bounded
               PROVE  /\ ~ beyond' /\ text'[LEN_MSG + 1] = NUL
                      /\ \A d \in Client : file'[d].own[LEN_MSG + 1] = NUL
    BY <1>8 DEF StringEnds
  <2>1. ~ beyond /\ text[LEN_MSG + 1] = NUL /\ \A d \in Client : file[d].own[LEN_MSG + 1] = NUL
    BY DEF IInv, StringEnds
  <2>2. Buf(c)[LEN_MSG + 1] = NUL BY <2>1 DEF Buf
  <2>3. <<>> \in Seq(Byte) BY EmptySeq
  <2>4. Ended(Buf(c), k)[LEN_MSG + 1] = NUL BY <1>6, <2>2, <2>3, BufferFacts
  <2>5. buf[LEN_MSG + 1] = NUL BY <1>7, <2>2, <2>4
  <2> QED BY <1>7, <1>8, <2>1, <2>5, StoresOwn
<1> QED BY <1>1, <1>2, <1>7, <1>8, <1>9, <1>10, StoresKeeps

\* A number replaces the text in one step.
LEMMA WriteNumberStep ==
  ASSUME IInv, NEW c \in Client, NEW n \in Lengths, WriteNumber(c, n) PROVE IInv'
<1>1. PICK buf : buf = Filled(Number(c, n)) OBVIOUS
<1>2. buf \in Buffer
  <2>1. Number(c, n) \in Seq(Byte)
    <3>1. CASE n = 0
      <4>1. <<c, 0>> \in Byte BY DEF Byte
      <4>2. <<<<c, 0>>>> \in Seq(Byte) BY <4>1
      <4> QED BY <3>1, <4>2 DEF Number
    <3>2. CASE n # 0
      <4>1. PICK k \in Nat : k = Smaller(n, LEN_MSG) BY LengthAssumption DEF Smaller
      <4>2. Number(c, n) = Message(c, k) BY <3>2, <4>1 DEF Number
      <4> QED BY <4>1, <4>2, MessageFacts
    <3> QED BY <3>1, <3>2
  <2>2. text \in Buffer /\ 0 \in Nat BY DEF IInv, Shapes
  <2> QED BY <1>1, <2>1, <2>2, BufferFacts
<1>3. /\ Stores(c, "open", 0, buf) /\ node.write = "number" /\ UNCHANGED <<node, odd, tidy>>
  BY <1>1 DEF WriteNumber
<1>4. Live(file[c]) /\ ~ file[c].used
  BY DEF WriteNumber, CanWrite, In, Live, IInv, Fits, Began
<1>5. node.read # "counted" BY <1>3, NodeFacts DEF IInv, Shapes
<1>6. StringEnds' BY <1>3 DEF StringEnds
<1> QED BY <1>2, <1>3, <1>4, <1>5, <1>6, StoresKeeps

\* A number that cannot be parsed changes no text.
LEMMA RefuseStep == ASSUME IInv, NEW c \in Client, RefuseNumber(c) PROVE IInv'
<1>1. PICK f : f = file[c] OBVIOUS
<1>2. PICK m : m = Mark(c) OBVIOUS
<1>3. PICK s : s = Str(Buf(c)) OBVIOUS
<1>4. PICK g : g = [f EXCEPT !.result = "error"] OBVIOUS
<1>5. /\ Shaped(f) /\ f.st = "open" /\ f.writes > 0 /\ Fits(f, s, m)
      /\ UNCHANGED <<node, text, odd, beyond, tidy>>
  BY <1>1, <1>2, <1>3 DEF IInv, Shapes, RefuseNumber, CanWrite, In
<1>6. ~ f.used /\ f.result # "eof" BY <1>5 DEF Fits, Began
<1>7. /\ Shaped(g) /\ g.st = "open" /\ g.result = "error" /\ g.writes = f.writes
      /\ g.reads = f.reads /\ g.count = f.count /\ g.taken = f.taken /\ g.pos = f.pos
      /\ g.odd = f.odd /\ g.own = f.own /\ g.page = f.page /\ g.got = f.got
      /\ (g.used <=> f.used) /\ (g.alone <=> f.alone) /\ (g.quiet <=> f.quiet)
      /\ (g.over <=> f.over) /\ g.expect = f.expect
  BY <1>4, <1>5 DEF Shaped, IsFile
<1>8. Becomes(c, g, m)
  <2>1. file' = [file EXCEPT ![c] = g] BY <1>1, <1>4 DEF RefuseNumber
  <2>2. g = [g EXCEPT !.odd = IF node.ownMark THEN m ELSE @]
    <3>1. node.ownMark => g.odd = m BY <1>1, <1>2, <1>7 DEF Mark
    <3>2. PICK v : v = IF node.ownMark THEN m ELSE g.odd OBVIOUS
    <3>3. v = g.odd BY <3>1, <3>2
    <3>4. g = [g EXCEPT !.odd = v] BY <1>7, <3>3 DEF Shaped, IsFile
    <3> QED BY <3>2, <3>4
  <2>3. odd' = IF node.ownMark THEN odd ELSE m BY <1>2, <1>5 DEF Mark
  <2> QED BY <2>1, <2>2, <2>3, Zenon DEF Becomes
<1>9. Live(g) /\ Live(f) /\ (Sure(g) <=> Sure(f)) BY <1>5, <1>7 DEF Live, Sure
<1>10. Began(g) BY <1>5, <1>6, <1>7 DEF Fits, Began
<1>11. Marks(g, m) BY <1>5, <1>6, <1>7, <1>9 DEF Fits, Marks
<1>12. Copies(f, s, m) => Copies(g, s, m) BY <1>5, <1>6, <1>7 DEF Copies
<1>13. Fits(g, s, m) BY <1>5, <1>7, <1>9, <1>10, <1>11, <1>12 DEF Fits, Reads
<1>14. g.own = file[c].own /\ (g.alone <=> file[c].alone) /\ Live(file[c]) BY <1>1, <1>7, <1>9
<1> QED BY <1>3, <1>5, <1>7, <1>8, <1>9, <1>13, <1>14, BecomesKeeps

\* An interrupt counts: the number changes and nobody is quiet, and it has a digit.
LEMMA InterruptStep == ASSUME IInv, Interrupt PROVE IInv'
<1>1. PICK n \in 1..LEN_MSG : text' = Filled(Message(Origin, n)) BY DEF Interrupt
<1>2. PICK x : x = Message(Origin, n) OBVIOUS
<1>3. /\ x \in Seq(Byte) /\ Len(x) = n /\ x[1] # NUL /\ n \in Nat /\ n <= LEN_MSG
      /\ x # <<>>
  <2>1. n \in Nat /\ n <= LEN_MSG /\ n # 0 BY <1>1, LengthAssumption
  <2>2. Origin \in Client \cup {Origin} OBVIOUS
  <2>3. x \in Seq(Byte) /\ Len(x) = n /\ x[1] # NUL BY <1>2, <2>1, <2>2, MessageFacts
  <2> QED BY <2>1, <2>3, EmptySeq
<1>4. text' \in Buffer /\ text'[LEN_MSG + 1] = NUL /\ text'[1] # NUL
  BY <1>1, <1>2, <1>3, BufferFacts DEF IInv, Shapes
<1>5. /\ file' = [c \in Client |-> [file[c] EXCEPT !.quiet = FALSE]]
      /\ UNCHANGED <<node, odd, beyond, tidy>>
  BY DEF Interrupt
<1>6. ASSUME NEW d \in Client PROVE Doubted(file[d], file'[d]) /\ ~ file'[d].quiet
  <2>1. Shaped(file[d]) /\ file'[d] = [file[d] EXCEPT !.quiet = FALSE]
    BY <1>5 DEF IInv, Shapes
  <2>2. Doubted(file[d], file'[d]) BY <2>1, DoubtFacts
  <2>3. ~ file'[d].quiet BY <2>1 DEF Shaped, IsFile
  <2> QED BY <2>2, <2>3
<1>7. Shapes'
  <2>1. file' = [d \in Client |-> file'[d]] BY <1>5
  <2> QED BY <1>4, <1>5, <1>6, <2>1 DEF IInv, Shapes, Shaped, IsFile, Doubted
<1>8. AloneLive' /\ MarkLeft' BY <1>5, <1>6 DEF IInv, AloneLive, MarkLeft, Live, Doubted, Private
<1>9. Digit' BY <1>4 DEF Digit
<1>10. StringEnds' BY <1>4, <1>5, <1>6 DEF IInv, StringEnds, Doubted
<1>11. ASSUME NEW d \in Client PROVE Fits(file[d], Str(Buf(d)), Mark(d))'
  <2>1. PICK h : h = file'[d] OBVIOUS
  <2>2. PICK t : t = Str(Buf(d)') OBVIOUS
  <2>3. PICK m : m = Mark(d) OBVIOUS
  <2>4. Mark(d)' = m BY <1>5, <1>6, <2>3 DEF Mark, Doubted
  <2>5. Doubted(file[d], h) /\ ~ h.quiet BY <1>6, <2>1
  <2>6. Fits(file[d], Str(Buf(d)), m) BY <2>3 DEF IInv
  <2>7. Fits(h, t, m) BY <2>5, <2>6, DoubtedFits
  <2> QED BY <1>5, <2>1, <2>2, <2>4, <2>7, FitsNext
<1> QED BY <1>7, <1>8, <1>9, <1>10, <1>11 DEF IInv
-----------------------------------------------------------------------------
(***************************************************************************)
(* open and release.                                                       *)
(***************************************************************************)
LEMMA ProgramFacts ==
  ASSUME NEW p \in Programs, NEW n \in p.sizes
  PROVE  n \in Nat /\ (p.reads > 0 => n # 0)
<1>1. \A k \in Counts : k \in Nat /\ k # 0 BY LengthAssumption
<1>2. LEN_MSG \in Nat /\ LEN_MSG # 0 /\ LEN_MSG + 1 \in Nat /\ LEN_MSG + 1 # 0
  BY LengthAssumption
<1>3. CASE p \in {cat, mcat, mcat_proc, rtest}
  <2>1. n \in Counts BY <1>3 DEF cat, mcat, mcat_proc, rtest, Program
  <2> QED BY <1>1, <2>1
<1>4. CASE p \in {recho, write_string}
  <2>1. n = 0 /\ p.reads = 0 BY <1>4 DEF recho, write_string, Program
  <2> QED BY <2>1
<1>5. CASE p \in {pmopen, simple, read_string, ioctl}
  <2>1. n \in {LEN_MSG, LEN_MSG + 1}
    BY <1>5 DEF pmopen, simple, read_string, ioctl, Program
  <2> QED BY <1>2, <2>1
<1> QED BY <1>3, <1>4, <1>5 DEF Programs

\* A file is opened: nothing has been read, and who was alone is so no more.
LEMMA OpenedStep ==
  ASSUME IInv, NEW c \in Client, ~ Live(file[c]), Opened(c) PROVE IInv'
<1>0. PICK p \in Programs : \E n \in p.sizes :
        file' = [d \in Client |->
          IF d # c THEN [file[d] EXCEPT !.alone = FALSE]
          ELSE [Closed EXCEPT !.st = "open", !.writes = p.writes, !.reads = p.reads, !.count = n,
                  !.alone = Others(c) = {},
                  !.quiet = node.ownText \/ ~ \E w \in Client : In(w, "writing"),
                  !.expect = IF node.ownText THEN Str(Initially) ELSE Str(text)]]
  BY DEF Opened
<1>1. PICK n \in p.sizes :
        file' = [d \in Client |->
          IF d # c THEN [file[d] EXCEPT !.alone = FALSE]
          ELSE [Closed EXCEPT !.st = "open", !.writes = p.writes, !.reads = p.reads, !.count = n,
                  !.alone = Others(c) = {},
                  !.quiet = node.ownText \/ ~ \E w \in Client : In(w, "writing"),
                  !.expect = IF node.ownText THEN Str(Initially) ELSE Str(text)]]
  BY <1>0
<1>2. UNCHANGED <<node, text, odd, beyond, tidy>> BY DEF Opened
<1>3. PICK a : a = (Others(c) = {}) OBVIOUS
<1>4. PICK q : q = (node.ownText \/ ~ \E w \in Client : In(w, "writing")) OBVIOUS
<1>5. PICK s : s = Str(IF node.ownText THEN Initially ELSE text) OBVIOUS
<1>6. PICK g : g = [Closed EXCEPT !.st = "open", !.writes = p.writes, !.reads = p.reads,
                                  !.count = n, !.alone = a, !.quiet = q, !.expect = s]
  OBVIOUS
<1>7. (IF node.ownText THEN Str(Initially) ELSE Str(text)) = s BY <1>5
<1>8. /\ file' = [d \in Client |-> file'[d]] /\ file'[c] = g
      /\ \A d \in Client \ {c} : file'[d] = [file[d] EXCEPT !.alone = FALSE]
  BY <1>1, <1>3, <1>4, <1>6, <1>7
<1>9. n \in Nat /\ (p.reads > 0 => n # 0) BY ProgramFacts
<1>10. /\ Shaped(g) /\ g.st = "open" /\ g.reads = p.reads /\ g.count = n /\ g.pos = 0
       /\ g.odd = FALSE /\ g.own = Initially /\ g.got = <<>> /\ g.result = "more" /\ ~ g.used
       /\ ~ g.over /\ g.alone = a /\ g.expect = s
  BY <1>6, <1>9, InitiallyFacts DEF Closed, Shaped, IsFile
<1>11. ASSUME NEW d \in Client \ {c} PROVE Doubted(file[d], file'[d]) /\ ~ file'[d].alone
  <2>1. Shaped(file[d]) /\ file'[d] = [file[d] EXCEPT !.alone = FALSE]
    BY <1>8 DEF IInv, Shapes
  <2>2. Doubted(file[d], file'[d]) BY <2>1, DoubtFacts
  <2>3. ~ file'[d].alone BY <2>1 DEF Shaped, IsFile
  <2> QED BY <2>2, <2>3
<1>12. g.alone => \A d \in Client : ~ Live(file[d])
  <2>1. g.alone => Others(c) = {} BY <1>3, <1>10
  <2>2. Others(c) = {} => \A d \in Client \ {c} : file[d].st = "closed" BY DEF Others, In
  <2> QED BY <2>1, <2>2 DEF Live
<1>13. Live(g) BY <1>10 DEF Live
<1>14. Shapes' BY <1>2, <1>8, <1>10, <1>11 DEF IInv, Shapes, Shaped, IsFile, Doubted
<1>15. AloneLive'
  <2>1. \A d \in Client \ {c} : Live(file'[d]) <=> Live(file[d]) BY <1>11 DEF Live, Doubted
  <2> QED BY <1>8, <1>11, <1>12, <2>1 DEF AloneLive, Live
<1>16. MarkLeft' BY <1>8, <1>13 DEF MarkLeft, Live
<1>17. Digit' BY <1>2 DEF IInv, Digit
<1>18. StringEnds'
  <2>1. \A d \in Client \ {c} : file'[d].own = file[d].own BY <1>11 DEF Doubted
  <2>2. file'[c].own[LEN_MSG + 1] = NUL BY <1>8, <1>10, InitiallyFacts
  <2> QED BY <1>2, <2>1, <2>2 DEF IInv, StringEnds
<1>19. ASSUME NEW d \in Client PROVE Fits(file[d], Str(Buf(d)), Mark(d))'
  <2>1. CASE d = c
    <3>1. PICK m : m = Mark(c)' OBVIOUS
    <3>2. Buf(c)' = IF node.ownText THEN Initially ELSE text BY <1>2, <1>8, <1>10 DEF Buf
    <3>3. s \in Seq(Byte) BY <1>5, InitiallyFacts, StrFacts DEF IInv, Shapes
    <3>4. Began(g) BY <1>9, <1>10 DEF Began
    <3>5. Marks(g, m)
      <4>1. node.ownMark => ~ m BY <1>8, <1>2, <1>10, <3>1 DEF Mark
      <4>2. g.alone /\ tidy /\ ~ Private => ~ odd BY <1>12 DEF IInv, MarkLeft
      <4>3. ~ node.ownMark => m = odd BY <1>2, <3>1 DEF Mark
      <4>4. Sure(g) /\ node.read \in {"marked", "counted"} => ~ m
        BY <4>1, <4>2, <4>3 DEF Sure, Private
      <4> QED BY <1>10, <4>4 DEF Marks
    <3>6. Fits(g, s, m) BY <1>10, <3>3, <3>4, <3>5, UnreadFits
    <3>7. s = Str(Buf(c)') BY <1>5, <3>2
    <3> QED BY <1>2, <1>8, <2>1, <3>1, <3>6, <3>7, FitsNext
  <2>2. CASE d # c
    <3>1. PICK h : h = file'[d] OBVIOUS
    <3>2. PICK t : t = Str(Buf(d)) OBVIOUS
    <3>3. PICK m : m = Mark(d) OBVIOUS
    <3>4. Doubted(file[d], h) BY <1>11, <2>2, <3>1
    <3>5. Mark(d)' = m /\ Buf(d)' = Buf(d) BY <1>2, <3>1, <3>3, <3>4 DEF Mark, Buf, Doubted
    <3>6. Fits(file[d], t, m) BY <3>2, <3>3 DEF IInv
    <3>7. Fits(h, t, m) BY <3>4, <3>6, DoubtedFits
    <3>8. t = Str(Buf(d)') BY <3>2, <3>5
    <3> QED BY <1>2, <3>1, <3>5, <3>7, <3>8, FitsNext
  <2> QED BY <2>1, <2>2
<1> QED BY <1>14, <1>15, <1>16, <1>17, <1>18, <1>19 DEF IInv

\* c is no longer, or not yet, open.
LEMMA Leaves ==
  ASSUME IInv, NEW c \in Client, NEW g, Shaped(g), Began(g), ~ Live(g),
         file' = [file EXCEPT ![c] = g], UNCHANGED <<node, text, odd, beyond>>,
         tidy' => tidy, MarkLeft', g.own[LEN_MSG + 1] = NUL \/ g.own = file[c].own
  PROVE  IInv'
<1>1. /\ file' = [d \in Client |-> file'[d]] /\ file'[c] = g
      /\ \A d \in Client \ {c} : file'[d] = file[d]
  BY DEF IInv, Shapes
<1>2. Shapes' BY <1>1 DEF IInv, Shapes, Shaped, IsFile
<1>3. AloneLive' BY <1>1 DEF IInv, AloneLive, Live
<1>4. Digit' BY DEF IInv, Digit
<1>5. StringEnds' BY <1>1 DEF IInv, StringEnds
<1>6. ASSUME NEW d \in Client PROVE Fits(file[d], Str(Buf(d)), Mark(d))'
  <2>1. CASE d = c
    <3>1. PICK t : t = Str(Buf(c)') OBVIOUS
    <3>2. PICK m : m = Mark(c)' OBVIOUS
    <3>3. Fits(g, t, m) BY NotLive
    <3> QED BY <1>1, <2>1, <3>1, <3>2, <3>3, FitsNext
  <2>2. CASE d # c
    <3>1. PICK h : h = file[d] OBVIOUS
    <3>2. PICK t : t = Str(Buf(d)) OBVIOUS
    <3>3. PICK m : m = Mark(d) OBVIOUS
    <3>4. h = file'[d] BY <1>1, <2>2, <3>1
    <3>5. Mark(d)' = m /\ Buf(d)' = Buf(d) BY <3>1, <3>3, <3>4 DEF Mark, Buf
    <3>6. Fits(h, t, m) BY <3>1, <3>2, <3>3 DEF IInv
    <3>7. t = Str(Buf(d)') BY <3>2, <3>5
    <3> QED BY <3>4, <3>5, <3>6, <3>7, FitsNext
  <2> QED BY <2>1, <2>2
<1> QED BY <1>2, <1>3, <1>4, <1>5, <1>6 DEF IInv

\* The three ways of open that succeed.
LEMMA OpenStep ==
  ASSUME IInv, NEW c \in Client, Open(c) \/ OpenLocked(c) \/ OpenCounted(c) PROVE IInv'
<1>1. Opened(c) /\ ~ Live(file[c]) BY DEF Open, OpenLocked, OpenCounted, In, Live
<1> QED BY <1>1, OpenedStep

\* A file whose counter was tested is not open yet.
LEMMA OpenTestedStep == ASSUME IInv, NEW c \in Client, OpenTested(c) PROVE IInv'
<1>1. PICK f : f = file[c] OBVIOUS
<1>2. PICK g : g = [f EXCEPT !.st = "opening"] OBVIOUS
<1>3. Shaped(f) /\ Began(f) /\ f.st = "closed"
  BY <1>1 DEF IInv, Shapes, Fits, OpenTested, In
<1>4. /\ Shaped(g) /\ g.st = "opening" /\ g.writes = f.writes /\ g.reads = f.reads
      /\ g.count = f.count /\ g.pos = f.pos /\ g.own = f.own /\ g.got = f.got
      /\ g.result = f.result /\ (g.used <=> f.used) /\ (g.over <=> f.over)
  BY <1>2, <1>3 DEF Shaped, IsFile
<1>5. Began(g) /\ ~ Live(g) /\ ~ Live(f) BY <1>3, <1>4 DEF Began, Live
<1>6. /\ file' = [file EXCEPT ![c] = g] /\ UNCHANGED <<node, text, odd, beyond, tidy>>
  BY <1>1, <1>2 DEF OpenTested
<1>7. \A d \in Client : Live(file'[d]) <=> Live(file[d])
  BY <1>1, <1>5, <1>6 DEF IInv, Shapes
<1>8. MarkLeft' BY <1>6, <1>7 DEF IInv, MarkLeft, Live, Private
<1> QED BY <1>1, <1>4, <1>5, <1>6, <1>8, Leaves

\* A file is closed; if it was the last of sessions kept apart, the mark is not set.
LEMMA CloseStep == ASSUME IInv, NEW c \in Client, Close(c) PROVE IInv'
<1>1. PICK f : f = file[c] OBVIOUS
<1>2. /\ file' = [file EXCEPT ![c] = Closed] /\ UNCHANGED <<node, text, odd, beyond>>
      /\ tidy' => tidy /\ f.alone /\ (~ f.used \/ f.result = "eof")
  BY <1>1 DEF Close
<1>3. Live(f) /\ Marks(f, Mark(c)) BY <1>1 DEF Close, In, Live, IInv, Fits
<1>4. MarkLeft'
  <2> SUFFICES ASSUME ~ Private, tidy' PROVE ~ odd
    BY <1>2 DEF MarkLeft, Private
  <2>1. node.read \in {"marked", "counted"} /\ ~ node.ownMark BY DEF Private
  <2>2. Sure(f) BY <1>2 DEF Sure
  <2>3. ~ Mark(c) BY <1>2, <1>3, <2>1, <2>2 DEF Marks
  <2> QED BY <2>1, <2>3 DEF Mark
<1>5. Closed.own[LEN_MSG + 1] = NUL BY InitiallyFacts DEF Closed
<1> QED BY <1>2, <1>4, <1>5, ClosedFacts, Leaves
-----------------------------------------------------------------------------
\* Every step keeps the invariant.
LEMMA NextInv == IInv /\ [Next]_vars => IInv'
<1> SUFFICES ASSUME IInv, [Next]_vars PROVE IInv' OBVIOUS
<1>1. CASE UNCHANGED vars
  <2>1. UNCHANGED <<node, text, odd, beyond, file, tidy>> BY <1>1 DEF vars
  <2>2. Shapes' BY <2>1 DEF IInv, Shapes, Shaped, IsFile
  <2>3. AloneLive' BY <2>1 DEF IInv, AloneLive, Live
  <2>4. MarkLeft' BY <2>1 DEF IInv, MarkLeft, Private, Live
  <2>5. Digit' /\ StringEnds' BY <2>1 DEF IInv, Digit, StringEnds
  <2>6. ASSUME NEW c \in Client PROVE Fits(file[c], Str(Buf(c)), Mark(c))'
    <3>1. PICK f : f = file[c] OBVIOUS
    <3>2. PICK s : s = Str(Buf(c)) OBVIOUS
    <3>3. PICK m : m = Mark(c) OBVIOUS
    <3>4. Fits(f, s, m) BY <3>1, <3>2, <3>3 DEF IInv
    <3>5. f = file'[c] /\ Buf(c)' = Buf(c) /\ m = Mark(c)' BY <2>1, <3>1, <3>3 DEF Buf, Mark
    <3>6. s = Str(Buf(c)') BY <3>2, <3>5
    <3> QED BY <2>1, <3>4, <3>5, <3>6, FitsNext
  <2> QED BY <2>2, <2>3, <2>4, <2>5, <2>6 DEF IInv
<1>2. CASE Interrupt BY <1>2, InterruptStep
<1>3. CASE \E c \in Client : Session(c)
  <2>1. PICK c \in Client : Session(c) BY <1>3
  <2>2. \/ Open(c) \/ OpenLocked(c) \/ OpenCounted(c)
        \/ OpenTested(c) \/ Close(c) \/ Read(c) \/ Copy(c) \/ Return(c)
        \/ WriteEnds(c) \/ RefuseNumber(c)
        \/ \E n \in Lengths : Write(c, n) \/ WriteNumber(c, n)
    BY <2>1, Zenon DEF Session
  <2> QED BY <2>2, OpenStep, OpenTestedStep, CloseStep, ReadStep, CopyStep, ReturnStep,
             WriteEndsStep, RefuseStep, WriteStep, WriteNumberStep
<1> QED BY <1>1, <1>2, <1>3, Zenon DEF Next

\* The invariant holds in every behaviour.
LEMMA Always == Spec => []IInv
BY InitInv, NextInv, PTL DEF Spec

(***************************************************************************)
(* The string of a driver that limits a write ends inside its buffer.      *)
(***************************************************************************)
THEOREM StringsEnd == Spec => []StringEnds
<1>1. IInv => StringEnds BY DEF IInv
<1> QED BY <1>1, Always, PTL

(***************************************************************************)
(* What a program reads to the end is the text, once and whole, or through *)
(* read_proc a page full of it, and no read hands over more than it was    *)
(* asked for: if nobody writes meanwhile, if the driver looks at the size  *)
(* of a read or the program has room for the text, and, where the mark of  *)
(* the end of file is shared, if the sessions keep apart and are read to   *)
(* the end.                                                                *)
(***************************************************************************)
THEOREM TheTextIsRead == Spec => []CatGetsText
<1>1. IInv => CatGetsText
  <2> SUFFICES ASSUME IInv, NEW c \in Client, file[c].st = "open", file[c].quiet, Sure(file[c]),
                      ~ Exempt
               PROVE  /\ (Careless /\ file[c].over) \/ ~ file[c].over
                      /\ IsPrefix(file[c].got, file[c].expect)
                      /\ file[c].result = "eof" => file[c].got = Shown(file[c].expect)
    BY DEF CatGetsText, Sure, Exempt, In
  <2>1. PICK f : f = file[c] OBVIOUS
  <2>2. PICK m : m = Mark(c) OBVIOUS
  <2>3. Buf(c) \in Buffer BY DEF IInv, Shapes, Shaped, Buf
  <2>4. PICK s \in Seq(Byte) : s = Str(Buf(c)) BY <2>3, StrFacts
  <2>5. Live(f) BY <2>1 DEF Live
  <2>6. f.expect = s /\ Copies(f, s, m)
    BY <2>1, <2>2, <2>4, <2>5 DEF IInv, Fits, Reads
  <2>7. Len(s) \in Nat /\ SubSeq(s, 1, Len(s)) = s /\ SubSeq(s, 1, 0) = <<>>
    BY LenProperties, SubSeqFull, SubSeqEmpty
  <2>8. node.read \in Kinds BY NodeFacts DEF IInv, Shapes
  <2>9. PICK k \in 0..Len(s) : f.got = SubSeq(s, 1, k)
    <3>1. CASE f.result = "eof"
      <4>1. f.got = Shown(s) BY <2>6, <3>1 DEF Copies
      <4> QED BY <4>1, ShownFacts
    <3>2. CASE f.result # "eof" /\ node.read \in {"window", "page", "refill"}
      <4>1. PICK k \in 0..Len(Shown(s)) : f.got = SubSeq(Shown(s), 1, k)
        BY <2>6, <3>2 DEF Copies
      <4> QED BY <4>1, ShownPart
    <3>3. CASE f.result # "eof" /\ node.read \in {"whole", "once", "marked", "counted", "error"}
      <4>1. f.got = <<>> \/ f.got = s BY <2>1, <2>6, <3>3 DEF Copies
      <4>2. 0 \in 0..Len(s) /\ Len(s) \in 0..Len(s) BY <2>7
      <4> QED BY <2>7, <4>1, <4>2
    <3> QED BY <2>8, <3>1, <3>2, <3>3, Zenon DEF Kinds, Exempt
  <2>10. IsPrefix(SubSeq(s, 1, k), s) BY PartIsPrefix
  <2>11. (~ Careless => ~ f.over) /\ (f.result = "eof" => f.got = Shown(s))
    BY <2>6 DEF Copies
  <2> QED BY <2>1, <2>6, <2>9, <2>10, <2>11
<1> QED BY <1>1, Always, PTL
=============================================================================
