----------------------------- MODULE DubflProofs -----------------------------
(***************************************************************************)
(* What holds of the RAM disk for any files of any sizes: pointers and     *)
(* size belong together, what counts as saved is in the file, requests go  *)
(* wrong during a change of medium only, and rmmod loses nothing.          *)
(***************************************************************************)
EXTENDS Dubfl, TLAPS

Contents(n) == [1..n -> Val \cup {NoVal}]

TypeOK ==
  /\ mod \in {"out", "in", "dead"} /\ opened \in BOOLEAN /\ capacity \in Nat
  /\ dev \in [fname : Names, f : File \cup {NULL}, ssize : Nat, data : Image \cup {NULL, FREED}]
  /\ disk \in [File -> Image] /\ \A x \in File : disk[x] \in Contents(Size[x])
  /\ op \in [pc : {"idle", "open", "alloc", "fill", "setup", "save", "free", "clear"},
             by : {"none", "init", "ioctl", "exit", "undo"}, name : Names, i : Nat]
  /\ unsaved \subseteq Nat

\* Nothing is being taken away or brought in.
InPlace == op.pc \in {"idle", "open", "setup", "save"}

\* A file is bound and its image is there.
Bound == /\ dev.f \in File /\ dev.ssize = Size[dev.f] /\ dev.ssize > 0
         /\ dev.data \in Contents(dev.ssize)

Whole == InPlace => Bound \/ (dev.f = NULL /\ dev.data = NULL /\ dev.ssize = 0)

\* The stages of a change of medium, and of a save.
Stages ==
  /\ op.pc = "alloc" => dev.f \in File /\ dev.ssize = Size[dev.f]
  /\ op.pc \in {"alloc", "clear"} => dev.data \in {NULL, FREED} /\ unsaved = {}
  /\ op.pc \in {"fill", "save"} => Bound

\* load_file stores the name first.
Named ==
  /\ op.pc = "open" => dev.fname = op.name
  /\ op.pc \in {"idle", "setup", "save", "alloc", "fill"} /\ dev.fname \in File => dev.f = dev.fname

\* Before insmod and after rmmod there is nothing.
Loading == mod = "out" => IF op.pc = "idle" THEN dev = Bare
                           ELSE (op.by = "init" /\ op.pc # "save")
                                \/ (op.by = "undo" /\ op.pc \in {"free", "clear"})

\* A sector is written only if it is there; rmmod saves while nobody writes.
Written == InPlace \/ op.pc = "fill" => unsaved \subseteq 1..dev.ssize
Leaving == op.pc = "save" /\ op.by = "exit" => ~ opened /\ \A s \in unsaved : s > op.i

\* What was not written since it was loaded or saved is in the file; of a file
\* that is being loaded, as far as it has been read.
Saved == InPlace \/ op.pc = "fill" =>
           \A s \in 1..dev.ssize \ unsaved :
             dev.f # NULL /\ (op.pc = "fill" => s <= op.i) => disk[dev.f][s] = dev.data[s]

IInv == TypeOK /\ Whole /\ Stages /\ Named /\ Loading /\ Written /\ Leaving /\ Saved
-----------------------------------------------------------------------------
(***************************************************************************)
(* An image of a file's size is no pointer that leads nowhere.             *)
(***************************************************************************)
LEMMA ImageIsLive ==
  ASSUME NEW x \in File, NEW d \in Contents(Size[x])
  PROVE  d \in Image /\ d \notin {NULL, FREED}
BY MemAssumption DEF Image, Contents

\* A bound disk has its medium, and the medium its size.
LEMMA BoundIsLive ==
  ASSUME Bound
  PROVE  Live /\ DOMAIN dev.data = 1..dev.ssize
<1>1. dev.data \notin {NULL, FREED}
  BY ImageIsLive DEF Bound
<1>2. DOMAIN dev.data = 1..dev.ssize
  BY DEF Bound, Contents
<1> QED BY <1>1, <1>2 DEF Live

(***************************************************************************)
(* At first there is nothing.                                              *)
(***************************************************************************)
LEMMA InitHolds == Init => IInv
<1> SUFFICES ASSUME Init PROVE IInv OBVIOUS
<1>1. TypeOK
  <2>1. \A x \in File : disk[x] \in Contents(Size[x])
    <3> TAKE x \in File
    <3>1. disk[x] \in [1..Size[x] -> Val] BY DEF Init
    <3> QED BY <3>1 DEF Contents
  <2> QED BY <2>1, FileAssumption DEF Init, TypeOK, Bare, Done
<1>2. Whole /\ Stages /\ Named /\ Loading /\ Written /\ Leaving /\ Saved
  BY FileAssumption DEF Init, Bare, Done, Whole, Stages, Named, Loading, Written, Leaving, Saved, InPlace
<1> QED BY <1>1, <1>2 DEF IInv

(***************************************************************************)
(* Starting an operation leaves disk and image as they are.                *)
(***************************************************************************)
LEMMA StartSteps ==
  ASSUME IInv, NEW name \in Names,
         Open \/ Close \/ blk_init(name) \/ blk_init_default \/ blk_exit
         \/ IoctlLoad(name) \/ IoctlUnlink \/ IoctlSave
  PROVE  IInv'
<1> USE DEF IInv, InPlace, Whole, Stages, Named, Loading, Written, Leaving, Saved, Bound, Start
<1>1. CASE Open \/ Close
  <2>1. UNCHANGED <<mod, op, dev, capacity, disk, unsaved>>
    BY <1>1 DEF Open, Close
  <2>2. opened' \in BOOLEAN BY <1>1 DEF Open, Close
  <2>3. opened' => op.by # "exit" BY <1>1 DEF Open, Close
  <2>4. TypeOK' BY <2>1, <2>2 DEF TypeOK
  <2>5. Whole' /\ Stages' /\ Named' /\ Loading' /\ Written' /\ Saved'
    BY <2>1
  <2>6. Leaving' BY <2>1, <2>3
  <2> QED BY <2>4, <2>5, <2>6
<1>2. CASE blk_init(name)
  <2>1. /\ op' = [pc |-> "open", by |-> "init", name |-> name, i |-> 0]
        /\ dev' = [fname |-> name, f |-> NULL, ssize |-> 0, data |-> NULL]
        /\ UNCHANGED <<mod, opened, capacity, disk, unsaved>> /\ op.pc = "idle" /\ mod = "out"
    BY <1>2 DEF blk_init, Bare
  <2>2. unsaved = {}
    BY <2>1 DEF Bare
  <2>3. TypeOK' BY <2>1 DEF TypeOK
  <2> QED BY <2>1, <2>2, <2>3
<1>3. CASE blk_init_default
  <2>1. TypeOK' BY <1>3 DEF blk_init_default, TypeOK
  <2> QED BY <1>3, <2>1 DEF blk_init_default
<1>4. CASE blk_exit
  <2>1. UNCHANGED <<opened, dev, capacity, disk, unsaved>> /\ op.pc = "idle" /\ ~ opened
    BY <1>4 DEF blk_exit
  <2>2. CASE dev.f = NULL
    <3>1. mod' = "dead" /\ op' = [op EXCEPT !.by = "exit"]
      BY <2>2, <1>4 DEF blk_exit
    <3>2. TypeOK' BY <2>1, <3>1 DEF TypeOK
    <3> QED BY <2>1, <3>1, <3>2 DEF TypeOK
  <2>3. CASE dev.f # NULL
    <3>1. mod' = mod /\ op' = [pc |-> "save", by |-> "exit", name |-> NoName, i |-> 0] /\ mod = "in"
      BY <2>3, <1>4 DEF blk_exit
    <3>2. TypeOK' BY <2>1, <3>1, FileAssumption DEF TypeOK
    <3> QED BY <2>1, <2>3, <3>1, <3>2 
  <2> QED BY <2>2, <2>3
<1>5. CASE IoctlLoad(name)
  <2>1. /\ op' = [pc |-> "open", by |-> "ioctl", name |-> name, i |-> 0]
        /\ dev' = [dev EXCEPT !.fname = name]
        /\ UNCHANGED <<mod, opened, capacity, disk, unsaved>> /\ op.pc = "idle" /\ mod = "in"
    BY <1>5 DEF IoctlLoad
  <2>2. TypeOK' BY <2>1 DEF TypeOK
  <2>3. /\ dev'.f = dev.f /\ dev'.ssize = dev.ssize /\ dev'.data = dev.data /\ dev'.fname = name
    BY <2>1 DEF TypeOK
  <2> QED BY <2>1, <2>2, <2>3
<1>6. CASE IoctlUnlink
  <2>1. /\ op' = [pc |-> "free", by |-> "ioctl", name |-> NoName, i |-> 0]
        /\ UNCHANGED <<mod, opened, dev, capacity, disk, unsaved>> /\ mod = "in"
    BY <1>6 DEF IoctlUnlink
  <2>2. TypeOK' BY <2>1, FileAssumption DEF TypeOK
  <2> QED BY <2>1, <2>2
<1>7. CASE IoctlSave
  <2>1. /\ op' = [pc |-> "save", by |-> "ioctl", name |-> NoName, i |-> 0] /\ op.pc = "idle"
        /\ UNCHANGED <<mod, opened, dev, capacity, disk, unsaved>> /\ mod = "in" /\ dev.f # NULL
    BY <1>7 DEF IoctlSave
  <2>2. TypeOK' BY <2>1, FileAssumption DEF TypeOK
  <2> QED BY <2>1, <2>2
<1> QED BY <1>1, <1>2, <1>3, <1>4, <1>5, <1>6, <1>7

\* Where the caller goes on when a load has ended, well or not.
LEMMA LoadedType ==
  ASSUME TypeOK, Loaded
  PROVE  /\ op'.pc \in {"idle", "setup"} /\ op'.name \in Names /\ op'.i = 0
         /\ op'.by \in {"none", "init"} /\ (op'.by = "init" <=> op'.pc = "setup")
         /\ op' = [pc |-> op'.pc, by |-> op'.by, name |-> op'.name, i |-> 0]
         /\ op'.pc = "setup" <=> op.by = "init"
<1>1. CASE op.by = "init"
  BY <1>1, FileAssumption DEF Loaded, Goto, TypeOK
<1>2. CASE op.by # "init"
  BY <1>2, FileAssumption DEF Loaded, Done
<1> QED BY <1>1, <1>2

(***************************************************************************)
(* Loading a file.  The old image is gone when the new file is bound.      *)
(***************************************************************************)
LEMMA LoadSteps ==
  ASSUME IInv, LoadNotFound \/ LoadOpen \/ LoadAlloc \/ LoadNoMem \/ LoadFill
  PROVE  IInv'
<1> USE DEF IInv, InPlace, Whole, Stages, Named, Loading, Written, Leaving, Saved, Bound, At
<1>1. CASE LoadNotFound
  <2>1. /\ op.pc = "open" /\ op.name \notin File /\ Loaded
        /\ UNCHANGED <<mod, opened, dev, capacity, disk, unsaved>> /\ mod # "dead"
    BY <1>1 DEF LoadNotFound
  <2>2. op'.pc \in {"idle", "setup"} /\ TypeOK'
    BY <2>1, LoadedType DEF TypeOK
  <2>3. mod = "out" => op.by = "init"
    BY <2>1
  <2>4. CASE op.by = "init"
    <3>1. op'.pc = "setup" /\ op'.by = "init" BY <2>1, <2>4 DEF Loaded, Goto, TypeOK
    <3> QED BY <2>1, <2>2, <3>1
  <2>5. CASE op.by # "init"
    <3>1. op'.pc = "idle" /\ mod # "out" BY <2>1, <2>3, <2>5 DEF Loaded, Done
    <3> QED BY <2>1, <2>2, <3>1
  <2> QED BY <2>4, <2>5
<1>2. CASE LoadOpen
  <2>1. /\ op.pc = "open" /\ op.name \in File /\ mod # "dead"
        /\ dev' = [dev EXCEPT !.f = op.name, !.ssize = Size[op.name],
                              !.data = IF @ = NULL THEN NULL ELSE FREED]
        /\ unsaved' = {} /\ op' = [op EXCEPT !.pc = "alloc", !.i = 0]
        /\ UNCHANGED <<mod, opened, capacity, disk>>
    BY <1>2 DEF LoadOpen, Goto
  <2>2. /\ dev'.f = op.name /\ dev'.ssize = Size[op.name] /\ dev'.data \in {NULL, FREED}
        /\ dev'.fname = dev.fname /\ op'.pc = "alloc" /\ op'.by = op.by
    BY <2>1 DEF TypeOK
  <2>3. TypeOK'
    BY <2>1, SizeAssumption DEF TypeOK
  <2> QED BY <2>1, <2>2, <2>3
<1>3. CASE LoadAlloc
  <2>1. /\ op.pc = "alloc" /\ mod # "dead" /\ dev.ssize > 0
        /\ dev' = [dev EXCEPT !.data = [s \in 1..dev.ssize |-> NoVal]]
        /\ op' = [op EXCEPT !.pc = "fill", !.i = 0]
        /\ UNCHANGED <<mod, opened, capacity, disk, unsaved>>
    BY <1>3 DEF LoadAlloc, Goto
  <2>2. /\ dev'.data \in Contents(dev.ssize) /\ dev'.f = dev.f /\ dev'.ssize = dev.ssize
        /\ dev'.fname = dev.fname /\ op'.pc = "fill" /\ op'.by = op.by /\ op'.i = 0
    BY <2>1 DEF TypeOK, Contents
  <2>3. TypeOK'
    BY <2>1, <2>2, ImageIsLive DEF TypeOK
  <2> QED BY <2>1, <2>2, <2>3
<1>4. CASE LoadNoMem
  <2>1. /\ op.pc = "alloc" /\ mod # "dead" /\ dev' = [dev EXCEPT !.data = NULL]
        /\ op' = [op EXCEPT !.pc = "free", !.i = 0]
        /\ UNCHANGED <<mod, opened, capacity, disk, unsaved>>
    BY <1>4 DEF LoadNoMem, Goto
  <2>2. op'.pc = "free" /\ op'.by = op.by /\ TypeOK'
    BY <2>1 DEF TypeOK
  <2> QED BY <2>1, <2>2
<1>5. CASE LoadFill
  <2>1. /\ op.pc = "fill" /\ mod # "dead" /\ UNCHANGED <<mod, opened, capacity, disk>>
    BY <1>5 DEF LoadFill
  <2>2. CASE Last(op.i)
    <3>1. Loaded /\ UNCHANGED <<dev, unsaved>> /\ op.i >= dev.ssize
      BY <1>5, <2>2 DEF LoadFill, Last
    <3>2. op'.pc \in {"idle", "setup"} /\ TypeOK'
      BY <2>1, <3>1, LoadedType DEF TypeOK
    <3>3. Saved'
      BY <2>1, <3>1, <3>2 DEF TypeOK
    <3>4. Loading'
      <4>1. mod = "out" => op.by = "init"
        BY <2>1
      <4>2. mod = "out" => op'.pc = "setup" /\ op'.by = "init"
        BY <4>1, <3>1 DEF Loaded, Goto, TypeOK
      <4> QED BY <2>1, <4>2
    <3> QED BY <2>1, <3>1, <3>2, <3>3, <3>4
  <2>3. CASE ~ Last(op.i)
    <3>1. /\ dev' = [dev EXCEPT !.data[op.i + 1] = disk[dev.f][op.i + 1]]
          /\ unsaved' = unsaved \ {op.i + 1} /\ op' = [op EXCEPT !.i = op.i + 1]
          /\ op.i + 1 \in 1..dev.ssize
      BY <1>5, <2>1, <2>3 DEF LoadFill, Last, Advanced, TypeOK
    <3>2. dev' = [dev EXCEPT !.data = [dev.data EXCEPT ![op.i + 1] = disk[dev.f][op.i + 1]]]
      BY <3>1
    <3>3. /\ dev'.f = dev.f /\ dev'.ssize = dev.ssize /\ dev'.fname = dev.fname
          /\ dev'.data = [dev.data EXCEPT ![op.i + 1] = disk[dev.f][op.i + 1]]
          /\ op'.pc = "fill" /\ op'.by = op.by /\ op'.i = op.i + 1
      BY <2>1, <3>1, <3>2 DEF TypeOK
    <3>4. dev'.data \in Contents(dev.ssize)
      BY <2>1, <3>1, <3>3 DEF TypeOK, Contents
    <3>5. TypeOK'
      BY <2>1, <3>1, <3>3, <3>2, <3>4, ImageIsLive DEF TypeOK
    <3>6. ASSUME NEW s \in 1..dev.ssize \ unsaved', s <= op.i + 1
          PROVE  disk[dev.f][s] = dev'.data[s]
      <4>1. CASE s = op.i + 1
        <5>1. s \in DOMAIN dev.data BY <2>1 DEF Contents
        <5> QED BY <5>1, <4>1, <3>3
      <4>2. CASE s # op.i + 1
        <5>1. s <= op.i /\ s \notin unsaved BY <4>2, <3>1, <3>6 DEF TypeOK
        <5>2. dev.f # NULL BY <2>1, FileAssumption
        <5>3. disk[dev.f][s] = dev.data[s] BY <5>1, <5>2, <2>1
        <5> QED BY <5>3, <4>2, <2>1, <3>3 DEF Contents
      <4> QED BY <4>1, <4>2
    <3> QED BY <2>1, <3>1, <3>3, <3>4, <3>5, <3>6
  <2> QED BY <2>2, <2>3
<1> QED BY <1>1, <1>2, <1>3, <1>4, <1>5

(***************************************************************************)
(* The end of insmod, and giving a file up.                                *)
(***************************************************************************)
LEMMA OtherSteps ==
  ASSUME IInv, Setup \/ UnlinkFree \/ UnlinkClear
  PROVE  IInv'
<1> USE DEF IInv, InPlace, Whole, Stages, Named, Loading, Written, Leaving, Saved, Bound, At
<1>1. CASE Setup
  <2>1. op.pc = "setup" /\ UNCHANGED <<opened, dev, disk, unsaved>>
    BY <1>1 DEF Setup
  <2>2. CASE capacity' = dev.ssize /\ mod' = "in" /\ op' = Done
    <3>1. op'.pc = "idle" BY <2>2 DEF Done
    <3>2. TypeOK' BY <2>1, <2>2, FileAssumption DEF TypeOK, Done
    <3> QED BY <2>1, <2>2, <3>1, <3>2
  <2>3. CASE op' = [op EXCEPT !.pc = "free", !.by = "undo"] /\ UNCHANGED <<capacity, mod>>
    <3>1. op'.pc = "free" /\ op'.by = "undo" BY <2>3 DEF TypeOK
    <3>2. TypeOK' BY <2>1, <2>3 DEF TypeOK
    <3> QED BY <2>1, <2>3, <3>1, <3>2
  <2> QED BY <1>1, <2>2, <2>3 DEF Setup
<1>2. CASE UnlinkFree
  <2>1. /\ op.pc = "free" /\ dev' = [dev EXCEPT !.data = IF @ = NULL THEN NULL ELSE FREED]
        /\ unsaved' = {} /\ op' = [op EXCEPT !.pc = "clear", !.i = 0]
        /\ UNCHANGED <<mod, opened, capacity, disk>>
    BY <1>2 DEF UnlinkFree, Goto
  <2>2. op'.pc = "clear" /\ op'.by = op.by /\ dev'.data \in {NULL, FREED} /\ TypeOK'
    BY <2>1 DEF TypeOK
  <2> QED BY <2>1, <2>2
<1>3. CASE UnlinkClear
  <2>1. /\ op.pc = "clear" /\ dev' = Bare /\ Loaded /\ UNCHANGED <<opened, disk, unsaved>>
        /\ mod' = IF op.by \in {"exit", "undo"} THEN "out" ELSE mod
        /\ capacity' = IF op.by \in {"exit", "undo"} THEN 0 ELSE capacity
    BY <1>3 DEF UnlinkClear, Unlinked
  <2>2. dev'.fname = NoName /\ dev'.f = NULL /\ dev'.data = NULL /\ dev'.ssize = 0
    BY <2>1 DEF Bare
  <2>3. TypeOK'
    BY <2>1, <2>2, LoadedType, FileAssumption DEF TypeOK, Bare
  <2>4. op'.pc \in {"idle", "setup"} /\ (op'.pc = "setup" => op'.by = "init")
    BY <2>1, LoadedType
  <2>5. unsaved' = {} BY <2>1
  <2> QED BY <2>1, <2>2, <2>3, <2>4, <2>5, FileAssumption
<1> QED BY <1>1, <1>2, <1>3

(***************************************************************************)
(* A sector is saved: it is the file's from there on.                      *)
(***************************************************************************)
LEMMA SaveSteps ==
  ASSUME IInv, SaveStep
  PROVE  IInv'
<1> USE DEF IInv, InPlace, Whole, Stages, Named, Loading, Written, Leaving, Saved, Bound, At
<1>1. /\ op.pc = "save" /\ Bound /\ mod = "in" /\ UNCHANGED <<mod, opened, dev, capacity>>
  BY DEF SaveStep, TypeOK
<1>2. CASE Last(op.i)
  <2>1. /\ op' = IF op.by = "exit" THEN [op EXCEPT !.pc = "free", !.i = 0] ELSE Done
        /\ UNCHANGED <<disk, unsaved>>
    BY <1>2 DEF SaveStep, Goto
  <2>2. CASE op.by = "exit"
    <3>1. op'.pc = "free" /\ TypeOK' BY <2>1, <2>2, <1>1 DEF TypeOK
    <3> QED BY <1>1, <2>1, <3>1
  <2>3. CASE op.by # "exit"
    <3>1. op'.pc = "idle" /\ TypeOK' BY <2>1, <2>3, <1>1, FileAssumption DEF TypeOK, Done
    <3> QED BY <1>1, <2>1, <3>1
  <2> QED BY <2>2, <2>3
<1>3. CASE ~ Last(op.i)
  <2>1. /\ disk' = [disk EXCEPT ![dev.f] = [disk[dev.f] EXCEPT ![op.i + 1] = dev.data[op.i + 1]]]
        /\ unsaved' = unsaved \ {op.i + 1} /\ op' = [op EXCEPT !.i = op.i + 1]
        /\ op.i + 1 \in 1..dev.ssize
    BY <1>1, <1>3 DEF SaveStep, Last, Advanced, TypeOK
  <2>2. op'.pc = "save" /\ op'.by = op.by /\ op'.i = op.i + 1
    BY <1>1, <2>1 DEF TypeOK
  <2>3. /\ disk'[dev.f] = [disk[dev.f] EXCEPT ![op.i + 1] = dev.data[op.i + 1]]
        /\ disk[dev.f] \in Contents(dev.ssize)
    BY <1>1, <2>1 DEF TypeOK
  <2>4. disk'[dev.f] \in Contents(dev.ssize)
    <3>1. dev.data[op.i + 1] \in Val \cup {NoVal} BY <1>1, <2>1 DEF Contents
    <3> QED BY <2>3, <3>1 DEF Contents
  <2>5. TypeOK'
    <3>1. \A x \in File : disk'[x] \in Contents(Size[x])
      BY <1>1, <2>1, <2>4 DEF TypeOK
    <3>2. disk' \in [File -> Image]
      BY <1>1, <2>1, <3>1, ImageIsLive DEF TypeOK
    <3> QED BY <1>1, <2>1, <3>1, <3>2 DEF TypeOK
  <2>6. ASSUME NEW s \in 1..dev.ssize \ unsaved'
        PROVE  disk'[dev.f][s] = dev.data[s]
    <3>1. s \in DOMAIN disk[dev.f] BY <2>3 DEF Contents
    <3>2. CASE s = op.i + 1 BY <3>1, <3>2, <2>3
    <3>3. CASE s # op.i + 1
      <4>1. s \notin unsaved /\ dev.f # NULL BY <3>3, <2>1, <1>1, FileAssumption
      <4>2. disk[dev.f][s] = dev.data[s] BY <4>1, <1>1
      <4> QED BY <3>1, <3>3, <2>3, <4>2
    <3> QED BY <3>2, <3>3
  <2>7. Leaving'
    BY <1>1, <2>1, <2>2 DEF TypeOK
  <2> QED BY <1>1, <2>1, <2>2, <2>5, <2>6, <2>7
<1> QED BY <1>2, <1>3

(***************************************************************************)
(* A request changes sectors of the image that is there.                   *)
(***************************************************************************)
LEMMA RequestSteps ==
  ASSUME IInv, NEW s \in Nat, NEW n \in Nat, NEW v \in Val, RequestWrite(s, n, v)
  PROVE  IInv'
<1> USE DEF IInv, InPlace, Whole, Stages, Named, Loading, Written, Leaving, Saved
<1> DEFINE wrote == [i \in DOMAIN dev.data |-> IF i \in s+1..s+n THEN v ELSE dev.data[i]]
<1>1. /\ mod = "in" /\ opened /\ s + n <= dev.ssize /\ dev.data \notin {NULL, FREED}
      /\ dev' = [dev EXCEPT !.data = wrote] /\ unsaved' = unsaved \cup (s+1..s+n)
      /\ UNCHANGED <<mod, opened, capacity, disk, op>>
  BY DEF RequestWrite, Request, Fits, Live
<1>2. dev'.fname = dev.fname /\ dev'.f = dev.f /\ dev'.ssize = dev.ssize /\ dev'.data = wrote
  BY <1>1 DEF TypeOK
<1>3. s+1..s+n \subseteq 1..dev.ssize
  BY <1>1 DEF TypeOK
<1>4. CASE op.pc = "free"
  <2>1. PICK x \in File : dev.data \in [1..Size[x] -> Val \cup {NoVal}]
    BY <1>1 DEF TypeOK, Image
  <2>2. wrote \in Contents(Size[x])
    BY <2>1 DEF Contents
  <2>3. TypeOK'
    BY <1>1, <2>2, ImageIsLive DEF TypeOK
  <2> QED BY <1>1, <1>2, <1>4, <2>3
<1>5. CASE op.pc # "free"
  <2>1. Bound
    BY <1>1, <1>5 DEF TypeOK
  <2>2. wrote \in Contents(dev.ssize)
    BY <2>1 DEF Bound, Contents
  <2>3. TypeOK'
    BY <1>1, <1>2, <1>3, <2>1, <2>2, ImageIsLive DEF TypeOK, Bound
  <2>4. ASSUME NEW t \in 1..dev.ssize \ unsaved', op.pc = "fill" => t <= op.i, op.pc # "free"
        PROVE  disk[dev.f][t] = wrote[t]
    <3>1. t \notin unsaved /\ t \notin s+1..s+n /\ t \in DOMAIN dev.data /\ dev.f # NULL
      BY <1>1, <2>1, <2>4, FileAssumption DEF Bound, Contents
    <3>2. op.pc \notin {"alloc", "clear"} BY <1>1
    <3>3. disk[dev.f][t] = dev.data[t] BY <3>1, <3>2, <2>4 DEF TypeOK
    <3> QED BY <3>1, <3>3
  <2> QED BY <1>1, <1>2, <1>3, <2>1, <2>2, <2>3, <2>4 DEF Bound
<1> QED BY <1>4, <1>5

(***************************************************************************)
(* A sector number of a request is that of a file's sector.                *)
(***************************************************************************)
LEMMA RequestNumbers ==
  ASSUME TypeOK, NEW s \in Sectors
  PROVE  s \in Nat \ {0} /\ s - 1 \in Nat
<1>1. PICK x \in File : s \in DOMAIN disk[x]
  BY DEF Sectors
<1>2. s \in 1..Size[x]
  BY <1>1 DEF TypeOK, Contents
<1> QED BY <1>2, SizeAssumption

\* Every step keeps IInv.
LEMMA NextHolds ==
  ASSUME IInv, Next
  PROVE  IInv'
<1>1. CASE Open \/ Close \/ blk_init_default \/ blk_exit \/ IoctlUnlink \/ IoctlSave
  BY <1>1, StartSteps, FileAssumption
<1>2. CASE \E name \in Names : blk_init(name) \/ IoctlLoad(name)
  BY <1>2, StartSteps
<1>3. CASE OpStep
  BY <1>3, LoadSteps, OtherSteps, SaveSteps DEF OpStep
<1>4. CASE \E s \in Sectors, n \in Sectors, v \in Val : RequestWrite(s - 1, n, v)
  <2> PICK s \in Sectors, n \in Sectors, v \in Val : RequestWrite(s - 1, n, v) BY <1>4
  <2>1. s - 1 \in Nat /\ n \in Nat BY RequestNumbers DEF IInv
  <2> QED BY <2>1, RequestSteps
<1>5. CASE \E s \in Sectors, n \in Sectors : RequestDead(s - 1, n)
  BY <1>5 DEF RequestDead, IInv, TypeOK, InPlace, Bound, Whole, Stages, Named, Loading, Written,
              Leaving, Saved
<1> QED BY <1>1, <1>2, <1>3, <1>4, <1>5 DEF Next

(***************************************************************************)
(* The inductive invariant, in every behaviour.                            *)
(***************************************************************************)
THEOREM Invariance == Spec => []IInv
<1>1. IInv /\ UNCHANGED vars => IInv'
  BY DEF vars, IInv, TypeOK, InPlace, Bound, Whole, Stages, Named, Loading, Written, Leaving, Saved
<1> QED BY InitHolds, NextHolds, <1>1, PTL DEF Spec

(***************************************************************************)
(* Pointers and size belong together whenever no medium is being changed,  *)
(* whatever loads failed before (load_file, unlink_file, setup_device).    *)
(***************************************************************************)
THEOREM PointersAndSizeAgree == Spec => []MediumWhole
<1>1. IInv => MediumWhole
  <2> SUFFICES ASSUME IInv, Settled PROVE MediumWhole BY DEF MediumWhole
  <2>1. dev.fname \in File => dev.f = dev.fname
    BY DEF IInv, Named, Settled
  <2>2. CASE Bound
    BY <2>1, <2>2, BoundIsLive, FileAssumption DEF MediumWhole, Bound
  <2>3. CASE dev.f = NULL /\ dev.data = NULL /\ dev.ssize = 0
    BY <2>1, <2>3 DEF MediumWhole
  <2> QED BY <2>2, <2>3 DEF IInv, Whole, InPlace, Settled
<1> QED BY <1>1, Invariance, PTL

(***************************************************************************)
(* What was loaded or saved and not written since is in the file: requests *)
(* overtake load_file and save_file at every sector.                       *)
(***************************************************************************)
THEOREM SavedIsInFile == Spec => []CleanSectorsInFile
<1>1. IInv => CleanSectorsInFile
  BY DEF IInv, Saved, InPlace, Settled, CleanSectorsInFile
<1> QED BY <1>1, Invariance, PTL

(***************************************************************************)
(* A request meets a missing image only while the medium changes.          *)
(***************************************************************************)
THEOREM SwapAloneKills == Spec => OnlySwapKills
<1>1. ASSUME IInv, [Next]_vars, mod = "in", mod' = "dead", op'.by # "exit"
      PROVE  op.pc \in {"alloc", "free", "clear"}
  <2>1. PICK s \in Sectors, n \in Sectors : RequestDead(s - 1, n)
    BY <1>1 DEF Next, vars, Open, Close, blk_init, blk_init_default, blk_exit, IoctlLoad, IoctlUnlink,
                IoctlSave, OpStep, LoadNotFound, LoadOpen, LoadAlloc, LoadNoMem, LoadFill, Setup,
                SaveStep, UnlinkFree, UnlinkClear, RequestWrite, IInv, TypeOK
  <2>2. s - 1 \in Nat /\ n \in Nat \ {0}
    BY <1>1, RequestNumbers DEF IInv
  <2>3. ~ Live /\ (s - 1) + n <= dev.ssize
    BY <2>1 DEF RequestDead, Request, Fits
  <2>4. ~ Bound /\ dev.ssize > 0
    BY <1>1, <2>2, <2>3, BoundIsLive DEF IInv, TypeOK
  <2> QED BY <1>1, <2>4 DEF IInv, TypeOK, Whole, InPlace, Stages
<1>2. IInv /\ [Next]_vars =>
        [(mod = "in" /\ mod' = "dead" /\ op'.by # "exit") => op.pc \in {"alloc", "free", "clear"}]_vars
  BY <1>1
<1> QED BY <1>2, Invariance, PTL DEF Spec, OnlySwapKills

(***************************************************************************)
(* rmmod frees the image when all of it is in the file, not before.        *)
(***************************************************************************)
THEOREM NothingIsLost == Spec => UnloadSavesAll
<1>1. ASSUME IInv, [Next]_vars, op.by = "exit", op.pc = "save", op'.pc = "free"
      PROVE  unsaved = {} /\ dev.data = disk[dev.f]
  <2>1. SaveStep /\ Last(op.i)
    <3>1. SaveStep
      BY <1>1 DEF Next, vars, Open, Close, blk_init, blk_init_default, blk_exit, IoctlLoad,
                  IoctlUnlink, IoctlSave, Start, At, OpStep, LoadNotFound, LoadOpen, LoadAlloc,
                  LoadNoMem, LoadFill, Setup, UnlinkFree, UnlinkClear, RequestWrite, RequestDead
    <3>2. ~ Last(op.i) => op' = [op EXCEPT !.i = Advanced(op.i)]
      BY <3>1 DEF SaveStep
    <3> QED BY <1>1, <3>1, <3>2 DEF IInv, TypeOK
  <2>2. Bound /\ op.i >= dev.ssize
    BY <1>1, <2>1 DEF IInv, Stages, Last
  <2>3. unsaved = {}
    BY <1>1, <2>2 DEF IInv, TypeOK, Leaving, Written, InPlace, Bound
  <2>4. \A s \in 1..dev.ssize : disk[dev.f][s] = dev.data[s]
    BY <1>1, <2>2, <2>3, FileAssumption DEF IInv, Saved, InPlace, Bound
  <2>5. disk[dev.f] \in Contents(dev.ssize) /\ dev.data \in Contents(dev.ssize)
    BY <1>1, <2>2 DEF IInv, TypeOK, Bound
  <2>6. /\ dev.data = [s \in 1..dev.ssize |-> dev.data[s]]
        /\ disk[dev.f] = [s \in 1..dev.ssize |-> disk[dev.f][s]]
    BY <2>5 DEF Contents
  <2> QED BY <2>3, <2>4, <2>6
<1>2. IInv /\ [Next]_vars =>
        [(op.by = "exit" /\ op.pc = "save" /\ op'.pc = "free") =>
           unsaved = {} /\ dev.data = disk[dev.f]]_vars
  BY <1>1
<1> QED BY <1>2, Invariance, PTL DEF Spec, UnloadSavesAll
=============================================================================
