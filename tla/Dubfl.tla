------------------------------- MODULE Dubfl -------------------------------
(***************************************************************************)
(* The RAM disk of src/Tasks/blkdev/dubfl/dubfl.c, whose contents come     *)
(* from a file and go back to it: insmod, rmmod and the ioctls that bind,  *)
(* detach and save the disk, one of them at a time, each overtaken by      *)
(* block requests wherever it sleeps.  A medium is a sequence of sectors.  *)
(***************************************************************************)
EXTENDS Naturals, Sequences

CONSTANTS File,      \* files that can be opened
          Names,     \* names users give; the empty one and other than File: not found
          Size,      \* length of each file in sectors
          Val,       \* what a sector can hold
          NoVal,     \* content of a sector of fresh memory
          NULL, FREED

NoName == ""
ASSUME FileAssumption == File \subseteq Names /\ NoName \in Names \ File /\ NULL \notin Names
ASSUME SizeAssumption == Size \in [File -> Nat]

VARIABLES mod,       \* "out", "in", or "dead" after an oops
          opened,    \* some process has the disk open
          dev,       \* struct own_disk: fname, f, ssize, data
          capacity,  \* what the kernel takes for the size of the disk
          disk,      \* contents of the files
          op,        \* the insmod, rmmod or ioctl in progress
          unsaved    \* sectors written since they were last loaded or saved

vars == <<mod, opened, dev, capacity, disk, op, unsaved>>

Image == UNION {[1..Size[x] -> Val \cup {NoVal}] : x \in File}
ASSUME MemAssumption == NULL # FREED /\ NoVal \notin Val /\ {NULL, FREED} \cap Image = {}
Live == dev.data \notin {NULL, FREED}
Bare == [fname |-> NoName, f |-> NULL, ssize |-> 0, data |-> NULL]
Done == [pc |-> "idle", by |-> "none", name |-> NoName, i |-> 0]

Init == /\ mod = "out" /\ opened = FALSE
        /\ dev = Bare /\ capacity = 0
        /\ disk \in [File -> Image] /\ \A x \in File : disk[x] \in [1..Size[x] -> Val]
        /\ op = Done /\ unsaved = {}

At(pc) == op.pc = pc /\ mod # "dead"
Goto(pc) == op' = [op EXCEPT !.pc = pc, !.i = 0]
-----------------------------------------------------------------------------
(***************************************************************************)
(* Starting an operation.  An ioctl needs the disk open, rmmod closed.     *)
(***************************************************************************)
Start(pc, by, name) == op.pc = "idle" /\ op' = [pc |-> pc, by |-> by, name |-> name, i |-> 0]

\* A module that is being removed cannot be opened any more.
Open == /\ mod = "in" /\ ~opened /\ op.by # "exit"
        /\ opened' = TRUE
        /\ UNCHANGED <<mod, dev, capacity, disk, op, unsaved>>

Close == /\ opened /\ At("idle")
         /\ opened' = FALSE
         /\ UNCHANGED <<mod, dev, capacity, disk, op, unsaved>>

\* insmod file=name; without the parameter strncpy reads from NULL.
blk_init(name) == /\ mod = "out"
                  /\ Start("open", "init", name)
                  /\ dev' = [Bare EXCEPT !.fname = name]
                  /\ UNCHANGED <<mod, opened, capacity, disk, unsaved>>

blk_init_default == /\ mod = "out" /\ op.pc = "idle"
                    /\ mod' = "dead"
                    /\ UNCHANGED <<opened, dev, capacity, disk, op, unsaved>>

\* rmmod saves first; save_file uses dev->f without a test.
blk_exit == /\ mod = "in" /\ ~opened
            /\ IF dev.f = NULL THEN /\ mod' = "dead"
                                    /\ op.pc = "idle" /\ op' = [op EXCEPT !.by = "exit"]
               ELSE Start("save", "exit", NoName) /\ UNCHANGED mod
            /\ UNCHANGED <<opened, dev, capacity, disk, unsaved>>

IoctlLoad(name) == /\ mod = "in" /\ opened
                   /\ Start("open", "ioctl", name)
                   /\ dev' = [dev EXCEPT !.fname = name]
                   /\ UNCHANGED <<mod, opened, capacity, disk, unsaved>>

IoctlUnlink == /\ mod = "in" /\ opened
               /\ Start("free", "ioctl", NoName)
               /\ UNCHANGED <<mod, opened, dev, capacity, disk, unsaved>>

\* Detached, the save is refused with -EFAULT, which changes nothing.
IoctlSave == /\ mod = "in" /\ opened /\ dev.f # NULL /\ dev.data # NULL
             /\ Start("save", "ioctl", NoName)
             /\ UNCHANGED <<mod, opened, dev, capacity, disk, unsaved>>
-----------------------------------------------------------------------------
(***************************************************************************)
(* load_file, from filp_open on (lines 123-156).                           *)
(***************************************************************************)
\* The end of insmod follows whatever load_file returns.
Loaded == IF op.by = "init" THEN Goto("setup") ELSE op' = Done

LoadNotFound == /\ At("open") /\ op.name \notin File
                /\ Loaded
                /\ UNCHANGED <<mod, opened, dev, capacity, disk, unsaved>>

\* The new file replaces the old one and the old image is freed.
LoadOpen == /\ At("open") /\ op.name \in File
            /\ dev' = [dev EXCEPT !.f = op.name, !.ssize = Size[op.name],
                                  !.data = IF @ = NULL THEN NULL ELSE FREED]
            /\ unsaved' = {}
            /\ Goto("alloc")
            /\ UNCHANGED <<mod, opened, capacity, disk>>

LoadAlloc == /\ At("alloc") /\ dev.ssize > 0
             /\ dev' = [dev EXCEPT !.data = [s \in 1..dev.ssize |-> NoVal]]
             /\ Goto("fill")
             /\ UNCHANGED <<mod, opened, capacity, disk, unsaved>>

\* vmalloc failed, or had nothing to allocate: unlink_file.
LoadNoMem == /\ At("alloc")
             /\ dev' = [dev EXCEPT !.data = NULL]
             /\ Goto("free")
             /\ UNCHANGED <<mod, opened, capacity, disk, unsaved>>

\* Mutant of Last: the last sector is left out.
LastButOne(i) == i + 1 >= dev.ssize

\* The loop over the sectors ends.
Last(i) == i >= dev.ssize

\* Mutant of Advanced: the offset handed to vfs_read is a copy.
NotAdvanced(i) == i

\* vfs_read and vfs_write move the offset past the sector.
Advanced(i) == i + 1

\* One vfs_read a turn; requests can come in between.
LoadFill == /\ At("fill")
            /\ IF Last(op.i) THEN Loaded /\ UNCHANGED <<dev, unsaved>>
               ELSE /\ dev' = [dev EXCEPT !.data[op.i + 1] = disk[dev.f][op.i + 1]]
                    /\ unsaved' = unsaved \ {op.i + 1}
                    /\ op' = [op EXCEPT !.i = Advanced(op.i)]
            /\ UNCHANGED <<mod, opened, capacity, disk>>
-----------------------------------------------------------------------------
(***************************************************************************)
(* setup_device after load_file: queue and disk, or unlink_file and -EIO.  *)
(***************************************************************************)
Setup == /\ At("setup")
         /\ \/ /\ capacity' = dev.ssize
               /\ mod' = "in"
               /\ op' = Done
            \/ /\ op' = [op EXCEPT !.pc = "free", !.by = "undo"]
               /\ UNCHANGED <<capacity, mod>>
         /\ UNCHANGED <<opened, dev, disk, unsaved>>
-----------------------------------------------------------------------------
(***************************************************************************)
(* save_file: one vfs_write a turn.                                        *)
(***************************************************************************)
SaveStep == /\ At("save")
            /\ IF Last(op.i)
                 THEN /\ IF op.by = "exit" THEN Goto("free") ELSE op' = Done
                      /\ UNCHANGED <<disk, unsaved>>
                 ELSE /\ disk' = [disk EXCEPT ![dev.f][op.i + 1] = dev.data[op.i + 1]]
                      /\ unsaved' = unsaved \ {op.i + 1}
                      /\ op' = [op EXCEPT !.i = Advanced(op.i)]
            /\ UNCHANGED <<mod, opened, dev, capacity>>
-----------------------------------------------------------------------------
(***************************************************************************)
(* unlink_file: the image is freed and the file closed, which may sleep,   *)
(* before the pointers are cleared.                                        *)
(***************************************************************************)
UnlinkFree == /\ At("free")
              /\ dev' = [dev EXCEPT !.data = IF @ = NULL THEN NULL ELSE FREED]
              /\ unsaved' = {}
              /\ Goto("clear")
              /\ UNCHANGED <<mod, opened, capacity, disk>>

\* Mutant of Unlinked: the size stays.
UnlinkedKeepsSize == [dev EXCEPT !.fname = NoName, !.f = NULL, !.data = NULL]

Unlinked == Bare

\* A load that failed within insmod goes on to set up an empty disk.
UnlinkClear ==
  /\ At("clear")
  /\ dev' = Unlinked
  /\ LET gone == op.by \in {"exit", "undo"}
     IN /\ mod' = IF gone THEN "out" ELSE mod
        /\ capacity' = IF gone THEN 0 ELSE capacity
        /\ Loaded
  /\ UNCHANGED <<opened, disk, unsaved>>
-----------------------------------------------------------------------------
(***************************************************************************)
(* my_request: n sectors from s on, in bounds for the kernel and for the   *)
(* driver (one that is not ends with -EIO and changes nothing).            *)
(***************************************************************************)
Fits(s, n) == s + n <= dev.ssize

Request(s, n) == mod = "in" /\ opened /\ s + n <= capacity /\ Fits(s, n)

RequestWrite(s, n, v) ==
  /\ Request(s, n) /\ Live
  /\ dev' = [dev EXCEPT !.data = [i \in DOMAIN @ |-> IF i \in s+1..s+n THEN v ELSE @[i]]]
  /\ unsaved' = unsaved \cup (s+1..s+n)
  /\ UNCHANGED <<mod, opened, capacity, disk, op>>

\* memcpy on an image that is not there: it is freed, or there is none.
RequestDead(s, n) ==
  /\ Request(s, n) /\ ~Live
  /\ mod' = "dead"
  /\ UNCHANGED <<opened, dev, capacity, disk, op, unsaved>>
-----------------------------------------------------------------------------
OpStep == LoadNotFound \/ LoadOpen \/ LoadAlloc \/ LoadNoMem \/ LoadFill
          \/ Setup \/ SaveStep \/ UnlinkFree \/ UnlinkClear

Sectors == UNION {DOMAIN disk[x] : x \in File}

Next == \/ Open \/ Close
        \/ \E name \in Names : blk_init(name) \/ IoctlLoad(name)
        \/ blk_init_default \/ blk_exit \/ IoctlUnlink \/ IoctlSave
        \/ OpStep
        \/ \E s \in Sectors, n \in Sectors : \/ \E v \in Val : RequestWrite(s - 1, n, v)
                                             \/ RequestDead(s - 1, n)

Spec == Init /\ [][Next]_vars

\* The loader, the ioctl or rmmod keeps running; the files can be read and
\* written (the loops of load_file and save_file retry a failing sector).
FairSpec == Spec /\ WF_vars(OpStep)
-----------------------------------------------------------------------------
\* The medium is in place: no operation is replacing it.
Settled == mod = "in" /\ op.pc \in {"idle", "save"}

(***************************************************************************)
(* Whenever the medium is in place, the driver's pointers and its size     *)
(* belong together: a bound file with an image of just its size, or        *)
(* nothing at all.  Every check of my_request relies on it.  A name that   *)
(* can be opened is that of the bound file; after a load that failed the   *)
(* driver shows the name it could not open.                                *)
(***************************************************************************)
MediumWhole ==
  Settled => /\ dev.fname \in File => dev.f = dev.fname
             /\ IF dev.f = NULL THEN dev.data = NULL /\ dev.ssize = 0
                ELSE /\ dev.ssize = Size[dev.f] /\ dev.ssize > 0
                     /\ Live /\ DOMAIN dev.data = 1..dev.ssize

(***************************************************************************)
(* A sector not written since it was loaded or saved is in the bound file, *)
(* although requests go on while the sectors are saved one by one.         *)
(***************************************************************************)
CleanSectorsInFile ==
  Settled /\ dev.f # NULL =>
    \A s \in 1..dev.ssize \ unsaved : disk[dev.f][s] = dev.data[s]

(***************************************************************************)
(* A request goes wrong only while a medium is being replaced or detached, *)
(* never because of what an earlier operation left behind.                 *)
(***************************************************************************)
OnlySwapKills ==
  [][(mod = "in" /\ mod' = "dead" /\ op'.by # "exit") =>
       op.pc \in {"alloc", "free", "clear"}]_vars

(***************************************************************************)
(* rmmod lets the image go only when all of it is in the file.             *)
(***************************************************************************)
UnloadSavesAll == [][(op.by = "exit" /\ op.pc = "save" /\ op'.pc = "free") =>
                       unsaved = {} /\ dev.data = disk[dev.f]]_vars

(***************************************************************************)
(* Every operation ends: insmod, rmmod and the ioctls return.              *)
(***************************************************************************)
OperationsEnd == (op.pc # "idle") ~> (op.pc = "idle" \/ mod = "dead")

(***************************************************************************)
(* The module can always be removed, after a detach too.                   *)
(***************************************************************************)
UnloadSurvives == op.by = "exit" => mod # "dead"
=============================================================================
