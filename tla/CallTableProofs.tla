-------------------------- MODULE CallTableProofs --------------------------
(***************************************************************************)
(* What holds of CallTable for any number of processes, blocks and texts:  *)
(* the types, the entry of the table, who is inside a slave, and what a    *)
(* call that no other overlapped returns and leaves.                       *)
(***************************************************************************)
EXTENDS CallTable, TLAPS

\* At the start nobody calls and the entry is empty.
LEMMA TypeInit == Init => TypeOK
BY DEF Init, TypeOK, Call, Static, Idle, Fresh, Pc, Value, Texts, Slave

(***************************************************************************)
(* Leaving the call keeps the types of its static data.                    *)
(***************************************************************************)
LEMMA KeptType ==
  ASSUME NEW c \in Caller, NEW data, TypeOK,
         data \in Static
  PROVE  Kept(c, data) \in Static
BY DEF Static, Kept, Fresh, Texts, Slave

\* A process that makes no call.
LEMMA IdleType == Idle \in Call
BY DEF Call, Idle, Pc, Texts, Slave, Value

\* A call that returns leaves everything in its type.
LEMMA LeaveType ==
  ASSUME TypeOK, NEW c \in Caller, Leave(c), CallOnly, slave' \in Slave \cup {"none"}
  PROVE  TypeOK'
<1>1. static' \in Static
  BY KeptType DEF Leave, TypeOK
<1> QED BY <1>1, IdleType DEF Leave, Return, CallOnly, TypeOK

(***************************************************************************)
(* One step of the call keeps the types; that the function called is one   *)
(* of a slave is what OneInside says.                                      *)
(***************************************************************************)
LEMMA CallStepType == ASSUME TypeOK, OneInside, NEW c \in Caller, CallStep(c) PROVE TypeOK'
<1> USE DEF Pc, At, Goto
<1>1. CASE CopyText(c)
  <2> PICK t \in {call[c].text, Empty} :
           /\ static' = [static EXCEPT !.msg = t]
           /\ call' = [call EXCEPT ![c].pc = "choose", ![c].text = t]
    BY <1>1 DEF CopyText
  <2>1. t \in Texts BY DEF TypeOK, Call, Texts
  <2>2. static' \in Static BY <2>1 DEF TypeOK, Static
  <2>3. [call[c] EXCEPT !.pc = "choose", !.text = t] \in Call BY <2>1 DEF TypeOK, Call
  <2>4. call' = [call EXCEPT ![c] = [call[c] EXCEPT !.pc = "choose", !.text = t]]
    BY DEF TypeOK
  <2>5. call' \in [Caller -> Call] BY <2>3, <2>4 DEF TypeOK
  <2> QED BY <1>1, <2>2, <2>5 DEF CopyText, CallOnly, TypeOK
<1>2. CASE Choose(c)
  <2>1. CASE ~Translatable(static.msg.base)
    BY <1>2, <2>1, LeaveType DEF Choose, TypeOK
  <2>2. CASE Translatable(static.msg.base)
    <3>1. static' \in Static
      BY <1>2, <2>2 DEF Choose, Translatable, TypeOK, Static
    <3>2. [call[c] EXCEPT !.pc = "open"] \in Call BY DEF TypeOK, Call
    <3> QED BY <1>2, <2>2, <3>1, <3>2 DEF Choose, CallOnly, TypeOK
  <2> QED BY <2>1, <2>2
<1>3. CASE ReadFile(c)
  <2>1. [call[c] EXCEPT !.pc = "load", !.image = static.name] \in Call
    <3>1. PICK p \in Call, i \in Slave : p = call[c] /\ i = static.name BY DEF TypeOK, Static
    <3>2. [p EXCEPT !.pc = "load", !.image = i] \in Call BY DEF Call, Pc
    <3> QED BY <3>1, <3>2
  <2>2. call' = [call EXCEPT ![c] = [call[c] EXCEPT !.pc = "load", !.image = static.name]]
    BY <1>3 DEF ReadFile, TypeOK
  <2>3. call' \in [Caller -> Call] BY <2>1, <2>2 DEF TypeOK
  <2> QED BY <1>3, <2>3 DEF ReadFile, CallOnly, TypeOK
<1>4. CASE FileFails(c) \/ LoadFails(c)
  BY <1>4, LeaveType DEF FileFails, LoadFails, TypeOK
<1>5. CASE Load(c) BY <1>5, IdleType DEF Load, Idle, CallOnly, TypeOK, Call
<1>6. CASE Find(c) BY <1>6 DEF Find, CallOnly, TypeOK, Call, Static
<1>7. CASE Run(c)
  <2> DEFINE trs == str_translate(static.faddr, static.msg, PrefixLength(static.name))
  <2>1. CASE trs \in {Failed, Negative}
    BY <1>7, <2>1, LeaveType DEF Run, TypeOK
  <2>2. CASE trs \notin {Failed, Negative}
    <3>1. PrefixLength(static.name) \in {0, 1, 2} /\ static.msg \in Texts
      BY DEF PrefixLength, TypeOK, Slave, Static
    <3>2. trs = <<static.faddr, static.msg, PrefixLength(static.name)>>
      BY <2>2 DEF str_translate
    <3>3. static.faddr \in Slave
      BY <1>7 DEF Run, OneInside, Inside, TypeOK
    <3>4. trs \in Value BY <3>1, <3>2, <3>3 DEF Value
    <3>5. call' = [call EXCEPT ![c].pc = "unload", ![c].value = trs]
          /\ UNCHANGED static /\ CallOnly /\ UNCHANGED slave
      BY <1>7, <2>2 DEF Run
    <3> HIDE DEF trs
    <3>6. [call[c] EXCEPT !.pc = "unload", !.value = trs] \in Call BY <3>4 DEF TypeOK, Call
    <3>7. call' = [call EXCEPT ![c] = [call[c] EXCEPT !.pc = "unload", !.value = trs]]
      BY <3>5 DEF TypeOK
    <3>8. call' \in [Caller -> Call] BY <3>6, <3>7 DEF TypeOK
    <3> QED BY <3>5, <3>8 DEF CallOnly, TypeOK
  <2> QED BY <2>1, <2>2
<1>8. CASE Unload(c)
  <2>1. static' \in Static
    <3>1. [static EXCEPT !.suffix = Stripped] \in Static BY DEF TypeOK, Static, Stripped
    <3> QED BY <1>8, <3>1, KeptType DEF Unload, TypeOK
  <2> QED BY <1>8, <2>1, IdleType DEF Unload, Return, CallOnly, TypeOK
<1> QED BY <1>1, <1>2, <1>3, <1>4, <1>5, <1>6, <1>7, <1>8 DEF CallStep

-----------------------------------------------------------------------------
(***************************************************************************)
(* Nobody is in the call unless master is loaded, and whoever is loading   *)
(* or loaded has saved the empty entry.                                    *)
(***************************************************************************)
MasterIn == Busy # {} => mods["master"].at = "in"
SavedVacant == \A m \in Module : mods[m].old = "ni"
Inv == TypeOK /\ SlotIsLive /\ OneInside /\ MasterIn /\ SavedVacant

\* No module is loaded and no slave is there.
LEMMA InvInit == Init => Inv
<1> SUFFICES ASSUME Init PROVE Inv OBVIOUS
<1>1. Busy = {} /\ Inside = {} BY DEF Init, Busy, Inside, Idle
<1> QED BY <1>1, TypeInit DEF Init, Inv, SlotIsLive, OneInside, MasterIn, SavedVacant

(***************************************************************************)
(* The steps on the table; the calls see of them only that master is       *)
(* loaded, when nobody is in the call, and unloaded, when all of them die. *)
(***************************************************************************)
LEMMA TableStep ==
  ASSUME Inv, NEW m \in Module,
         \/ Save(m) \/ SymbolMissing(m) \/ HiddenTests \/ HiddenNoMemory
         \/ (\E b \in Copy : HiddenPatches(b)) \/ RestoreFrees \/ RestorePatches
  PROVE  Inv'
<1> USE CopyAssumption DEF Module
<1>1. TableOnly /\ Busy' = Busy /\ Inside' = Inside
  BY DEF Save, SymbolMissing, HiddenTests, HiddenNoMemory, HiddenPatches, RestoreFrees,
         RestorePatches, TableOnly, Busy, Inside
<1>2. OneInside' BY <1>1 DEF Inv, OneInside, TableOnly, At
<1>3. CASE Save(m)
  BY <1>1, <1>2, <1>3 DEF Save, Vacant, TableOnly, Inv, TypeOK, SlotIsLive, MasterIn, SavedVacant
<1>4. CASE SymbolMissing(m)
  BY <1>1, <1>2, <1>4 DEF SymbolMissing, TableOnly, Inv, TypeOK, SlotIsLive, MasterIn, SavedVacant
<1>5. CASE HiddenTests \/ HiddenNoMemory \/ RestorePatches
  BY <1>1, <1>2, <1>5 DEF HiddenTests, HiddenNoMemory, RestorePatches, TableOnly, Inv, TypeOK,
     SlotIsLive, MasterIn, SavedVacant
<1>6. CASE (\E b \in Copy : HiddenPatches(b)) \/ RestoreFrees
  BY <1>1, <1>2, <1>6 DEF HiddenPatches, RestoreFrees, TableOnly, Inv, TypeOK, SlotIsLive,
     MasterIn, SavedVacant
<1> QED BY <1>3, <1>4, <1>5, <1>6

\* A module patches only an entry that was empty when it looked.
LEMMA PatchStep == ASSUME Inv, NEW m \in Module, Patch(m) PROVE Inv'
<1> USE CopyAssumption DEF Module
<1>1. Busy' = Busy /\ Inside' = Inside BY DEF Patch, Busy, Inside
<1>2. Fresh \in Static BY DEF Fresh, Static, Texts, Slave
<1>8. TypeOK' BY <1>2 DEF Patch, Inv, TypeOK
<1>3. SlotIsLive' /\ SavedVacant' BY DEF Patch, Inv, TypeOK, SlotIsLive, SavedVacant
<1>4. MasterIn' BY <1>1 DEF Patch, Inv, TypeOK, MasterIn
<1>5. m = "master" => Busy = {} BY DEF Patch, Inv, MasterIn
<1>6. Inside \subseteq Busy BY DEF Inside, Busy
<1>7. OneInside' BY <1>1, <1>5, <1>6 DEF Patch, Inv, OneInside, At
<1> QED BY <1>8, <1>3, <1>4, <1>7 DEF Inv

\* A module puts back the empty entry it saved.
LEMMA UnpatchStep == ASSUME Inv, NEW m \in Module, Unpatch(m) PROVE Inv'
<1> USE CopyAssumption DEF Module
<1>1. slot' = "ni" BY DEF Unpatch, Inv, SavedVacant
<1>2. ASSUME NEW c \in Caller PROVE Dead(call[c]) \in Call
  <2>1. [Idle EXCEPT !.pc = "dead"] \in Call BY IdleType DEF Call, Pc
  <2> QED BY <2>1 DEF Dead, Inv, TypeOK
<1>3. TypeOK' BY <1>1, <1>2 DEF Unpatch, Inv, TypeOK
<1>4. SlotIsLive' /\ SavedVacant' BY <1>1 DEF Unpatch, Inv, TypeOK, SlotIsLive, SavedVacant
<1>5. CASE m = "master"
  <2>1. \A c \in Caller : call'[c].pc \in {"idle", "dead"}
    BY <1>5 DEF Unpatch, Dead, Idle
  <2>2. Busy' = {} /\ Inside' = {} BY <2>1 DEF Busy, Inside
  <2> QED BY <1>3, <1>4, <2>2 DEF Inv, MasterIn, OneInside
<1>6. CASE m = "add"
  <2>1. Busy' = Busy /\ Inside' = Inside BY <1>6 DEF Unpatch, Busy, Inside
  <2> QED BY <1>3, <1>4, <1>6, <2>1 DEF Unpatch, Inv, TypeOK, MasterIn, OneInside, At
<1> QED BY <1>5, <1>6

(***************************************************************************)
(* The steps of the call.  A slave is loaded only when there is none, so   *)
(* when nobody is inside; only one who is inside unloads it.               *)
(***************************************************************************)
LEMMA CallsLeaveTable == ASSUME NEW c \in Caller, CallStep(c) PROVE CallOnly
<1>1. CASE CopyText(c) BY <1>1 DEF CopyText
<1>2. CASE Run(c) BY <1>2 DEF Run
<1> QED
  BY <1>1, <1>2 DEF CallStep, Choose, ReadFile, FileFails, Load, LoadFails, Find, Unload

\* A new call is not inside the slave yet.
LEMMA EnterStep == ASSUME Inv, NEW c \in Caller, NEW t \in Text, Enter(c, t) PROVE Inv'
<1>1. call' = [d \in Caller |-> IF d = c THEN Entered(t) ELSE Overlapped(d)]
  BY DEF Enter
<1>2. Entered(t) \in Call
  <2> DEFINE nobody == Busy = {}
  <2>1. nobody \in BOOLEAN OBVIOUS
  <2>2. t \in Texts BY DEF Texts
  <2>3. Entered(t) = [Idle EXCEPT !.pc = "copy", !.text = t, !.alone = nobody] BY DEF Entered
  <2> HIDE DEF nobody
  <2> QED BY <2>1, <2>2, <2>3, IdleType DEF Call, Pc
<1>3. ASSUME NEW d \in Caller
      PROVE  Overlapped(d) \in Call /\ Overlapped(d).pc = call[d].pc
  <2> DEFINE unshared == call[d].alone /\ d \notin Busy
  <2>1. unshared \in BOOLEAN OBVIOUS
  <2>2. Overlapped(d) = [call[d] EXCEPT !.alone = unshared] BY DEF Overlapped
  <2> HIDE DEF unshared
  <2> QED BY <2>1, <2>2 DEF Inv, TypeOK, Call
<1>4. Entered(t).pc = "copy" BY DEF Entered, Idle
<1>5. call[c].pc = "idle" /\ slot = "master" BY DEF Enter, At
<1>6. call' \in [Caller -> Call] BY <1>1, <1>2, <1>3
<1>7. \A d \in Caller : call'[d].pc = (IF d = c THEN "copy" ELSE call[d].pc)
  BY <1>1, <1>3, <1>4
<1>8. CallOnly /\ UNCHANGED <<slave, static>> BY DEF Enter
<1>9. TypeOK' BY <1>6, <1>8 DEF Inv, TypeOK, CallOnly
<1>10. mods["master"].at = "in" BY <1>5, CopyAssumption DEF Inv, SlotIsLive, TypeOK, Module
<1>11. Inside' = Inside /\ c \notin Inside BY <1>5, <1>7 DEF Inside
<1>12. OneInside' BY <1>7, <1>8, <1>11 DEF Inv, OneInside, At, Inside
<1> QED BY <1>8, <1>9, <1>10, <1>12 DEF CallOnly, Inv, SlotIsLive, MasterIn, SavedVacant

\* What one step of c does to those who are inside.
LEMMA CallStepInside == ASSUME Inv, NEW c \in Caller, CallStep(c) PROVE OneInside'
<1> USE DEF Inv, TypeOK, At, Goto, Return, Leave
<1>1. ASSUME NEW d \in Caller, d # c PROVE call'[d] = call[d]
  BY <1>1 DEF CallStep, CopyText, Choose, ReadFile, FileFails, Load, LoadFails, Find, Run, Unload
<1>2. CASE CopyText(c) \/ Choose(c) \/ ReadFile(c) \/ FileFails(c) \/ LoadFails(c)
  <2>1. c \notin Inside /\ slave' = slave
    BY <1>2 DEF CopyText, Choose, ReadFile, FileFails, LoadFails, Inside
  <2>3. call'[c].pc \in {"idle", "choose", "open", "load"}
    <3>1. CASE CopyText(c) BY <3>1 DEF CopyText, Call
    <3>2. CASE Choose(c) \/ FileFails(c) \/ LoadFails(c)
      BY <3>2 DEF Choose, FileFails, LoadFails, Idle, Call
    <3>3. CASE ReadFile(c) BY <3>3 DEF ReadFile, Call
    <3> QED BY <1>2, <3>1, <3>2, <3>3
  <2>4. Inside' = Inside BY <1>1, <2>1, <2>3 DEF Inside
  <2>5. Kept(c, static).faddr = static.faddr BY DEF Kept, Fresh, Static
  <2>2. static'.faddr = static.faddr
    <3>1. CASE CopyText(c) BY <3>1 DEF CopyText, Static
    <3>2. CASE Choose(c) BY <3>2, <2>5 DEF Choose, Static
    <3>3. CASE ReadFile(c) BY <3>3 DEF ReadFile
    <3>4. CASE FileFails(c) \/ LoadFails(c) BY <3>4, <2>5 DEF FileFails, LoadFails
    <3> QED BY <1>2, <3>1, <3>2, <3>3, <3>4
  <2> QED BY <1>1, <2>1, <2>2, <2>4 DEF OneInside, Inside
<1>3. CASE Load(c)
  <2>1. Inside = {} BY <1>3 DEF Load, OneInside
  <2>2. Inside' = {c} BY <1>1, <1>3, <2>1 DEF Load, Inside
  <2> QED BY <1>3, <2>2 DEF Load, OneInside, Slave, Call
<1>4. CASE Find(c)
  <2>1. c \in Inside BY <1>4 DEF Find, Inside
  <2>2. Inside = {c} /\ slave # "none" BY <2>1 DEF OneInside, Inside
  <2>3. Inside' = {c} BY <1>1, <1>4, <2>2 DEF Find, Inside
  <2> QED BY <1>4, <2>2, <2>3 DEF Find, OneInside
<1>5. CASE Run(c) \/ Unload(c)
  <2>1. c \in Inside BY <1>5 DEF Run, Unload, Inside
  <2>2. Inside = {c} /\ slave # "none" BY <2>1 DEF OneInside, Inside
  <2>3. \A d \in Inside' : d = c BY <1>1, <2>2 DEF Inside
  <2>4. CASE Run(c)
    <3>1. slave' = slave BY <2>4 DEF Run
    <3>2. call'[c].pc # "run" BY <2>4 DEF Run, Idle, Call
    <3> QED BY <2>2, <2>3, <3>1, <3>2 DEF OneInside
  <2>5. CASE Unload(c)
    <3>1. c \notin Inside' BY <2>5 DEF Unload, Inside, Idle
    <3> QED BY <2>3, <3>1 DEF OneInside
  <2> QED BY <1>5, <2>4, <2>5
<1> QED BY <1>2, <1>3, <1>4, <1>5 DEF CallStep

\* A step of a call leaves the entry alone and keeps the slave to one.
LEMMA CallStepInv == ASSUME Inv, NEW c \in Caller, CallStep(c) PROVE Inv'
<1>1. CallOnly BY CallsLeaveTable
<1>2. call[c].pc \notin {"idle", "dead"}
  BY DEF CallStep, CopyText, Choose, ReadFile, FileFails, Load, LoadFails, Find, Run, Unload, At
<1>3. mods["master"].at = "in" BY <1>2 DEF Inv, MasterIn, Busy
<1>4. SlotIsLive' /\ MasterIn' /\ SavedVacant'
  BY <1>1, <1>3 DEF CallOnly, Inv, SlotIsLive, MasterIn, SavedVacant
<1>5. TypeOK' BY CallStepType DEF Inv
<1> QED BY <1>4, <1>5, CallStepInside DEF Inv

\* A slave that is removed by hand has nobody inside.
LEMMA RemoveStep == ASSUME Inv, RemoveSlave PROVE Inv'
<1>1. Inside = {} /\ Inside' = {} BY DEF RemoveSlave, Busy, Inside
<1> QED BY <1>1 DEF RemoveSlave, CallOnly, Inv, TypeOK, SlotIsLive, OneInside, MasterIn,
                    SavedVacant, Busy

\* The invariant holds in every behaviour.
LEMMA InvAlways == Spec => []Inv
<1>1. ASSUME Inv, Next PROVE Inv'
  BY <1>1, TableStep, PatchStep, UnpatchStep, EnterStep, CallStepInv, RemoveStep DEF Next, Module
<1>2. ASSUME Inv, UNCHANGED vars PROVE Inv'
  BY <1>2 DEF vars, Inv, TypeOK, SlotIsLive, OneInside, Inside, MasterIn, Busy, SavedVacant, At
<1>3. Inv /\ [Next]_vars => Inv' BY <1>1, <1>2
<1> QED BY InvInit, <1>3, PTL DEF Spec
-----------------------------------------------------------------------------
(***************************************************************************)
(* The types: in particular the function that is called is one of a slave. *)
(***************************************************************************)
THEOREM TypeCorrect == Spec => []TypeOK
<1>1. Inv => TypeOK BY DEF Inv
<1> QED BY InvAlways, <1>1, PTL

(***************************************************************************)
(* The entry never names code that is gone, however the loads and unloads  *)
(* of the four modules overlap.                                            *)
(***************************************************************************)
THEOREM EntryLive == Spec => []SlotIsLive
<1>1. Inv => SlotIsLive BY DEF Inv
<1> QED BY InvAlways, <1>1, PTL

(***************************************************************************)
(* The name all slaves export excludes all but one process from the slave, *)
(* and the slave is there while that process calls it.                     *)
(***************************************************************************)
THEOREM OneInSlave == Spec => []OneInside
<1>1. Inv => OneInside BY DEF Inv
<1> QED BY InvAlways, <1>1, PTL
-----------------------------------------------------------------------------
(***************************************************************************)
(* A call that no other overlapped has the static data to itself: what it  *)
(* left there it finds again.                                              *)
(***************************************************************************)
Knows(c) ==
  /\ call[c].pc \in {"choose", "open", "load", "find", "run", "unload"} =>
       static.msg = call[c].text
  /\ call[c].pc \in {"open", "load", "find", "run", "unload"} =>
       call[c].text.base \in Slave /\ static.name = call[c].text.base
  /\ At(c, "load") => call[c].image = static.name
  /\ call[c].pc \in {"find", "run", "unload"} => slave = static.name
  /\ At(c, "unload") =>
       call[c].value = <<static.name, call[c].text, PrefixLength(static.name)>>
AloneKnows == \A c \in Busy : call[c].alone => Busy = {c} /\ Knows(c)

\* Steps that leave the calls, their data and the slave alone.
LEMMA AloneElsewhere ==
  ASSUME AloneKnows, UNCHANGED <<slave, static, call>>
  PROVE  AloneKnows'
<1>1. Busy' = Busy BY DEF Busy
<1> QED BY <1>1 DEF AloneKnows, Knows, At

\* Nobody is in the call.
LEMMA NobodyAlone == ASSUME Busy' = {} PROVE AloneKnows'
BY DEF AloneKnows

\* A call begins.  One that was there is not alone any more.
LEMMA AloneEnter == ASSUME Inv, NEW c \in Caller, NEW t \in Text, Enter(c, t) PROVE AloneKnows'
<1>1. /\ call[c].pc = "idle"
      /\ call' = [d \in Caller |-> IF d = c THEN Entered(t) ELSE Overlapped(d)]
  BY DEF Enter, At
<1>2. call'[c].pc = "copy" /\ call'[c].alone = (Busy = {}) BY <1>1 DEF Entered, Idle
<1>3. ASSUME NEW d \in Caller, d # c
      PROVE  call'[d].pc = call[d].pc /\ (call'[d].alone => d \notin Busy)
  <2>1. call'[d] = [call[d] EXCEPT !.alone = call[d].alone /\ d \notin Busy]
    BY <1>1, <1>3 DEF Overlapped
  <2>2. call[d] \in Call BY DEF Inv, TypeOK
  <2> QED BY <2>1, <2>2, Zenon DEF Call
<1>4. ASSUME NEW d \in Busy', call'[d].alone PROVE d = c
  BY <1>3, <1>4 DEF Busy
<1>5. ASSUME call'[c].alone PROVE Busy' = {c}
  <2>1. Busy = {} BY <1>2, <1>5
  <2> QED BY <1>2, <1>3, <2>1 DEF Busy
<1>6. Knows(c)' BY <1>2 DEF Knows, At
<1> QED BY <1>4, <1>5, <1>6 DEF AloneKnows

\* Only the call that is alone steps on.
LEMMA OnlyTheAlone ==
  ASSUME Inv, AloneKnows, NEW c \in Caller, CallStep(c), Knows(c) /\ call[c].alone => Knows(c)'
  PROVE  AloneKnows'
<1>1. c \in Busy /\ \A d \in Caller \ {c} : call'[d] = call[d]
  <2>1. c \in Busy
    BY DEF CallStep, CopyText, Choose, ReadFile, FileFails, Load, LoadFails, Find, Run, Unload, At, Busy
  <2>2. ASSUME NEW d \in Caller, d # c PROVE call'[d] = call[d]
    BY <2>2 DEF CallStep, CopyText, Choose, ReadFile, FileFails, Load, LoadFails, Find, Run, Unload,
                Inv, TypeOK, Goto, Return, Leave
  <2> QED BY <2>1, <2>2
<1>2. call'[c].pc # "idle" => call'[c].alone = call[c].alone
  <2> USE DEF Inv, TypeOK, Call, Goto, Return, Leave, Idle
  <2>1. CASE CopyText(c) BY <2>1 DEF CopyText
  <2>2. CASE Choose(c) \/ ReadFile(c) \/ FileFails(c)
    BY <2>2 DEF Choose, ReadFile, FileFails
  <2>3. CASE Load(c) \/ LoadFails(c) \/ Find(c) BY <2>3 DEF Load, LoadFails, Find
  <2>4. CASE Run(c) \/ Unload(c) BY <2>4 DEF Run, Unload
  <2> QED BY <2>1, <2>2, <2>3, <2>4 DEF CallStep
<1> SUFFICES ASSUME NEW d \in Busy', call'[d].alone PROVE Busy' = {d} /\ Knows(d)'
  BY DEF AloneKnows
<1>3. d = c
  <2> SUFFICES ASSUME d # c PROVE FALSE OBVIOUS
  <2>1. d \in Caller /\ call'[d] = call[d] /\ d \in Busy BY <1>1 DEF Busy
  <2>2. Busy = {d} BY <2>1 DEF AloneKnows
  <2> QED BY <1>1, <2>2
<1>4. call[c].alone BY <1>2, <1>3 DEF Busy
<1>5. Busy = {c} /\ Knows(c) BY <1>1, <1>4 DEF AloneKnows
<1>6. Busy' = {c} BY <1>1, <1>3, <1>5 DEF Busy
<1>7. Knows(c)' BY <1>4, <1>5
<1> QED BY <1>3, <1>6, <1>7

\* What a call that is alone knows after each of its steps.
LEMMA CallKnows ==
  ASSUME Inv, NEW c \in Caller, CallStep(c), Knows(c)
  PROVE  Knows(c)'
<1> USE DEF At
<1>1. TypeOK /\ OneInside /\ call[c] \in Call /\ static \in Static
  BY DEF Inv, TypeOK
<1>2. ASSUME call'[c] = Idle PROVE Knows(c)'
  BY <1>2 DEF Knows, Idle
<1>3. ASSUME Leave(c) PROVE Knows(c)'
  <2>1. call'[c] = Idle BY <1>1, <1>3 DEF Leave, Return, TypeOK
  <2> QED BY <1>2, <2>1
<1>4. CASE CopyText(c)
  <2>1. PICK t \in {call[c].text, Empty} :
           /\ static' = [static EXCEPT !.msg = t]
           /\ call' = [call EXCEPT ![c].pc = "choose", ![c].text = t]
    BY <1>4 DEF CopyText
  <2>2. call'[c].pc = "choose" /\ call'[c].text = t /\ static'.msg = t
    BY <1>1, <2>1 DEF TypeOK, Call, Static
  <2> QED BY <2>2 DEF Knows
<1>5. CASE Choose(c) /\ static.msg.base \in Slave
  <2>1. /\ call'[c].pc = "open" /\ call'[c].text = call[c].text
        /\ static'.msg = static.msg /\ static'.name = static.msg.base
    <3>1. /\ call' = [call EXCEPT ![c].pc = "open"]
          /\ static' = [static EXCEPT !.name = static.msg.base, !.suffix = TRUE]
      BY <1>5 DEF Choose, Translatable, Goto
    <3>2. call'[c].pc = "open" /\ call'[c].text = call[c].text BY <1>1, <3>1 DEF TypeOK, Call
    <3>3. static'.msg = static.msg /\ static'.name = static.msg.base BY <1>1, <3>1 DEF Static
    <3> QED BY <3>2, <3>3
  <2>2. static.msg = call[c].text BY <1>5 DEF Choose, Knows
  <2> QED BY <1>5, <2>1, <2>2 DEF Knows
<1>6. CASE ReadFile(c)
  <2>1. /\ call'[c].pc = "load" /\ call'[c].text = call[c].text /\ call'[c].image = static.name
        /\ static' = static
    BY <1>1, <1>6 DEF ReadFile, TypeOK, Call
  <2>2. call[c].pc = "open" BY <1>6 DEF ReadFile
  <2> QED BY <2>1, <2>2 DEF Knows
<1>7. CASE Load(c)
  <2>1. /\ call'[c].pc = "find" /\ call'[c].text = call[c].text
        /\ static' = static /\ slave' = call[c].image /\ call[c].pc = "load"
    BY <1>1, <1>7 DEF Load, TypeOK, Call
  <2> QED BY <2>1 DEF Knows
<1>8. CASE Find(c)
  <2>1. /\ call'[c].pc = "run" /\ call'[c].text = call[c].text /\ slave' = slave
        /\ static'.msg = static.msg /\ static'.name = static.name /\ call[c].pc = "find"
    BY <1>1, <1>8 DEF Find, Goto, TypeOK, Call, Static
  <2> QED BY <2>1 DEF Knows
<1>9. CASE Run(c)
  <2> DEFINE trs == str_translate(static.faddr, static.msg, PrefixLength(static.name))
  <2>1. call[c].pc = "run" /\ CallOnly /\ slave' = slave BY <1>9 DEF Run
  <2>2. CASE trs \in {Failed, Negative} BY <1>3, <1>9, <2>2 DEF Run
  <2>3. CASE trs \notin {Failed, Negative}
    <3>1. trs = <<static.faddr, static.msg, PrefixLength(static.name)>>
      BY <2>3 DEF str_translate
    <3>2. static.faddr = slave BY <1>1, <2>1 DEF OneInside, Inside
    <3>3. static.msg = call[c].text /\ slave = static.name BY <2>1 DEF Knows
    <3>4. call' = [call EXCEPT ![c].pc = "unload", ![c].value = trs] /\ static' = static
      BY <1>9, <2>3 DEF Run
    <3>5. PICK v : v = trs OBVIOUS
    <3>6. v = <<static.name, call[c].text, PrefixLength(static.name)>>
      BY <3>1, <3>2, <3>3, <3>5
    <3>7. call' = [call EXCEPT ![c].pc = "unload", ![c].value = v] BY <3>4, <3>5
    <3> HIDE DEF trs
    <3>8. call'[c].pc = "unload" /\ call'[c].text = call[c].text /\ call'[c].value = v
      BY <1>1, <3>7 DEF TypeOK, Call
    <3> QED BY <2>1, <3>4, <3>6, <3>8 DEF Knows
  <2> QED BY <2>2, <2>3
<1>10. CASE Unload(c)
  <2>1. call'[c] = Idle BY <1>1, <1>10 DEF Unload, Return, TypeOK
  <2> QED BY <1>2, <2>1
<1>11. CASE (Choose(c) /\ static.msg.base \notin Slave) \/ FileFails(c) \/ LoadFails(c)
  BY <1>3, <1>11 DEF Choose, Translatable, FileFails, LoadFails
<1> QED BY <1>4, <1>5, <1>6, <1>7, <1>8, <1>9, <1>10, <1>11 DEF CallStep

\* Each step keeps what a call that nobody overlapped knows.
LEMMA AloneStep == ASSUME Inv, AloneKnows, [Next]_vars PROVE AloneKnows'
<1>1. CASE UNCHANGED <<slave, static, call>> BY <1>1, AloneElsewhere
<1>2. CASE Patch("master")
  <2>1. Busy = {} BY <1>2 DEF Patch, Inv, MasterIn
  <2>2. Busy' = {} BY <1>2, <2>1 DEF Patch, Busy
  <2> QED BY <2>2, NobodyAlone
<1>3. CASE Unpatch("master")
  <2>1. \A c \in Caller : call'[c].pc \in {"idle", "dead"} BY <1>3 DEF Unpatch, Dead, Idle
  <2> QED BY <2>1, NobodyAlone DEF Busy
<1>4. CASE RemoveSlave
  <2>1. Busy' = {} BY <1>4 DEF RemoveSlave, Busy
  <2> QED BY <2>1, NobodyAlone
<1>5. CASE \E c \in Caller : CallStep(c) BY <1>5, OnlyTheAlone, CallKnows
<1>6. CASE \E c \in Caller, t \in Text : Enter(c, t) BY <1>6, AloneEnter
<1>7. CASE \E m \in Module : Save(m) \/ SymbolMissing(m)
  BY <1>1, <1>7 DEF Save, SymbolMissing, TableOnly
<1>8. CASE \/ HiddenTests \/ HiddenNoMemory \/ (\E b \in Copy : HiddenPatches(b))
           \/ RestoreFrees \/ RestorePatches
  BY <1>1, <1>8 DEF HiddenTests, HiddenNoMemory, HiddenPatches, RestoreFrees, RestorePatches, TableOnly
<1>9. CASE \E m \in {"add"} : Patch(m) \/ Unpatch(m) BY <1>1, <1>9 DEF Patch, Unpatch
<1>10. CASE UNCHANGED vars BY <1>1, <1>10 DEF vars
<1> QED BY <1>2, <1>3, <1>4, <1>5, <1>6, <1>7, <1>8, <1>9, <1>10 DEF Next, Module

\* A call that nobody overlapped finds what it left, always.
LEMMA AloneAlways == Spec => []AloneKnows
<1>1. Init => AloneKnows
  <2>1. Init => Busy = {} BY DEF Init, Busy, Idle
  <2> QED BY <2>1 DEF AloneKnows
<1>2. Inv /\ AloneKnows /\ [Next]_vars => AloneKnows' BY AloneStep
<1> QED BY InvAlways, <1>1, <1>2, PTL DEF Spec

(***************************************************************************)
(* A call that no other overlapped returns the value of the text it was    *)
(* given, by the slave of its base and without its prefix, for any texts   *)
(* and any number of processes: what the static data hold between two of   *)
(* its steps is what the step before left there.                           *)
(***************************************************************************)
THEOREM AloneTranslatesItsOwn == Spec => []OwnTranslation
<1>1. AloneKnows => OwnTranslation
  <2> SUFFICES ASSUME AloneKnows, NEW c \in Caller, At(c, "unload"), call[c].alone
               PROVE  LET t == call[c].text
                      IN call[c].value = <<t.base, t, CASE t.base = "dec" -> 0 [] t.base = "oct" -> 1
                                                        [] t.base = "hex" -> 2>>
    BY DEF OwnTranslation
  <2>1. Knows(c) BY DEF AloneKnows, Busy, At
  <2>2. static.name = call[c].text.base BY <2>1 DEF Knows, At
  <2>3. call[c].value = <<call[c].text.base, call[c].text, PrefixLength(call[c].text.base)>>
    BY <2>1, <2>2 DEF Knows
  <2> QED BY <2>3 DEF PrefixLength
<1> QED BY AloneAlways, <1>1, PTL

(***************************************************************************)
(* And it unloads the slave it loaded, whose name is still in the shared   *)
(* buffer.                                                                 *)
(***************************************************************************)
THEOREM AloneUnloadsItsSlave == Spec => TranslatedUnloads
<1>1. ASSUME Inv, AloneKnows, Next, NEW c \in Caller, At(c, "unload"), At(c, "idle")', call[c].alone
      PROVE  slave' = "none"
  <2>1. c \in Busy BY <1>1 DEF Busy, At
  <2>2. Busy = {c} /\ slave = static.name BY <1>1, <2>1 DEF AloneKnows, Knows, At
  <2>3. call'[c] # call[c] BY <1>1 DEF At
  <2>4. CASE \E d \in Caller : CallStep(d)
    <3>1. PICK d \in Caller : CallStep(d) BY <2>4
    <3>2. d \in Busy
      BY <3>1 DEF CallStep, CopyText, Choose, ReadFile, FileFails, Load, LoadFails, Find, Run,
                  Unload, At, Busy
    <3>3. d = c BY <2>2, <3>2
    <3>4. Unload(c)
      BY <1>1, <3>1, <3>3 DEF CallStep, CopyText, Choose, ReadFile, FileFails, Load, LoadFails,
                              Find, Run, At
    <3> QED BY <2>2, <3>4 DEF Unload, Stripped
  <2>5. CASE \E m \in Module : Unpatch(m)
    BY <1>1, <2>3, <2>5 DEF Unpatch, Dead, At
  <2>6. CASE \E d \in Caller, t \in Text : Enter(d, t)
    <3>1. PICK d \in Caller, t \in Text : Enter(d, t) BY <2>6
    <3>2. d # c BY <1>1, <3>1 DEF Enter, At
    <3>3. call'[c] = [call[c] EXCEPT !.alone = call[c].alone /\ c \notin Busy]
      BY <3>1, <3>2 DEF Enter, Overlapped
    <3>4. call[c] \in Call BY <1>1 DEF Inv, TypeOK
    <3>5. call'[c].pc = call[c].pc BY <3>3, <3>4, Zenon DEF Call
    <3> QED BY <1>1, <3>5 DEF At
  <2>7. ~ RemoveSlave BY <2>2 DEF RemoveSlave
  <2>8. ~ UNCHANGED call BY <2>3
  <2> QED BY <1>1, <2>4, <2>5, <2>6, <2>7, <2>8
          DEF Next, Save, SymbolMissing, Patch, HiddenTests, HiddenNoMemory, HiddenPatches,
              RestoreFrees, RestorePatches, TableOnly
<1>2. Inv /\ AloneKnows /\ [Next]_vars =>
        [\A c \in Caller : At(c, "unload") /\ At(c, "idle")' /\ call[c].alone => slave' = "none"]_vars
  BY <1>1
<1> QED BY InvAlways, AloneAlways, <1>2, PTL DEF Spec, TranslatedUnloads
=============================================================================
