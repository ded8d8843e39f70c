------------------------------ MODULE CallTable ------------------------------
(***************************************************************************)
(* Entry 223 of the system call table and those who compete for it: the    *)
(* modules add-sys and plugin master, whose handlers live in the module,   *)
(* and hidden, which copies its handler into memory of its own and leaves; *)
(* restore undoes hidden.  Behind the entry of plugin master: the call     *)
(* that loads a slave module to translate a text, runs it and unloads it.  *)
(* Several processes make this call; its working data are static.  A step  *)
(* ends where the code may sleep.                                          *)
(***************************************************************************)
EXTENDS Naturals

CONSTANTS Caller,  \* processes that make the call
          Copy,    \* blocks kmalloc may give to hidden
          Text,    \* the texts: [base, digit (the greatest), negative (as an int)]
          Empty    \* the text without characters

ASSUME CopyAssumption == Copy \cap {"ni", "idle", "add", "master"} = {}

Module == {"add", "master"}
Slave  == {"dec", "oct", "hex"}

VARIABLES slot,     \* sys_call_table[223]: "ni", a module or a copy
          mods,     \* of each module: how far it is loaded, old_sys_addr
          copies,   \* blocks hidden has allocated and nobody has freed
          hidden,   \* the insmod of hidden in progress
          restore,  \* the insmod of restore in progress: what it has freed
          slave,    \* the slave module that is loaded
          static,   \* buf_msg, mod_file (with it par1), faddr of find_sym
          call      \* the call each process is in

vars == <<slot, mods, copies, hidden, restore, slave, static, call>>

\* Outcomes of a call that are not a value.
NoValue == <<"none">>
Failed == <<"error">>
Negative == <<"negative">>

Fresh == [msg |-> Empty, name |-> "dec", suffix |-> FALSE, faddr |-> "kernel"]
Idle  == [pc |-> "idle", text |-> Empty, image |-> "dec", value |-> NoValue, alone |-> TRUE]

Init == /\ slot = "ni" /\ mods = [m \in Module |-> [at |-> "out", old |-> "ni"]]
        /\ copies = {} /\ hidden = "idle" /\ restore = "idle"
        /\ slave = "none" /\ static = Fresh
        /\ call = [c \in Caller |-> Idle]
-----------------------------------------------------------------------------
(***************************************************************************)
(* The modules that keep their handler.  The entry is read once, compared  *)
(* with sys_ni_syscall, and written later; rmmod writes back what was read *)
(* and waits for nobody who is still inside the handler.                   *)
(***************************************************************************)
TableOnly == UNCHANGED <<slave, static, call>>

\* Mutant of Vacant: whatever is in the entry is saved, to be put back.
VacantNot == TRUE
Vacant == slot = "ni"

Save(m) == /\ mods[m].at = "out" /\ Vacant
           /\ mods' = [mods EXCEPT ![m] = [at |-> "loading", old |-> slot]]
           /\ UNCHANGED <<slot, copies, hidden, restore>> /\ TableOnly

SymbolMissing(m) == /\ mods[m].at = "loading"
                    /\ mods' = [mods EXCEPT ![m].at = "out"]
                    /\ UNCHANGED <<slot, copies, hidden, restore>> /\ TableOnly

Patch(m) == /\ mods[m].at = "loading"
            /\ mods' = [mods EXCEPT ![m].at = "in"]
            /\ slot' = m
            /\ static' = IF m = "master" THEN Fresh ELSE static
            /\ UNCHANGED <<copies, hidden, restore, slave, call>>

Dead(cl) == IF cl.pc = "idle" THEN cl ELSE [Idle EXCEPT !.pc = "dead"]

Unpatch(m) == /\ mods[m].at = "in"
              /\ mods' = [mods EXCEPT ![m].at = "out"]
              /\ slot' = mods[m].old
              /\ call' = IF m = "master" THEN [c \in Caller |-> Dead(call[c])] ELSE call
              /\ UNCHANGED <<copies, hidden, restore, slave, static>>

(***************************************************************************)
(* hidden and restore do their work in module_init and refuse to stay.     *)
(***************************************************************************)
HiddenTests == /\ hidden = "idle" /\ Vacant
               /\ hidden' = "vacant"
               /\ UNCHANGED <<slot, mods, copies, restore>> /\ TableOnly

HiddenPatches(b) == /\ hidden = "vacant" /\ b \notin copies
                    /\ copies' = copies \cup {b}
                    /\ slot' = b /\ hidden' = "idle"
                    /\ UNCHANGED <<mods, restore>> /\ TableOnly

HiddenNoMemory == /\ hidden = "vacant"
                  /\ hidden' = "idle"
                  /\ UNCHANGED <<slot, mods, copies, restore>> /\ TableOnly

\* It frees whatever it finds: the handler of a module is no memory of
\* kmalloc, the kernel stops there, and no step of the model follows.
RestoreFrees == /\ restore = "idle" /\ slot \in Copy
                /\ restore' = slot
                /\ copies' = copies \ {slot}
                /\ UNCHANGED <<slot, mods, hidden>> /\ TableOnly

RestorePatches == /\ restore # "idle"
                  /\ slot' = "ni" /\ restore' = "idle"
                  /\ UNCHANGED <<mods, copies, hidden>> /\ TableOnly
-----------------------------------------------------------------------------
(***************************************************************************)
(* The call of plugin master.                                              *)
(***************************************************************************)
CallOnly == UNCHANGED <<slot, mods, copies, hidden, restore>>
Busy  == {c \in Caller : call[c].pc \notin {"idle", "dead"}}
At(c, pc) == call[c].pc = pc
Goto(c, pc) == call' = [call EXCEPT ![c].pc = pc]
Return(c) == call' = [call EXCEPT ![c] = Idle]

\* Of the static data the next call reads faddr only, if nobody is left in this.
Kept(c, data) == IF Busy = {c} THEN [Fresh EXCEPT !.faddr = data.faddr] ELSE data
Leave(c) == Return(c) /\ static' = Kept(c, static)

Entered(t) == [Idle EXCEPT !.pc = "copy", !.text = t, !.alone = (Busy = {})]
Overlapped(d) == [call[d] EXCEPT !.alone = @ /\ d \notin Busy]
Enter(c, t) == /\ slot = "master" /\ At(c, "idle")
               /\ call' = [d \in Caller |-> IF d = c THEN Entered(t) ELSE Overlapped(d)]
               /\ CallOnly /\ UNCHANGED <<slave, static>>

\* A fault is not looked at; the kernel has zeroed the buffer.
CopyText(c) == /\ At(c, "copy")
               /\ \E t \in {call[c].text, Empty} :
                    /\ static' = [static EXCEPT !.msg = t]
                    /\ call' = [call EXCEPT ![c].pc = "choose", ![c].text = t]
               /\ CallOnly /\ UNCHANGED slave

\* Mutant of PrefixLength: two characters, whatever the prefix.
PrefixLengthTwo(base) == IF base = "dec" THEN 0 ELSE 2
\* "", "0" or "0x"; it is ind, the number of the slave as well.
PrefixLength(base) == CASE base = "dec" -> 0 [] base = "oct" -> 1 [] base = "hex" -> 2

\* Mutant of Translatable: any first character will do.
TranslatableAll(base) == TRUE
Translatable(base) == base \in Slave

Choose(c) == /\ At(c, "choose")
             /\ LET base == static.msg.base
                IN IF ~Translatable(base)
                   THEN Leave(c)
                   ELSE /\ static' = [static EXCEPT !.name = base, !.suffix = TRUE]
                        /\ Goto(c, "open")
             /\ CallOnly /\ UNCHANGED slave

\* There are files dec.ko, oct.ko and hex.ko, none without the suffix.
ReadFile(c) == /\ At(c, "open") /\ static.suffix
               /\ call' = [call EXCEPT ![c].pc = "load", ![c].image = static.name]
               /\ CallOnly /\ UNCHANGED <<slave, static>>
FileFails(c) == /\ At(c, "open")
                /\ Leave(c) /\ CallOnly /\ UNCHANGED slave

\* All slaves export str_translate: none is loaded beside another.
Load(c) == /\ At(c, "load") /\ slave = "none"
           /\ slave' = call[c].image
           /\ call' = [call EXCEPT ![c].pc = "find", ![c].image = Idle.image]
           /\ CallOnly /\ UNCHANGED static
\* Mutant of LoadFails: the result of load_slave is not looked at.
LoadFailsGoesOn(c) == /\ At(c, "load")
                      /\ Goto(c, "find") /\ CallOnly /\ UNCHANGED <<slave, static>>
LoadFails(c) == /\ At(c, "load")
                /\ Leave(c) /\ CallOnly /\ UNCHANGED slave

\* find_sym keeps its last answer when it finds nothing.
Find(c) == /\ At(c, "find")
           /\ static' = [static EXCEPT !.faddr = IF slave # "none" THEN slave ELSE @]
           /\ Goto(c, "run") /\ CallOnly /\ UNCHANGED slave

Radix(s) == CASE s = "dec" -> 10 [] s = "oct" -> 8 [] s = "hex" -> 16

\* str_translate of a slave: -EINVAL at a character that is no digit.
str_translate(s, t, skip) ==
  IF t.digit >= Radix(s) \/ (t.base = "hex" /\ skip < 2) THEN Failed
  ELSE IF t.negative THEN Negative ELSE <<s, t, skip>>

Run(c) == /\ At(c, "run")
          /\ LET trs == str_translate(static.faddr, static.msg, PrefixLength(static.name))
             IN IF trs \in {Failed, Negative} THEN Leave(c)
                ELSE /\ call' = [call EXCEPT ![c].pc = "unload", ![c].value = trs]
                     /\ UNCHANGED static
          /\ CallOnly /\ UNCHANGED slave

\* Mutant of Stripped: the name of the module keeps ".ko".
StrippedNot == TRUE
Stripped == FALSE

\* The suffix is cut off in the shared buffer itself.
Unload(c) == /\ At(c, "unload")
             /\ static' = Kept(c, [static EXCEPT !.suffix = Stripped])
             /\ slave' = IF slave = static.name /\ ~Stripped THEN "none" ELSE slave
             /\ Return(c) /\ CallOnly

\* By hand, as in plugin.hist, when nobody is in the call.
RemoveSlave == /\ Busy = {} /\ slave # "none"
               /\ slave' = "none"
               /\ CallOnly /\ UNCHANGED <<static, call>>
-----------------------------------------------------------------------------
CallStep(c) == CopyText(c) \/ Choose(c) \/ ReadFile(c) \/ FileFails(c) \/ Load(c)
               \/ LoadFails(c) \/ Find(c) \/ Run(c) \/ Unload(c)
Next == \/ \E m \in Module : Save(m) \/ SymbolMissing(m) \/ Patch(m) \/ Unpatch(m)
        \/ HiddenTests \/ HiddenNoMemory \/ \E b \in Copy : HiddenPatches(b)
        \/ RestoreFrees \/ RestorePatches
        \/ \E c \in Caller : CallStep(c) \/ \E t \in Text : Enter(c, t)
        \/ RemoveSlave

Spec == Init /\ [][Next]_vars
-----------------------------------------------------------------------------
Texts == Text \cup {Empty}
Pc == {"idle", "dead", "copy", "choose", "open", "load", "find", "run", "unload"}
Value == {NoValue} \cup (Slave \X Texts \X {0, 1, 2})
Call == [pc : Pc, text : Texts, image : Slave, value : Value, alone : BOOLEAN]
Static == [msg : Texts, name : Slave, suffix : BOOLEAN, faddr : Slave \cup {"kernel"}]
TypeOK ==
  /\ slot \in {"ni"} \cup Module \cup Copy /\ copies \subseteq Copy
  /\ mods \in [Module -> [at : {"out", "loading", "in"}, old : {"ni"} \cup Module \cup Copy]]
  /\ hidden \in {"idle", "vacant"} /\ restore \in {"idle"} \cup Copy
  /\ slave \in Slave \cup {"none"}
  /\ static \in Static /\ call \in [Caller -> Call]

(***************************************************************************)
(* Whoever makes the call gets into code that is there: the entry never    *)
(* names a module that is out or a block that was freed, except while      *)
(* restore is between its kfree and its write.                             *)
(***************************************************************************)
SlotIsLive == \/ slot = "ni" \/ slot \in copies \/ restore = slot
              \/ slot \in Module /\ mods[slot].at = "in"

(***************************************************************************)
(* One process at a time is between the load and the unload of a slave:    *)
(* the name all slaves export is the only lock.  So the function it found  *)
(* is there when it is called, though the others overwrite its text.       *)
(***************************************************************************)
Inside == {c \in Caller : call[c].pc \in {"find", "run", "unload"}}
OneInside == /\ \A c, d \in Inside : c = d
             /\ Inside # {} => slave # "none"
             /\ \A c \in Inside : At(c, "run") => static.faddr = slave

(***************************************************************************)
(* A call that no other overlapped returns the value of the text it was    *)
(* given, translated by the slave of its base without the prefix.          *)
(***************************************************************************)
OwnTranslation ==
  \A c \in Caller : At(c, "unload") /\ call[c].alone =>
    LET t == call[c].text
    IN call[c].value = <<t.base, t, CASE t.base = "dec" -> 0 [] t.base = "oct" -> 1
                                      [] t.base = "hex" -> 2>>

(***************************************************************************)
(* A call that no other overlapped and that got its value finds the slave  *)
(* under the name it keeps in the shared buffer, and unloads it.           *)
(***************************************************************************)
TranslatedUnloads ==
  [][\A c \in Caller : At(c, "unload") /\ At(c, "idle")' /\ call[c].alone =>
       slave' = "none"]_vars

(***************************************************************************)
(* What the book promises: when nobody is in the call no slave is loaded,  *)
(* so that the name all of them export is free.                            *)
(***************************************************************************)
NoSlaveBetweenCalls == (\A c \in Caller : At(c, "idle")) => slave = "none"
=============================================================================
