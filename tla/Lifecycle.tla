------------------------------ MODULE Lifecycle ------------------------------
(***************************************************************************)
(* insmod and rmmod of one driver, step by step, while other processes and *)
(* interrupts come in through whatever the driver has published so far.    *)
(* What a driver does is its script (DriverSteps); what the kernel does    *)
(* with a module is here: a load that fails frees the module whoever is    *)
(* inside, an interface with an owner keeps the module from being removed, *)
(* some releases wait for the calls in progress and some do not.           *)
(***************************************************************************)
EXTENDS DriverSteps

CONSTANT Script     \* the drivers: name -> [init, exit]

ASSUME ScriptAssumption == \A d \in DOMAIN Script :
          {"init", "exit"} \subseteq DOMAIN Script[d]

VARIABLES driver,   \* the driver whose life is followed
          phase,    \* "out", "loading", "in", "unloading"; at the end
                    \* "refused", "removed", or "broken" after a bad access
          todo,     \* what is left of the function being run
          held,     \* what the module holds
          calls     \* code of the module that is running or about to run

vars == <<driver, phase, todo, held, calls>>

\* An open file or mounted disk of these kinds keeps rmmod out.
Owned == {"cdev", "chrdev", "misc", "disk", "symbol"}

\* The release of these returns only when no call of them is in progress.
Draining == {"proc", "attribute", "irq", "tasklet", "packet", "netdev",
             "rxhandler", "timer", "thread", "work", "driver"}

\* Code a driver sets off itself; it runs once, to its end.
Deferred == {"tasklet", "work", "thread"}

Waits(r) == IF r.kind = "workqueue" THEN {c \in calls : c.kind = "work"}
            ELSE IF r.kind \in Draining THEN calls \cap {r} ELSE {}

Init == /\ driver \in DOMAIN Script
        /\ phase = "out" /\ todo = <<>>
        /\ held = {} /\ calls = {}
-----------------------------------------------------------------------------
(***************************************************************************)
(* insmod, rmmod, and the end of the functions they run.                   *)
(***************************************************************************)
Insmod == /\ phase = "out"
          /\ phase' = "loading" /\ todo' = Script[driver].init \o Success
          /\ UNCHANGED <<driver, held, calls>>

Rmmod == /\ phase = "in"
         /\ \A c \in calls : c.kind \notin Owned
         /\ phase' = "unloading" /\ todo' = Script[driver].exit \o Success
         /\ UNCHANGED <<driver, held, calls>>

Now == Head(todo)
At(op) == phase \in {"loading", "unloading"} /\ Now.op = op

Returns == /\ At("error") \/ At("success")
           /\ phase' = IF phase = "unloading" THEN "removed"
                       ELSE IF Now.op = "error" THEN "refused" ELSE "in"
           /\ todo' = <<>>
           /\ UNCHANGED <<driver, held, calls>>

\* A NULL or stale pointer is used: the process dies in the kernel.
Oops == /\ At("put") \/ At("need")
        /\ Now.thing \notin held
        /\ phase' = "broken"
        /\ UNCHANGED <<driver, todo, held, calls>>
-----------------------------------------------------------------------------
(***************************************************************************)
(* The steps of a script.                                                  *)
(***************************************************************************)
Advance == todo' = Tail(todo) /\ UNCHANGED <<driver, phase>>

Acquires == /\ At("get") \/ At("try") \/ At("make")
            /\ held' = held \cup {Now.thing}
            /\ Advance /\ UNCHANGED calls

Fails == /\ At("get") \/ At("check")
         /\ todo' = Now.unwind
         /\ UNCHANGED <<driver, phase, held, calls>>

Misses == /\ At("try")
          /\ Advance /\ UNCHANGED <<held, calls>>

Releases == /\ At("put") \/ At("putif")
            /\ At("put") => Now.thing \in held
            /\ Waits(Now.thing) = {}
            /\ held' = held \ {Now.thing}
            /\ Advance /\ UNCHANGED calls

Passes == /\ At("check") \/ (At("need") /\ Now.thing \in held)
          /\ Advance /\ UNCHANGED <<held, calls>>

Starts == /\ At("spawn") /\ Now.thing.kind \in Deferred
          /\ calls' = calls \cup {Now.thing}
          /\ Advance /\ UNCHANGED held

Awaits == /\ At("await") /\ Now.thing \notin calls
          /\ Advance /\ UNCHANGED <<held, calls>>

Tests == /\ At("if") \/ At("unless")
         /\ todo' = IF At("if") <=> Now.thing \in held
                    THEN Now.unwind \o Tail(todo) ELSE Tail(todo)
         /\ UNCHANGED <<driver, phase, held, calls>>

Runs == \/ Returns \/ Oops \/ Acquires \/ Fails \/ Misses
        \/ Releases \/ Passes \/ Starts \/ Awaits \/ Tests
-----------------------------------------------------------------------------
(***************************************************************************)
(* The others.  A module on its way out cannot be entered through an       *)
(* interface with an owner; nothing stops a caller that has none.          *)
(***************************************************************************)
Interfaces == Owned \cup {"proc", "attribute", "irq", "tasklet", "packet", "netdev",
                          "rxhandler", "timer", "work", "syscall", "driver"}

Started  == {r \in UNION {c.starts : c \in calls} : r.kind \in Deferred}
Callable == held \cup Started

Enter(r) == /\ r.kind \in Interfaces
            /\ ~ \E op \in {"put", "putif"} : At(op) /\ Now.thing = r
            /\ r.kind \in Owned => phase \in {"loading", "in"}
            /\ calls' = calls \cup {r}
            /\ UNCHANGED <<driver, phase, todo, held>>

Leave(r) == /\ calls' = calls \ {r}
            /\ held' \in {held, held \cup r.keeps}
            /\ UNCHANGED <<driver, phase, todo>>

Next == \/ Insmod \/ Rmmod \/ Runs
        \/ \E r \in Callable \ calls : Enter(r)
        \/ \E r \in calls : Leave(r)

\* The kernel runs insmod and rmmod to their end; a call that is waited for
\* is one read, write or interrupt, and the code of every handler is finite.
AwaitedLeaves == /\ At("put") \/ At("putif") \/ At("await")
                 /\ \E r \in calls \cap (Waits(Now.thing) \cup {Now.thing}) : Leave(r)
Fairness == WF_vars(Runs) /\ WF_vars(AwaitedLeaves)

Spec == Init /\ [][Next]_vars
FairSpec == Spec /\ Fairness
=============================================================================
