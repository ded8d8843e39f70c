------------------------------- MODULE Threads -------------------------------
(***************************************************************************)
(* Kernel threads started from the init function of a module, which waits  *)
(* for them and then refuses to stay loaded: src/Tasks/thread,             *)
(* +TASKS/synch and +TASKS/smp.  A module is a record here: who starts the *)
(* threads, what a thread does and how the end is arranged.                *)
(***************************************************************************)
EXTENDS Integers, Sequences, SequencesExt, FiniteSetsExt

CONSTANTS Thr,      \* threads of a module
          Rep,      \* turns of a thread of mlock that locks in every turn
          MaxCpus   \* the machine has 1..MaxCpus processors

ASSUME ThreadsAssumption == Thr \in Nat \ {0} /\ Rep \in Nat \ {0} /\ MaxCpus \in Nat \ {0}
-----------------------------------------------------------------------------
(***************************************************************************)
(*   starts   init starts all threads, or one, or one that starts the next *)
(*   turns    turns of a thread; 0: until it is told to stop               *)
(*   ends     what init does about them: kthread_stop; a flag, and a       *)
(*            while; a counter, in a loop; a completion of each; a while   *)
(*   lock     held in a turn; the threads that wait are served in order    *)
(***************************************************************************)
Module(starts, turns, ends, lock) ==
  [starts |-> starts, turns |-> turns, ends |-> ends, lock |-> lock]

pamix   == Module("all", 0, "kthread_stop", "none")
pamixab == Module("all", 0, "flag", "none")
pamixad == Module("all", 0, "counter", "none")
pamixm(act) == Module("all", 0, "kthread_stop", IF act THEN "mutex" ELSE "none")
pamixx(act) == Module("all", 0, "kthread_stop", IF act THEN "spin" ELSE "none")

mod_thr1 == Module("one", 1, "while", "none")
mod_thr2 == Module("one", 1, "completion", "none")
mod_thr3 == Module("chain", 0, "kthread_stop", "none")
mod_for  == Module("all", 1, "completion", "none")
thr1     == Module("one", 1, "completion", "none")
thr2     == Module("one", 1, "completion", "none")

\* Without synchronisation, at the outermost level, or further inside.
mlock(sync) == Module("chain", IF sync = "inner" THEN Rep ELSE 1, "completion",
                      IF sync = "off" THEN "none" ELSE "semaphore")

Modules == {pamix, pamixab, pamixad, mod_thr1, mod_thr2, mod_thr3, mod_for, thr1, thr2}
           \cup (UNION {{pamixm(act), pamixx(act)} : act \in BOOLEAN})
           \cup {mlock(sync) : sync \in {"off", "outer", "inner"}}
-----------------------------------------------------------------------------
VARIABLES prog,     \* the module
          cpus,     \* processors
          main,     \* init: where it is, and the thread it is at
          thread,   \* 1..Thr -> a thread
          final,    \* the flag, or the counter
          queue,    \* who has the lock, and who waits for it
          locked    \* the counter of mlock: how often the semaphore was taken

vars == <<prog, cpus, main, thread, final, queue, locked>>

Threads == 1..Thr
NoThread == [st |-> "none", told |-> FALSE, turns |-> 0, read |-> 0]

Init == /\ prog \in Modules /\ cpus \in 1..MaxCpus
        /\ main = [st |-> "starting", at |-> 1]
        /\ thread = [i \in Threads |-> NoThread]
        /\ final = 0 /\ queue = <<>> /\ locked = 0

Is(i, st) == thread[i].st = st
Ended(i) == thread[i].st \in {"none", "dead"}

\* The threads a module waits for itself, and the thread another one starts.
Own == IF prog.starts = "all" THEN Threads ELSE {1}
Child(i) == IF prog.starts = "chain" /\ i < Thr THEN {i + 1} ELSE {}

\* The kernel is not preempted: who waits in a loop keeps a processor.
Spinning == {i \in Threads : prog.lock = "spin" /\ Is(i, "wanting") /\ Head(queue) # i}
            \cup (IF main.st = "counting" THEN {0} ELSE {})
CpuFree == Cardinality(Spinning) < cpus

\* kthread_run, whose error is a pointer that no module tests for.
Started(i, th) == {[th EXCEPT ![i] = [NoThread EXCEPT !.st = st]] : st \in {"new", "failed"}}
-----------------------------------------------------------------------------
(***************************************************************************)
(* Init.  It starts its threads, sleeps, and arranges the end.             *)
(***************************************************************************)
Goes(st, at) == main' = [st |-> st, at |-> at]

NoMemory == /\ main.st = "starting" /\ main.at = 1 /\ prog.turns = 0 /\ prog.starts = "all"
            /\ Goes("gone", 1)
            /\ UNCHANGED <<thread, final, queue, locked>>

Start == /\ main.st = "starting"
         /\ thread' \in Started(main.at, thread)
         /\ IF main.at + 1 \in Own THEN Goes("starting", main.at + 1) ELSE Goes("sleeping", 1)
         /\ UNCHANGED <<final, queue, locked>>

AfterSleep == CASE prog.ends = "kthread_stop" -> "stopping"
                [] prog.ends = "counter" -> "counting"
                [] prog.ends = "completion" -> "waiting"
                [] prog.ends \in {"flag", "while"} -> "dozing"
Sleep == /\ main.st = "sleeping"
         /\ Goes(AfterSleep, 1)
         /\ final' = IF prog.ends \in {"flag", "counter"} THEN 1 ELSE final
         /\ UNCHANGED <<thread, queue, locked>>

GoesOn(st) == IF main.at + 1 \in Own THEN Goes(st, main.at + 1) ELSE Goes("gone", 1)

\* kthread_stop of a thread: it is told, and then waited for.
Told(i) == thread' = [thread EXCEPT ![i].told = TRUE]
Tell == /\ main.st = "stopping"
        /\ IF Is(main.at, "failed") THEN Goes("oops", main.at) /\ UNCHANGED thread
           ELSE Goes("joining", main.at) /\ Told(main.at)
        /\ UNCHANGED <<final, queue, locked>>

\* Mutant of Joined: kthread_stop returns at once.
JoinedAtOnce(i) == TRUE
Joined(i) == Ended(i)
Join == /\ main.st = "joining" /\ Joined(main.at) /\ GoesOn("stopping")
        /\ UNCHANGED <<thread, final, queue, locked>>

\* Mutant of Completed: a completion is not waited for.
CompletedAtOnce(i) == TRUE
Completed(i) == thread[i].st \in {"announced", "dead"}
Wait == /\ main.st = "waiting" /\ Completed(main.at) /\ GoesOn("waiting")
        /\ UNCHANGED <<thread, final, queue, locked>>

Count == /\ main.st = "counting" /\ final >= Thr + 1 /\ Goes("gone", 1)
         /\ UNCHANGED <<thread, final, queue, locked>>
Doze == /\ main.st = "dozing" /\ Goes("gone", 1)
        /\ UNCHANGED <<thread, final, queue, locked>>

Main == /\ main.st = "counting" \/ CpuFree
        /\ NoMemory \/ Start \/ Sleep \/ Tell \/ Join \/ Wait \/ Count \/ Doze
        /\ UNCHANGED <<prog, cpus>>
-----------------------------------------------------------------------------
(***************************************************************************)
(* A thread.  One that is told to stop before it ran never runs.  In a     *)
(* turn it adds to its data, asleep with the lock in its hands.            *)
(***************************************************************************)
Moves(i, st) == thread' = [thread EXCEPT ![i].st = st]

Begin(i) == /\ Is(i, "new")
            /\ IF thread[i].told THEN Moves(i, "dead")
               ELSE LET running == [thread EXCEPT ![i].st = "testing"]
                    IN \/ Child(i) = {} /\ thread' = running
                       \/ \E c \in Child(i) : thread' \in Started(c, running)
            /\ UNCHANGED <<main, final, queue, locked>>

Enough(i) == \/ prog.turns > 0 /\ thread[i].turns = prog.turns
             \/ thread[i].told \/ final > 0
Test(i) == /\ Is(i, "testing")
           /\ IF Enough(i) THEN Moves(i, "leaving") /\ UNCHANGED queue
              ELSE IF prog.lock = "none" THEN Moves(i, "working") /\ UNCHANGED queue
              ELSE Moves(i, "wanting") /\ queue' = Append(queue, i)
           /\ UNCHANGED <<main, final, locked>>

\* Mutant of MayHold: the lock is taken whoever has it.
MayHoldAlways(i) == TRUE
MayHold(i) == Head(queue) = i
Acquire(i) == /\ Is(i, "wanting") /\ MayHold(i)
              /\ thread' = [thread EXCEPT ![i].st = "working", ![i].read = locked]
              /\ UNCHANGED <<main, final, queue, locked>>

Work(i) == /\ Is(i, "working")
           /\ thread' = [thread EXCEPT ![i].st = "resting", ![i].read = 0,
                                       ![i].turns = IF prog.turns > 0 THEN @ + 1 ELSE @]
           /\ locked' = IF prog.lock = "semaphore" THEN thread[i].read + 1 ELSE locked
           /\ UNCHANGED <<main, final, queue>>

\* Mutant of Unlocked: the lock is kept.
UnlockedNot == queue
Unlocked == IF prog.lock = "none" THEN queue ELSE Tail(queue)
Rest(i) == /\ Is(i, "resting") /\ Moves(i, "testing") /\ queue' = Unlocked
           /\ UNCHANGED <<main, final, locked>>

\* The thread it started is stopped, or waited for; an error pointer is not NULL.
Leave(i) ==
  /\ Is(i, "leaving")
  /\ IF prog.ends = "kthread_stop" /\ \E c \in Child(i) : Is(c, "failed") THEN Moves(i, "oops")
     ELSE IF prog.ends = "kthread_stop" /\ \E c \in Child(i) : ~ thread[c].told
     THEN \E c \in Child(i) : Told(c)
     ELSE /\ \A c \in Child(i) : IF prog.ends = "completion" THEN Completed(c) ELSE Joined(c)
          /\ Moves(i, "announcing")
  /\ UNCHANGED <<main, final, queue, locked>>

Announce(i) == /\ Is(i, "announcing") /\ Moves(i, "announced")
               /\ final' = IF prog.ends = "counter" THEN final + 1 ELSE final
               /\ UNCHANGED <<main, queue, locked>>
\* What follows the announcement, a message of mlock and mod_for built in static memory
\* among it, and the way out are code of the module too.
Exit(i) == /\ Is(i, "announced") /\ Moves(i, "dead")
           /\ UNCHANGED <<main, final, queue, locked>>

\* Init refused to stay loaded and the kernel has freed text and data: whoever still has
\* code of the module to run may carry on all the same, or fault at any of its lines.
InText(i) == thread[i].st \notin {"none", "failed", "dead", "oops"}
Fault(i) == /\ main.st = "gone" /\ InText(i) /\ Moves(i, "oops")
            /\ UNCHANGED <<main, final, queue, locked>>

Thread(i) == /\ CpuFree \/ (Is(i, "wanting") /\ prog.lock = "spin")
             /\ \/ Begin(i) \/ Test(i) \/ Acquire(i) \/ Work(i) \/ Rest(i)
                \/ Leave(i) \/ Announce(i) \/ Exit(i) \/ Fault(i)
             /\ UNCHANGED <<prog, cpus>>

Next == Main \/ \E i \in Threads : Thread(i)
Spec == Init /\ [][Next]_vars
FairSpec == Spec /\ WF_vars(Main) /\ \A i \in Threads : WF_vars(Thread(i))
-----------------------------------------------------------------------------
\* What the variables hold.
States == {"none", "failed", "new", "testing", "wanting", "working", "resting", "leaving",
           "announcing", "announced", "dead", "oops"}
TypeOK ==
  /\ prog \in Modules /\ cpus \in 1..MaxCpus /\ main.at \in Threads
  /\ main.st \in {"starting", "sleeping", "stopping", "joining", "counting", "waiting", "dozing",
                 "gone", "oops"}
  /\ thread \in [Threads -> [st : States, told : BOOLEAN, turns : Nat, read : Nat]]
  /\ final \in Nat /\ locked \in Nat /\ queue \in Seq(Threads)

(***************************************************************************)
(* A module that stops its threads with kthread_stop is not freed before   *)
(* the last of them, and of those they started, has left its code.  A      *)
(* completion, a counter or a while promise no such thing: their threads   *)
(* still have lines to run when init goes on (Fault).                      *)
(***************************************************************************)
NobodyLeftBehind ==
  main.st = "gone" /\ prog.ends = "kthread_stop" => \A i \in Threads : ~ InText(i)

(***************************************************************************)
(* What completions and the counter do promise: the memory a thread was    *)
(* given, a word of the vector of init, or a completion in the data of the *)
(* module, on the stack of init or on that of the thread that started it,  *)
(* is there until its last use, the announcement.                          *)
(***************************************************************************)
Handed == {"new", "testing", "wanting", "working", "resting", "leaving", "announcing"}
HandedMemoryLives ==
  prog.ends \in {"kthread_stop", "counter", "completion"} =>
    \A i \in Threads : thread[i].st \in Handed =>
      main.st # "gone" /\ \A p \in Threads : i \in Child(p) => ~ Is(p, "dead")

\* The counter of mlock, which is no atomic one, misses no turn.
CountedAll ==
  prog.lock = "semaphore" => locked = MapThenSumSet(LAMBDA i : thread[i].turns, Threads)

(***************************************************************************)
(* Init ends, whatever the threads do: when every thread could be started, *)
(* and a processor is left beside those who wait in a loop, as the thread  *)
(* with the spin lock sleeps, or the counter of the threads is awaited.    *)
(***************************************************************************)
Waiters == CASE prog.lock = "spin" -> Thr - 1 [] prog.ends = "counter" -> 1 [] OTHER -> 0
InitEnds == <>(\/ main.st = "gone" \/ cpus <= Waiters
               \/ \E i \in Threads : Is(i, "failed"))
=============================================================================
