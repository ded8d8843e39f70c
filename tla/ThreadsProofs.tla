----------------------------- MODULE ThreadsProofs -----------------------------
(***************************************************************************)
(* What holds of the modules with kernel threads for every number of       *)
(* threads, of turns and of processors: kthread_stop leaves nobody in      *)
(* freed text, completions and counters leave nobody with freed data, and  *)
(* every turn is counted.                                                  *)
(***************************************************************************)
EXTENDS Threads, FiniteSetTheorems, WellFoundedInduction, TLAPS

\* Who is in a turn under the lock is the first of the queue.
Exclusion ==
  prog.lock # "none" =>
    \A i \in Threads : thread[i].st \in {"working", "resting"} => queue # <<>> /\ Head(queue) = i

\* A thread that waits for the lock is in the queue.
Queued ==
  prog.lock # "none" =>
    \A i \in Threads : Is(i, "wanting") => \E k \in 1..Len(queue) : queue[k] = i

\* In a chain nobody runs before the one that starts it; with one thread there are no others.
Order ==
  /\ prog.starts = "chain" =>
       \A i, j \in Threads : i < j /\ thread[i].st \in {"none", "failed", "new"} => Is(j, "none")
  /\ prog.starts = "one" => \A i \in Threads : i # 1 => Is(i, "none")

\* In a chain nobody ends before those behind it, while the module is there.
Past(i) == thread[i].st \in {"announcing", "announced", "dead"}
Behind(j) == /\ prog.ends = "completion" => Completed(j)
             /\ prog.ends = "kthread_stop" => Ended(j)
ChildrenFirst ==
  main.st # "gone" /\ prog.starts = "chain" => \A i, j \in Threads : i < j /\ Past(i) => Behind(j)

Untold == prog.ends # "kthread_stop" => \A i \in Threads : thread[i].told = FALSE

\* The counter is one from init, and one from each thread that announced its end.
Announced == {i \in Threads : Completed(i)}
Counted == main.st # "gone" /\ prog.ends = "counter" => final <= 1 + Cardinality(Announced)

\* How far init is.
Progress ==
  /\ main.at \in Own
  /\ main.st = "starting" => \A i \in Own : i >= main.at => Is(i, "none")
  /\ main.st \in {"stopping", "joining"} =>
       prog.ends = "kthread_stop" /\ \A i \in Own : i < main.at => Ended(i)
  /\ main.st = "waiting" =>
       prog.ends = "completion" /\ \A i \in Own : i < main.at => Completed(i)
  /\ main.st = "counting" => prog.ends = "counter"
  /\ main.st = "dozing" => prog.ends \in {"flag", "while"}

\* Who has announced its end no longer has what it was given.
LeftAlone == main.st = "gone" /\ prog.ends \in {"kthread_stop", "counter", "completion"}
               => \A i \in Threads : thread[i].st \notin Handed

IInv == /\ TypeOK /\ Exclusion /\ Queued /\ Order /\ ChildrenFirst /\ Untold /\ Counted
        /\ Progress /\ NobodyLeftBehind /\ LeftAlone
-----------------------------------------------------------------------------
(***************************************************************************)
(* The modules start their threads in three ways and end in five.          *)
(***************************************************************************)
LEMMA ModuleFacts ==
  ASSUME NEW p \in Modules
  PROVE  /\ p.starts \in {"all", "one", "chain"}
         /\ p.ends \in {"kthread_stop", "flag", "counter", "completion", "while"}
         /\ p.ends = "counter" => p.starts = "all"
<1> USE DEF Module
<1>1. CASE p \in {pamix, pamixab, pamixad, mod_thr1, mod_thr2, mod_thr3, mod_for, thr1, thr2}
  BY <1>1 DEF pamix, pamixab, pamixad, mod_thr1, mod_thr2, mod_thr3, mod_for, thr1, thr2
<1>2. CASE \E act \in BOOLEAN : p = pamixm(act) \/ p = pamixx(act)
  BY <1>2 DEF pamixm, pamixx
<1>3. CASE \E sync \in {"off", "outer", "inner"} : p = mlock(sync)
  BY <1>3 DEF mlock
<1>4. CASE p \in UNION {{pamixm(act), pamixx(act)} : act \in BOOLEAN}
  <2>1. PICK both \in {{pamixm(act), pamixx(act)} : act \in BOOLEAN} : p \in both BY <1>4
  <2> QED BY <2>1, <1>2
<1>5. CASE p \in {mlock(sync) : sync \in {"off", "outer", "inner"}} BY <1>5, <1>3
<1> HIDE DEF Module
<1>6. \/ p \in {pamix, pamixab, pamixad, mod_thr1, mod_thr2, mod_thr3, mod_for, thr1, thr2}
      \/ p \in UNION {{pamixm(act), pamixx(act)} : act \in BOOLEAN}
      \/ p \in {mlock(sync) : sync \in {"off", "outer", "inner"}}
  BY Zenon DEF Modules
<1> QED BY <1>1, <1>4, <1>5, <1>6, Zenon

(***************************************************************************)
(* At first there are no threads.                                          *)
(***************************************************************************)
LEMMA InitInv == Init => IInv
<1> SUFFICES ASSUME Init PROVE IInv OBVIOUS
<1> USE ThreadsAssumption, ModuleFacts DEF Init, Threads, NoThread
<1>1. TypeOK BY DEF TypeOK, States
<1>2. Exclusion /\ Queued /\ Order /\ NobodyLeftBehind /\ LeftAlone
  BY DEF Exclusion, Queued, Order, NobodyLeftBehind, LeftAlone, Is
<1>3. ChildrenFirst /\ Untold /\ Progress
  BY DEF ChildrenFirst, Past, Untold, Progress, Own, Is
<1>4. Counted
  <2>1. Announced = {} BY DEF Announced, Completed
  <2> QED BY <2>1, FS_EmptySet DEF Counted
<1> QED BY <1>1, <1>2, <1>3, <1>4 DEF IInv

(***************************************************************************)
(* A step of init either starts a thread that was not there, or tells one  *)
(* to stop, or leaves the threads alone.                                   *)
(***************************************************************************)
Starts(i) == /\ Is(i, "none") /\ thread'[i].st \in {"new", "failed"} /\ thread'[i].told = FALSE
             /\ \A j \in Threads : j # i => thread'[j] = thread[j]
SameStates == \A j \in Threads : thread'[j].st = thread[j].st

\* What a step of init changes: it starts a thread, tells one to stop, or goes on.
LEMMA MainType ==
  ASSUME TypeOK, Progress, Main
  PROVE  /\ TypeOK'
         /\ prog' = prog /\ queue' = queue /\ main.st # "gone"
         /\ \/ main.st = "starting" /\ Starts(main.at)
            \/ main.st = "stopping" /\ SameStates
            \/ main.st \notin {"starting", "stopping"} /\ UNCHANGED thread
            \/ main'.st = "gone" /\ UNCHANGED thread
<1> USE ThreadsAssumption DEF Progress, Own, Threads, Goes, GoesOn
<1>0. prog' = prog /\ cpus' = cpus /\ main.st # "gone"
  BY DEF Main, NoMemory, Start, Sleep, Tell, Join, Wait, Count, Doze
<1>1. CASE NoMemory \/ Wait \/ Join \/ Count \/ Doze
  <2>1. UNCHANGED <<thread, queue, final, locked>> /\ main.st # "stopping"
    BY <1>1 DEF NoMemory, Wait, Join, Count, Doze
  <2>2. main.st # "starting" \/ main'.st = "gone"
    BY <1>1 DEF NoMemory, Wait, Join, Count, Doze
  <2>3. main'.at \in Threads
    <3>1. 1 \in Threads OBVIOUS
    <3>2. main.at + 1 \in Own => main.at + 1 \in Threads BY <3>1
    <3>3. CASE NoMemory \/ Count \/ Doze BY <3>1, <3>3 DEF NoMemory, Count, Doze
    <3>4. CASE Wait \/ Join BY <3>1, <3>2, <3>4 DEF Wait, Join
    <3> QED BY <1>1, <3>3, <3>4
  <2>4. main'.st \in {"stopping", "waiting", "gone"}
    BY <1>1 DEF NoMemory, Wait, Join, Count, Doze
  <2> QED BY <1>0, <2>1, <2>2, <2>3, <2>4 DEF TypeOK
<1>2. CASE Start
  <2>1. PICK s \in {"new", "failed"} :
          thread' = [thread EXCEPT ![main.at] = [NoThread EXCEPT !.st = s]]
    BY <1>2 DEF Start, Started
  <2>2. main.at \in Threads /\ Is(main.at, "none")
    BY <1>2 DEF Start, TypeOK
  <2>3. Starts(main.at)
    BY <2>1, <2>2 DEF Starts, NoThread, TypeOK
  <2>4. thread' \in [Threads -> [st : States, told : BOOLEAN, turns : Nat, read : Nat]]
    BY <2>1, <2>2 DEF NoThread, TypeOK, States
  <2>5. main'.at \in Threads /\ main'.st \in {"starting", "sleeping"}
    <3>1. main.at + 1 \in Own => main.at + 1 \in Threads OBVIOUS
    <3> QED BY <1>2, <2>2, <3>1 DEF Start, TypeOK
  <2> QED BY <1>0, <1>2, <2>3, <2>4, <2>5 DEF Start, TypeOK
<1>3. CASE Sleep
  BY <1>0, <1>3, ModuleFacts DEF Sleep, AfterSleep, TypeOK
<1>4. CASE Tell
  <2>1. main.at \in Threads BY DEF TypeOK
  <2>2. /\ thread' \in [Threads -> [st : States, told : BOOLEAN, turns : Nat, read : Nat]]
        /\ SameStates
    <3>1. CASE UNCHANGED thread BY <3>1 DEF SameStates, TypeOK
    <3>2. CASE Told(main.at) BY <3>2, <2>1 DEF Told, SameStates, TypeOK
    <3> QED BY <1>4, <3>1, <3>2 DEF Tell
  <2>3. main'.at = main.at /\ main'.st \in {"oops", "joining"}
    BY <1>4 DEF Tell
  <2> QED BY <1>0, <1>4, <2>2, <2>3 DEF Tell, TypeOK
<1> QED BY <1>1, <1>2, <1>3, <1>4 DEF Main

(***************************************************************************)
(* A step of a thread moves this thread alone from state to state, unless  *)
(* it begins, when it may start the one that comes after it, or faults.    *)
(***************************************************************************)
Path == {<<"new", "testing">>, <<"new", "dead">>, <<"testing", "leaving">>, <<"testing", "wanting">>,
         <<"testing", "working">>, <<"wanting", "working">>, <<"working", "resting">>,
         <<"resting", "testing">>, <<"leaving", "leaving">>, <<"leaving", "oops">>,
         <<"leaving", "announcing">>, <<"announcing", "announced">>, <<"announced", "dead">>}
MovesAlone(i) == /\ <<thread[i].st, thread'[i].st>> \in Path
                 /\ \A j \in Threads : j # i => thread'[j].st = thread[j].st
StartsNext(i) == /\ Is(i, "new") /\ thread'[i].st = "testing" /\ prog.starts = "chain"
                 /\ i + 1 \in Threads /\ thread'[i + 1].st \in {"new", "failed"}
                 /\ \A j \in Threads : j \notin {i, i + 1} => thread'[j].st = thread[j].st
Faults(i) == /\ main.st = "gone" /\ InText(i) /\ thread'[i].st = "oops"
             /\ \A j \in Threads : j # i => thread'[j].st = thread[j].st

Tables == [Threads -> [st : States, told : BOOLEAN, turns : Nat, read : Nat]]

\* A thread that moves changes only its own state.
LEMMA MovesShape ==
  ASSUME TypeOK, NEW i \in Threads, NEW st \in States, Moves(i, st)
  PROVE  /\ thread' \in Tables /\ thread'[i].st = st
         /\ \A j \in Threads : thread'[j].told = thread[j].told
         /\ \A j \in Threads : j # i => thread'[j].st = thread[j].st
BY DEF Moves, TypeOK, Tables

\* A thread begins alone, or starts the next of its chain.
LEMMA BeginShape ==
  ASSUME TypeOK, NEW i \in Threads, Begin(i)
  PROVE  /\ thread' \in Tables /\ UNCHANGED <<main, final, queue, locked>>
         /\ \A j \in Threads : thread'[j].told \in {FALSE, thread[j].told}
         /\ \/ MovesAlone(i) /\ Is(i, "new") /\ (thread'[i].st = "dead" => thread[i].told)
            \/ StartsNext(i)
<1> DEFINE running == [thread EXCEPT ![i].st = "testing"]
<1>0. Is(i, "new") /\ UNCHANGED <<main, final, queue, locked>> BY DEF Begin
<1>1. CASE Moves(i, "dead") /\ thread[i].told
  BY <1>0, <1>1, MovesShape DEF States, MovesAlone, Path, Is
<1>2. CASE thread' = running
  <2>1. Moves(i, "testing") BY <1>2 DEF Moves
  <2> QED BY <1>0, <2>1, MovesShape DEF States, MovesAlone, Path, Is
<1>3. CASE \E c \in Child(i) : thread' \in Started(c, running)
  <2>1. prog.starts = "chain" /\ i + 1 \in Threads /\ thread' \in Started(i + 1, running)
    BY <1>3, ThreadsAssumption DEF Child, Threads
  <2>2. PICK st \in {"new", "failed"} : thread' = [running EXCEPT ![i + 1] = [NoThread EXCEPT !.st = st]]
    BY <2>1 DEF Started
  <2>3. running \in Tables /\ running[i].st = "testing"
        /\ \A j \in Threads : running[j].told = thread[j].told /\ (j # i => running[j] = thread[j])
    BY DEF TypeOK, Tables, States
  <2>4. i # i + 1 BY DEF Threads
  <2> HIDE DEF running
  <2>5. thread' \in Tables BY <2>1, <2>2, <2>3 DEF Tables, NoThread, States
  <2>6. thread'[i + 1].st = st /\ thread'[i + 1].told = FALSE
    BY <2>1, <2>2, <2>3 DEF Tables, NoThread
  <2>7. \A j \in Threads : j # i + 1 => thread'[j] = running[j]
    BY <2>1, <2>2, <2>3 DEF Tables
  <2> QED BY <1>0, <2>1, <2>3, <2>4, <2>5, <2>6, <2>7 DEF StartsNext
<1> QED BY <1>1, <1>2, <1>3 DEF Begin

(***************************************************************************)
(* What a step of a thread does to the rest: it tells to stop only when    *)
(* its module uses kthread_stop, it ends only after the thread it started, *)
(* and it counts itself once.                                              *)
(***************************************************************************)
LEMMA ThreadShape ==
  ASSUME TypeOK, Exclusion, NEW i \in Threads, Thread(i)
  PROVE  /\ TypeOK' /\ prog' = prog /\ main' = main
         /\ MovesAlone(i) \/ StartsNext(i) \/ Faults(i)
         /\ prog.ends # "kthread_stop" =>
              \A j \in Threads : thread'[j].told \in {FALSE, thread[j].told}
         /\ Is(i, "new") /\ thread'[i].st = "dead" => thread[i].told
         /\ Is(i, "leaving") /\ thread'[i].st = "announcing" /\ prog.starts = "chain"
              /\ i + 1 \in Threads => Behind(i + 1)
         /\ final' = final \/ (Is(i, "announcing") /\ final' = final + 1)
<1>0. prog' = prog /\ cpus' = cpus BY DEF Thread
<1> USE <1>0 DEF Is
<1>1. CASE Begin(i)
  BY <1>1, BeginShape DEF TypeOK, Tables, StartsNext
<1>2. CASE Test(i)
  <2>1. UNCHANGED <<main, final, locked>> /\ Is(i, "testing") /\ queue' \in Seq(Threads)
    <3>1. queue' = queue \/ queue' = Append(queue, i) BY <1>2 DEF Test
    <3>2. queue \in Seq(Threads) /\ Append(queue, i) \in Seq(Threads) BY DEF TypeOK
    <3> QED BY <1>2, <3>1, <3>2 DEF Test
  <2>2. \E st \in {"leaving", "working", "wanting"} : Moves(i, st) BY <1>2 DEF Test
  <2> QED BY <2>1, <2>2, MovesShape DEF States, TypeOK, Tables, MovesAlone, Path
<1>3. CASE Acquire(i)
  <2>1. UNCHANGED <<main, final, queue, locked>> /\ Is(i, "wanting") BY <1>3 DEF Acquire
  <2>2. /\ thread' \in Tables /\ thread'[i].st = "working"
        /\ \A j \in Threads : thread'[j].told = thread[j].told
        /\ \A j \in Threads : j # i => thread'[j].st = thread[j].st
    BY <1>3 DEF Acquire, TypeOK, Tables, States
  <2> QED BY <2>1, <2>2 DEF TypeOK, Tables, MovesAlone, Path
<1>4. CASE Work(i)
  <2> DEFINE n == IF prog.turns > 0 THEN thread[i].turns + 1 ELSE thread[i].turns
             t == [thread[i] EXCEPT !.st = "resting", !.read = 0, !.turns = n]
  <2>1. UNCHANGED <<main, final, queue>> /\ Is(i, "working") /\ locked' \in Nat
    BY <1>4 DEF Work, TypeOK
  <2>2. n \in Nat /\ thread[i] \in [st : States, told : BOOLEAN, turns : Nat, read : Nat]
    BY DEF TypeOK
  <2>3. thread' = [thread EXCEPT ![i] = t] BY <1>4 DEF Work, TypeOK
  <2> HIDE DEF n
  <2>4. t \in [st : States, told : BOOLEAN, turns : Nat, read : Nat]
        /\ t.st = "resting" /\ t.told = thread[i].told
    BY <2>2 DEF States
  <2> HIDE DEF t
  <2>5. /\ thread' \in Tables /\ thread'[i].st = "resting"
        /\ \A j \in Threads : thread'[j].told = thread[j].told
        /\ \A j \in Threads : j # i => thread'[j].st = thread[j].st
    BY <2>3, <2>4 DEF TypeOK, Tables
  <2> QED BY <2>1, <2>5 DEF TypeOK, Tables, MovesAlone, Path
<1>5. CASE Rest(i)
  <2>1. UNCHANGED <<main, final, locked>> /\ Is(i, "resting") /\ Moves(i, "testing")
    BY <1>5 DEF Rest
  <2>2. queue' \in Seq(Threads) BY <1>5 DEF Rest, Unlocked, Exclusion, TypeOK
  <2> QED BY <2>1, <2>2, MovesShape DEF States, TypeOK, Tables, MovesAlone, Path
<1>6. CASE Leave(i)
  <2>0. UNCHANGED <<main, final, queue, locked>> /\ Is(i, "leaving") BY <1>6 DEF Leave
  <2>1. CASE Moves(i, "oops")
    BY <2>0, <2>1, MovesShape DEF States, TypeOK, Tables, MovesAlone, Path
  <2>2. CASE prog.ends = "kthread_stop" /\ \E c \in Child(i) : Told(c)
    <3>1. PICK c \in Threads : Told(c) BY <2>2, ThreadsAssumption DEF Child, Threads
    <3>2. thread' \in Tables /\ \A j \in Threads : thread'[j].st = thread[j].st
      BY <3>1 DEF Told, TypeOK, Tables
    <3> QED BY <2>0, <2>2, <3>2 DEF TypeOK, Tables, MovesAlone, Path
  <2>3. CASE /\ Moves(i, "announcing")
             /\ \A c \in Child(i) : IF prog.ends = "completion" THEN Completed(c) ELSE Joined(c)
    <3>1. prog.starts = "chain" /\ i + 1 \in Threads => Behind(i + 1)
      BY <2>3, ThreadsAssumption DEF Child, Threads, Behind, Joined
    <3> QED BY <2>0, <2>3, <3>1, MovesShape DEF States, TypeOK, Tables, MovesAlone, Path
  <2> QED BY <1>6, <2>1, <2>2, <2>3 DEF Leave
<1>7. CASE Announce(i)
  <2>1. /\ UNCHANGED <<main, queue, locked>> /\ Is(i, "announcing") /\ Moves(i, "announced")
        /\ final' = final \/ final' = final + 1
        /\ final' \in Nat
    BY <1>7 DEF Announce, TypeOK
  <2> QED BY <2>1, MovesShape DEF States, TypeOK, Tables, MovesAlone, Path
<1>8. CASE Exit(i)
  BY <1>8, MovesShape DEF Exit, States, TypeOK, Tables, MovesAlone, Path
<1>9. CASE Fault(i)
  BY <1>9, MovesShape DEF Fault, InText, States, TypeOK, Tables, Faults
<1> QED BY <1>1, <1>2, <1>3, <1>4, <1>5, <1>6, <1>7, <1>8, <1>9 DEF Thread

(***************************************************************************)
(* The lock.  Who wants it stands in the queue until it is first; who is   *)
(* in a turn is first, and leaves the queue at the end of the turn.        *)
(***************************************************************************)
LEMMA LockStep ==
  ASSUME TypeOK, Exclusion, Queued, NEW i \in Threads, Thread(i)
  PROVE  Exclusion' /\ Queued'
<1> SUFFICES ASSUME prog.lock # "none" PROVE Exclusion' /\ Queued'
  BY DEF Thread, Exclusion, Queued
<1>0. TypeOK' /\ prog' = prog /\ (MovesAlone(i) \/ StartsNext(i) \/ Faults(i)) BY ThreadShape
<1>1. CASE UNCHANGED queue /\ thread'[i].st \notin {"wanting", "working"}
  BY <1>0, <1>1 DEF MovesAlone, StartsNext, Faults, Path, Exclusion, Queued, Is
<1>2. CASE Is(i, "testing") /\ thread'[i].st = "wanting" /\ queue' = Append(queue, i)
  <2>0. \A j \in Threads : j # i => thread'[j].st = thread[j].st
    BY <1>0, <1>2 DEF MovesAlone, StartsNext, Faults, Is
  <2>1. /\ Len(queue') = Len(queue) + 1 /\ queue'[Len(queue')] = i
        /\ \A k \in 1..Len(queue) : queue'[k] = queue[k]
        /\ Len(queue) \in Nat /\ queue' # <<>>
        /\ queue # <<>> => Head(queue') = Head(queue)
    BY <1>2 DEF TypeOK
  <2>2. Exclusion' BY <2>0, <2>1, <1>2, <1>0 DEF Exclusion
  <2>3. Queued'
    <3> SUFFICES ASSUME NEW j \in Threads, thread'[j].st = "wanting"
                 PROVE  \E k \in 1..Len(queue') : queue'[k] = j
      BY <1>0 DEF Queued, Is
    <3>1. CASE j = i BY <3>1, <2>1
    <3>2. CASE j # i BY <3>2, <2>0, <2>1 DEF Queued, Is
    <3> QED BY <3>1, <3>2
  <2> QED BY <2>2, <2>3
<1>3. CASE UNCHANGED queue /\ Is(i, "wanting") /\ Head(queue) = i /\ thread'[i].st = "working"
  <2>1. queue # <<>> BY <1>3 DEF Queued, TypeOK, Is
  <2> QED BY <1>0, <1>3, <2>1 DEF MovesAlone, StartsNext, Faults, Exclusion, Queued, Is
<1>4. CASE Is(i, "resting") /\ thread'[i].st = "testing" /\ queue' = Tail(queue)
  <2>0. \A j \in Threads : j # i => thread'[j].st = thread[j].st
    BY <1>0, <1>4 DEF MovesAlone, StartsNext, Faults, Is
  <2>1. queue # <<>> /\ Head(queue) = i BY <1>4 DEF Exclusion, Is
  <2>2. Exclusion' BY <1>0, <1>4, <2>0, <2>1 DEF Exclusion
  <2>3. Queued'
    <3> SUFFICES ASSUME NEW j \in Threads, thread'[j].st = "wanting"
                 PROVE  \E k \in 1..Len(queue') : queue'[k] = j
      BY <1>0 DEF Queued, Is
    <3>1. PICK k \in 1..Len(queue) : queue[k] = j /\ k # 1
      <4>1. j # i /\ Is(j, "wanting") BY <1>4, <2>0 DEF Is
      <4>2. queue[1] = i BY <2>1 DEF TypeOK
      <4> QED BY <4>1, <4>2 DEF Queued
    <3>2. k - 1 \in 1..Len(queue') /\ queue'[k - 1] = j BY <1>4, <2>1, <3>1 DEF TypeOK
    <3> QED BY <3>2
  <2> QED BY <2>2, <2>3
<1>5. CASE Test(i)
  BY <1>1, <1>2, <1>5, MovesShape DEF Test, Is, States
<1>6. CASE Rest(i) BY <1>4, <1>6, MovesShape DEF Rest, Unlocked, States
<1>7. CASE Acquire(i) BY <1>3, <1>7 DEF Acquire, MayHold, TypeOK
<1>8. CASE Begin(i) BY <1>0, <1>1, <1>8, BeginShape DEF MovesAlone, StartsNext, Faults, Path, Is
<1>9. CASE Work(i) \/ Leave(i) \/ Announce(i) \/ Exit(i)
  <2>1. UNCHANGED queue /\ thread[i].st \in {"working", "leaving", "announcing", "announced"}
    BY <1>9 DEF Work, Leave, Announce, Exit, Is
  <2> QED BY <1>0, <1>1, <2>1 DEF MovesAlone, StartsNext, Faults, Path, Is
<1>10. CASE Fault(i) BY <1>1, <1>10, MovesShape DEF Fault, States
<1> QED BY <1>5, <1>6, <1>7, <1>8, <1>9, <1>10 DEF Thread

(***************************************************************************)
(* The chain.  A thread that begins has nobody behind it yet; one that     *)
(* ends has seen the end of the next, and so of all that are behind.       *)
(***************************************************************************)
LEMMA ChainStep ==
  ASSUME TypeOK, Exclusion, Order, ChildrenFirst, Untold, NEW i \in Threads, Thread(i)
  PROVE  Order' /\ ChildrenFirst' /\ Untold'
<1>0. /\ prog' = prog /\ main' = main /\ (MovesAlone(i) \/ StartsNext(i) \/ Faults(i))
      /\ Is(i, "new") /\ thread'[i].st = "dead" => thread[i].told
      /\ Is(i, "leaving") /\ thread'[i].st = "announcing" /\ prog.starts = "chain"
           /\ i + 1 \in Threads => Behind(i + 1)
  BY ThreadShape
<1>1. Untold' BY <1>0, ThreadShape DEF Untold, TypeOK
<1>2. Order'
  BY <1>0 DEF Order, MovesAlone, StartsNext, Faults, InText, Path, Is, Threads
<1>3. ChildrenFirst'
  <2> SUFFICES ASSUME main.st # "gone", prog.starts = "chain",
                      NEW k \in Threads, NEW j \in Threads, k < j, Past(k)'
               PROVE  Behind(j)'
    BY <1>0 DEF ChildrenFirst, Past
  <2>1. CASE MovesAlone(i)
    <3>1. Behind(j) => Behind(j)'
      BY <1>0, <2>1 DEF MovesAlone, Path, Behind, Completed, Ended
    <3>2. CASE k # i \/ Past(i)
      BY <2>1, <3>1, <3>2 DEF MovesAlone, ChildrenFirst, Past
    <3>3. CASE k = i /\ Is(i, "new")
      <4>1. Is(j, "none") BY <3>3 DEF Order, Is
      <4>2. prog.ends = "kthread_stop"
        BY <1>0, <2>1, <3>3 DEF MovesAlone, Past, Path, Untold, Is
      <4> QED BY <4>1, <4>2, <3>1 DEF Behind, Ended, Is
    <3>4. CASE k = i /\ Is(i, "leaving")
      <4>1. i + 1 \in Threads /\ Behind(i + 1)
        <5>1. i + 1 \in Threads BY <3>4, ThreadsAssumption DEF Threads
        <5>2. thread'[i].st = "announcing" BY <2>1, <3>4 DEF MovesAlone, Past, Path, Is
        <5> QED BY <1>0, <3>4, <5>1, <5>2
      <4>2. CASE j = i + 1 BY <4>1, <4>2, <3>1
      <4>3. CASE i + 1 < j
        <5>1. CASE Is(i + 1, "none")
          BY <4>1, <4>3, <5>1, <3>1 DEF Order, Behind, Completed, Ended, Is
        <5>2. CASE ~ Is(i + 1, "none")
          BY <4>1, <4>3, <5>2, <3>1 DEF ChildrenFirst, Past, Behind, Completed, Ended, Is
        <5> QED BY <5>1, <5>2
      <4> QED BY <4>2, <4>3, <3>4 DEF Threads
    <3> QED BY <2>1, <3>2, <3>3, <3>4 DEF MovesAlone, Past, Path, Is
  <2>2. CASE StartsNext(i)
    <3>1. k \notin {i, i + 1} /\ Past(k) BY <2>2 DEF StartsNext, Past, Threads
    <3>2. CASE j \notin {i, i + 1}
      BY <1>0, <2>2, <3>1, <3>2 DEF StartsNext, ChildrenFirst, Past, Behind, Completed, Ended
    <3>3. CASE j \in {i, i + 1}
      <4>1. k < i BY <3>1, <3>3 DEF Threads
      <4>2. Behind(i) BY <3>1, <4>1 DEF ChildrenFirst
      <4>3. prog.ends \notin {"completion", "kthread_stop"}
        BY <2>2, <4>2 DEF StartsNext, Behind, Completed, Ended, Is
      <4> QED BY <1>0, <4>3 DEF Behind
    <3> QED BY <3>2, <3>3
  <2> QED BY <1>0, <2>1, <2>2 DEF Faults
<1> QED BY <1>1, <1>2, <1>3

(***************************************************************************)
(* The counter.  Who announced its end stays counted, and counts once.     *)
(***************************************************************************)
LEMMA ThreadsFinite ==
  /\ IsFiniteSet(Threads) /\ Cardinality(Threads) = Thr
  /\ \A S \in SUBSET Threads : IsFiniteSet(S) /\ Cardinality(S) \in Nat
<1>1. IsFiniteSet(Threads) /\ Cardinality(Threads) = Thr
  BY FS_Interval, ThreadsAssumption DEF Threads
<1> QED BY <1>1, FS_Subset, FS_CardinalityType

\* The counter goes up with the threads that have announced their end.
LEMMA CountStep ==
  ASSUME TypeOK, Exclusion, Order, Counted, NEW i \in Threads, Thread(i)
  PROVE  Counted'
<1> SUFFICES ASSUME main.st # "gone", prog.ends = "counter"
             PROVE  final' <= 1 + Cardinality(Announced')
  BY ThreadShape DEF Counted
<1>0. /\ TypeOK' /\ (MovesAlone(i) \/ StartsNext(i))
      /\ final' = final \/ (Is(i, "announcing") /\ final' = final + 1)
  BY ThreadShape DEF Faults
<1>1. Announced \in SUBSET Threads /\ Announced' \in SUBSET Threads
  BY DEF Announced, Threads
<1>2. Announced \subseteq Announced'
  BY <1>0 DEF MovesAlone, StartsNext, Path, Announced, Completed, Order, Is, Threads
<1>3. final <= 1 + Cardinality(Announced) /\ final \in Nat BY DEF Counted, TypeOK
<1>4. Cardinality(Announced) <= Cardinality(Announced')
  BY <1>1, <1>2, ThreadsFinite, FS_Subset
<1>5. CASE Is(i, "announcing") /\ final' = final + 1
  <2>1. i \notin Announced /\ i \in Announced'
    BY <1>0, <1>5 DEF MovesAlone, StartsNext, Path, Announced, Completed, Is
  <2>2. Announced \cup {i} \in SUBSET Threads /\ Announced \cup {i} \subseteq Announced'
    BY <1>1, <1>2, <2>1
  <2>3. Cardinality(Announced \cup {i}) = Cardinality(Announced) + 1
    BY <1>1, <2>1, ThreadsFinite, FS_AddElement
  <2>4. Cardinality(Announced \cup {i}) <= Cardinality(Announced')
    BY <1>1, <2>2, ThreadsFinite, FS_Subset
  <2> QED BY <1>1, <1>3, <1>5, <2>3, <2>4, ThreadsFinite
<1> QED BY <1>0, <1>1, <1>3, <1>4, <1>5, ThreadsFinite

(***************************************************************************)
(* Init is as far as it was, and what it has seen to the end stays there.  *)
(***************************************************************************)
LEMMA ProgressStep ==
  ASSUME TypeOK, Exclusion, Progress, NEW i \in Threads, Thread(i)
  PROVE  Progress'
<1>0. prog' = prog /\ main' = main /\ (MovesAlone(i) \/ StartsNext(i) \/ Faults(i))
  BY ThreadShape
<1>1. \A j \in Own :
         /\ Ended(j) => Ended(j)'
         /\ Completed(j) => Completed(j)' \/ main.st = "gone"
         /\ Is(j, "none") => Is(j, "none")'
  BY <1>0, ThreadsAssumption
     DEF MovesAlone, StartsNext, Faults, InText, Path, Own, Ended, Completed, Is, Threads
<1>2. Own' = Own BY <1>0 DEF Own, Threads
<1>3. main.st = "starting" => \A j \in Own : j >= main.at => Is(j, "none")' BY <1>1 DEF Progress
<1>4. main.st \in {"stopping", "joining"} => \A j \in Own : j < main.at => Ended(j)'
  BY <1>1 DEF Progress
<1>5. main.st = "waiting" => \A j \in Own : j < main.at => Completed(j)' BY <1>1 DEF Progress
<1> QED BY <1>0, <1>2, <1>3, <1>4, <1>5 DEF Progress

(***************************************************************************)
(* After init is gone its threads can only end, or fault.                  *)
(***************************************************************************)
LEMMA GoneStep ==
  ASSUME TypeOK, Exclusion, NobodyLeftBehind, LeftAlone, NEW i \in Threads, Thread(i)
  PROVE  NobodyLeftBehind' /\ LeftAlone'
<1>0. prog' = prog /\ main' = main /\ (MovesAlone(i) \/ StartsNext(i) \/ Faults(i))
  BY ThreadShape
<1>1. NobodyLeftBehind'
  BY <1>0 DEF NobodyLeftBehind, InText, MovesAlone, StartsNext, Faults, Path, Is
<1>2. LeftAlone'
  BY <1>0 DEF LeftAlone, Handed, InText, MovesAlone, StartsNext, Faults, Path, Is
<1> QED BY <1>1, <1>2

(***************************************************************************)
(* Every step of a thread keeps the invariant.                             *)
(***************************************************************************)
LEMMA ThreadStep ==
  ASSUME IInv, NEW i \in Threads, Thread(i)
  PROVE  IInv'
BY ThreadShape, LockStep, ChainStep, CountStep, ProgressStep, GoneStep DEF IInv

(***************************************************************************)
(* Every step of init keeps the invariant.                                 *)
(***************************************************************************)
LEMMA MainKeeps ==
  ASSUME IInv, Main
  PROVE  Exclusion' /\ Queued' /\ Order' /\ ChildrenFirst' /\ Untold'
<1>0. /\ TypeOK /\ TypeOK' /\ prog' = prog /\ queue' = queue /\ main.st # "gone"
      /\ Starts(main.at) \/ (main.st = "stopping" /\ SameStates) \/ UNCHANGED thread
  BY MainType DEF IInv
<1>1. CASE SameStates /\ main.st = "stopping"
  BY <1>0, <1>1 DEF SameStates, IInv, Progress, Exclusion, Queued, Order, ChildrenFirst, Past,
     Behind, Completed, Ended, Untold, Is
<1>2. CASE UNCHANGED thread
  BY <1>0, <1>2 DEF IInv, Exclusion, Queued, Order, ChildrenFirst, Past, Behind, Completed, Ended,
     Untold, Is
<1>3. CASE Starts(main.at)
  <2>1. /\ main.at \in Threads /\ Is(main.at, "none")
        /\ prog.starts \in {"one", "chain"} => main.at = 1
        /\ thread'[main.at].st \in {"new", "failed"} /\ thread'[main.at].told = FALSE
        /\ \A j \in Threads : j # main.at => thread'[j] = thread[j]
    BY <1>3 DEF IInv, TypeOK, Progress, Own, Starts
  <2>2. Exclusion' /\ Queued' /\ Untold'
    BY <1>0, <2>1 DEF IInv, Exclusion, Queued, Untold, Is
  <2>3. Order'
    <3>1. prog.starts = "chain" \/ prog.starts = "one" => main.at = 1 BY <2>1
    <3>2. \A j \in Threads : ~ (j < 1) BY DEF Threads
    <3> QED BY <1>0, <2>1, <3>1, <3>2 DEF IInv, Order, Is
  <2>4. ChildrenFirst'
    <3>1. prog.starts = "chain" => \A j \in Threads : j > main.at => Is(j, "none")
      BY <2>1 DEF IInv, Order, Is, Threads
    <3> QED BY <1>0, <2>1, <3>1
            DEF IInv, ChildrenFirst, Past, Behind, Completed, Ended, Is, Threads
  <2> QED BY <2>2, <2>3, <2>4
<1> QED BY <1>0, <1>1, <1>2, <1>3

(***************************************************************************)
(* Init counts itself once, and goes from thread to thread.                *)
(***************************************************************************)
LEMMA MainCounts == ASSUME IInv, Main PROVE Counted'
<1> SUFFICES ASSUME main.st # "gone", prog.ends = "counter" PROVE final' <= 1 + Cardinality(Announced')
  BY MainType DEF IInv, Counted
<1>0. /\ final' = final \/ final' = 1
      /\ Starts(main.at) \/ SameStates
      /\ main.at \in Threads
  <2>1. Starts(main.at) \/ SameStates BY MainType DEF IInv, SameStates
  <2> QED BY <2>1 DEF Main, NoMemory, Start, Sleep, Tell, Join, Wait, Count, Doze, IInv, TypeOK
<1>1. Announced \in SUBSET Threads /\ Announced' \in SUBSET Threads
  BY DEF Announced, Threads
<1>2. Announced \subseteq Announced'
  BY <1>0 DEF Announced, Starts, SameStates, Completed, Is, Threads
<1>3. Cardinality(Announced) <= Cardinality(Announced')
  BY <1>1, <1>2, ThreadsFinite, FS_Subset
<1>4. final <= 1 + Cardinality(Announced) /\ final \in Nat BY DEF IInv, Counted, TypeOK
<1> QED BY <1>0, <1>1, <1>3, <1>4, ThreadsFinite

\* Init goes on only past threads that have ended or announced it.
LEMMA MainProgress == ASSUME IInv, Main PROVE Progress'
<1> USE DEF Goes, GoesOn
<1>0. /\ TypeOK /\ prog' = prog /\ main.at \in Own /\ Progress /\ 1 \in Own
      /\ Own' = Own /\ \A i \in Own : i \in Int /\ i \in Threads
  BY MainType, ThreadsAssumption DEF IInv, Progress, Own, Threads
<1>1. CASE NoMemory \/ Count \/ Doze
  BY <1>0, <1>1 DEF NoMemory, Count, Doze, Progress
<1>2. CASE Start
  <2>1. Starts(main.at) BY <1>2, MainType DEF Start, IInv
  <2>2. \A i \in Own : i >= main.at + 1 => Is(i, "none")'
    BY <1>0, <1>2, <2>1 DEF Start, Starts, Progress, Is
  <2> QED BY <1>0, <1>2, <2>2 DEF Start, Progress
<1>3. CASE Sleep
  <2>1. \A i \in Own : ~ (i < 1) BY <1>0 DEF Own, Threads
  <2> QED BY <1>0, <1>3, <2>1, ModuleFacts DEF Sleep, AfterSleep, Progress, TypeOK
<1>4. CASE Tell
  <2>1. \A i \in Own : Ended(i) => Ended(i)'
    BY <1>0, <1>4, MainType DEF Tell, SameStates, IInv, Ended
  <2>2. main'.at = main.at /\ main'.st \in {"oops", "joining"} /\ main.st = "stopping"
    BY <1>4 DEF Tell
  <2> QED BY <1>0, <2>1, <2>2 DEF Progress
<1>5. CASE Join
  <2>1. \A i \in Own : i < main.at + 1 => Ended(i)
    BY <1>0, <1>5 DEF Join, Joined, Progress
  <2>2. \A i \in Own : Ended(i) => Ended(i)' BY <1>5 DEF Join, Ended
  <2> QED BY <1>0, <1>5, <2>1, <2>2 DEF Join, Progress
<1>6. CASE Wait
  <2>1. \A i \in Own : i < main.at + 1 => Completed(i)
    BY <1>0, <1>6 DEF Wait, Progress
  <2>2. \A i \in Own : Completed(i) => Completed(i)' BY <1>6 DEF Wait, Completed
  <2> QED BY <1>0, <1>6, <2>1, <2>2 DEF Wait, Progress
<1> QED BY <1>1, <1>2, <1>3, <1>4, <1>5, <1>6 DEF Main

(***************************************************************************)
(* Init leaves when the last thread of its own has ended, and with it all  *)
(* those behind it; or when the counter says so.                           *)
(***************************************************************************)
LEMMA MainLeaves == ASSUME IInv, Main PROVE NobodyLeftBehind' /\ LeftAlone'
<1> DEFINE Left == /\ prog.ends = "kthread_stop" => \A i \in Threads : Ended(i)
                   /\ prog.ends \in {"counter", "completion"} => \A i \in Threads : Completed(i)
<1> USE DEF Goes, GoesOn
<1>0. prog' = prog /\ TypeOK /\ Progress /\ Order /\ ChildrenFirst /\ main.st # "gone"
      /\ prog.starts \in {"all", "one", "chain"} /\ \A i \in Threads : 1 <= i /\ i <= Thr
  BY MainType, ModuleFacts DEF IInv, TypeOK, Threads
<1>l. ASSUME Left, UNCHANGED thread PROVE NobodyLeftBehind' /\ LeftAlone'
  BY <1>0, <1>l DEF NobodyLeftBehind, LeftAlone, Handed, InText, Ended, Completed
<1>1. CASE NoMemory
  <2>1. UNCHANGED thread /\ \A i \in Threads : Is(i, "none")
    BY <1>0, <1>1 DEF NoMemory, Progress, Own
  <2> QED BY <1>0, <2>1 DEF NobodyLeftBehind, LeftAlone, Handed, InText, Is
<1>2. CASE Start \/ Sleep \/ Tell
  <2>1. main'.st # "gone"
    <3>1. CASE Start \/ Tell BY <3>1 DEF Start, Tell
    <3>2. CASE Sleep BY <1>0, <3>2, ModuleFacts DEF Sleep, AfterSleep, TypeOK
    <3> QED BY <1>2, <3>1, <3>2
  <2> QED BY <2>1 DEF NobodyLeftBehind, LeftAlone
<1>3. CASE Join
  <2>1. UNCHANGED thread BY <1>3 DEF Join
  <2> SUFFICES ASSUME main'.st = "gone" PROVE Left
    BY <1>l, <2>1 DEF NobodyLeftBehind, LeftAlone
  <2>2. main.at + 1 \notin Own /\ Ended(main.at) /\ main.st = "joining" BY <1>3 DEF Join, Joined
  <2>3. \A i \in Own : Ended(i) BY <1>0, <2>2, ThreadsAssumption DEF Progress, Own, Threads
  <2>0. prog.ends = "kthread_stop" BY <1>0, <2>2 DEF Progress
  <2>4. CASE prog.starts = "all" BY <2>0, <2>3, <2>4 DEF Own
  <2>5. CASE prog.starts = "one" BY <1>0, <2>0, <2>3, <2>5 DEF Order, Own, Ended, Is
  <2>6. CASE prog.starts = "chain"
    <3>1. Ended(1) /\ 1 \in Threads
      BY <2>3, <2>6, ThreadsAssumption DEF Own, Threads
    <3>2. \A i \in Threads : i = 1 \/ 1 < i BY DEF Threads
    <3> QED BY <1>0, <2>0, <2>6, <3>1, <3>2 DEF Order, ChildrenFirst, Past, Behind, Ended, Is
  <2> QED BY <1>0, <2>4, <2>5, <2>6
<1>4. CASE Wait
  <2>1. UNCHANGED thread BY <1>4 DEF Wait
  <2> SUFFICES ASSUME main'.st = "gone" PROVE NobodyLeftBehind' /\ LeftAlone'
    BY DEF NobodyLeftBehind, LeftAlone
  <2>2. main.at + 1 \notin Own /\ Completed(main.at) /\ main.st = "waiting" BY <1>4 DEF Wait
  <2>3. \A i \in Own : Completed(i) BY <1>0, <2>2, ThreadsAssumption DEF Progress, Own, Threads
  <2>0. prog.ends = "completion" BY <1>0, <2>2 DEF Progress
  <2>4. CASE prog.starts = "all" BY <1>l, <2>0, <2>1, <2>3, <2>4 DEF Own
  <2>5. CASE prog.starts = "one"
    <3>1. \A i \in Threads : Completed(i) \/ Is(i, "none")
      BY <1>0, <2>3, <2>5 DEF Order, Own
    <3> QED BY <1>0, <2>0, <2>1, <3>1 DEF NobodyLeftBehind, LeftAlone, Handed, Completed, Is
  <2>6. CASE prog.starts = "chain"
    <3>1. Completed(1) /\ 1 \in Threads BY <2>3, <2>6, ThreadsAssumption DEF Own, Threads
    <3>2. \A i \in Threads : i = 1 \/ 1 < i BY DEF Threads
    <3>3. \A i \in Threads : Completed(i)
      BY <1>0, <2>0, <2>6, <3>1, <3>2 DEF ChildrenFirst, Past, Behind, Completed
    <3> QED BY <1>l, <2>0, <2>1, <3>3
  <2> QED BY <1>0, <2>4, <2>5, <2>6
<1>5. CASE Count
  <2>1. UNCHANGED thread /\ final >= Thr + 1 /\ prog.ends = "counter"
    BY <1>0, <1>5 DEF Count, Progress
  <2>2. Announced \subseteq Threads BY DEF Announced
  <2>3. Cardinality(Announced) >= Thr
    BY <1>0, <2>1, <2>2, ThreadsFinite, ThreadsAssumption DEF IInv, TypeOK, Counted
  <2>4. Announced = Threads BY <2>2, <2>3, ThreadsFinite, FS_Subset, ThreadsAssumption
  <2>5. \A i \in Threads : Completed(i) BY <2>4 DEF Announced
  <2> QED BY <1>l, <2>1, <2>5
<1>6. CASE Doze
  BY <1>0, <1>6 DEF Doze, Progress, NobodyLeftBehind, LeftAlone
<1> QED BY <1>1, <1>2, <1>3, <1>4, <1>5, <1>6 DEF Main
-----------------------------------------------------------------------------
(***************************************************************************)
(* The invariant holds in every state, for every number of threads, of     *)
(* turns and of processors.                                                *)
(***************************************************************************)
THEOREM Invariance == Spec => []IInv
<1>1. IInv /\ [Next]_vars => IInv'
  <2> SUFFICES ASSUME IInv, [Next]_vars PROVE IInv' OBVIOUS
  <2>1. CASE Main
    BY <2>1, MainType, MainKeeps, MainCounts, MainProgress, MainLeaves DEF IInv
  <2>2. CASE \E i \in Threads : Thread(i) BY <2>2, ThreadStep
  <2>3. CASE UNCHANGED vars
    BY <2>3 DEF vars, IInv, TypeOK, Exclusion, Queued, Order, ChildrenFirst, Past, Behind,
       Completed, Ended, Untold, Counted, Announced, Progress, Own, NobodyLeftBehind, LeftAlone,
       Handed, InText, Is
  <2> QED BY <2>1, <2>2, <2>3 DEF Next
<1> QED BY InitInv, <1>1, PTL DEF Spec

(***************************************************************************)
(* When a module that stops its threads with kthread_stop is freed, all    *)
(* of them, down the chain, have left its code.                            *)
(***************************************************************************)
THEOREM NobodyIsLeftBehind == Spec => []NobodyLeftBehind
<1>1. IInv => NobodyLeftBehind BY DEF IInv
<1> QED BY <1>1, Invariance, PTL

(***************************************************************************)
(* However init waits for its threads, but for the modules that trust to   *)
(* time alone: what a thread was given outlives its last use of it, on the *)
(* stack of the thread that started it as in the memory of the module.     *)
(***************************************************************************)
THEOREM HandedMemoryIsThere == Spec => []HandedMemoryLives
<1>1. IInv => HandedMemoryLives
  <2> SUFFICES ASSUME IInv, prog.ends \in {"kthread_stop", "counter", "completion"},
                      NEW i \in Threads, thread[i].st \in Handed
               PROVE  main.st # "gone" /\ \A p \in Threads : i \in Child(p) => ~ Is(p, "dead")
    BY DEF HandedMemoryLives
  <2>1. main.st # "gone" BY DEF IInv, LeftAlone
  <2>2. ASSUME NEW p \in Threads, i \in Child(p), Is(p, "dead") PROVE FALSE
    <3>1. prog.starts = "chain" /\ p < i BY <2>2, ThreadsAssumption DEF Child, Threads
    <3>2. Behind(i) BY <2>1, <2>2, <3>1 DEF IInv, ChildrenFirst, Past, Is
    <3>3. prog.ends # "counter" BY <3>1, ModuleFacts DEF IInv, TypeOK
    <3> QED BY <3>2, <3>3 DEF Behind, Completed, Ended, Handed
  <2> QED BY <2>1, <2>2
<1> QED BY <1>1, Invariance, PTL
-----------------------------------------------------------------------------
(***************************************************************************)
(* The sum of the turns of the threads.  MapThenSumSet adds the turns of   *)
(* one thread after the other by a recursive function on sets: these       *)
(* lemmas show that there is one and only one, and how the sum changes     *)
(* with one of its terms.                                                  *)
(***************************************************************************)

\* A set of numbers that is not empty has a least one: what replaces induction below,
\* where the first counterexample is followed to an earlier one.
LEMMA Least ==
  ASSUME NEW T, T \subseteq Nat, T # {}
  PROVE  \E x \in T : \A y \in T : ~ (y < x)
<1> DEFINE R == {p \in Nat \X Nat : p[1] < p[2]}
<1>1. IsWellFoundedOn(R, Nat)
  BY NatLessThanWellFounded DEF OpToRel
<1>2. \A x, y \in Nat : y < x => <<y, x>> \in R
  OBVIOUS
<1> HIDE DEF R
<1>3. PICK x \in T : \A y \in T : ~ (<<y, x>> \in R)
  BY <1>1, WFMin
<1> QED BY <1>2, <1>3

\* The turns of all threads of a table.
TurnsOf(th) == MapThenSumSet(LAMBDA i : th[i].turns, Threads)

\* The thread of a set whose turns are added first.
Some(s) == CHOOSE x \in s : TRUE

\* it[s] is the sum of the turns of the threads in s.
Adds(th, it) ==
  it = [s \in SUBSET Threads |->
          IF s = {} THEN 0 ELSE th[Some(s)].turns + it[s \ {Some(s)}]]

\* What MapThenSumSet returns is the value of such a function.
LEMMA SumIs == ASSUME NEW th PROVE TurnsOf(th) = (CHOOSE it : Adds(th, it))[Threads]
BY Zenon DEF TurnsOf, MapThenSumSet, MapThenFoldSet, Adds, Some

\* What is left to add is a smaller set.
LEMMA SomeFacts ==
  ASSUME NEW s \in SUBSET Threads, s # {}
  PROVE  /\ Some(s) \in s /\ s \ {Some(s)} \in SUBSET Threads
         /\ Cardinality(s) \in Nat /\ Cardinality(s \ {Some(s)}) \in Nat
         /\ Cardinality(s \ {Some(s)}) < Cardinality(s)
<1>1. Some(s) \in s BY DEF Some
<1>2. IsFiniteSet(s) BY ThreadsFinite, FS_Subset
<1>3. Cardinality(s \ {Some(s)}) = Cardinality(s) - 1 BY <1>1, <1>2, FS_RemoveElement
<1>4. Cardinality(s) \in Nat BY <1>2, FS_CardinalityType
<1>5. Cardinality(s \ {Some(s)}) \in Nat
  <2>1. IsFiniteSet(s \ {Some(s)}) BY <1>2, FS_Subset
  <2> QED BY <2>1, FS_CardinalityType
<1> QED BY <1>1, <1>3, <1>4, <1>5

\* Every table has such a function: a first number of threads for which there is none
\* would follow one for which there is.
LEMMA AddsExists ==
  ASSUME NEW th \in Tables
  PROVE  \E it \in [SUBSET Threads -> Nat] : Adds(th, it)
<1> DEFINE Of(n) == {s \in SUBSET Threads : Cardinality(s) <= n}
           Sum(it, s) == IF s = {} THEN 0 ELSE th[Some(s)].turns + it[s \ {Some(s)}]
           Good(n, it) == it \in [Of(n) -> Nat] /\ \A s \in Of(n) : it[s] = Sum(it, s)
           Bad == {n \in Nat : ~ \E it : Good(n, it)}
<1>1. \A i \in Threads : th[i].turns \in Nat BY DEF Tables
<1>2. \A s \in SUBSET Threads : Cardinality(s) \in Nat BY ThreadsFinite
<1>3. Bad = {}
  <2> SUFFICES ASSUME Bad # {} PROVE FALSE OBVIOUS
  <2>1. PICK n \in Bad : \A m \in Bad : ~ (m < n)
    <3>1. Bad \subseteq Nat OBVIOUS
    <3> QED BY <3>1, Least, Zenon
  <2>2. n \in Nat /\ ~ \E it : Good(n, it) OBVIOUS
  <2> DEFINE Before(it) == \A s \in Of(n) : s # {} =>
                             s \ {Some(s)} \in DOMAIN it /\ it[s \ {Some(s)}] \in Nat
  <2>3. ASSUME NEW it, Before(it), NEW g, g = [s \in Of(n) |-> Sum(it, s)],
               \A s \in Of(n) : s # {} => g[s \ {Some(s)}] = it[s \ {Some(s)}]
        PROVE  FALSE
    <3>1. \A s \in Of(n) : Sum(it, s) \in Nat
      <4> TAKE s \in Of(n)
      <4>1. CASE s = {} BY <4>1
      <4>2. CASE s # {}
        <5>1. Some(s) \in Threads BY <4>2, SomeFacts
        <5>2. it[s \ {Some(s)}] \in Nat BY <2>3, <4>2
        <5> QED BY <1>1, <4>2, <5>1, <5>2
      <4> QED BY <4>1, <4>2
    <3>2. g \in [Of(n) -> Nat] BY <2>3, <3>1
    <3>3. \A s \in Of(n) : g[s] = Sum(g, s) BY <2>3
    <3> QED BY <2>2, <3>2, <3>3
  <2>4. CASE n = 0
    <3> DEFINE it == [s \in SUBSET Threads |-> 0]
    <3>1. \A s \in Of(n) : s = {}
      <4>1. \A s \in Of(n) : s # {} => Cardinality(s \ {Some(s)}) < 0 /\ Cardinality(s \ {Some(s)}) \in Nat
        BY <2>4, SomeFacts
      <4>2. ~ \E k \in Nat : k < 0 OBVIOUS
      <4> HIDE DEF Of
      <4> QED BY <4>1, <4>2
    <3>2. PICK g : g = [s \in Of(n) |-> Sum(it, s)] OBVIOUS
    <3> QED BY <2>3, <3>1, <3>2
  <2>5. CASE n # 0
    <3>1. n - 1 \in Nat /\ n - 1 < n BY <2>2, <2>5
    <3>2. PICK it : Good(n - 1, it) BY <2>1, <3>1
    <3>3. ASSUME NEW s \in Of(n), s # {}
          PROVE  s \ {Some(s)} \in Of(n - 1) /\ s \ {Some(s)} \in Of(n)
      <4>1. /\ s \ {Some(s)} \in SUBSET Threads /\ Cardinality(s) \in Nat
            /\ Cardinality(s \ {Some(s)}) \in Nat /\ Cardinality(s \ {Some(s)}) < Cardinality(s)
        BY <3>3, SomeFacts
      <4> QED BY <2>2, <4>1
    <3>4. Before(it) BY <3>2, <3>3
    <3>5. PICK g : g = [s \in Of(n) |-> Sum(it, s)] OBVIOUS
    <3>6. \A s \in Of(n - 1) : g[s] = it[s]
      <4> TAKE s \in Of(n - 1)
      <4>1. s \in Of(n) BY <1>2, <2>2
      <4> QED BY <3>2, <3>5, <4>1
    <3>7. \A s \in Of(n) : s # {} => g[s \ {Some(s)}] = it[s \ {Some(s)}] BY <3>3, <3>6
    <3> HIDE DEF Of, Sum, Before
    <3> QED BY <2>3, <3>4, <3>5, <3>7
  <2> QED BY <2>4, <2>5
<1>4. Thr \in Nat /\ Of(Thr) = SUBSET Threads
  <2>1. \A s \in SUBSET Threads : Cardinality(s) <= Thr
    BY ThreadsFinite, FS_Subset
  <2> QED BY <2>1, ThreadsAssumption
<1>5. PICK it : Good(Thr, it) BY <1>3, <1>4
<1>6. it \in [SUBSET Threads -> Nat] /\ \A s \in SUBSET Threads : it[s] = Sum(it, s) BY <1>4, <1>5
<1>7. it = [s \in SUBSET Threads |-> Sum(it, s)] BY <1>6
<1> QED BY <1>6, <1>7 DEF Adds

\* And only one.
LEMMA AddsAlike ==
  ASSUME NEW th, NEW f, NEW g, Adds(th, f), Adds(th, g)
  PROVE  f = g
<1> DEFINE Bad == {n \in Nat : \E s \in SUBSET Threads : Cardinality(s) = n /\ f[s] # g[s]}
<1>1. Bad = {}
  <2> SUFFICES ASSUME Bad # {} PROVE FALSE OBVIOUS
  <2>1. PICK n \in Bad : \A m \in Bad : ~ (m < n)
    <3>1. Bad \subseteq Nat OBVIOUS
    <3> QED BY <3>1, Least, Zenon
  <2>2. PICK s \in SUBSET Threads : Cardinality(s) = n /\ f[s] # g[s] OBVIOUS
  <2>3. /\ f[s] = IF s = {} THEN 0 ELSE th[Some(s)].turns + f[s \ {Some(s)}]
        /\ g[s] = IF s = {} THEN 0 ELSE th[Some(s)].turns + g[s \ {Some(s)}]
    BY DEF Adds
  <2>4. s # {} => f[s \ {Some(s)}] = g[s \ {Some(s)}] BY <2>1, <2>2, SomeFacts
  <2> QED BY <2>2, <2>3, <2>4
<1>2. \A s \in SUBSET Threads : f[s] = g[s] BY <1>1, ThreadsFinite
<1>3. f = [s \in SUBSET Threads |-> f[s]] /\ g = [s \in SUBSET Threads |-> g[s]] BY DEF Adds
<1> QED BY <1>2, <1>3

\* So the sum may be read from any of them.
LEMMA SumBy ==
  ASSUME NEW th, NEW it, Adds(th, it)
  PROVE  TurnsOf(th) = it[Threads]
<1> DEFINE F == CHOOSE f : Adds(th, f)
<1>1. Adds(th, F) OBVIOUS
<1> HIDE DEF F
<1>2. F = it BY <1>1, AddsAlike
<1> QED BY <1>2, SumIs DEF F

\* Without turns there is nothing to add.
LEMMA NoTurns ==
  ASSUME NEW th, \A i \in Threads : th[i].turns = 0
  PROVE  TurnsOf(th) = 0
<1> DEFINE it == [s \in SUBSET Threads |-> 0]
<1>1. ASSUME NEW s \in SUBSET Threads
      PROVE  it[s] = IF s = {} THEN 0 ELSE th[Some(s)].turns + it[s \ {Some(s)}]
  <2>1. CASE s # {}
    <3>1. Some(s) \in Threads BY <2>1, SomeFacts
    <3> QED BY <3>1
  <2> QED BY <2>1
<1>2. it = [s \in SUBSET Threads |-> IF s = {} THEN 0 ELSE th[Some(s)].turns + it[s \ {Some(s)}]]
  BY <1>1
<1>3. it[Threads] = 0 OBVIOUS
<1> HIDE DEF it
<1>4. Adds(th, it) BY <1>2 DEF Adds
<1> QED BY <1>3, <1>4, SumBy

\* One thread that took d turns more adds d to the sum.
LEMMA OneMore ==
  ASSUME NEW th \in Tables, NEW tg \in Tables, NEW i \in Threads, NEW d \in Nat,
         tg[i].turns = th[i].turns + d,
         \A j \in Threads : j # i => tg[j].turns = th[j].turns
  PROVE  TurnsOf(tg) = TurnsOf(th) + d
<1>1. PICK f \in [SUBSET Threads -> Nat] : Adds(th, f) BY AddsExists
<1> DEFINE g == [s \in SUBSET Threads |-> f[s] + (IF i \in s THEN d ELSE 0)]
<1>2. ASSUME NEW s \in SUBSET Threads
      PROVE  g[s] = IF s = {} THEN 0 ELSE tg[Some(s)].turns + g[s \ {Some(s)}]
  <2>1. f[s] = IF s = {} THEN 0 ELSE th[Some(s)].turns + f[s \ {Some(s)}] BY <1>1 DEF Adds
  <2>2. CASE s = {} BY <2>1, <2>2
  <2>3. CASE s # {}
    <3>1. PICK x \in Threads, r \in SUBSET Threads : x = Some(s) /\ x \in s /\ r = s \ {x}
      BY <2>3, SomeFacts
    <3>2. f[s] = th[x].turns + f[r] /\ f[r] \in Nat /\ th[x].turns \in Nat /\ th[i].turns \in Nat
      BY <1>1, <2>1, <2>3, <3>1 DEF Tables
    <3>3. g[s] = f[s] + (IF i \in s THEN d ELSE 0) /\ g[r] = f[r] + (IF i \in r THEN d ELSE 0)
      OBVIOUS
    <3> HIDE DEF g
    <3>4. g[s] = tg[x].turns + g[r]
      <4>1. CASE x = i BY <3>1, <3>2, <3>3, <4>1
      <4>2. CASE x # i BY <3>1, <3>2, <3>3, <4>2
      <4> QED BY <4>1, <4>2
    <3> QED BY <2>3, <3>1, <3>4
  <2> QED BY <2>2, <2>3
<1>3. g = [s \in SUBSET Threads |-> IF s = {} THEN 0 ELSE tg[Some(s)].turns + g[s \ {Some(s)}]]
  BY <1>2
<1>4. g[Threads] = f[Threads] + d OBVIOUS
<1> HIDE DEF g
<1>5. Adds(tg, g) BY <1>3 DEF Adds
<1> QED BY <1>1, <1>4, <1>5, SumBy
-----------------------------------------------------------------------------
(***************************************************************************)
(* The counter of mlock.  A thread in a turn has read what the counter     *)
(* still is, for nobody else is in one; a thread that is not there yet     *)
(* took no turn, so that starting it drops none from the sum.              *)
(***************************************************************************)
Fresh ==
  prog.lock = "semaphore" =>
    \A i \in Threads : /\ Is(i, "none") => thread[i].turns = 0
                       /\ Is(i, "working") => thread[i].read = locked

\* CountedAll, in the words of the lemmas on sums.
AllIn == prog.lock = "semaphore" => locked = TurnsOf(thread)

\* The property and its other form are the same.
LEMMA CountedAllIs == CountedAll <=> AllIn
BY DEF CountedAll, AllIn, TurnsOf

\* The module with the semaphore counts its turns.
LEMMA MlockFacts ==
  ASSUME NEW p \in Modules, p.lock = "semaphore"
  PROVE  p.turns \in Nat \ {0}
<1> USE DEF Module
<1>1. p \notin {pamix, pamixab, pamixad, mod_thr1, mod_thr2, mod_thr3, mod_for, thr1, thr2}
  BY DEF pamix, pamixab, pamixad, mod_thr1, mod_thr2, mod_thr3, mod_for, thr1, thr2
<1>2. ~ \E act \in BOOLEAN : p = pamixm(act) \/ p = pamixx(act) BY DEF pamixm, pamixx
<1>3. CASE \E sync \in {"off", "outer", "inner"} : p = mlock(sync)
  BY <1>3, ThreadsAssumption DEF mlock
<1> HIDE DEF Module
<1>4. p \notin UNION {{pamixm(act), pamixx(act)} : act \in BOOLEAN} BY <1>2, Zenon
<1> QED BY <1>1, <1>4, <1>3, Zenon DEF Modules

\* A step that ends no turn leaves the sum alone.
LEMMA NoneMore ==
  ASSUME Fresh, AllIn, TypeOK, TypeOK', prog' = prog, locked' = locked,
         \A i \in Threads : /\ thread'[i].turns = thread[i].turns
                            /\ thread'[i].st = "none" => Is(i, "none")
                            /\ thread'[i].st = "working" =>
                                 \/ thread'[i].read = locked
                                 \/ Is(i, "working") /\ thread'[i].read = thread[i].read
  PROVE  Fresh' /\ AllIn'
<1>1. Fresh' BY DEF Fresh, Is
<1>2. thread \in Tables /\ thread' \in Tables BY DEF TypeOK, Tables
<1>3. TurnsOf(thread') = TurnsOf(thread)
  <2>1. 1 \in Threads /\ thread[1].turns \in Nat BY <1>2, ThreadsAssumption DEF Threads, Tables
  <2>2. thread'[1].turns = thread[1].turns + 0 BY <2>1
  <2>3. PICK s \in Nat : s = TurnsOf(thread)
    <3>1. PICK f \in [SUBSET Threads -> Nat] : Adds(thread, f) BY <1>2, AddsExists
    <3> QED BY <3>1, SumBy
  <2>4. TurnsOf(thread') = TurnsOf(thread) + 0 BY <1>2, <2>1, <2>2, OneMore
  <2> QED BY <2>3, <2>4
<1> QED BY <1>1, <1>3 DEF AllIn

\* The table with one thread started.
LEMMA StartedFacts ==
  ASSUME NEW th \in Tables, NEW i \in Threads, NEW tg \in Started(i, th)
  PROVE  /\ tg[i].st \in {"new", "failed"} /\ tg[i].turns = 0
         /\ \A j \in Threads : j # i => tg[j] = th[j]
<1>1. PICK st \in {"new", "failed"} : tg = [th EXCEPT ![i] = [NoThread EXCEPT !.st = st]]
  BY DEF Started
<1>2. PICK c : c = [NoThread EXCEPT !.st = st] OBVIOUS
<1>3. c.st = st /\ c.turns = 0 BY <1>2 DEF NoThread
<1>4. tg = [th EXCEPT ![i] = c] BY <1>1, <1>2
<1> QED BY <1>3, <1>4 DEF Tables

\* A thread that moves, or is told to stop, takes no turn by that.
LEMMA MovesKeeps ==
  ASSUME TypeOK, NEW i \in Threads, NEW st, Moves(i, st)
  PROVE  /\ \A j \in Threads : thread'[j].turns = thread[j].turns /\ thread'[j].read = thread[j].read
         /\ thread'[i].st = st
         /\ \A j \in Threads : j # i => thread'[j].st = thread[j].st
BY DEF Moves, TypeOK

\* A thread that is told to stop has its turns.
LEMMA ToldKeeps ==
  ASSUME TypeOK, NEW i \in Threads, Told(i)
  PROVE  \A j \in Threads : /\ thread'[j].turns = thread[j].turns /\ thread'[j].read = thread[j].read
                            /\ thread'[j].st = thread[j].st
BY DEF Told, TypeOK

\* Init starts threads that were not there, and counts nothing.
LEMMA MainCountsAll ==
  ASSUME IInv, IInv', Fresh, AllIn, prog.lock = "semaphore", Main
  PROVE  Fresh' /\ AllIn'
<1>1. TypeOK /\ TypeOK' /\ Progress /\ thread \in Tables /\ prog' = prog
  BY DEF IInv, TypeOK, Tables, Main
<1>2. locked' = locked
  BY DEF Main, NoMemory, Start, Sleep, Tell, Join, Wait, Count, Doze
<1>3. CASE UNCHANGED thread BY <1>1, <1>2, <1>3, NoneMore DEF Is
<1>4. CASE Start
  <2>1. main.at \in Threads /\ Is(main.at, "none") /\ thread' \in Started(main.at, thread)
    <3>1. main.st = "starting" /\ main.at \in Own /\ main.at \in Threads
      BY <1>1, <1>4 DEF Start, Progress, TypeOK
    <3>2. main.at >= main.at BY <3>1 DEF Threads
    <3> QED BY <1>1, <1>4, <3>1, <3>2 DEF Start, Progress
  <2>2. thread[main.at].turns = 0 BY <2>1 DEF Fresh
  <2>3. /\ thread'[main.at].st \in {"new", "failed"} /\ thread'[main.at].turns = 0
        /\ \A j \in Threads : j # main.at => thread'[j] = thread[j]
    BY <1>1, <2>1, StartedFacts
  <2> QED BY <1>1, <1>2, <2>1, <2>2, <2>3, NoneMore DEF Is
<1>5. CASE Tell
  <2>1. main.at \in Threads /\ (UNCHANGED thread \/ Told(main.at)) BY <1>1, <1>5 DEF Tell, TypeOK
  <2>2. CASE Told(main.at) BY <1>1, <1>2, <2>1, <2>2, ToldKeeps, NoneMore DEF Is
  <2> QED BY <1>3, <2>1, <2>2
<1>6. CASE NoMemory \/ Sleep \/ Join \/ Wait \/ Count \/ Doze
  BY <1>3, <1>6 DEF NoMemory, Sleep, Join, Wait, Count, Doze
<1> QED BY <1>4, <1>5, <1>6 DEF Main

\* A thread counts its turn on top of what it read when it took the semaphore.
LEMMA ThreadCountsAll ==
  ASSUME IInv, IInv', Fresh, AllIn, prog.lock = "semaphore", NEW i \in Threads, Thread(i)
  PROVE  Fresh' /\ AllIn'
<1>1. TypeOK /\ TypeOK' /\ Order /\ thread \in Tables /\ thread' \in Tables /\ prog' = prog
  BY DEF IInv, TypeOK, Tables, Thread
<1>2. ASSUME NEW st \in {"dead", "testing", "leaving", "wanting", "oops", "announcing", "announced"},
             Moves(i, st), UNCHANGED locked
      PROVE  Fresh' /\ AllIn'
  BY <1>1, <1>2, MovesKeeps, NoneMore DEF Is
<1>3. CASE Begin(i)
  <2> DEFINE running == [thread EXCEPT ![i].st = "testing"]
  <2>1. UNCHANGED locked BY <1>3 DEF Begin
  <2>2. CASE Moves(i, "dead") BY <1>2, <2>1, <2>2
  <2>3. CASE thread' = running BY <1>2, <2>1, <2>3 DEF Moves
  <2>4. CASE \E c \in Child(i) : thread' \in Started(c, running)
    <3>1. i + 1 \in Threads /\ thread' \in Started(i + 1, running) /\ prog.starts = "chain"
      BY <2>4, ThreadsAssumption DEF Child, Threads
    <3>2. Is(i, "new") /\ i < i + 1 BY <1>3 DEF Begin, Threads
    <3>3. Is(i + 1, "none") /\ thread[i + 1].turns = 0 BY <1>1, <3>1, <3>2 DEF Order, Is, Fresh
    <3>4. /\ running \in Tables /\ running[i].st = "testing"
          /\ running[i].turns = thread[i].turns
          /\ \A j \in Threads : j # i => running[j] = thread[j]
      BY <1>1 DEF Tables, States
    <3> HIDE DEF running
    <3>5. /\ thread'[i + 1].st \in {"new", "failed"} /\ thread'[i + 1].turns = 0
          /\ \A j \in Threads : j # i + 1 => thread'[j] = running[j]
      BY <3>1, <3>4, StartedFacts
    <3> QED BY <1>1, <2>1, <3>1, <3>2, <3>3, <3>4, <3>5, NoneMore DEF Is
  <2> QED BY <1>3, <2>2, <2>3, <2>4 DEF Begin
<1>4. CASE Test(i)
  <2>1. UNCHANGED locked /\ (Moves(i, "leaving") \/ Moves(i, "wanting"))
    BY <1>4 DEF Test
  <2> QED BY <1>2, <2>1
<1>5. CASE Acquire(i)
  <2>1. /\ UNCHANGED locked
        /\ thread' = [thread EXCEPT ![i].st = "working", ![i].read = locked]
    BY <1>5 DEF Acquire
  <2>2. /\ thread'[i].st = "working" /\ thread'[i].read = locked /\ thread'[i].turns = thread[i].turns
        /\ \A j \in Threads : j # i => thread'[j] = thread[j]
    BY <1>1, <2>1 DEF Tables
  <2> QED BY <1>1, <2>1, <2>2, NoneMore DEF Is
<1>6. CASE Work(i)
  <2>1. prog.turns > 0 /\ Is(i, "working") /\ thread[i].read = locked /\ locked \in Nat
    BY <1>1, <1>6, MlockFacts DEF Work, Fresh, TypeOK
  <2>2. /\ thread' = [thread EXCEPT ![i].st = "resting", ![i].read = 0,
                                    ![i].turns = thread[i].turns + 1]
        /\ locked' = locked + 1
    BY <1>6, <2>1 DEF Work
  <2>3. /\ thread'[i].st = "resting" /\ thread'[i].turns = thread[i].turns + 1
        /\ \A j \in Threads : j # i => thread'[j] = thread[j]
    BY <1>1, <2>2 DEF Tables
  <2>4. \A j \in Threads : j # i => ~ Is(j, "working")
    BY <2>1 DEF IInv, Exclusion, Is
  <2>5. Fresh' BY <1>1, <2>3, <2>4 DEF Fresh, Is
  <2>6. TurnsOf(thread') = TurnsOf(thread) + 1 BY <1>1, <2>3, OneMore
  <2> QED BY <1>1, <2>2, <2>5, <2>6 DEF AllIn
<1>7. CASE Rest(i) BY <1>2, <1>7 DEF Rest
<1>8. CASE Leave(i)
  <2>1. UNCHANGED locked BY <1>8 DEF Leave
  <2>2. CASE \E c \in Child(i) : Told(c)
    <3>1. PICK c \in Threads : Told(c) BY <2>2, ThreadsAssumption DEF Child, Threads
    <3> QED BY <1>1, <2>1, <3>1, ToldKeeps, NoneMore DEF Is
  <2>3. CASE Moves(i, "oops") \/ Moves(i, "announcing") BY <1>2, <2>1, <2>3
  <2> QED BY <1>8, <2>2, <2>3 DEF Leave
<1>9. CASE Announce(i) \/ Exit(i) \/ Fault(i) BY <1>2, <1>9 DEF Announce, Exit, Fault
<1> QED BY <1>3, <1>4, <1>5, <1>6, <1>7, <1>8, <1>9 DEF Thread

(***************************************************************************)
(* The counter of mlock is the sum of the turns its threads took, however  *)
(* many they are and however often each locks: what a thread read before   *)
(* it slept with the semaphore is still there when it writes.              *)
(***************************************************************************)
THEOREM EveryTurnIsCounted == Spec => []CountedAll
<1>1. Init => Fresh /\ AllIn
  <2> SUFFICES ASSUME Init PROVE Fresh /\ AllIn OBVIOUS
  <2>1. \A i \in Threads : thread[i].turns = 0 /\ thread[i].st = "none"
    BY DEF Init, NoThread
  <2>2. TurnsOf(thread) = 0 BY <2>1, NoTurns
  <2> QED BY <2>1, <2>2 DEF Init, Fresh, AllIn, Is
<1>2. IInv /\ IInv' /\ Fresh /\ AllIn /\ [Next]_vars => Fresh' /\ AllIn'
  <2> SUFFICES ASSUME IInv, IInv', Fresh, AllIn, [Next]_vars PROVE Fresh' /\ AllIn' OBVIOUS
  <2>1. prog' = prog BY DEF Next, Main, Thread, vars
  <2>2. CASE prog.lock # "semaphore" BY <2>1, <2>2 DEF Fresh, AllIn
  <2>3. CASE prog.lock = "semaphore" /\ UNCHANGED vars BY <2>3 DEF vars, Fresh, AllIn, Is
  <2>4. CASE prog.lock = "semaphore" /\ Main BY <2>4, MainCountsAll
  <2>5. CASE prog.lock = "semaphore" /\ \E i \in Threads : Thread(i) BY <2>5, ThreadCountsAll
  <2> QED BY <2>2, <2>3, <2>4, <2>5 DEF Next
<1> QED BY Invariance, CountedAllIs, <1>1, <1>2, PTL DEF Spec
=============================================================================
