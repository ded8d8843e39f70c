--------------------------- MODULE LifecycleProofs ---------------------------
(***************************************************************************)
(* What holds of the drivers whose scripts are orderly; and that one walk  *)
(* through the scripts of any driver shows all that callers can meet.      *)
(***************************************************************************)
EXTENDS Drivers, SequenceTheorems, TLAPS

(***************************************************************************)
(* What the lifecycle itself gives to every driver: a module is unloaded   *)
(* only when nobody is inside through an interface with an owner, and an   *)
(* interface whose release waits is left by everybody once it is released. *)
(***************************************************************************)
GuardedIsLeft ==
  \A c \in calls : /\ phase \in {"unloading", "removed"} => c.kind \notin Owned
                   /\ c.kind \in Draining \ Deferred => c \in held

(***************************************************************************)
(* One step of insmod, rmmod, the driver or a caller keeps the guarded     *)
(* interfaces left: the count of users is tested before rmmod and not      *)
(* taken afterwards, and a release that waits lets no call survive it.     *)
(***************************************************************************)
LEMMA GuardedStep ==
  ASSUME GuardedIsLeft, Next
  PROVE  GuardedIsLeft'
<1> SUFFICES ASSUME NEW c \in calls'
             PROVE  /\ phase' \in {"unloading", "removed"} => c.kind \notin Owned
                    /\ c.kind \in Draining \ Deferred => c \in held'
  BY DEF GuardedIsLeft
<1> USE DEF GuardedIsLeft, Owned, Draining, Deferred
<1>1. CASE Insmod BY <1>1 DEF Insmod
<1>2. CASE Rmmod BY <1>2 DEF Rmmod
<1>3. CASE Runs
  <2>1. CASE Returns
    BY <2>1 DEF Returns, At
  <2>2. CASE Oops BY <2>2 DEF Oops
  <2>3. CASE Acquires BY <2>3 DEF Acquires, Advance
  <2>4. CASE Fails \/ Misses \/ Passes \/ Awaits \/ Tests
    BY <2>4 DEF Fails, Misses, Passes, Awaits, Tests, Advance
  <2>5. CASE Releases
    <3>1. c \in calls /\ phase' = phase /\ held' = held \ {Now.thing}
      BY <2>5 DEF Releases, Advance
    <3>2. c.kind \in Draining => c # Now.thing
      BY <3>1, <2>5 DEF Releases, Waits
    <3> QED BY <3>1, <3>2
  <2>6. CASE Starts BY <2>6 DEF Starts, Advance
  <2> QED BY <1>3, <2>1, <2>2, <2>3, <2>4, <2>5, <2>6 DEF Runs
<1>4. CASE \E r \in Callable \ calls : Enter(r)
  <2> PICK r \in Callable : Enter(r) BY <1>4
  <2>1. CASE c \in calls BY <2>1 DEF Enter
  <2>2. CASE c = r
    BY <2>2 DEF Enter, Callable, Started
  <2> QED BY <2>1, <2>2 DEF Enter
<1>5. CASE \E r \in calls : Leave(r)
  <2> PICK r \in calls : Leave(r) BY <1>5
  <2> QED BY DEF Leave
<1> QED BY <1>1, <1>2, <1>3, <1>4, <1>5 DEF Next

(***************************************************************************)
(* The guarded interfaces are left, in every behaviour of every driver.    *)
(***************************************************************************)
LEMMA GuardedAlways == Spec => []GuardedIsLeft
<1>1. Init => GuardedIsLeft BY DEF Init, GuardedIsLeft
<1>2. GuardedIsLeft /\ [Next]_vars => GuardedIsLeft'
  <2> SUFFICES ASSUME GuardedIsLeft, [Next]_vars PROVE GuardedIsLeft' OBVIOUS
  <2>1. CASE Next BY <2>1, GuardedStep
  <2>2. CASE UNCHANGED vars BY <2>2 DEF GuardedIsLeft, vars
  <2> QED BY <2>1, <2>2
<1> QED BY <1>1, <1>2, PTL DEF Spec
-----------------------------------------------------------------------------
(***************************************************************************)
(* Orderly drivers.  The invariant says where insmod or rmmod is: it has   *)
(* taken the first k steps of init, or it is undoing them and has taken    *)
(* the first m steps of a list of releases.                                *)
(***************************************************************************)
init == Script[driver].init
exit == Script[driver].exit

\* What is left of a list after its first m steps.
Rest(list, m) == [j \in 1..Len(list) - m |-> list[m + j]]

Between(low, high) == low \subseteq held /\ held \subseteq high
Loads(k) ==
  /\ todo = Rest(init \o Success, k)
  /\ Between(Certain(init, k), Possible(init, k))
Undoing(list, k, m) ==
  /\ todo = Rest(list, m)
  /\ Between(Certain(init, k) \ Released(list, m), Possible(init, k) \ Released(list, m))
Unwinds(k) ==
  /\ init[k].op \in {"get", "check"}
  /\ \E m \in 0..Len(init[k].unwind) - 1 : Undoing(init[k].unwind, k - 1, m)
Unloads == \E m \in 0..Len(exit) : Undoing(exit \o Success, Len(init), m)

Place ==
  /\ phase \in {"out", "loading", "in", "unloading", "refused", "removed"}
  /\ phase \in {"out", "refused", "removed"} => held = {}
  /\ phase = "loading" =>
       (\E k \in 0..Len(init) : Loads(k)) \/ (\E k \in 1..Len(init) : Unwinds(k))
  /\ phase = "in" => Between(Certain(init, Len(init)), Possible(init, Len(init)))
  /\ phase = "unloading" => Unloads

\* Whoever is inside came through something that is still held, and what is held
\* has what it uses.
Closed == /\ calls \subseteq held /\ held \subseteq Possible(init, Len(init))
          /\ \A t \in held : t.uses \subseteq held
          /\ \A c \in calls : c.kind \in Interfaces
OInv == Orderly(Script[driver]) => Place /\ Closed

\* The head of what is left is the next step.
LEMMA RestFacts ==
  ASSUME NEW S, NEW list \in Seq(S), NEW m \in 0..Len(list)
  PROVE  /\ Rest(list, m) \in Seq(S) /\ Len(Rest(list, m)) = Len(list) - m
         /\ m < Len(list) => /\ Head(Rest(list, m)) = list[m + 1]
                             /\ Tail(Rest(list, m)) = Rest(list, m + 1)
<1>1. Len(list) \in Nat /\ \A j \in 1..Len(list) : list[j] \in S BY LenProperties, ElementOfSeq
<1>2. PICK r : r = Rest(list, m) OBVIOUS
<1>3. PICK n \in Nat : n = Len(list) - m
  <2>1. Len(list) - m \in Nat BY <1>1
  <2> QED BY <2>1
<1>4. r = [j \in 1..n |-> list[m + j]] BY <1>2, <1>3 DEF Rest
<1>5. \A j \in 1..n : m + j \in 1..Len(list) BY <1>1, <1>3
<1>6. r \in Seq(S) /\ Len(r) = n
  <2>1. r \in [1..n -> S] BY <1>1, <1>4, <1>5
  <2>2. r \in Seq(S) BY <2>1, <1>3
  <2>3. DOMAIN r = 1..n BY <1>4
  <2> QED BY <2>2, <2>3, <1>3, LenProperties
<1>7. ASSUME m < Len(list)
      PROVE  Head(r) = list[m + 1] /\ Tail(r) = Rest(list, m + 1)
  <2>1. n # 0 /\ 1 \in 1..n BY <1>1, <1>3, <1>7
  <2>2. r # <<>> BY <1>6, <2>1, EmptySeq
  <2>3. Head(r) = r[1] BY <1>6, <2>2, HeadTailProperties
  <2>4. r[1] = list[m + 1] BY <1>4, <2>1
  <2>5. PICK t : t = Tail(r) OBVIOUS
  <2>6. t \in Seq(S) /\ Len(t) = n - 1 /\ \A j \in 1..Len(t) : t[j] = r[j + 1]
    BY <1>6, <2>2, <2>5, HeadTailProperties
  <2>7. \A j \in 1..n - 1 : t[j] = list[(m + 1) + j]
    <3> TAKE j \in 1..n - 1
    <3>1. j + 1 \in 1..n /\ m + (j + 1) = (m + 1) + j BY <1>3
    <3>2. t[j] = r[j + 1] BY <2>6
    <3> QED BY <1>4, <3>1, <3>2
  <2>8. t = [j \in 1..n - 1 |-> t[j]]
    <3>1. DOMAIN t = 1..n - 1 /\ t = [j \in DOMAIN t |-> t[j]] BY <2>6, LenProperties, Zenon
    <3> QED BY <3>1
  <2>9. Rest(list, m + 1) = [j \in 1..n - 1 |-> list[(m + 1) + j]]
    <3>1. Len(list) - (m + 1) = n - 1 BY <1>1, <1>3
    <3> QED BY <3>1 DEF Rest
  <2>10. t = Rest(list, m + 1) BY <2>7, <2>8, <2>9
  <2> QED BY <2>3, <2>4, <2>5, <2>10
<1> QED BY <1>2, <1>3, <1>6, <1>7

\* Nothing has been taken at the start of a list.
LEMMA RestAll ==
  ASSUME NEW S, NEW list \in Seq(S)
  PROVE  Rest(list, 0) = list /\ Released(list, 0) = {}
<1>1. Len(list) \in Nat /\ list = [j \in 1..Len(list) |-> list[j]]
  BY LenProperties
<1>2. PICK n \in Nat : n = Len(list) BY <1>1
<1>3. n - 0 = n /\ \A j \in 1..n : 0 + j = j OBVIOUS
<1>4. Rest(list, 0) = [j \in 1..n |-> list[j]] BY <1>2, <1>3 DEF Rest
<1>5. 1..0 = {} OBVIOUS
<1> QED BY <1>1, <1>2, <1>4, <1>5 DEF Released

\* The last step of a function is its return.
LEMMA ThenReturns ==
  ASSUME NEW q, IsList(q)
  PROVE  \E S : /\ q \o Success \in Seq(S) /\ Len(q) \in Nat /\ Len(q \o Success) = Len(q) + 1
                /\ \A j \in 1..Len(q) : (q \o Success)[j] = q[j]
                /\ (q \o Success)[Len(q) + 1].op = "success"
<1>1. PICK one : Success = <<one>> /\ one.op = "success"
  <2>1. PICK one : one = Step("success", Nothing, <<>>) OBVIOUS
  <2>2. one.op = "success" BY <2>1 DEF Step
  <2>3. Success = <<one>> BY <2>1 DEF Success, Return
  <2> QED BY <2>2, <2>3
<1>2. PICK S : S = {q[m] : m \in DOMAIN q} \cup {one} OBVIOUS
<1>3. q \in Seq(S)
  <2>1. q \in Seq({q[m] : m \in DOMAIN q}) BY DEF IsList
  <2>2. Len(q) \in Nat /\ q \in [1..Len(q) -> {q[m] : m \in DOMAIN q}] BY <2>1, LenProperties
  <2>3. q \in [1..Len(q) -> S] BY <1>2, <2>2
  <2> QED BY <2>2, <2>3
<1>4. <<one>> \in Seq(S) /\ Len(<<one>>) = 1 /\ <<one>>[1] = one BY <1>2
<1>5. Len(q) \in Nat BY <1>3, LenProperties
<1>6. PICK r : r = q \o Success OBVIOUS
<1>7. /\ r \in Seq(S) /\ Len(r) = Len(q) + 1
      /\ \A j \in 1..Len(q) + 1 : r[j] = IF j <= Len(q) THEN q[j] ELSE <<one>>[j - Len(q)]
  BY <1>1, <1>3, <1>4, <1>6, ConcatProperties
<1>8. PICK n \in Nat : n = Len(q) BY <1>5
<1>9. \A j \in 1..n : r[j] = q[j] BY <1>7, <1>8
<1>10. r[n + 1] = one
  <2>1. n + 1 \in 1..n + 1 /\ ~ (n + 1 <= n) /\ n + 1 - n = 1 OBVIOUS
  <2> QED BY <1>4, <1>7, <1>8, <2>1
<1> QED BY <1>1, <1>5, <1>6, <1>7, <1>8, <1>9, <1>10

\* One step more.
LEMMA OneMore ==
  ASSUME NEW list, NEW k \in Nat
  PROVE  /\ \A ops : Things(list, k + 1, ops) =
                     Things(list, k, ops) \cup (IF list[k + 1].op \in ops THEN {list[k + 1].thing} ELSE {})
         /\ Released(list, k + 1) = Released(list, k) \cup {list[k + 1].thing}
<1>1. 1..k + 1 = 1..k \cup {k + 1} OBVIOUS
<1> QED BY <1>1 DEF Things, Released

\* What is certain is possible, and what was taken early stays taken.
LEMMA Grows ==
  ASSUME NEW list, NEW n \in Nat, NEW k \in 0..n
  PROVE  /\ Certain(list, k) \subseteq Possible(list, k)
         /\ Possible(list, k) \subseteq Possible(list, n)
<1>1. \A m \in 1..k : m \in 1..n OBVIOUS
<1> QED BY <1>1 DEF Certain, Possible, Things

\* What a step of init may acquire is fit to be held.
LEMMA FitThings ==
  ASSUME Orderly(Script[driver]), NEW t \in Possible(init, Len(init))
  PROVE  /\ t.keeps = {} /\ t.starts = {}
         /\ t.kind \in Interfaces => t.kind \in Owned \cup (Draining \ Deferred)
<1>1. PICK m \in 1..Len(init) : init[m].op \in {"get", "make", "try"} /\ t = init[m].thing
  BY DEF Possible, Things
<1>2. Prepared(init, m) BY <1>1 DEF Orderly, init
<1> QED BY <1>1, <1>2 DEF Prepared

\* A life is that of one driver.
LEMMA SameDriver == ASSUME Next PROVE driver' = driver /\ init' = init /\ exit' = exit
<1>1. driver' = driver
  BY DEF Next, Insmod, Rmmod, Runs, Returns, Oops, Acquires, Fails, Misses, Releases, Passes,
         Starts, Awaits, Tests, Advance, Enter, Leave
<1> QED BY <1>1 DEF init, exit

\* A list of releases undoes what it is to undo, a step at a time, and never
\* releases what is not there.
LEMMA UndoStep ==
  ASSUME GuardedIsLeft, Closed, Orderly(Script[driver]), Runs,
         phase \in {"loading", "unloading"},
         NEW S, NEW list \in Seq(S), NEW n \in Nat, NEW k \in 0..Len(init), NEW m \in 0..n,
         Len(list) = n + 1, list[n + 1].op \in {"error", "success"},
         Undoes(list, n, init, k), Undoing(list, k, m),
         phase = "loading" => \A t \in Possible(init, k) : t.kind \notin Owned
  PROVE  /\ Closed'
         /\ \/ m = n /\ Returns /\ held' = {}
            \/ m < n /\ phase' = phase /\ Undoing(list, k, m + 1)'
<1>1. driver' = driver /\ init' = init BY SameDriver DEF Next
<1>2. Now = list[m + 1] /\ (m < n => Tail(todo) = Rest(list, m + 1))
  <2>1. m \in 0..Len(list) /\ m < Len(list) BY DEF Undoing
  <2>2. Head(Rest(list, m)) = list[m + 1] /\ Tail(Rest(list, m)) = Rest(list, m + 1)
    BY <2>1, RestFacts
  <2> QED BY <2>2 DEF Now, Undoing
<1>3. Len(init) \in Nat
  BY LenProperties DEF Orderly, IsList, init
<1>4. CASE m = n
  <2>1. Now.op \in {"error", "success"} BY <1>2, <1>4
  <2>2. Returns
    BY <2>1 DEF Runs, Returns, Oops, Acquires, Fails, Misses, Releases, Passes, Starts, Awaits,
                Tests, At
  <2>3. held' = held /\ calls' = calls BY <2>2 DEF Returns
  <2>4. held = {} BY <1>4 DEF Undoing, Between, Undoes
  <2> QED BY <1>1, <1>4, <2>2, <2>3, <2>4 DEF Closed
<1>5. CASE m < n
  <2>1. m + 1 \in 1..n /\ m + 1 - 1 = m /\ m \in Nat BY <1>5
  <2>2. PICK x : x = list[m + 1] OBVIOUS
  <2>3. PICK gone : gone = Released(list, m) OBVIOUS
  <2>4. /\ x.op \in {"put", "putif"}
        /\ x.op = "put" => x.thing \in Certain(init, k) \ gone
        /\ \A t \in Possible(init, k) : x.thing \in t.uses => t \in gone
    BY <2>1, <2>2, <2>3 DEF Undoes
  <2>5. Released(list, m + 1) = gone \cup {x.thing} BY <2>1, <2>2, <2>3, OneMore
  <2>6. Certain(init, k) \ gone \subseteq held /\ held \subseteq Possible(init, k) \ gone
    BY <2>3 DEF Undoing, Between
  <2>7. Now = x BY <1>2, <2>2
  <2>8. Releases
    BY <2>4, <2>6, <2>7 DEF Runs, Returns, Oops, Acquires, Fails, Misses, Releases, Passes, Starts,
                            Awaits, Tests, At
  <2>9. /\ held' = held \ {x.thing} /\ calls' = calls /\ phase' = phase
        /\ todo' = Rest(list, m + 1)
    BY <1>2, <1>5, <2>7, <2>8 DEF Releases, Advance
  <2>10. Undoing(list, k, m + 1)'
    BY <1>1, <2>5, <2>6, <2>9 DEF Undoing, Between
  <2>11. calls' \subseteq held'
    <3> SUFFICES ASSUME x.thing \in calls PROVE FALSE
      BY <2>9 DEF Closed
    <3>1. /\ x.thing \in held /\ x.thing.kind \in Interfaces
          /\ x.thing \in Possible(init, k) /\ x.thing \in Possible(init, Len(init))
      BY <2>6 DEF Closed
    <3>2. x.thing.kind \in Owned \cup (Draining \ Deferred) BY <3>1, FitThings
    <3>3. x.thing.kind \notin Draining
      BY <2>7, <2>8 DEF Releases, Waits, Draining
    <3>4. x.thing.kind \notin Owned
      <4>1. CASE phase = "loading" BY <4>1, <3>1
      <4>2. CASE phase = "unloading" BY <4>2 DEF GuardedIsLeft
      <4> QED BY <4>1, <4>2
    <3> QED BY <3>2, <3>3, <3>4
  <2>12. \A t \in held' : t.uses \subseteq held'
    BY <2>4, <2>6, <2>9 DEF Closed
  <2>13. held' \subseteq Possible(init', Len(init'))
    BY <1>1, <2>9 DEF Closed
  <2>14. \A c \in calls' : c.kind \in Interfaces BY <2>9 DEF Closed
  <2> QED BY <1>5, <2>9, <2>10, <2>11, <2>12, <2>13, <2>14 DEF Closed
<1> QED BY <1>4, <1>5

\* The steps of init: each goes on, or begins to undo the earlier ones.
LEMMA LoadStep ==
  ASSUME Closed, Orderly(Script[driver]), Runs, phase = "loading",
         NEW k \in 0..Len(init), Loads(k)
  PROVE  /\ Closed'
         /\ \/ k = Len(init) /\ phase' = "in" /\ Between(Certain(init, k), Possible(init, k))'
            \/ k < Len(init) /\ phase' = "loading" /\ (Loads(k + 1)' \/ Unwinds(k + 1)')
<1>1. driver' = driver /\ init' = init BY SameDriver DEF Next
<1>2. PICK S : /\ init \o Success \in Seq(S) /\ Len(init) \in Nat
               /\ Len(init \o Success) = Len(init) + 1
               /\ \A j \in 1..Len(init) : (init \o Success)[j] = init[j]
               /\ (init \o Success)[Len(init) + 1].op = "success"
  <2>1. IsList(init) BY DEF Orderly, init
  <2> QED BY <2>1, ThenReturns
<1>3. PICK N \in Nat : N = Len(init) BY <1>2
<1>4. PICK list : list = init \o Success OBVIOUS
<1>5. Now = list[k + 1] /\ Tail(todo) = Rest(list, k + 1)
  <2>1. k \in 0..Len(list) /\ k < Len(list) BY <1>2, <1>3, <1>4
  <2>2. Head(Rest(list, k)) = list[k + 1] /\ Tail(Rest(list, k)) = Rest(list, k + 1)
    BY <1>2, <1>4, <2>1, RestFacts
  <2> QED BY <1>4, <2>2 DEF Now, Loads
<1>6. Certain(init, k) \subseteq held /\ held \subseteq Possible(init, k) BY DEF Loads, Between
<1>7. CASE k = N
  <2>1. Now.op = "success" BY <1>2, <1>3, <1>4, <1>5, <1>7
  <2>2. Returns
    BY <2>1 DEF Runs, Returns, Oops, Acquires, Fails, Misses, Releases, Passes, Starts, Awaits,
                Tests, At
  <2>3. held' = held /\ calls' = calls /\ phase' = "in" BY <2>1, <2>2 DEF Returns
  <2>4. Between(Certain(init, k), Possible(init, k))' BY <1>1, <1>6, <2>3 DEF Between
  <2> QED BY <1>1, <1>3, <1>7, <2>3, <2>4 DEF Closed
<1>8. CASE k < N
  <2>1. k + 1 \in 1..N /\ k + 1 - 1 = k /\ k \in Nat /\ k \in 0..N /\ k + 1 \in 0..N BY <1>3, <1>8
  <2>2. PICK x : x = init[k + 1] OBVIOUS
  <2>3. Now = x BY <1>2, <1>3, <1>4, <1>5, <2>1, <2>2
  <2>4. Prepared(init, k + 1) /\ Unwound(init, k + 1)
    BY <1>3, <2>1 DEF Orderly, init
  <2>5. x.op \in {"get", "make", "try", "check"} BY <2>2, <2>4 DEF Prepared
  <2>6. x.op # "check" => x.thing.uses \subseteq Certain(init, k)
    BY <2>1, <2>2, <2>4 DEF Prepared
  <2>7. /\ Certain(init, k + 1) =
             Certain(init, k) \cup (IF x.op \in {"get", "make"} THEN {x.thing} ELSE {})
        /\ Possible(init, k + 1) =
             Possible(init, k) \cup (IF x.op \in {"get", "make", "try"} THEN {x.thing} ELSE {})
    BY <2>1, <2>2, OneMore DEF Certain, Possible
  <2>8. Possible(init, k + 1) \subseteq Possible(init, N) BY <2>1, Grows
  <2>9. Acquires \/ Fails \/ Misses \/ Passes
    BY <2>3, <2>5 DEF Runs, Returns, Oops, Acquires, Fails, Misses, Releases, Passes, Starts,
                      Awaits, Tests, At
  <2>10. phase' = "loading" /\ calls' = calls
    BY <2>9 DEF Acquires, Fails, Misses, Passes, Advance
  <2>11. CASE Acquires
    <3>1. x.op \in {"get", "make", "try"} /\ held' = held \cup {x.thing}
      BY <2>3, <2>11 DEF Acquires, At
    <3>2. todo' = Rest(list, k + 1) BY <1>5, <2>11 DEF Acquires, Advance
    <3>3. Loads(k + 1)' BY <1>1, <1>4, <1>6, <2>7, <3>1, <3>2 DEF Loads, Between
    <3>4. Closed'
      <4>1. x.thing.uses \subseteq held BY <1>6, <2>6, <3>1
      <4>2. held' \subseteq Possible(init, N) BY <1>6, <2>7, <2>8, <3>1
      <4> QED BY <1>1, <1>3, <2>10, <3>1, <4>1, <4>2 DEF Closed
    <3> QED BY <1>3, <1>8, <2>10, <3>3, <3>4
  <2>12. CASE Misses \/ Passes
    <3>1. x.op \in {"try", "check"} /\ held' = held /\ todo' = Rest(list, k + 1)
      BY <1>5, <2>3, <2>5, <2>12 DEF Misses, Passes, Advance, At
    <3>2. Loads(k + 1)' BY <1>1, <1>4, <1>6, <2>7, <3>1 DEF Loads, Between
    <3>3. Closed' BY <1>1, <2>10, <3>1 DEF Closed
    <3> QED BY <1>3, <1>8, <2>10, <3>2, <3>3
  <2>13. CASE Fails
    <3>1. x.op \in {"get", "check"} /\ held' = held /\ todo' = x.unwind
      BY <2>3, <2>13 DEF Fails, At
    <3>2. PICK u : u = x.unwind OBVIOUS
    <3>3. IsList(u) /\ u # <<>> BY <2>2, <2>4, <3>1, <3>2 DEF Unwound
    <3>4. PICK T : u \in Seq(T) BY <3>3 DEF IsList
    <3>5. Rest(u, 0) = u /\ Released(u, 0) = {} BY <3>4, RestAll
    <3>6. 0 \in 0..Len(u) - 1
      <4>1. Len(u) \in Nat /\ Len(u) # 0 BY <3>3, <3>4, LenProperties, EmptySeq
      <4> QED BY <4>1
    <3>7. Undoing(u, k, 0)' BY <1>1, <1>6, <3>1, <3>2, <3>5 DEF Undoing, Between
    <3>8. Unwinds(k + 1)' BY <1>1, <2>1, <2>2, <3>1, <3>2, <3>6, <3>7 DEF Unwinds
    <3>9. Closed' BY <1>1, <2>10, <3>1 DEF Closed
    <3> QED BY <1>3, <1>8, <2>10, <3>8, <3>9
  <2> QED BY <2>9, <2>11, <2>12, <2>13
<1> QED BY <1>3, <1>7, <1>8

\* insmod or rmmod goes on in an orderly driver.
LEMMA RunsStep == ASSUME GuardedIsLeft, OInv, Orderly(Script[driver]), Runs PROVE (Place /\ Closed)'
<1>1. driver' = driver /\ init' = init /\ exit' = exit BY SameDriver DEF Next
<1>2. Place /\ Closed BY DEF OInv
<1>3. phase \in {"loading", "unloading"}
  BY DEF Runs, Returns, Oops, Acquires, Fails, Misses, Releases, Passes, Starts, Awaits, Tests, At
<1>4. PICK N \in Nat : N = Len(init) BY LenProperties DEF Orderly, IsList, init
<1>5. CASE phase = "loading" /\ \E k \in 0..Len(init) : Loads(k)
  <2>1. PICK k \in 0..N : Loads(k) BY <1>4, <1>5
  <2>2. CASE k = N /\ phase' = "in" /\ Between(Certain(init, k), Possible(init, k))'
    BY <1>1, <1>4, <1>5, <2>1, <2>2, <1>2, LoadStep DEF Place
  <2>3. CASE k < N /\ phase' = "loading" /\ (Loads(k + 1)' \/ Unwinds(k + 1)')
    <3>1. k + 1 \in 0..N /\ k + 1 \in 1..N BY <2>3
    <3>2. (\E l \in 0..N : Loads(l)') \/ (\E l \in 1..N : Unwinds(l)') BY <2>3, <3>1
    <3>3. Closed' BY <1>2, <1>4, <1>5, <2>1, LoadStep
    <3> QED BY <1>1, <1>4, <2>3, <3>2, <3>3 DEF Place
  <2> QED BY <1>2, <1>4, <1>5, <2>1, <2>2, <2>3, LoadStep
<1>6. CASE phase = "loading" /\ \E k \in 1..Len(init) : Unwinds(k)
  <2>1. PICK k \in 1..N : Unwinds(k) BY <1>4, <1>6
  <2>2. PICK u : u = init[k].unwind OBVIOUS
  <2>3. PICK m \in 0..Len(u) - 1 : Undoing(u, k - 1, m) BY <2>1, <2>2 DEF Unwinds
  <2>4. /\ IsList(u) /\ u # <<>> /\ u[Len(u)].op = "error"
        /\ Undoes(u, Len(u) - 1, init, k - 1)
        /\ \A t \in Possible(init, k - 1) : t.kind \notin Owned
    <3>1. Unwound(init, k) BY <1>4, <2>1 DEF Orderly, init
    <3> QED BY <2>1, <2>2, <3>1 DEF Unwinds, Unwound
  <2>5. PICK S : u \in Seq(S) BY <2>4 DEF IsList
  <2>6. PICK n \in Nat : n = Len(u) - 1
    <3>1. Len(u) \in Nat /\ Len(u) # 0 BY <2>4, <2>5, LenProperties, EmptySeq
    <3> QED BY <3>1
  <2>7. Len(u) = n + 1 /\ m \in 0..n /\ k - 1 \in 0..Len(init)
    <3>1. Len(u) \in Nat BY <2>5, LenProperties
    <3> QED BY <1>4, <2>6, <3>1
  <2>8. /\ Closed'
        /\ \/ m = n /\ Returns /\ held' = {}
           \/ m < n /\ phase' = phase /\ Undoing(u, k - 1, m + 1)'
    <3>1. u[n + 1].op \in {"error", "success"} /\ Undoes(u, n, init, k - 1)
      BY <2>4, <2>6, <2>7
    <3> QED BY <1>2, <1>3, <2>3, <2>4, <2>5, <2>7, <3>1, UndoStep
  <2>9. CASE m = n /\ Returns /\ held' = {}
    <3>1. Now = u[n + 1]
      <4>1. m < Len(u) /\ m \in 0..Len(u) BY <2>7, <2>9
      <4>2. Head(Rest(u, m)) = u[m + 1] BY <2>5, <4>1, RestFacts
      <4> QED BY <2>3, <2>9, <4>2 DEF Now, Undoing
    <3>2. phase' = "refused" BY <1>6, <2>4, <2>7, <2>9, <3>1 DEF Returns
    <3> QED BY <2>8, <2>9, <3>2 DEF Place
  <2>10. CASE m < n /\ phase' = phase /\ Undoing(u, k - 1, m + 1)'
    <3>1. m + 1 \in 0..Len(u) - 1 BY <2>7, <2>10
    <3>2. Unwinds(k)' BY <1>1, <2>1, <2>2, <2>10, <3>1 DEF Unwinds
    <3> QED BY <1>1, <1>4, <1>6, <2>8, <2>10, <3>2 DEF Place
  <2> QED BY <2>8, <2>9, <2>10
<1>7. CASE phase = "unloading"
  <2>1. IsList(exit) BY DEF Orderly, exit
  <2>2. PICK list : list = exit \o Success OBVIOUS
  <2>3. PICK S : /\ list \in Seq(S) /\ Len(exit) \in Nat /\ Len(list) = Len(exit) + 1
                 /\ \A j \in 1..Len(exit) : list[j] = exit[j]
                 /\ list[Len(exit) + 1].op = "success"
    BY <2>1, <2>2, ThenReturns
  <2>4. PICK n \in Nat : n = Len(exit) BY <2>3
  <2>5. PICK m \in 0..n : Undoing(list, N, m) BY <1>2, <1>4, <1>7, <2>2, <2>4 DEF Place, Unloads
  <2>6. Undoes(list, n, init, N)
    <3>1. Undoes(exit, n, init, N) BY <1>4, <2>4 DEF Orderly, init, exit
    <3>2. \A j \in 1..n : list[j] = exit[j] BY <2>3, <2>4
    <3>3. \A j \in 0..n : Released(list, j) = Released(exit, j)
      <4>1. \A j \in 0..n : \A l \in 1..j : l \in 1..n OBVIOUS
      <4> QED BY <3>2, <4>1 DEF Released
    <3>4. n \in 0..n /\ \A j \in 1..n : j - 1 \in 0..n OBVIOUS
    <3> QED BY <3>1, <3>2, <3>3, <3>4 DEF Undoes
  <2>7. /\ Closed'
        /\ \/ m = n /\ Returns /\ held' = {}
           \/ m < n /\ phase' = phase /\ Undoing(list, N, m + 1)'
    <3>1. list[n + 1].op \in {"error", "success"} /\ Len(list) = n + 1 /\ N \in 0..Len(init)
      BY <1>4, <2>3, <2>4
    <3>2. phase # "loading" BY <1>7
    <3> QED BY <1>2, <1>3, <2>3, <2>5, <2>6, <3>1, <3>2, UndoStep
  <2>8. CASE m = n /\ Returns /\ held' = {}
    <3>1. phase' = "removed" BY <1>7, <2>8 DEF Returns
    <3> QED BY <2>7, <2>8, <3>1 DEF Place
  <2>9. CASE m < n /\ phase' = phase /\ Undoing(list, N, m + 1)'
    <3>1. m + 1 \in 0..n BY <2>9
    <3>2. Unloads' BY <1>1, <1>4, <2>2, <2>4, <2>9, <3>1 DEF Unloads
    <3> QED BY <1>7, <2>7, <2>9, <3>2 DEF Place
  <2> QED BY <2>7, <2>8, <2>9
<1> QED BY <1>2, <1>3, <1>5, <1>6, <1>7 DEF Place

\* Callers come and go.
LEMMA OthersStep ==
  ASSUME OInv, Orderly(Script[driver]),
         (\E r \in Callable \ calls : Enter(r)) \/ (\E r \in calls : Leave(r))
  PROVE  (Place /\ Closed)'
<1>1. driver' = driver /\ init' = init /\ exit' = exit BY SameDriver DEF Next
<1>2. Place /\ Closed BY DEF OInv
<1>3. \A c \in calls : c.keeps = {} /\ c.starts = {} BY <1>2, FitThings DEF Closed
<1>4. Callable = held
  <2>1. UNION {c.starts : c \in calls} = {} BY <1>3
  <2>2. Started = {} BY <2>1 DEF Started
  <2> QED BY <2>2 DEF Callable
<1>5. /\ held' = held /\ phase' = phase /\ todo' = todo
      /\ calls' \subseteq held /\ \A c \in calls' : c.kind \in Interfaces
  <2>1. CASE \E r \in Callable \ calls : Enter(r)
    BY <1>2, <1>4, <2>1 DEF Enter, Closed
  <2>2. CASE \E r \in calls : Leave(r)
    <3>1. PICK r \in calls : Leave(r) BY <2>2
    <3>2. held' = held BY <1>3, <3>1 DEF Leave
    <3> QED BY <1>2, <3>1, <3>2 DEF Leave, Closed
  <2> QED BY <2>1, <2>2
<1>6. Closed' BY <1>1, <1>2, <1>5 DEF Closed
<1>7. Place'
  BY <1>1, <1>2, <1>5 DEF Place, Between, Loads, Unwinds, Unloads, Undoing
<1> QED BY <1>6, <1>7

\* Every step keeps the invariant; insmod and rmmod begin at the start of their lists.
LEMMA OInvStep == ASSUME GuardedIsLeft, OInv, [Next]_vars PROVE OInv'
<1>1. driver' = driver BY SameDriver DEF vars
<1> SUFFICES ASSUME Orderly(Script[driver]) PROVE (Place /\ Closed)'
  BY <1>1 DEF OInv
<1>2. Place /\ Closed BY DEF OInv
<1>3. CASE Insmod
  <2>1. init' = init /\ exit' = exit BY SameDriver, <1>3 DEF Next
  <2>2. held = {} /\ held' = held /\ calls' = calls /\ phase' = "loading"
    BY <1>2, <1>3 DEF Insmod, Place
  <2>3. todo' = Rest(init \o Success, 0)
    <3>1. IsList(init) BY DEF Orderly, init
    <3>2. Rest(init \o Success, 0) = init \o Success BY <3>1, ThenReturns, RestAll
    <3> QED BY <1>3, <3>2 DEF Insmod, init
  <2>4. Certain(init, 0) = {}
    <3>1. 1..0 = {} OBVIOUS
    <3> QED BY <3>1 DEF Certain, Things
  <2>5. Loads(0)' BY <2>1, <2>2, <2>3, <2>4 DEF Loads, Between
  <2>6. 0 \in 0..Len(init) BY LenProperties DEF Orderly, IsList, init
  <2>7. Place' BY <2>1, <2>2, <2>5, <2>6 DEF Place
  <2> QED BY <1>2, <2>1, <2>2, <2>7 DEF Closed
<1>4. CASE Rmmod
  <2>1. init' = init /\ exit' = exit BY SameDriver, <1>4 DEF Next
  <2>2. held' = held /\ calls' = calls /\ phase' = "unloading" BY <1>4 DEF Rmmod
  <2>3. Between(Certain(init, Len(init)), Possible(init, Len(init)))
    BY <1>2, <1>4 DEF Rmmod, Place
  <2>4. PICK list : list = exit \o Success OBVIOUS
  <2>5. IsList(exit) BY DEF Orderly, exit
  <2>6. Rest(list, 0) = list /\ Released(list, 0) = {} BY <2>4, <2>5, ThenReturns, RestAll
  <2>7. todo' = Rest(list, 0) BY <1>4, <2>4, <2>6 DEF Rmmod, exit
  <2>8. Undoing(list, Len(init), 0)' BY <2>1, <2>2, <2>3, <2>6, <2>7 DEF Undoing, Between
  <2>9. 0 \in 0..Len(exit) BY <2>5, ThenReturns
  <2>10. Unloads' BY <2>1, <2>4, <2>8, <2>9 DEF Unloads
  <2>11. Place' BY <2>2, <2>10 DEF Place
  <2> QED BY <1>2, <2>1, <2>2, <2>11 DEF Closed
<1>5. CASE Runs BY <1>5, RunsStep
<1>6. CASE (\E r \in Callable \ calls : Enter(r)) \/ (\E r \in calls : Leave(r))
  BY <1>6, OthersStep
<1>7. CASE UNCHANGED vars
  <2>1. init' = init /\ exit' = exit BY <1>1 DEF init, exit
  <2>2. UNCHANGED <<phase, todo, held, calls>> BY <1>7 DEF vars
  <2> QED
    BY <1>2, <2>1, <2>2 DEF Closed, Place, Between, Loads, Unwinds, Unloads, Undoing
<1> QED BY <1>3, <1>4, <1>5, <1>6, <1>7 DEF Next

(***************************************************************************)
(* An orderly driver owes nothing, whichever of its steps fail and whoever *)
(* comes in meanwhile: it uses and releases only what it holds, whoever is *)
(* inside finds what its code uses, and after a failed insmod or an rmmod  *)
(* nothing is held and nobody is inside.                                   *)
(***************************************************************************)
THEOREM OrderlyOwesNothing == Spec => [](Orderly(Script[driver]) => Clean)
<1>1. Init => OInv BY DEF Init, OInv, Place, Closed
<1>2. GuardedIsLeft /\ OInv /\ [Next]_vars => OInv' BY OInvStep
<1>3. OInv => (Orderly(Script[driver]) => Clean)
  BY DEF OInv, Clean, Place, Closed
<1> QED BY <1>1, <1>2, <1>3, GuardedAlways, PTL DEF Spec
-----------------------------------------------------------------------------
(***************************************************************************)
(* The walk.  A view agrees with a state when it tells the truth about it; *)
(* after a bad access there is a view that missed what was accessed.       *)
(***************************************************************************)
Agrees(v) == /\ v.phase = phase /\ v.todo = todo
             /\ v.sure \subseteq held /\ held \subseteq v.may
             /\ calls \subseteq v.inside
Foreseen(v) == /\ Running(v) /\ v.todo = todo
               /\ Ahead(v).op \in {"put", "need"} /\ Ahead(v).thing \notin v.sure
Seen(views) == IF phase = "broken" THEN \E v \in views : Foreseen(v)
               ELSE \E v \in views : Agrees(v)

\* The step that is to be taken is the one the view sees ahead.
LEMMA SameStep ==
  ASSUME NEW v, Agrees(v)
  PROVE  /\ Ahead(v) = Now /\ Head(v.todo) = Now /\ Tail(v.todo) = Tail(todo)
         /\ Running(v) <=> phase \in {"loading", "unloading"}
BY DEF Agrees, Ahead, Now, Running

\* What a walk leads to agrees with the next state through some view of it.
LEMMA WalkedOn ==
  ASSUME NEW script, NEW views, Complete(views, script), NEW v \in views,
         NEW w \in Leads(v, script), Agrees(w)', phase' # "broken"
  PROVE  Seen(views)'
<1> PICK u \in views : Covers(u, w)
  BY DEF Complete
<1>1. Agrees(u)'
  BY DEF Agrees, Covers
<1> QED BY <1>1 DEF Seen

\* The fields of a view.
LEMMA ViewFields ==
  ASSUME NEW ph, NEW q, NEW a, NEW b, NEW c
  PROVE  /\ View(ph, q, a, b, c).phase = ph /\ View(ph, q, a, b, c).todo = q
         /\ View(ph, q, a, b, c).sure = a /\ View(ph, q, a, b, c).may = b
         /\ View(ph, q, a, b, c).inside = c
BY DEF View

\* Where each step may lead.
LEMMA StepsOf ==
  ASSUME NEW v, NEW s, NEW t, NEW rest,
         s = Head(v.todo), t = s.thing, rest = Tail(v.todo)
  PROVE  /\ s.op \in {"get", "try", "make"} =>
              View(v.phase, rest, v.sure \cup {t}, v.may \cup {t}, v.inside) \in Steps(v)
         /\ s.op \in {"try", "check"} =>
              View(v.phase, rest, v.sure, v.may, v.inside) \in Steps(v)
         /\ s.op \in {"get", "check"} =>
              View(v.phase, s.unwind, v.sure, v.may, v.inside) \in Steps(v)
         /\ s.op = "putif" \/ (s.op = "put" /\ t \in v.may) =>
              View(v.phase, rest, v.sure \ {t}, v.may \ {t}, v.inside \ EndedBy(t, v.inside))
                \in Steps(v)
         /\ s.op = "spawn" =>
              View(v.phase, rest, v.sure, v.may, v.inside \cup {t}) \in Steps(v)
         /\ s.op = "await" =>
              View(v.phase, rest, v.sure, v.may, v.inside \ {t}) \in Steps(v)
         /\ s.op \in {"need", "unless"} /\ t \in v.may =>
              View(v.phase, rest, v.sure \cup {t}, v.may \cup {t}, v.inside) \in Steps(v)
         /\ s.op = "if" /\ t \in v.may =>
              View(v.phase, s.unwind \o rest, v.sure \cup {t}, v.may \cup {t}, v.inside)
                \in Steps(v)
         /\ s.op = "if" /\ t \notin v.sure =>
              View(v.phase, rest, v.sure \ {t}, v.may \ {t}, v.inside) \in Steps(v)
         /\ s.op = "unless" /\ t \notin v.sure =>
              View(v.phase, s.unwind \o rest, v.sure \ {t}, v.may \ {t}, v.inside)
                \in Steps(v)
         /\ s.op \in {"error", "success"} =>
              View(IF v.phase = "unloading" THEN "removed"
                   ELSE IF s.op = "error" THEN "refused" ELSE "in",
                   <<>>, v.sure, v.may, v.inside) \in Steps(v)
BY DEF Steps

\* A step of a script is taken while insmod or rmmod runs.
LEMMA RunsWhen == Runs => phase \in {"loading", "unloading"}
<1> DEFINE Comes(op) == At(op)
<1> HIDE DEF Comes
<1>1. \A op : Comes(op) => phase \in {"loading", "unloading"} BY DEF At, Comes
<1>2. Runs => \E op : Comes(op)
  BY Zenon DEF Runs, Returns, Oops, Acquires, Fails, Misses, Releases, Passes, Starts,
               Awaits, Tests, Comes
<1> QED BY <1>1, <1>2

\* A step of a script is followed by the walk.
LEMMA RunsSeen ==
  ASSUME NEW script, NEW views, Complete(views, script), NEW v \in views, Agrees(v),
         Runs
  PROVE  Seen(views)'
<1> DEFINE t == Now.thing  rest == Tail(todo)
<1>0. /\ Ahead(v) = Now /\ Head(v.todo) = Now /\ Tail(v.todo) = rest
      /\ v.todo = todo /\ v.phase = phase
      /\ v.sure \subseteq held /\ held \subseteq v.may /\ calls \subseteq v.inside
      /\ phase \in {"loading", "unloading"}
  BY SameStep, RunsWhen DEF Agrees
<1>1. Leads(v, script) = Steps(v)
  BY <1>0 DEF Leads, Running
<1> DEFINE s == Now
<1>s. s = Head(v.todo) /\ t = s.thing /\ rest = Tail(v.todo) BY <1>0
<1> HIDE DEF s
<1> HIDE DEF t, rest
<1>w. ASSUME NEW ph, NEW q, NEW a, NEW b, NEW c, View(ph, q, a, b, c) \in Steps(v),
             phase' = ph, todo' = q, a \subseteq held', held' \subseteq b, calls' \subseteq c,
             ph # "broken"
      PROVE  Seen(views)'
  <2>1. PICK w \in Steps(v) : w = View(ph, q, a, b, c) BY <1>w
  <2>2. Agrees(w)' BY <2>1, <1>w, ViewFields DEF Agrees
  <2> QED BY <2>1, <2>2, <1>w, <1>1, WalkedOn
<1>2. CASE Oops
  BY <1>2, <1>0 DEF Oops, At, Seen, Foreseen, Running
<1>3. CASE Returns
  <2>1. /\ s.op \in {"error", "success"} /\ todo' = <<>> /\ UNCHANGED <<held, calls>>
        /\ phase' = IF v.phase = "unloading" THEN "removed"
                    ELSE IF s.op = "error" THEN "refused" ELSE "in"
    BY <1>3, <1>0 DEF Returns, At, s
  <2>2. phase' # "broken" BY <2>1
  <2>3. View(phase', <<>>, v.sure, v.may, v.inside) \in Steps(v)
    BY <2>1, <1>s, StepsOf
  <2> QED BY <1>0, <2>1, <2>2, <2>3, <1>w
<1>4. CASE Acquires
  <2>1. /\ s.op \in {"get", "try", "make"} /\ todo' = rest /\ phase' = phase
        /\ held' = held \cup {t} /\ calls' = calls
    BY <1>4, <1>0 DEF Acquires, At, Advance, s, t, rest
  <2>2. View(v.phase, rest, v.sure \cup {t}, v.may \cup {t}, v.inside) \in Steps(v)
    BY <2>1, <1>s, StepsOf
  <2>3. v.sure \cup {t} \subseteq held' /\ held' \subseteq v.may \cup {t} BY <2>1, <1>0
  <2> QED BY <1>0, <2>1, <2>2, <2>3, <1>w
<1>5. CASE Fails
  <2>1. /\ s.op \in {"get", "check"} /\ todo' = s.unwind /\ UNCHANGED <<phase, held, calls>>
    BY <1>5, <1>0 DEF Fails, At, s
  <2>2. View(v.phase, s.unwind, v.sure, v.may, v.inside) \in Steps(v)
    BY <2>1, <1>s, StepsOf
  <2> QED BY <1>0, <2>1, <2>2, <1>w
<1>6. CASE Misses
  <2>1. s.op = "try" /\ todo' = rest /\ UNCHANGED <<phase, held, calls>>
    BY <1>6, <1>0 DEF Misses, At, Advance, s, rest
  <2>2. View(v.phase, rest, v.sure, v.may, v.inside) \in Steps(v)
    BY <2>1, <1>s, StepsOf
  <2> QED BY <1>0, <2>1, <2>2, <1>w
<1>7. CASE Releases
  <2>1. /\ s.op \in {"put", "putif"} /\ (s.op = "put" => t \in held) /\ Waits(t) = {}
        /\ todo' = rest /\ phase' = phase /\ held' = held \ {t} /\ calls' = calls
    BY <1>7, <1>0 DEF Releases, At, Advance, s, t, rest
  <2>2. View(v.phase, rest, v.sure \ {t}, v.may \ {t}, v.inside \ EndedBy(t, v.inside)) \in Steps(v)
    BY <2>1, <1>s, <1>0, StepsOf
  <2>3. v.sure \ {t} \subseteq held' /\ held' \subseteq v.may \ {t} BY <2>1, <1>0
  <2>4. calls' \subseteq v.inside \ EndedBy(t, v.inside)
    BY <2>1, <1>0 DEF Waits, EndedBy
  <2> QED BY <1>0, <2>1, <2>2, <2>3, <2>4, <1>w
<1>8. CASE Passes
  <2>1. /\ s.op = "check" \/ (s.op = "need" /\ t \in held)
        /\ todo' = rest /\ UNCHANGED <<phase, held, calls>>
    BY <1>8, <1>0 DEF Passes, At, Advance, s, t, rest
  <2>2. CASE s.op = "check"
    <3>1. View(v.phase, rest, v.sure, v.may, v.inside) \in Steps(v)
      BY <2>2, <1>s, StepsOf
    <3> QED BY <1>0, <2>1, <3>1, <1>w
  <2>3. CASE s.op = "need" /\ t \in held
    <3>1. View(v.phase, rest, v.sure \cup {t}, v.may \cup {t}, v.inside) \in Steps(v)
      BY <2>3, <1>s, <1>0, StepsOf
    <3>2. v.sure \cup {t} \subseteq held' /\ held' \subseteq v.may \cup {t} BY <2>1, <2>3, <1>0
    <3> QED BY <1>0, <2>1, <3>1, <3>2, <1>w
  <2> QED BY <2>1, <2>2, <2>3
<1>9. CASE Starts
  <2>1. /\ s.op = "spawn" /\ todo' = rest /\ UNCHANGED <<phase, held>>
        /\ calls' = calls \cup {t}
    BY <1>9, <1>0 DEF Starts, At, Advance, s, t, rest
  <2>2. View(v.phase, rest, v.sure, v.may, v.inside \cup {t}) \in Steps(v)
    BY <2>1, <1>s, StepsOf
  <2>3. calls' \subseteq v.inside \cup {t} BY <2>1, <1>0
  <2> QED BY <1>0, <2>1, <2>2, <2>3, <1>w
<1>10. CASE Awaits
  <2>1. /\ s.op = "await" /\ t \notin calls /\ todo' = rest /\ UNCHANGED <<phase, held, calls>>
    BY <1>10, <1>0 DEF Awaits, At, Advance, s, t, rest
  <2>2. View(v.phase, rest, v.sure, v.may, v.inside \ {t}) \in Steps(v)
    BY <2>1, <1>s, StepsOf
  <2>3. calls' \subseteq v.inside \ {t} BY <2>1, <1>0
  <2> QED BY <1>0, <2>1, <2>2, <2>3, <1>w
<1>11. CASE Tests
  <2>1. /\ s.op \in {"if", "unless"} /\ UNCHANGED <<phase, held, calls>>
        /\ todo' = IF s.op = "if" <=> t \in held THEN s.unwind \o rest ELSE rest
    BY <1>11, <1>0 DEF Tests, At, s, t, rest
  <2>2. CASE t \in held
    <3> DEFINE q == IF s.op = "if" THEN s.unwind \o rest ELSE rest
    <3>1. View(v.phase, q, v.sure \cup {t}, v.may \cup {t}, v.inside) \in Steps(v)
      BY <2>1, <2>2, <1>s, <1>0, StepsOf
    <3>2. v.sure \cup {t} \subseteq held' /\ held' \subseteq v.may \cup {t} BY <2>1, <2>2, <1>0
    <3>3. todo' = q BY <2>1, <2>2
    <3> HIDE DEF q
    <3> QED BY <1>0, <2>1, <3>1, <3>2, <3>3, <1>w
  <2>3. CASE t \notin held
    <3> DEFINE q == IF s.op = "if" THEN rest ELSE s.unwind \o rest
    <3>1. View(v.phase, q, v.sure \ {t}, v.may \ {t}, v.inside) \in Steps(v)
      BY <2>1, <2>3, <1>s, <1>0, StepsOf
    <3>2. v.sure \ {t} \subseteq held' /\ held' \subseteq v.may \ {t} BY <2>1, <2>3, <1>0
    <3>3. todo' = q BY <2>1, <2>3
    <3> HIDE DEF q
    <3> QED BY <1>0, <2>1, <3>1, <3>2, <3>3, <1>w
  <2> QED BY <2>2, <2>3
<1> QED BY <1>2, <1>3, <1>4, <1>5, <1>6, <1>7, <1>8, <1>9, <1>10, <1>11 DEF Runs

\* Whoever comes in, leaves or leaves something behind is foreseen where they do.
LEMMA OthersSeen ==
  ASSUME NEW script, NEW views, Complete(views, script), Seen(views),
         (\E r \in Callable \ calls : Enter(r)) \/ (\E r \in calls : Leave(r))
  PROVE  Seen(views)'
<1>0. UNCHANGED <<phase, todo>>
  BY DEF Enter, Leave
<1>1. CASE phase = "broken"
  BY <1>0, <1>1 DEF Seen, Foreseen
<1> SUFFICES ASSUME NEW v \in views, Agrees(v), phase # "broken" PROVE Agrees(v)'
  BY <1>0, <1>1 DEF Seen
<1>2. /\ v.phase = phase /\ v.todo = todo
      /\ v.sure \subseteq held /\ held \subseteq v.may /\ calls \subseteq v.inside
      /\ Kept(v) \subseteq v.may /\ Callers(v) \subseteq v.inside
  BY DEF Agrees, Complete
<1>3. CASE \E r \in Callable \ calls : Enter(r)
  <2> PICK r \in Callable \ calls : Enter(r)
    BY <1>3
  <2>1. Started \subseteq SetOff(v)
    BY <1>2 DEF Started, SetOff
  <2>2. r \in v.may \cup SetOff(v)
    BY <2>1, <1>2 DEF Callable
  <2>3. Open(v, r)
    BY SameStep, <1>2 DEF Enter, Open, At
  <2>4. r \in v.inside
    BY <2>2, <2>3, <1>2 DEF Callers
  <2> QED BY <1>2, <2>4 DEF Enter, Agrees
<1>4. CASE \E r \in calls : Leave(r)
  <2> PICK r \in calls : Leave(r)
    BY <1>4
  <2>1. r.keeps \subseteq v.may
    BY <1>2 DEF Kept
  <2>2. v.sure \subseteq held' /\ held' \subseteq v.may /\ calls' \subseteq v.inside
    BY <1>2, <2>1 DEF Leave
  <2> QED BY <1>0, <1>2, <2>2 DEF Agrees
<1> QED BY <1>3, <1>4

\* Every step is seen.
LEMMA NextSeen ==
  ASSUME NEW views, Complete(views, Script[driver]), Seen(views), [Next]_vars
  PROVE  Seen(views)' /\ driver' = driver
<1> PICK script : script = Script[driver]
  OBVIOUS
<1>0. driver' = driver
  BY DEF Next, Insmod, Rmmod, Runs, Returns, Oops, Acquires, Fails, Misses, Releases,
         Passes, Starts, Awaits, Tests, Advance, Enter, Leave, vars
<1>1. CASE Insmod
  <2> PICK v \in views : Agrees(v)
    BY <1>1 DEF Seen, Insmod
  <2> DEFINE w == View("loading", script.init \o Success, v.sure, v.may, v.inside)
  <2>1. w \in Leads(v, script)
    BY <1>1 DEF Leads, Running, Insmod, Agrees
  <2>2. Agrees(w)' /\ phase' # "broken"
    <3>1. UNCHANGED <<held, calls>> /\ phase' = "loading" /\ todo' = script.init \o Success
      BY <1>1, Zenon DEF Insmod
    <3>2. todo' = w.todo
      BY <3>1 DEF View
    <3>3. w.phase = "loading" /\ w.sure = v.sure /\ w.may = v.may /\ w.inside = v.inside
      BY DEF View
    <3> HIDE DEF w
    <3> QED BY <3>1, <3>2, <3>3 DEF Agrees
  <2> QED BY <1>0, <2>1, <2>2, WalkedOn
<1>2. CASE Rmmod
  <2> PICK v \in views : Agrees(v)
    BY <1>2 DEF Seen, Rmmod
  <2> DEFINE guests == {c \in v.inside : c.kind \notin Owned}
             w == View("unloading", script.exit \o Success, v.sure, v.may, guests)
  <2>1. w \in Leads(v, script)
    BY <1>2 DEF Leads, Running, Rmmod, Agrees
  <2>2. calls' \subseteq guests
    BY <1>2 DEF Rmmod, Agrees
  <2> HIDE DEF guests
  <2>3. Agrees(w)' /\ phase' # "broken"
    <3>1. UNCHANGED <<held, calls>> /\ phase' = "unloading" /\ todo' = script.exit \o Success
      BY <1>2, Zenon DEF Rmmod
    <3>2. todo' = w.todo
      BY <3>1 DEF View
    <3>3. w.phase = "unloading" /\ w.sure = v.sure /\ w.may = v.may /\ w.inside = guests
      BY DEF View
    <3> HIDE DEF w
    <3> QED BY <2>2, <3>1, <3>2, <3>3 DEF Agrees
  <2> QED BY <1>0, <2>1, <2>3, WalkedOn
<1>3. CASE Runs
  <2> PICK v \in views : Agrees(v)
    BY <1>3, RunsWhen DEF Seen
  <2> QED BY <1>0, <1>3, RunsSeen
<1>4. CASE (\E r \in Callable \ calls : Enter(r)) \/ (\E r \in calls : Leave(r))
  BY <1>0, <1>4, OthersSeen
<1>5. CASE UNCHANGED vars
  BY <1>0, <1>5 DEF vars, Seen, Agrees, Foreseen
<1> QED BY <1>1, <1>2, <1>3, <1>4, <1>5 DEF Next

\* What a driver shows to who walks through its functions is all that can go wrong.
WalkedThrough(d) == Complete(Walk(Script[d]), Script[d])
Shown(views) ==
  /\ phase = "broken" => Now.thing \in Missing(views)
  /\ phase \in {"refused", "removed"} =>
       held \subseteq Left(views, phase) /\ calls \subseteq Staying(views, phase)
  /\ \A r \in calls : r.uses \subseteq held \/ r \in Unserved(views)
                      \/ phase \in {"refused", "broken"}

\* A walk that agrees with the state shows what is wrong with it.
LEMMA SeenShows ==
  ASSUME NEW views, Seen(views)
  PROVE  Shown(views)
<1>1. CASE phase = "broken"
  <2> PICK v \in views : Foreseen(v)
    BY <1>1 DEF Seen
  <2>1. Ahead(v).thing = Now.thing
    BY DEF Foreseen, Ahead, Now
  <2> QED BY <1>1, <2>1 DEF Shown, Missing, Foreseen
<1>2. CASE phase # "broken"
  <2> PICK v \in views : Agrees(v)
    BY <1>2 DEF Seen
  <2> USE DEF Agrees
  <2>1. held \subseteq Left(views, phase) /\ calls \subseteq Staying(views, phase)
    BY DEF Left, Staying
  <2>2. ASSUME NEW r \in calls, ~ r.uses \subseteq held, phase # "refused"
        PROVE  r \in Unserved(views)
    <3>1. r \in v.inside /\ ~ r.uses \subseteq v.sure /\ v.phase # "refused"
      BY <2>2
    <3> QED BY <3>1 DEF Unserved
  <2> QED BY <1>2, <2>1, <2>2 DEF Shown
<1> QED BY <1>1, <1>2

(***************************************************************************)
(* One walk through module_init and module_exit shows everything that can  *)
(* go wrong with a driver, whoever comes in at whatever moment.            *)
(***************************************************************************)
THEOREM OneWalkShowsAll ==
  Spec => [](WalkedThrough(driver) => Shown(Walk(Script[driver])))
<1> DEFINE SInv(d) == driver = d /\ WalkedThrough(d) => Seen(Walk(Script[d]))
<1>1. Init => \A d : SInv(d)
  <2> SUFFICES ASSUME Init, NEW d, driver = d, WalkedThrough(d) PROVE Seen(Walk(Script[d]))
    OBVIOUS
  <2>1. Start \in Walk(Script[d])
    BY DEF WalkedThrough, Complete
  <2>2. Agrees(Start)
    BY ViewFields DEF Init, Agrees, Start
  <2> QED BY <2>1, <2>2 DEF Seen, Init
<1>2. (\A d : SInv(d)) /\ [Next]_vars => (\A d : SInv(d))'
  <2> SUFFICES ASSUME \A d : SInv(d), [Next]_vars, NEW d, driver' = d, WalkedThrough(d)
               PROVE  Seen(Walk(Script[d]))'
    OBVIOUS
  <2>1. driver' = driver
    BY DEF Next, Insmod, Rmmod, Runs, Returns, Oops, Acquires, Fails, Misses, Releases,
           Passes, Starts, Awaits, Tests, Advance, Enter, Leave, vars
  <2>2. Seen(Walk(Script[d])) /\ Complete(Walk(Script[d]), Script[driver])
    BY <2>1 DEF WalkedThrough
  <2> QED BY <2>2, NextSeen
<1>3. (\A d : SInv(d)) => (WalkedThrough(driver) => Shown(Walk(Script[driver])))
  BY SeenShows
<1> QED BY <1>1, <1>2, <1>3, PTL DEF Spec

(***************************************************************************)
(* The four duties.  A driver whose walk shows no more than the tables     *)
(* list keeps to the tables in every run, interleaved with any callers.    *)
(***************************************************************************)
LEMMA AuditShows ==
  Spec => [](Audited(driver) => \E views : Within(driver, views) /\ Shown(views))
<1>1. (WalkedThrough(driver) => Shown(Walk(Script[driver]))) =>
        (Audited(driver) => \E views : Within(driver, views) /\ Shown(views))
  BY DEF Audited, WalkedThrough
<1> QED BY <1>1, OneWalkShowsAll, PTL

(***************************************************************************)
(* Whatever fails in insmod, and whatever users made the module allocate,  *)
(* an audited driver leaves nothing but what is listed.                    *)
(***************************************************************************)
THEOREM AuditedLeavesNothing == Spec => [](Audited(driver) => LeavesNothing)
<1>1. (\E views : Within(driver, views) /\ Shown(views)) => LeavesNothing
  BY DEF Within, Shown, Listed, LeavesNothing
<1> QED BY <1>1, AuditShows, PTL

(***************************************************************************)
(* On no path through module_init and module_exit does an audited driver   *)
(* use or release what it does not hold, but for what is listed.           *)
(***************************************************************************)
THEOREM AuditedUsesWhatItHolds == Spec => [](Audited(driver) => UsesOnlyWhatItHolds)
<1>1. (\E views : Within(driver, views) /\ Shown(views)) => UsesOnlyWhatItHolds
  BY DEF Within, Shown, Listed, UsesOnlyWhatItHolds
<1> QED BY <1>1, AuditShows, PTL

(***************************************************************************)
(* Whoever comes in through an interface of an audited driver, before the  *)
(* load is complete or while it is undone, finds what the code relies on.  *)
(***************************************************************************)
THEOREM AuditedServesCalls == Spec => [](Audited(driver) => CallsFindWhatTheyNeed)
<1>1. (\E views : Within(driver, views) /\ Shown(views)) => CallsFindWhatTheyNeed
  BY DEF Within, Shown, Listed, CallsFindWhatTheyNeed
<1> QED BY <1>1, AuditShows, PTL

(***************************************************************************)
(* Nobody runs the code of an audited driver when it is freed, but through *)
(* the interfaces listed, and none of its tasklets and works is pending.   *)
(***************************************************************************)
THEOREM AuditedIsLeft == Spec => [](Audited(driver) => NobodyInFreedText)
<1>1. (\E views : Within(driver, views) /\ Shown(views)) => NobodyInFreedText
  BY DEF Within, Shown, Listed, NobodyInFreedText
<1> QED BY <1>1, AuditShows, PTL
=============================================================================
