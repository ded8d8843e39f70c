------------------------------- MODULE Orderly -------------------------------
(***************************************************************************)
(* When a driver owes nothing, to be seen from module_init and module_exit *)
(* alone: each thing is acquired after what its code uses; an error return *)
(* gives back what was surely taken and, after a test, what may have been, *)
(* users before what they use; so does module_exit; what an open file      *)
(* holds on to is registered last, and no interface is left that nothing   *)
(* guards.                                                                 *)
(***************************************************************************)
EXTENDS Lifecycle

\* What the first k steps of init acquire, whatever fails, and what they may acquire.
Things(init, k, ops) == {init[m].thing : m \in {l \in 1..k : init[l].op \in ops}}
Certain(init, k)  == Things(init, k, {"get", "make"})
Possible(init, k) == Things(init, k, {"get", "make", "try"})

\* What the first m steps of a list of releases give back.
Released(list, m) == {list[l].thing : l \in 1..m}

\* The first n steps of the list undo the first k of init.
Undoes(list, n, init, k) ==
  /\ Possible(init, k) \subseteq Released(list, n)
  /\ \A m \in 1..n :
       /\ list[m].op \in {"put", "putif"}
       /\ list[m].op = "put" => list[m].thing \in Certain(init, k) \ Released(list, m - 1)
       /\ \A t \in Possible(init, k) :
            list[m].thing \in t.uses => t \in Released(list, m - 1)

IsList(q) == q \in Seq({q[m] : m \in DOMAIN q})

\* A step acquires one thing, or tests something.
Prepared(init, k) ==
  LET t == init[k].thing IN
  init[k].op = "check" \/ /\ init[k].op \in {"get", "make", "try"}
                          /\ t.uses \subseteq Certain(init, k - 1)
                          /\ t.keeps = {} /\ t.starts = {}
                          /\ t.kind \in Interfaces => t.kind \in Owned \cup (Draining \ Deferred)

\* If it fails, what was done before is undone.
Unwound(init, k) ==
  LET u == init[k].unwind IN
  init[k].op \in {"get", "check"} =>
    /\ IsList(u) /\ u # <<>> /\ u[Len(u)].op = "error"
    /\ Undoes(u, Len(u) - 1, init, k - 1)
    /\ \A t \in Possible(init, k - 1) : t.kind \notin Owned

Orderly(script) ==
  /\ IsList(script.init) /\ IsList(script.exit)
  /\ \A k \in 1..Len(script.init) : Prepared(script.init, k) /\ Unwound(script.init, k)
  /\ Undoes(script.exit, Len(script.exit), script.init, Len(script.init))
-----------------------------------------------------------------------------
\* Nothing is used that is not there, nothing is left, nobody is left inside.
Clean ==
  /\ phase # "broken"
  /\ phase \in {"refused", "removed"} => held = {} /\ calls = {}
  /\ \A r \in calls : r.uses \subseteq held
=============================================================================
