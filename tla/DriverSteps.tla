----------------------------- MODULE DriverSteps -----------------------------
(***************************************************************************)
(* The vocabulary the scripts of the drivers are written in.  A driver is  *)
(* a record of two sequences of steps: init is its module_init function,   *)
(* exit its module_exit function.  A step acquires or releases one of the  *)
(* things a module holds in the kernel.  Only what the code does with the  *)
(* result of a call is told apart: it may unwind and return an error, it   *)
(* may ignore it, or the call cannot fail.                                 *)
(***************************************************************************)
EXTENDS Naturals, Sequences

(***************************************************************************)
(* A thing a module holds.  An interface is one through which others run   *)
(* code of the module; "uses" are the things this code relies on, "keeps"  *)
(* the things it may leave the module with, "starts" the tasklet or work   *)
(* it may set off.                                                         *)
(***************************************************************************)
Thing(kind, name) ==
  [kind |-> kind, name |-> name, uses |-> {}, keeps |-> {}, starts |-> {}]
Interface(kind, name, uses) == [Thing(kind, name) EXCEPT !.uses = uses]
Keeping(interface, things) == [interface EXCEPT !.keeps = things]
Starting(interface, things) == [interface EXCEPT !.starts = things]

\* Data the code sets up with an assignment: held from there on.
Set(name) == Thing("set", name)
Memory(name) == Thing("memory", name)

(***************************************************************************)
(* Steps.                                                                  *)
(***************************************************************************)
Step(op, thing, unwind) == [op |-> op, thing |-> thing, unwind |-> unwind]

Nothing == Thing("none", "")
Return(op) == <<Step(op, Nothing, <<>>)>>
Error   == Return("error")           \* the function returns an error
Success == Return("success")         \* the function returns 0

Get(thing, unwind) == Step("get", thing, unwind) \* if it fails: unwind
Try(thing)     == Step("try", thing, <<>>)       \* if it fails: go on without
Make(thing)    == Step("make", thing, <<>>)      \* cannot fail
Put(thing)     == Step("put", thing, <<>>)       \* release; it must be held
PutIf(thing)   == Step("putif", thing, <<>>)     \* release it if it is held
Check(unwind)  == Step("check", Nothing, unwind) \* a test that may fail
Need(thing)    == Step("need", thing, <<>>)      \* dereference
Spawn(thing)   == Step("spawn", thing, <<>>)     \* starts and goes its own way
Await(thing)   == Step("await", thing, <<>>)     \* wait until it has ended


\* The steps are taken only if the thing is (not) held: a test of a pointer.
If(thing, steps)     == Step("if", thing, steps)
Unless(thing, steps) == Step("unless", thing, steps)

\* The steps of each of the things, in their order: a loop over them.
Each(things, steps(_)) ==
  LET from[i \in 1..Len(things) + 1] ==
        IF i > Len(things) THEN <<>> ELSE steps(things[i]) \o from[i + 1]
  IN from[1]
Puts(things) == [i \in 1..Len(things) |-> Put(things[i])]
=============================================================================
