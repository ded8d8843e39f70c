-------------------------------- MODULE Audit --------------------------------
(***************************************************************************)
(* What can be told of a driver by walking through its module_init and     *)
(* module_exit once, alone, along every way they may take: what is surely  *)
(* held and what may be held at each place, and whose code may be running. *)
(* Callers are not interleaved with the walk; it only asks at each place   *)
(* who may have come in by then and what they may have left.               *)
(***************************************************************************)
EXTENDS Lifecycle

\* What is known at one place of the walk.
View(ph, q, sure, may, inside) ==
  [phase |-> ph, todo |-> q, sure |-> sure, may |-> may, inside |-> inside]
Start == View("out", <<>>, {}, {}, {})

Running(v) == v.phase \in {"loading", "unloading"}
Ahead(v)   == Head(v.todo)
-----------------------------------------------------------------------------
(***************************************************************************)
(* The walk: the views that the next step of the function leads to.        *)
(***************************************************************************)
\* The calls that are over when the release of t returns.
EndedBy(t, inside) == IF t.kind = "workqueue" THEN {c \in inside : c.kind = "work"}
                      ELSE IF t.kind \in Draining THEN {t} ELSE {}

Steps(v) ==
  LET s == Head(v.todo)
      t == s.thing
      rest == Tail(v.todo)
      On(ops, view) == IF s.op \in ops THEN {view} ELSE {}
      Go(q)      == View(v.phase, q, v.sure, v.may, v.inside)
      With(q)    == View(v.phase, q, v.sure \cup {t}, v.may \cup {t}, v.inside)
      Without(q) == View(v.phase, q, v.sure \ {t}, v.may \ {t}, v.inside)
      Released   == View(v.phase, rest, v.sure \ {t}, v.may \ {t},
                         v.inside \ EndedBy(t, v.inside))
      Ended      == View(IF v.phase = "unloading" THEN "removed"
                         ELSE IF s.op = "error" THEN "refused" ELSE "in",
                         <<>>, v.sure, v.may, v.inside)
  IN On({"get", "try", "make"}, With(rest))
     \cup On({"try", "check"}, Go(rest))
     \cup On({"get", "check"}, Go(s.unwind))
     \cup On({"putif"}, Released)
     \cup On({"spawn"}, View(v.phase, rest, v.sure, v.may, v.inside \cup {t}))
     \cup On({"await"}, View(v.phase, rest, v.sure, v.may, v.inside \ {t}))
     \cup On({"error", "success"}, Ended)
     \cup (IF t \in v.may
           THEN On({"put"}, Released) \cup On({"need", "unless"}, With(rest))
                \cup On({"if"}, With(s.unwind \o rest))
           ELSE {})
     \cup (IF t \notin v.sure
           THEN On({"if"}, Without(rest)) \cup On({"unless"}, Without(s.unwind \o rest))
           ELSE {})

\* insmod and rmmod begin; rmmod finds nobody inside through an interface with an owner.
Leads(v, script) ==
  CASE v.phase = "out" -> {View("loading", script.init \o Success, v.sure, v.may, v.inside)}
    [] v.phase = "in"  -> {View("unloading", script.exit \o Success, v.sure, v.may,
                                {c \in v.inside : c.kind \notin Owned})}
    [] Running(v)      -> Steps(v)
    [] OTHER           -> {}
-----------------------------------------------------------------------------
(***************************************************************************)
(* The others: who may be inside at a place, and what they may leave.      *)
(***************************************************************************)
Open(v, r) == /\ r.kind \in Interfaces
              /\ r.kind \in Owned => v.phase \in {"loading", "in"}
              /\ ~ (/\ Running(v) /\ Ahead(v).op \in {"put", "putif"}
                    /\ Ahead(v).thing = r)

SetOff(v)  == {r \in UNION {c.starts : c \in v.inside} : r.kind \in Deferred}
Callers(v) == {r \in v.may \cup SetOff(v) : Open(v, r)}
Kept(v)    == UNION {c.keeps : c \in v.inside}

\* Callers come in through what is held, may set off more, and leave something.
Visited(v) == View(v.phase, v.todo, v.sure, v.may \cup Kept(v), v.inside \cup Callers(v))

\* The walk through a script, step by step until its end.
Walk(script) ==
  LET Long == 2 * (Len(script.init) + Len(script.exit)) + 12
      walked[n \in Nat] ==
        IF n = 0 THEN {Start}
        ELSE LET before == walked[n - 1]
             IN before \cup {Visited(Visited(Visited(w))) :
                               w \in UNION {Leads(v, script) : v \in before}}
  IN walked[Long]
-----------------------------------------------------------------------------
(***************************************************************************)
(* A set of views from which no step and no caller leads out.              *)
(***************************************************************************)
Covers(u, w) == /\ u.phase = w.phase /\ u.todo = w.todo
                /\ u.sure \subseteq w.sure /\ w.may \subseteq u.may
                /\ w.inside \subseteq u.inside

Complete(views, script) ==
  /\ Start \in views
  /\ \A v \in views : /\ \A w \in Leads(v, script) : \E u \in views : Covers(u, w)
                      /\ Kept(v) \subseteq v.may /\ Callers(v) \subseteq v.inside

(***************************************************************************)
(* What the views show: what is used without being there, what may be left *)
(* at the end, who may miss something, who may still be inside at the end. *)
(***************************************************************************)
Missing(views) == {Ahead(v).thing :
  v \in {u \in views : /\ Running(u) /\ Ahead(u).op \in {"put", "need"}
                       /\ Ahead(u).thing \notin u.sure}}
Left(views, end)    == UNION {v.may : v \in {u \in views : u.phase = end}}
Staying(views, end) == UNION {v.inside : v \in {u \in views : u.phase = end}}
Unserved(views) == UNION {{r \in v.inside : ~ r.uses \subseteq v.sure} :
                            v \in {u \in views : u.phase # "refused"}}
=============================================================================
