----------------------------- MODULE WorkDrivers -----------------------------
(***************************************************************************)
(* Scripts of the modules that handle interrupts or put work off:          *)
(* src/Tasks/IRQ, +TASKS/irq and +TASKS/smp.                               *)
(***************************************************************************)
EXTENDS DriverSteps

Irq(n) == Interface("irq", n, {})
IrqOnly(irq) == [init |-> <<Get(irq, Error)>>, exit |-> <<Put(irq)>>]

lab1_interrupt == IrqOnly(Irq("my_interrupt"))

\* The handler compares the time with next, which is set after the fact.
irqs == LET next == Set("next, delay")
            irq  == Interface("irq", "handler", {next})
        IN [init |-> <<Get(irq, Error), Make(next)>>, exit |-> <<Put(irq), Put(next)>>]

\* Two handlers of one line; the second failure leaves the first.
mod_ser == [init |-> <<Get(Irq("serial_01"), Error), Get(Irq("serial_02"), Error)>>,
            exit |-> <<Put(Irq("serial_01")), Put(Irq("serial_02"))>>]

ProcDir  == Thing("procdir", "irq_counter")
ProcNode == Interface("proc", "irq_counter/counter", {})
CounterNode(unwind) == <<Get(ProcDir, unwind), Get(ProcNode, <<Put(ProcDir)>> \o unwind)>>
CounterNodeGone == <<Put(ProcNode), Put(ProcDir)>>

irqcntp == LET irq == Irq("handler")
           IN [init |-> <<Get(irq, Error)>> \o CounterNode(<<Put(irq)>> \o Error),
               exit |-> CounterNodeGone \o <<Put(irq)>>]

\* The failure of class_create is reported as success.
irqcnts == LET irq  == Irq("handler")
               dir  == Thing("class", "irq_counter")
               node == Interface("attribute", "irq_counter/counter", {dir})
           IN [init |-> <<Get(irq, Error), Get(dir, <<Put(irq)>> \o Success),
                          Get(node, <<Put(dir), Put(irq)>> \o Error)>>,
               exit |-> <<Put(node), Put(dir), Put(irq)>>]

(***************************************************************************)
(* irqcntpv counts in the handler (i), in a tasklet (t) or in a work (w).  *)
(* Unwinding frees the interrupt only; rmmod in mode t falls through to    *)
(* the work queue of mode w.                                               *)
(***************************************************************************)
Queue   == Thing("workqueue", "new_queue")
Tasklet == Interface("tasklet", "cnt_tasklet", {})
Counting == Interface("work", "cnt_work", {Queue})

irqcntpv_i == irqcntp
irqcntpv_t == LET irq == Starting(Irq("handler_tsk"), {Tasklet})
              IN [init |-> <<Get(irq, Error)>> \o CounterNode(<<Put(irq)>> \o Error),
                  exit |-> CounterNodeGone \o <<Put(irq), Await(Tasklet), Put(Queue)>>]
\* Mutant of irqcntpv_w: the queue goes before the interrupt that fills it.
irqcntpv_wQueueFirst ==
  LET irq == Starting(Interface("irq", "handler_wrk", {Queue}), {Counting})
  IN [init |-> <<Get(Queue, Error), Get(irq, <<Put(Queue)>> \o Error)>>
               \o CounterNode(<<Put(irq)>> \o Error),
      exit |-> CounterNodeGone \o <<Put(Queue), Put(irq)>>]
irqcntpv_w == LET irq == Starting(Interface("irq", "handler_wrk", {Queue}), {Counting})
              IN [init |-> <<Get(Queue, Error), Get(irq, <<Put(Queue)>> \o Error)>>
                           \o CounterNode(<<Put(irq)>> \o Error),
                  exit |-> CounterNodeGone \o <<Put(irq), Put(Queue)>>]

\* Mutant of mod_tasklet: rmmod does not kill the tasklet.
mod_taskletLives == LET my_tasklet == Interface("tasklet", "my_tasklet", {})
                    IN [init |-> <<Spawn(my_tasklet)>>, exit |-> <<>>]
mod_tasklet == LET my_tasklet == Interface("tasklet", "my_tasklet", {})
               IN [init |-> <<Spawn(my_tasklet)>>, exit |-> <<Await(my_tasklet)>>]

\* Two works; the errors on the way leave the queue and what is in it.
mod_workqueue == LET my_wq   == Thing("workqueue", "my_queue")
                     work(n) == Interface("work", n, {my_wq})
                 IN [init |-> <<Get(my_wq, Error), Check(Error), Spawn(work("#0")),
                                Check(Error), Spawn(work("#1"))>>,
                     exit |-> <<Put(my_wq)>>]

\* These two measure one work, one tasklet, and never stay loaded.
thr3 == LET wq == Thing("workqueue", "queue")
        IN [init |-> <<Get(wq, Error), Spawn(Interface("work", "work", {wq})), Put(wq)>>
                     \o Error, exit |-> <<>>]
thr4 == LET tasklet == Interface("tasklet", "tasklet", {})
        IN [init |-> <<Spawn(tasklet), Await(tasklet)>> \o Error, exit |-> <<>>]

WorkScripts ==
  [lab1_interrupt |-> lab1_interrupt, irqs |-> irqs, mod_ser |-> mod_ser,
   irqcntp |-> irqcntp, irqcnts |-> irqcnts, irqcntpv_i |-> irqcntpv_i,
   irqcntpv_t |-> irqcntpv_t, irqcntpv_w |-> irqcntpv_w, mod_tasklet |-> mod_tasklet,
   mod_workqueue |-> mod_workqueue, thr3 |-> thr3, thr4 |-> thr4]
=============================================================================
