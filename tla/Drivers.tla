------------------------------- MODULE Drivers -------------------------------
(***************************************************************************)
(* All the drivers, each through its own Lifecycle, and what a driver owes *)
(* the kernel.  Many break one of these duties somewhere: each breach is   *)
(* listed here as <<driver, thing>>, and the properties say there is no    *)
(* other.                                                                  *)
(***************************************************************************)
EXTENDS Orderly, Audit, CharDrivers, BlockDrivers, NetDrivers, WorkDrivers, NodeDrivers,
        ServiceDrivers, TLC

DriverScripts == CharScripts @@ BlockScripts @@ NetScripts @@ WorkScripts
                 @@ NodeScripts @@ ServiceScripts

Of(drivers, things) == drivers \X things
-----------------------------------------------------------------------------
\* An error return of module_init that does not undo everything.
LeftByFailedLoad ==
       Of({"confm"}, {"c1_blocks", "c2_blocks"})
  \cup Of({"block_mod_e"}, {"xbe", "my_dev", "myblkdev_queue"})
  \cup Of({"block_mod_c"}, {"my_request_queue"})
  \cup Of({"dubfl"}, {"queue"})
  \cup Of({"mod_ser"}, {"serial_01"})
  \cup Of({"irqcntpv_w"}, {"new_queue"}) \cup Of({"mod_workqueue"}, {"my_queue"})
  \cup Of({"xxx"}, {"x-class"})
  \cup Of({"mdsys"}, {"mds-class", "mds", "my_interrupt"}) \cup Of({"mdsysc"}, {"mds-class"})
  \cup Of({"mdw"}, {"f", "KERNEL_DS"}) \cup Of({"mod_file"}, {"f"})
  \cup Of({"nproc"}, {"preemption off"}) \cup Of({"ioctl_signal"}, {"ramdisk"})

LeftByUnload == Of({"confm"}, {"c1_blocks", "c2_blocks"}) \cup Of({"block_mod_e"}, {"my_dev"})
                \cup Of({"master"}, {"slave"})

\* Something used or released that is not there.
Nets == {"receive", "transmit", "transmit_simple",
         "receive_old", "transmit_old", "transmit_simple_old"}
Virts == {"virt", "virt1", "virt2", "virt_full",
          "virt_old", "virt1_old", "virt2_old", "virt_full_old"}
Faults ==
       Of({"dyndev", "dyndev_old"}, {"dyn_class"})
  \cup Of({"block_mod_s", "block_mod_s_old"}, {"xda.data", "xdb.data"})
  \cup Of({"dubfl"}, {"image"})
  \cup Of({"network", "network_old"}, {"fict0"}) \cup Of(Nets, {"mynet0"})
  \cup Of({"mulnet"}, {"fict0", "fict1"}) \cup Of({"net_protox", "net_protox_old"}, {"xxx0"})
  \cup Of({"net_proto2", "net_proto2_old"}, {"dev"})
  \cup Of(Virts, {"handle_frame"})
  \cup Of({"irqcntpv_t"}, {"new_queue"})
  \cup Of({"irqcnts"}, {"irq_counter/counter"})
  \cup Of({"procdatlt"}, {"data", "node"})
  \cup Of({"xxe", "xxm", "xxx"}, {"x-class"}) \cup Of({"mdsys", "mdsysc"}, {"mds-class"})
  \cup Of({"pool"}, {"line[0]", "line[1]"}) \cup Of({"slab"}, {"line[0]", "line[1]", "my_cache"})
  \cup Of({"lab2_pci"}, {"pdev"}) \cup Of({"htick"}, {"data"})
  \cup Of({"lab1_dma", "lab1_dma_PCI_API"}, {"coherent", "kbuf"})
  \cup Of({"lab1_dma"}, {"mypool", "pool buffer"})

\* Published before what its code needs is ready, or withdrawn after it is gone.
Races ==
       Of({"confm"}, {"c1", "c2"})
  \cup Of({"irqs"}, {"handler"})
  \cup Of({"mod_proc_variants", "mod_proc_variants_old"}, {"mod_node"})

\* Code of the module that may still run when the module is freed.
StillInside ==
       Of({"confm"}, {"c1", "c2"})
  \cup Of({"mod_ser"}, {"serial_01"}) \cup Of({"mdsys"}, {"mds", "my_interrupt"})
  \cup Of({"irqcntpv_t"}, {"cnt_tasklet"}) \cup Of({"irqcntpv_w"}, {"cnt_work"})
  \cup Of({"mod_workqueue"}, {"#0"})
  \cup Of({"add_sys", "mod_wrchg", "plugin_master"}, {"sys_call_table"})
-----------------------------------------------------------------------------
\* The drivers whose module_init and module_exit show that they owe nothing: that it
\* follows is proved for every orderly script; TLC evaluates which ones are.
OrderlyDrivers ==
  {"misc_dev", "mmopen", "mmopen_0", "queues", "ioctl_dev", "ioctl_dev_new", "ioctl_dev_old",
   "fixdev", "poll", "net_proto", "trn_proto", "virt_proto", "virtl", "net_proto_old",
   "trn_proto_old", "virt_proto_old", "virtl_old", "lab1_interrupt", "irqcntp", "irqcntpv_i",
   "mod_2", "mod_proc", "mod_procr", "mod_procr2", "mod_2_old", "mod_proc_old",
   "mod_procr_old", "mod_procr2_old", "mod_proct", "mod_proct_old", "procdat", "sysdat",
   "syskdat", "modsasu", "modpasu", "mdsys2", "export_md1", "debug_md1"}
ASSUME OrderlyAssumption ==
  OrderlyDrivers = {d \in DOMAIN DriverScripts : Orderly(DriverScripts[d])}
-----------------------------------------------------------------------------
(***************************************************************************)
(* One walk through the functions of a driver, compared with the tables.   *)
(* That a driver whose walk shows no more than they list keeps to them is  *)
(* proved for every script; TLC walks through each driver.                 *)
(***************************************************************************)
Listed(d, things, table) == \A t \in things : <<d, t.name>> \in table

Within(d, views) ==
  /\ Listed(d, Left(views, "refused"), LeftByFailedLoad)
  /\ Listed(d, Left(views, "removed"), LeftByUnload)
  /\ Listed(d, Missing(views), Faults)
  /\ Listed(d, Unserved(views), Races)
  /\ Listed(d, Staying(views, "refused") \cup Staying(views, "removed"), StillInside)

Audited(d) == LET views == Walk(Script[d])
              IN Complete(views, Script[d]) /\ Within(d, views)

\* These five have a mutant, which the runs of TLC tell from the script.
WithMutants == {"queuel", "mod_vfs", "htick", "mod_tasklet", "irqcntpv_w"}
ASSUME AuditAssumption == \A d \in DOMAIN Script \ WithMutants : Audited(d)

\* Nor do the tables list what no walk shows.
Backed(table, shown(_)) ==
  \A b \in table : \E t \in shown(Walk(DriverScripts[b[1]])) : t.name = b[2]
ASSUME TablesAssumption ==
  /\ Backed(LeftByFailedLoad, LAMBDA views : Left(views, "refused"))
  /\ Backed(LeftByUnload, LAMBDA views : Left(views, "removed"))
  /\ Backed(Faults, Missing) /\ Backed(Races, Unserved)
  /\ Backed(StillInside,
            LAMBDA views : Staying(views, "refused") \cup Staying(views, "removed"))
-----------------------------------------------------------------------------
(***************************************************************************)
(* A module_init that returns an error has given back what it took: memory, *)
(* numbers, queues, nodes, the lines of interrupts; and after rmmod nothing *)
(* is left, what users made the module allocate meanwhile included.        *)
(***************************************************************************)
LeavesNothing ==
  \A r \in held : /\ phase = "refused" => <<driver, r.name>> \in LeftByFailedLoad
                 /\ phase = "removed" => <<driver, r.name>> \in LeftByUnload

(***************************************************************************)
(* module_init and module_exit never use or release what was not acquired, *)
(* on whatever path they were taken: also after steps that may fail and    *)
(* whose result the code does not test.                                    *)
(***************************************************************************)
UsesOnlyWhatItHolds ==
  phase = "broken" => <<driver, Now.thing.name>> \in Faults

(***************************************************************************)
(* Whoever comes in through an interface, at any time between its          *)
(* registration and its release, finds what the code behind it relies on.  *)
(***************************************************************************)
CallsFindWhatTheyNeed ==
  \A r \in calls : r.uses \subseteq held \/ <<driver, r.name>> \in Races
                   \/ phase = "refused" \/ phase = "broken"

(***************************************************************************)
(* When the module is freed, after a failed load or after rmmod, nobody is *)
(* running its code.                                                       *)
(***************************************************************************)
NobodyInFreedText ==
  phase \in {"refused", "removed"} => \A r \in calls : <<driver, r.name>> \in StillInside

(***************************************************************************)
(* rmmod ends: a release that waits for the calls in progress does not     *)
(* wait for ever.                                                          *)
(***************************************************************************)
UnloadEnds == phase = "unloading" ~> phase \in {"removed", "broken"}
=============================================================================
