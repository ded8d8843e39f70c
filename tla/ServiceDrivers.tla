--------------------------- MODULE ServiceDrivers ---------------------------
(***************************************************************************)
(* Scripts of the modules that use a service of the kernel: memory, files, *)
(* DMA, timers, the system call table, other modules.  Most of them do     *)
(* their work in module_init and then return an error on purpose, so that  *)
(* they need no rmmod: what they took has to be given back by then.        *)
(***************************************************************************)
EXTENDS DriverSteps

OneShot(steps) == [init |-> steps \o Error, exit |-> <<>>]
Taken(things, unwind) == [i \in 1..Len(things) |-> Get(things[i], unwind)]

(***************************************************************************)
(* Memory.  kmem_cache_free and kmem_cache_destroy are not given NULL.     *)
(***************************************************************************)
Cache   == Thing("cache", "my_cache")
Objects == <<Memory("line[0]"), Memory("line[1]")>>
Line    == Memory("line")

pool ==
  LET mempool == Thing("mempool", "pool")
      mout == <<PutIf(Line)>> \o Error
      pout == <<PutIf(mempool), PutIf(Cache)>> \o mout
      oout == Puts(Objects) \o pout
  IN OneShot(<<Check(Error), Get(Line, mout), Get(Cache, pout), Get(mempool, pout)>>
             \o Taken(Objects, oout) \o oout)

slab == LET mout == <<PutIf(Line)>> \o Error
            cout == <<Put(Cache)>> \o mout
            oout == Puts(Objects) \o cout
        IN [init |-> <<Check(Error), Get(Line, mout), Get(Cache, cout)>> \o Taken(Objects, oout),
            exit |-> Puts(Objects) \o <<Put(Cache), PutIf(Line)>>]

mod_list == LET items == <<Memory("item 0"), Memory("item 1")>>
                out == Each(items, LAMBDA i : <<PutIf(i)>>) \o Error
            IN OneShot(Taken(items, out) \o out)

\* Ever larger blocks, until one is refused.
memmax == LET kbuf == Memory("kbuf")
          IN OneShot(<<Check(Error), Get(kbuf, Error), Put(kbuf), Get(kbuf, Error), Put(kbuf)>>)
memtim == LET kbuf == Memory("kbuf")
              method == <<Try(kbuf), PutIf(kbuf)>>
          IN OneShot(method \o method \o method)

(***************************************************************************)
(* Files; the address limit is widened for the time of the call.           *)
(***************************************************************************)
File  == Thing("file", "f")
Limit == Thing("limit", "KERNEL_DS")

\* Mutant of mod_vfs: a file that could not be opened is closed (the label below).
mod_vfsCloses == LET failure == <<Put(File), Put(Limit)>> \o Error
                 IN OneShot(<<Make(Limit), Get(File, failure), Check(failure), Check(failure)>>
                            \o failure)
mod_vfs == LET fail_open == <<Put(Limit)>> \o Error
               failure   == <<Put(File)>> \o fail_open
           IN OneShot(<<Make(Limit), Get(File, fail_open), Check(failure), Check(failure)>>
                      \o failure)
mdw      == OneShot(<<Get(File, Error), Make(Limit), Check(Error), Put(Limit), Put(File)>>)
mod_file == OneShot(<<Get(File, Error), Check(Error), Put(File)>>)

\* The loader of a slave module; rmmod removes the slave first.
master ==
  LET buff  == Memory("buff")
      slave == Thing("module", "slave")
      close == <<Put(File)>> \o Error
      free  == <<Put(buff)>> \o close
  IN [init |-> <<Check(Error), Get(File, Error), Check(close), Get(buff, close), Check(free),
                 Get(slave, free), Put(buff), Put(File)>>,
      exit |-> <<Check(Success), Check(Success), Put(slave)>>]

(***************************************************************************)
(* Devices of the bus, DMA, timers, processors.                            *)
(***************************************************************************)
\* usb_deregister disconnects what is bound, and this frees its data.
lab1_usb == LET usb_info == Memory("usb_info")
                driver == Keeping(Interface("driver", "usb-my", {}), {usb_info})
            IN [init |-> <<Get(driver, Error)>>, exit |-> <<Put(driver), PutIf(usb_info)>>]

\* The loop over the devices drops the reference of each by itself.
lab2_pci == LET pdev == Thing("device", "pdev")
            IN [init |-> <<Try(pdev), If(pdev, <<Put(pdev), Put(pdev)>>)>>, exit |-> <<>>]

Output(kbuf) == Need(kbuf)              \* it copies a string there
Coherent == LET kbuf == Memory("coherent")
            IN <<Try(kbuf), Output(kbuf), Put(kbuf)>>
Mapped == LET kbuf == Memory("kbuf")
              handle == Thing("mapping", "handle")
          IN <<Try(kbuf), Make(handle), Output(kbuf), Put(handle), PutIf(kbuf)>>
Pooled == LET mypool == Thing("dmapool", "mypool")
              kbuf == Memory("pool buffer")
          IN <<Try(mypool), Need(mypool), Try(kbuf), Output(kbuf), Put(kbuf), Put(mypool)>>
lab1_dma         == OneShot(Coherent \o Mapped \o Pooled)
lab1_dma_PCI_API == OneShot(Coherent \o Mapped)

\* Mutant of htick: the memory is freed before the timer is cancelled.
htickFreesFirst ==
  LET data  == Memory("data")
      timer == Interface("timer", "data->timer", {data})
  IN [init |-> <<Try(data), Need(data), Make(timer)>>, exit |-> <<Put(data), Put(timer)>>]
htick == LET data  == Memory("data")
             timer == Interface("timer", "data->timer", {data})
         IN [init |-> <<Try(data), Need(data), Make(timer)>>, exit |-> <<Put(timer), Put(data)>>]

\* A processor with a number too large returns without put_cpu.
nproc == LET cpu == Thing("cpu", "preemption off")
         IN OneShot(<<Make(cpu), Check(Error), Put(cpu)>>)

\* my_generic_init does not test its memory and does not give it back.
ioctl_signal == LET ramdisk == Memory("ramdisk")
                    node    == Interface("misc", "mycdrv", {})
                IN [init |-> <<Try(ramdisk), Get(node, Error)>>,
                    exit |-> <<Put(node), PutIf(ramdisk)>>]

(***************************************************************************)
(* Symbols for other modules, and entries of the system call table.        *)
(***************************************************************************)
Exporter(name) == [init |-> <<Make(Interface("symbol", name, {}))>>,
                   exit |-> <<Put(Interface("symbol", name, {}))>>]
export_md1 == Exporter("md1_proc")
debug_md1  == Exporter("test_01")

Patch(checks) == LET call == Interface("syscall", "sys_call_table", {})
                 IN [init |-> [i \in 1..checks |-> Check(Error)] \o <<Make(call)>>,
                     exit |-> <<Put(call)>>]
add_sys       == Patch(3)
mod_wrchg     == Patch(3)
plugin_master == Patch(5)

ServiceScripts ==
  [pool |-> pool, slab |-> slab, mod_list |-> mod_list, memmax |-> memmax, memtim |-> memtim,
   mod_vfs |-> mod_vfs, mdw |-> mdw, mod_file |-> mod_file, master |-> master,
   lab1_usb |-> lab1_usb, lab2_pci |-> lab2_pci, lab1_dma |-> lab1_dma,
   lab1_dma_PCI_API |-> lab1_dma_PCI_API, htick |-> htick, nproc |-> nproc,
   ioctl_signal |-> ioctl_signal, export_md1 |-> export_md1, debug_md1 |-> debug_md1,
   add_sys |-> add_sys, mod_wrchg |-> mod_wrchg, plugin_master |-> plugin_master]
=============================================================================
