----------------------------- MODULE NodeDrivers -----------------------------
(***************************************************************************)
(* Scripts of the modules that publish their data in /proc or /sys.  The   *)
(* interfaces of these kinds have no owner, and their removal waits for    *)
(* the reads and writes in progress.                                       *)
(***************************************************************************)
EXTENDS DriverSteps

Node(name, uses) == Interface("proc", name, uses)
Folder(name)     == Thing("folder", name)
Attribute(name, uses) == Interface("attribute", name, uses)
DevClass(name)   == Thing("class", name)

\* One node in /proc; remove_proc_entry of a missing name only warns.
NodeOnly(node) == [init |-> <<Get(node, Error)>>, exit |-> <<PutIf(node)>>]

mod_2       == NodeOnly(Node("mod_node", {}))
mod_proc    == NodeOnly(Node("mod_node", {}))
mod_procr   == NodeOnly(Node("mod_node", {}))
mod_procr2  == NodeOnly(Node("mod_node", {}))
mod_2_old      == NodeOnly(Node("mod_node", {}))
mod_proc_old   == NodeOnly(Node("mod_node", {}))
mod_procr_old  == NodeOnly(Node("mod_node", {}))
mod_procr2_old == NodeOnly(Node("mod_node", {}))

\* A node in a folder of its own.
NodeInFolder(dir, node) ==
  [init |-> <<Get(dir, Error), Get(node, <<PutIf(dir)>> \o Error)>>,
   exit |-> <<PutIf(node), PutIf(dir)>>]
mod_proct     == NodeInFolder(Folder("mod_dir"), Node("mod_node", {Folder("mod_dir")}))
mod_proct_old == NodeInFolder(Folder("mod_dir"), Node("mod_node", {Folder("mod_dir")}))

\* The node of the variants is there before its buffer and still there after it.
Variant(buf_msg, node) ==
  [init |-> <<Get(node, Error), Get(buf_msg, <<PutIf(node)>> \o Error)>>,
   exit |-> <<Put(buf_msg), PutIf(node)>>]
mod_proc_variants     == Variant(Memory("buf_msg"), Node("mod_node", {Memory("buf_msg")}))
mod_proc_variants_old == Variant(Memory("buf_msg"), Node("mod_node", {Memory("buf_msg")}))

(***************************************************************************)
(* procdat and procdatlt with a path of one folder.  Here erase of procdat *)
(* (after Linux 3.9) removes the first folder of the path with all that is *)
(* in it; erase of procdatlt (up to 3.9) climbs from the node it is given, *)
(* which is none when the first create failed.                             *)
(***************************************************************************)
procdat ==
  LET dir == Folder("data")  node == Node("node", {dir})  erase == <<PutIf(node), PutIf(dir)>>
  IN [init |-> <<Get(dir, erase \o Error), Get(node, erase \o Error)>>, exit |-> erase]

\* Loaded without a path this version creates nothing, and rmmod erases it.
procdatlt ==
  LET dir == Folder("data")
      node == Node("node", {dir})
  IN [init |-> <<Check(Success), Get(dir, <<Need(dir)>> \o Error),
                 Get(node, <<Put(dir)>> \o Error)>>,
      exit |-> <<Need(node), Put(node), Put(dir)>>]

\* A class with attributes; none of the three tests all it is given.
XAttribute(name) == Attribute(name, {DevClass("x-class")})
Attributes(names) == [i \in 1..Len(names) |-> XAttribute(names[i])]
Class(names, steps(_)) ==
  [init |-> <<Try(DevClass("x-class")), Need(DevClass("x-class"))>>
            \o Each(Attributes(names), steps),
   exit |-> Each(Attributes(names), LAMBDA a : <<PutIf(a)>>) \o <<Put(DevClass("x-class"))>>]
xxe == Class(<<"xxx">>, LAMBDA a : <<Try(a)>>)
xxm == Class(<<"data1", "data2", "data3">>, LAMBDA a : <<Try(a)>>)
xxx == Class(<<"xxx">>, LAMBDA a : <<Get(a, Error)>>)

sysdat ==
  LET data_class == DevClass("data")
      node == Attribute("node", {data_class})
  IN [init |-> <<Check(Error), Get(data_class, Error), Get(node, <<Put(data_class)>> \o Error)>>,
      exit |-> <<Put(node), Put(data_class)>>]

\* A directory of /sys/kernel and its group of nodes, which goes with it.
Group(dir, nodes) ==
  [init |-> <<Get(dir, Error), Get(nodes, <<Put(dir)>> \o Error)>>,
   exit |-> <<Put(nodes), Put(dir)>>]
syskdat == LET plain == Group(Folder("data"), Attribute("node1..3", {}))
           IN [plain EXCEPT !.init = <<Check(Error)>> \o @]
modsasu == Group(Folder("asu"), Attribute("points", {}))

\* clean removes the entries that were created.
Points(dir) == <<Node("value", {dir}), Node("increment", {dir}), Node("multiply", {dir})>>
clean(dir) == Each(Points(dir), LAMBDA e : <<PutIf(e)>>) \o <<PutIf(dir)>>
modpasu == LET dir == Folder("asu")
               err_node == clean(dir) \o Error
           IN [init |-> <<Get(dir, err_node)>>
                        \o Each(Points(dir), LAMBDA e : <<Get(e, err_node)>>),
               exit |-> clean(dir)]

\* The class is not tested; a missing file is the result, unless the
\* interrupt fails too, and then nothing is unwound.
mdsys ==
  LET mds_class == DevClass("mds-class")
      file == Attribute("mds", {mds_class})
      irq  == Interface("irq", "my_interrupt", {})
  IN [init |-> <<Try(mds_class), Need(mds_class), Try(file), Get(irq, Error),
                 Unless(file, Error)>>,
      exit |-> <<Put(irq), PutIf(file), Put(mds_class)>>]
mdsys2 == LET irq == Interface("irq", "my_interrupt", {})
          IN [init |-> <<Get(irq, Error)>>, exit |-> <<Put(irq)>>]
mdsysc ==
  LET mds_class == DevClass("mds-class")
      file == Attribute("mds", {mds_class})
  IN [init |-> <<Try(mds_class), Need(mds_class), Get(file, Error)>>,
      exit |-> <<Put(file), Put(mds_class)>>]

NodeScripts ==
  [mod_2 |-> mod_2, mod_proc |-> mod_proc, mod_procr |-> mod_procr, mod_procr2 |-> mod_procr2,
   mod_2_old |-> mod_2_old, mod_proc_old |-> mod_proc_old, mod_procr_old |-> mod_procr_old,
   mod_procr2_old |-> mod_procr2_old, mod_proct |-> mod_proct, mod_proct_old |-> mod_proct_old,
   mod_proc_variants |-> mod_proc_variants, mod_proc_variants_old |-> mod_proc_variants_old,
   procdat |-> procdat, procdatlt |-> procdatlt, xxe |-> xxe, xxm |-> xxm, xxx |-> xxx,
   sysdat |-> sysdat, syskdat |-> syskdat, modsasu |-> modsasu, modpasu |-> modpasu,
   mdsys |-> mdsys, mdsys2 |-> mdsys2, mdsysc |-> mdsysc]
=============================================================================
