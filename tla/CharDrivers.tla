----------------------------- MODULE CharDrivers -----------------------------
(***************************************************************************)
(* Scripts of the character drivers of src/Tasks/dev, +TASKS/queue and     *)
(* +TASKS/confm: one definition per module source.                         *)
(***************************************************************************)
EXTENDS DriverSteps

\* A misc device and nothing else; its data are static.
MiscOnly(node) == [init |-> <<Get(node, Error)>>, exit |-> <<Put(node)>>]

misc_dev == MiscOnly(Interface("misc", "own_misc_dev", {}))
mmopen   == MiscOnly(Interface("misc", "mopen", {}))
mmopen_0 == MiscOnly(Interface("misc", "mopen", {}))
poll_dev == MiscOnly(Interface("misc", "poll", {}))
queues   == MiscOnly(Interface("misc", "queue", {}))

\* Mutant of queuel: rmmod does not erase the list.
queuelForgets == LET blocks == Memory("blocks")
                     node   == Keeping(Interface("misc", "queue", {}), {blocks})
                 IN [init |-> <<Get(node, Error)>>, exit |-> <<Put(node)>>]
\* The writes to /dev/queue leave blocks; rmmod erases them first.
queuel == LET blocks == Memory("blocks")
              node   == Keeping(Interface("misc", "queue", {}), {blocks})
          IN [init |-> <<Get(node, Error)>>, exit |-> <<PutIf(blocks), Put(node)>>]

ioctl_dev     == LET node == Interface("chrdev", "my_ioctl_dev", {})
                 IN [init |-> <<Get(node, Error)>>, exit |-> <<Put(node)>>]
ioctl_dev_new == LET node == Interface("chrdev", "my_ioctl_dev", {})
                 IN [init |-> <<Get(node, Error)>>, exit |-> <<Put(node)>>]
ioctl_dev_old == LET node == Interface("chrdev", "my_ioctl_dev", {})
                 IN [init |-> <<Get(node, Error)>>, exit |-> <<Put(node)>>]

fixdev == LET region == Thing("region", "my_cdev_dev")
              hcdev  == Interface("cdev", "hcdev", {region})
          IN [init |-> <<Get(region, Error), Get(hcdev, <<Put(region)>> \o Error)>>,
              exit |-> <<Put(hcdev), Put(region)>>]

\* class_create is not checked: device_create refuses an error pointer,
\* device_destroy does not.
DynNodes == <<Thing("device", "dyn_0"), Thing("device", "dyn_1"), Thing("device", "dyn_2")>>
Dynamic == LET region   == Thing("region", "my_dyndev_mod")
               hcdev    == Interface("cdev", "hcdev", {region})
               devclass == Thing("class", "dyn_class")
           IN [init |-> <<Get(region, Error), Get(hcdev, <<Put(region)>> \o Error),
                          Try(devclass),
                          If(devclass, [i \in 1..3 |-> Try(DynNodes[i])])>>,
               exit |-> Each(DynNodes, LAMBDA d : <<Need(devclass), PutIf(d)>>)
                        \o <<PutIf(devclass), Put(hcdev), Put(region)>>]
dyndev     == Dynamic
dyndev_old == Dynamic

(***************************************************************************)
(* confm: one misc device per line "chan name" of its configuration file;  *)
(* two of them here.  A line may be wrong or its registration may fail:    *)
(* all the channels are erased again, without their blocks.                *)
(***************************************************************************)
confm ==
  LET config  == Thing("file", "confm.conf")
      elem(n) == Memory(n \o "_elem")
      name(n) == Memory(n \o "_name")
      link(n) == Set(n \o "_linked")      \* queue initialised, in dev_list
      data(n) == Memory(n \o "_blocks")
      chan(n) == Keeping(Interface("misc", n, {elem(n), link(n)}), {data(n)})
      erase(n) == <<Put(link(n)), Put(chan(n)), Put(name(n)), Put(elem(n))>>
      undo(ns) == Each(ns, erase) \o <<Put(config)>> \o Error
      parse(ns) == Check(undo(ns))
      next_dev(n, ns) == <<parse(ns), Get(elem(n), undo(ns)),
                           Get(name(n), <<Put(elem(n))>> \o undo(ns)),
                           Get(chan(n), <<Put(name(n)), Put(elem(n))>> \o undo(ns)),
                           Make(link(n))>>
  IN [init |-> <<Get(config, Error)>> \o next_dev("c1", <<>>)
               \o next_dev("c2", <<"c1">>) \o <<parse(<<"c1", "c2">>), Put(config)>>,
      exit |-> Each(<<"c1", "c2">>, erase)]

CharScripts ==
  [misc_dev |-> misc_dev, mmopen |-> mmopen, mmopen_0 |-> mmopen_0, poll |-> poll_dev,
   queues |-> queues, queuel |-> queuel, ioctl_dev |-> ioctl_dev,
   ioctl_dev_new |-> ioctl_dev_new, ioctl_dev_old |-> ioctl_dev_old, fixdev |-> fixdev,
   dyndev |-> dyndev, dyndev_old |-> dyndev_old, confm |-> confm]
=============================================================================
