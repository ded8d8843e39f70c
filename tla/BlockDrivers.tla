---------------------------- MODULE BlockDrivers ----------------------------
(***************************************************************************)
(* Scripts of the RAM disks of src/Tasks/blkdev and of their older copies. *)
(***************************************************************************)
EXTENDS DriverSteps

(***************************************************************************)
(* block_mod_s makes an array of disks, two of them here.  A disk that     *)
(* cannot be set up is left out, but its data pointer stays set, and       *)
(* blk_exit frees whatever it points to.                                   *)
(***************************************************************************)
DataOf(n)    == Memory(n \o ".data")
PointerOf(n) == Set(n \o ".data pointer")
QueueOf(n)   == Thing("queue", n \o ".queue")
DiskOf(n)    == Interface("disk", n, {DataOf(n), QueueOf(n)})
DiskNames    == <<"xda", "xdb">>

setup_device(n) ==
  <<Try(DataOf(n)),
    If(DataOf(n), <<Make(PointerOf(n)), Try(QueueOf(n)),
                    If(QueueOf(n), <<Try(DiskOf(n)), Unless(DiskOf(n), <<Put(DataOf(n))>>)>>),
                    Unless(QueueOf(n), <<PutIf(DataOf(n))>>)>>)>>
take_down(n) == <<PutIf(DiskOf(n)), PutIf(QueueOf(n)),
                  If(PointerOf(n), <<Put(DataOf(n)), Put(PointerOf(n))>>)>>

DiskArray == LET major   == Thing("blkdev", "xd")
                 Devices == Memory("Devices")
             IN [init |-> <<Get(major, Error), Get(Devices, <<Put(major)>> \o Error)>>
                          \o Each(DiskNames, setup_device),
                 exit |-> Each(DiskNames, take_down) \o <<Put(major), Put(Devices)>>]
block_mod_s     == DiskArray
block_mod_s_old == DiskArray

\* The errors of block_mod_e unwind nothing; the memory is never freed.
block_mod_e ==
  LET major == Thing("blkdev", "xbe")
      my_dev == Memory("my_dev")
      queue == Thing("queue", "myblkdev_queue")
      disk == Interface("disk", "xbe", {my_dev, queue})
  IN [init |-> <<Get(major, Error), Get(my_dev, Error), Get(queue, Error), Get(disk, Error)>>,
      exit |-> <<Put(disk), Put(queue), Put(major)>>]

\* Two errors of block_mod_c leave the request queue.
block_mod_c ==
  LET my_dev == Memory("my_dev")
      queue == Thing("queue", "my_request_queue")
      major == Thing("blkdev", "xbc")
      disk == Interface("disk", "xbc", {my_dev, queue})
  IN [init |-> <<Get(my_dev, Error), Get(queue, <<Put(my_dev)>> \o Error),
                 Get(major, <<Put(my_dev)>> \o Error),
                 Get(disk, <<Put(major), Put(my_dev)>> \o Error)>>,
      exit |-> <<Put(disk), Put(major), Put(queue), Put(my_dev)>>]

\* The image of dubfl may be missing; rmmod saves it without a test.
dubfl == LET major == Thing("blkdev", "dbf")
             image == Memory("image")
             queue == Thing("queue", "queue")
             disk  == Interface("disk", "dbf", {queue})
             end0  == <<PutIf(image), Put(major)>> \o Error
         IN [init |-> <<Get(major, Error), Try(image), Get(queue, end0), Get(disk, end0)>>,
             exit |-> <<Need(image), Put(image), Put(disk), Put(queue), Put(major)>>]

BlockScripts == [block_mod_s |-> block_mod_s, block_mod_s_old |-> block_mod_s_old,
                 block_mod_e |-> block_mod_e, block_mod_c |-> block_mod_c, dubfl |-> dubfl]
=============================================================================
