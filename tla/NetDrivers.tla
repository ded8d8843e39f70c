----------------------------- MODULE NetDrivers -----------------------------
(***************************************************************************)
(* Scripts of the network modules of src/Tasks/network, and of the copies  *)
(* for kernels before 3.17 kept under src/Tasks/!previous (names in _old). *)
(* alloc_netdev is rarely checked: register_netdev then reads through the  *)
(* null pointer it gave.                                                   *)
(***************************************************************************)
EXTENDS DriverSteps

NetMemory(n) == Memory(n)
NetDevice(n) == Interface("netdev", n, {NetMemory(n)})

\* One interface: alloc_netdev unchecked, register_netdev checked.
OneInterface(n) ==
  [init |-> <<Try(NetMemory(n)), Need(NetMemory(n)),
              Get(NetDevice(n), <<Put(NetMemory(n))>> \o Error)>>,
   exit |-> <<Put(NetDevice(n)), Put(NetMemory(n))>>]

network         == OneInterface("fict0")
receive         == OneInterface("mynet0")
transmit        == OneInterface("mynet0")
transmit_simple == OneInterface("mynet0")

\* Two interfaces.  Unwinding goes over all of them, but frees the one
\* that failed each time.
mulnet == [init |-> <<Try(NetMemory("fict0")), Need(NetMemory("fict0")),
                      Get(NetDevice("fict0"), <<Put(NetMemory("fict0"))>> \o Error),
                      Try(NetMemory("fict1")), Need(NetMemory("fict1")),
                      Get(NetDevice("fict1"),
                          <<Put(NetMemory("fict1")), Need(NetMemory("fict1")),
                            Put(NetMemory("fict1"))>> \o Error)>>,
           exit |-> <<Put(NetDevice("fict0")), Put(NetMemory("fict0")),
                      Put(NetDevice("fict1")), Put(NetMemory("fict1"))>>]

PacketType(n) == Interface("packet", n, {})

net_proto == [init |-> <<Make(PacketType("test_proto"))>>,
              exit |-> <<Put(PacketType("test_proto"))>>]

\* With the parameter link; the reference to the interface is given back
\* twice and was never taken.
net_proto2 == [init |-> <<Check(Error), Make(PacketType("test_proto1")),
                          Make(PacketType("test_proto2"))>>,
               exit |-> <<Put(Thing("reference", "dev")), Put(Thing("reference", "dev")),
                          Put(PacketType("test_proto2")), Put(PacketType("test_proto1"))>>]

net_protox == [init |-> OneInterface("xxx0").init \o <<Make(PacketType("test_proto"))>>,
               exit |-> <<Put(PacketType("test_proto"))>> \o OneInterface("xxx0").exit]

trn_proto == LET proto == PacketType("IPPROTO_ICMP")
             IN [init |-> <<Get(proto, Error)>>, exit |-> <<Put(proto)>>]

(***************************************************************************)
(* The virtual interfaces: the parent, its type and the name of the new    *)
(* interface are checked, the results of register_netdev and of the rx     *)
(* handler's registration are not.                                         *)
(***************************************************************************)
FindParent(child) == LET err == Check(<<Put(child)>> \o Error)
                     IN <<Get(child, Error), err, err, err>>
RxHandler(child) == Interface("rxhandler", "handle_frame", {child})
InterceptByHandler(child, virt) ==
  [init |-> FindParent(child) \o <<Try(virt), Try(RxHandler(child))>>,
   exit |-> <<Put(RxHandler(child)), PutIf(virt), Put(child)>>]

virt      == InterceptByHandler(NetMemory("virt0"), NetDevice("virt0"))
virt1     == InterceptByHandler(NetMemory("virt0"), NetDevice("virt0"))
virt2     == InterceptByHandler(NetMemory("virt0"), NetDevice("virt0"))
virt_full == InterceptByHandler(NetMemory("virt0"), NetDevice("virt0"))

Intercepts(child, n) == Interface("packet", n, {child})
virt_proto == LET child == NetMemory("virt0")
                  arp_proto == Intercepts(child, "arp_proto")
                  ip4_proto == Intercepts(child, "ip4_proto")
              IN [init |-> FindParent(child) \o <<Try(NetDevice("virt0")),
                              Make(arp_proto), Make(ip4_proto)>>,
                  exit |-> <<Put(arp_proto), Put(ip4_proto),
                             PutIf(NetDevice("virt0")), Put(child)>>]
virtl == LET child == NetMemory("virt0")
             proto_parent == Intercepts(child, "proto_parent")
         IN [init |-> FindParent(child) \o <<Try(NetDevice("virt0")), Make(proto_parent)>>,
             exit |-> <<Put(proto_parent), PutIf(NetDevice("virt0")), Put(child)>>]
-----------------------------------------------------------------------------
network_old         == OneInterface("fict0")
receive_old         == OneInterface("mynet0")
transmit_old        == OneInterface("mynet0")
transmit_simple_old == OneInterface("mynet0")
net_proto_old  == net_proto
net_proto2_old == net_proto2
net_protox_old == net_protox
trn_proto_old  == trn_proto
virt_old       == InterceptByHandler(NetMemory("virt0"), NetDevice("virt0"))
virt1_old      == InterceptByHandler(NetMemory("virt0"), NetDevice("virt0"))
virt2_old      == InterceptByHandler(NetMemory("virt0"), NetDevice("virt0"))
virt_full_old  == InterceptByHandler(NetMemory("virt0"), NetDevice("virt0"))
virt_proto_old == virt_proto
virtl_old      == virtl

NetScripts ==
  [network |-> network, receive |-> receive, transmit |-> transmit,
   transmit_simple |-> transmit_simple, mulnet |-> mulnet, net_proto |-> net_proto,
   net_proto2 |-> net_proto2, net_protox |-> net_protox, trn_proto |-> trn_proto,
   virt |-> virt, virt1 |-> virt1, virt2 |-> virt2, virt_full |-> virt_full,
   virt_proto |-> virt_proto, virtl |-> virtl, network_old |-> network_old,
   receive_old |-> receive_old, transmit_old |-> transmit_old,
   transmit_simple_old |-> transmit_simple_old, net_proto_old |-> net_proto_old,
   net_proto2_old |-> net_proto2_old, net_protox_old |-> net_protox_old,
   trn_proto_old |-> trn_proto_old, virt_old |-> virt_old, virt1_old |-> virt1_old,
   virt2_old |-> virt2_old, virt_full_old |-> virt_full_old,
   virt_proto_old |-> virt_proto_old, virtl_old |-> virtl_old]
=============================================================================
