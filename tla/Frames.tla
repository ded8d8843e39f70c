------------------------------- MODULE Frames --------------------------------
(***************************************************************************)
(* Frames that pass the network modules of src/Tasks/network: interfaces   *)
(* that send, interfaces on top of another one (the parent), and handlers  *)
(* that watch what arrives.  Several processors may have a frame in hand.  *)
(***************************************************************************)
EXTENDS Integers, Sequences

CONSTANTS Frame,     \* frames under way
          Address,   \* IP addresses
          NoAddress, \* of an interface before it has one
          MaxFrames  \* a bound on what is counted

ASSUME FramesAssumption == NoAddress \notin Address /\ MaxFrames \in Nat
-----------------------------------------------------------------------------
(***************************************************************************)
(* A module:                                                               *)
(*   hook   where it takes frames: before the protocols (rx_handler), as   *)
(*          one more protocol, as a tap of everything, nowhere             *)
(*   n      its handlers of one protocol                                   *)
(*   picks  which it hands to its own interface: all, those to its         *)
(*          address, none                                                  *)
(*   learns whether its open looks the address up                          *)
(*   xmit   what becomes of a frame to send: it goes out by the parent, is *)
(*          freed, comes back, or there is no interface to send by         *)
(*   counts whether it counts what it sends                                *)
(*   looks  whether it reads the frame again after the parent got it       *)
(***************************************************************************)
Net(hook, n, picks, learns, xmit, counts, looks) ==
  [hook |-> hook, n |-> n, picks |-> picks, learns |-> learns,
   xmit |-> xmit, counts |-> counts, looks |-> looks]

virt  == Net("rx_handler", 1, "all", FALSE, "parent", TRUE, TRUE)
virt1 == virt
virt2 == virt
virt_full  == Net("rx_handler", 1, "address", TRUE, "parent", TRUE, TRUE)
virt_proto == Net("protocol", 1, "address", TRUE, "parent", TRUE, FALSE)
virtl(debug) == Net("tap", 1, "all", TRUE, "parent", TRUE, debug)
virt_old  == virt
virt1_old == virt
virt2_old == virt
virt_full_old  == virt_full
virt_proto_old == virt_proto
virtl_old(debug) == virtl(debug)

net_proto  == Net("tap", 1, "none", FALSE, "none", FALSE, FALSE)
net_proto2 == Net("protocol", 2, "none", FALSE, "none", FALSE, FALSE)
net_protox == Net("protocol", 1, "none", FALSE, "free", FALSE, FALSE)
net_proto_old  == net_proto
net_proto2_old == net_proto2
net_protox_old == net_protox

network  == Net("none", 0, "none", FALSE, "free", FALSE, FALSE)
mulnet   == network
transmit == Net("none", 0, "none", FALSE, "free", TRUE, FALSE)
transmit_simple == network
receive  == Net("none", 0, "none", FALSE, "loopback", TRUE, FALSE)
network_old  == network
transmit_old == transmit
transmit_simple_old == transmit_simple
receive_old  == receive

Nets == {virt, virt1, virt2, virt_full, virt_proto, virt_old, virt1_old, virt2_old, virt_full_old,
         virt_proto_old, net_proto, net_proto2, net_protox, net_proto_old, net_proto2_old,
         net_protox_old, network, mulnet, transmit, transmit_simple, receive, network_old,
         transmit_old, transmit_simple_old, receive_old}
        \cup {virtl(debug) : debug \in BOOLEAN} \cup {virtl_old(debug) : debug \in BOOLEAN}
-----------------------------------------------------------------------------
VARIABLES net,      \* the module
          state,    \* its interface: down, up, or dead with the process that opened it
          address,  \* its address, which ifconfig gives it
          child_ip, \* the address the module knows
          moved,    \* the two may differ, or the interface went down
          frame,    \* Frame -> where it is, and who holds it
          rx_packets, tx_packets,  \* the statistics
          handed, sent,            \* what they should be
          raced                    \* two processors were about to count at once

vars == <<net, state, address, child_ip, moved, frame, rx_packets, tx_packets, handed, sent, raced>>
ifconfig == <<state, address, child_ip, moved>>
stats == <<rx_packets, tx_packets, handed, sent, raced>>

\* users counts the references; calm and due are what RightInterface needs.
Nowhere == [st |-> "nowhere", kind |-> "ip", to |-> NoAddress, dev |-> "parent", todo |-> <<>>,
            users |-> 0, read |-> 0, touched |-> FALSE, calm |-> TRUE, due |-> FALSE]

Init == /\ net \in Nets /\ state = "down" /\ address = NoAddress /\ child_ip = NoAddress
        /\ moved = FALSE /\ frame = [f \in Frame |-> Nowhere] /\ raced = FALSE
        /\ rx_packets = 0 /\ tx_packets = 0 /\ handed = 0 /\ sent = 0

In(f, st) == frame[f].st = st
Becomes(f, r) == frame' = [frame EXCEPT ![f] = r]
FrameOnly == UNCHANGED <<net, ifconfig, stats>>
-----------------------------------------------------------------------------
(***************************************************************************)
(* ifconfig.  A module that learns its address does so at open, from the   *)
(* first of a list that may be empty; an address set later it never sees.  *)
(***************************************************************************)
\* What a frame in hand should do is left open once ifconfig moves.
Unsettled == [f \in Frame |-> [frame[f] EXCEPT !.calm = FALSE]]

SetAddress == /\ net.xmit # "none" /\ state # "dead"
              /\ address' \in Address \cup {NoAddress}
              /\ moved' = (moved \/ state = "up") /\ frame' = Unsettled
              /\ UNCHANGED <<net, state, child_ip, stats>>

Open == /\ net.xmit # "none" /\ state = "down"
        /\ IF net.learns /\ address = NoAddress
           THEN state' = "dead" /\ UNCHANGED <<child_ip, moved, frame>>
           ELSE /\ state' = "up" /\ moved' = FALSE /\ frame' = Unsettled
                /\ child_ip' = IF net.learns THEN address ELSE child_ip
        /\ UNCHANGED <<net, address, stats>>

Stop == /\ state = "up" /\ state' = "down"
        /\ moved' = TRUE /\ frame' = Unsettled
        /\ UNCHANGED <<net, address, child_ip, stats>>
-----------------------------------------------------------------------------
(***************************************************************************)
(* A frame arrives.  Taps see it first, then the rx_handler, then the      *)
(* protocols, the module's before the stack's; a frame that is neither IP  *)
(* nor ARP has no protocol, and of one that the parent sends a clone goes  *)
(* to the taps alone.  Each but the last gets a reference of its own.      *)
(***************************************************************************)
Protocols == IF net.picks = "address" THEN {"ip", "arp"} ELSE {"ip"}
Handlers(kind) ==
  CASE net.hook = "tap" -> <<"tap">>
    [] net.hook = "rx_handler" /\ kind # "sent" -> <<"rx_handler">>
    [] net.hook = "protocol" /\ kind \in Protocols -> [i \in 1..net.n |-> "protocol"]
    [] OTHER -> <<>>
Stack(kind) == IF kind \in {"ip", "arp"} THEN <<"stack">> ELSE <<>>

\* The frames that are the child's.
Due(kind, to) == \/ net.picks = "all"
                 \/ net.picks = "address" /\ kind \in {"ip", "arp"} /\ state = "up" /\ to = address

\* The address of a frame matters where somebody looks at it.
Targets == IF net.picks = "address" THEN Address ELSE {NoAddress}
Arrive(f) == /\ In(f, "nowhere") /\ net.hook # "none" /\ handed < MaxFrames
             /\ \E kind \in {"ip", "arp", "other", "sent"}, to \in Targets :
                  Becomes(f, [Nowhere EXCEPT !.st = "arrived", !.kind = kind, !.to = to,
                                             !.todo = Handlers(kind) \o Stack(kind), !.users = 1,
                                             !.calm = ~ moved, !.due = Due(kind, to)])
             /\ FrameOnly

\* What the module takes for its interface.
\* Mutant of Picks: IP only.
PicksIp(r) == net.picks = "all" \/ (net.picks = "address" /\ r.to = child_ip /\ r.kind = "ip")
Picks(r) == net.picks = "all" \/ (net.picks = "address" /\ r.to = child_ip /\ r.kind # "other")

\* A handler is called.  The counter it adds to is read now and written in
\* another step; the dev of a picked frame is seen by everybody after it.
Last(r) == Len(r.todo) = 1 /\ Head(r.todo) # "rx_handler"
Held(r) == IF Last(r) \/ Head(r.todo) = "rx_handler" THEN r.users ELSE r.users + 1
Counting == {f \in Frame : In(f, "counting")}
Handle(f) ==
  /\ In(f, "arrived") /\ frame[f].todo \notin {<<>>, <<"stack">>}
  /\ LET r == [frame[f] EXCEPT !.users = Held(frame[f])]
     IN IF Picks(r)
        THEN /\ Becomes(f, [r EXCEPT !.st = "counting", !.dev = "child", !.read = rx_packets])
             /\ raced' = (raced \/ Counting # {})
        ELSE Becomes(f, [r EXCEPT !.st = "handled"]) /\ UNCHANGED raced
  /\ UNCHANGED <<net, ifconfig, rx_packets, tx_packets, handed, sent>>

\* Mutant of Counted: twice.
CountedTwice(n) == n + 2
Counted(n) == n + 1
Count(f) == /\ In(f, "counting")
            /\ rx_packets' = Counted(frame[f].read) /\ handed' = handed + 1
            /\ Becomes(f, [frame[f] EXCEPT !.st = "handled", !.read = 0])
            /\ UNCHANGED <<net, ifconfig, tx_packets, sent, raced>>

\* It returns.  A protocol or a tap calls kfree_skb first, and reads the length
\* of the frame after it; an rx_handler hands the frame back.
\* Mutant of Freed: the handler forgets it.
FreedNot(r) == r.users
Freed(r) == IF Head(r.todo) = "rx_handler" THEN r.users ELSE r.users - 1
Pass(f) == /\ In(f, "handled")
           /\ Becomes(f, [frame[f] EXCEPT !.users = Freed(frame[f]), !.todo = Tail(@),
                            !.touched = @ \/ (Head(frame[f].todo) # "rx_handler" /\ Freed(frame[f]) = 0),
                            !.st = IF Last(frame[f]) THEN "gone" ELSE "arrived"])
           /\ FrameOnly

\* The last one has the frame's own reference.
Deliver(f) == /\ In(f, "arrived") /\ frame[f].todo = <<"stack">>
              /\ Becomes(f, [frame[f] EXCEPT !.st = "delivered", !.users = @ - 1, !.todo = <<>>])
              /\ FrameOnly
Drop(f) == /\ In(f, "arrived") /\ frame[f].todo = <<>>
           /\ Becomes(f, [frame[f] EXCEPT !.st = "gone", !.users = @ - 1])
           /\ FrameOnly
-----------------------------------------------------------------------------
(***************************************************************************)
(* A frame is sent.  The kernel calls a driver's transmit function for one *)
(* frame at a time.  The parent frees what it was given when it likes.     *)
(***************************************************************************)
Transmitting == {f \in Frame : In(f, "sending") /\ frame[f].todo # <<>>}

SendsOut(f) == Becomes(f, [Nowhere EXCEPT !.st = "sending", !.users = 1,
                                          !.todo = IF net.looks THEN <<"look">> ELSE <<>>])
LoopsBack(f) == \E kind \in {"ip", "other"} :
                  Becomes(f, [Nowhere EXCEPT !.st = "arrived", !.kind = kind, !.users = 1,
                                             !.dev = "child", !.todo = Stack(kind), !.due = TRUE])
Send(f) ==
  /\ In(f, "nowhere") /\ state = "up" /\ Transmitting = {}
  /\ sent < MaxFrames
  /\ sent' = sent + 1 /\ tx_packets' = IF net.counts THEN Counted(tx_packets) ELSE tx_packets
  /\ CASE net.xmit = "parent" -> SendsOut(f)
       [] net.xmit = "free" -> Becomes(f, [Nowhere EXCEPT !.st = "gone"])
       [] net.xmit = "loopback" -> LoopsBack(f)
  /\ IF net.xmit = "loopback"
     THEN rx_packets' = Counted(rx_packets) /\ handed' = handed + 1
     ELSE UNCHANGED <<rx_packets, handed>>
  /\ UNCHANGED <<net, ifconfig, raced>>

Sent(f) == /\ In(f, "sending") /\ frame[f].users = 1
           /\ Becomes(f, [frame[f] EXCEPT !.users = 0]) /\ FrameOnly
LookBack(f) == /\ In(f, "sending") /\ frame[f].todo # <<>>
               /\ Becomes(f, [frame[f] EXCEPT !.touched = (frame[f].users = 0), !.todo = <<>>])
               /\ FrameOnly

Forget(f) == /\ In(f, "gone") \/ In(f, "delivered")
                \/ (In(f, "sending") /\ frame[f].users = 0 /\ frame[f].todo = <<>>)
             /\ Becomes(f, Nowhere) /\ FrameOnly

Moves(f) == \/ Handle(f) \/ Count(f) \/ Pass(f) \/ Deliver(f) \/ Drop(f)
            \/ Sent(f) \/ LookBack(f) \/ Forget(f)
Next == \/ SetAddress \/ Open \/ Stop
        \/ \E f \in Frame : Arrive(f) \/ Send(f) \/ Moves(f)
Spec == Init /\ [][Next]_vars
-----------------------------------------------------------------------------
(***************************************************************************)
(* A frame is freed once, by the last who has it: nobody is still to get a *)
(* frame that is gone, and none that is gone keeps a reference.  Freed     *)
(* memory is read in two ways only: by a module that names the device of a *)
(* frame the parent already has, and by a tap that was the last to get it. *)
(***************************************************************************)
FreedOnce ==
  \A f \in Frame :
    LET r == frame[f] IN
    /\ r.st \in {"arrived", "counting", "handled"} => r.users >= 1
    /\ r.st \in {"gone", "delivered"} => r.users = 0
    /\ r.touched => \/ r.st = "sending" /\ net.looks
                    \/ net.hook = "tap" /\ r.kind \in {"other", "sent"}

(***************************************************************************)
(* The stack gets a frame from the child exactly when it is the child's,   *)
(* if the address was not set and the interface not stopped since it was   *)
(* opened.                                                                 *)
(***************************************************************************)
RightInterface ==
  \A f \in Frame : In(f, "delivered") /\ frame[f].calm => (frame[f].dev = "child" <=> frame[f].due)

(***************************************************************************)
(* What is sent is counted exactly.  What is received is counted without   *)
(* a lock: never too often, and exactly as long as no two processors are   *)
(* about to count at once.                                                 *)
(***************************************************************************)
StatisticsAddUp ==
  /\ net.counts => tx_packets = sent
  /\ rx_packets <= handed /\ (~ raced => rx_packets = handed)
=============================================================================
