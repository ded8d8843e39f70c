----------------------------- MODULE FramesProofs ------------------------------
(***************************************************************************)
(* What holds of the network modules for every number of frames and of     *)
(* addresses: a frame is freed once, the stack gets it from the right      *)
(* interface, and the statistics add up.                                   *)
(***************************************************************************)
EXTENDS Frames, TLAPS, SequenceTheorems

\* Whom a frame may still have to go to.
Ip == {"ip", "arp"}
WithStack == {<<"stack">>, <<"tap", "stack">>, <<"rx_handler", "stack">>,
              <<"protocol", "stack">>, <<"protocol", "protocol", "stack">>}
WithoutStack == {<<>>, <<"tap">>, <<"rx_handler">>}
Waiting == {<<>>, <<"stack">>}  \* nobody of the module
Hooks(t) == /\ t \in {<<"tap">>, <<"tap", "stack">>} => net.hook = "tap"
            /\ t \in {<<"rx_handler">>, <<"rx_handler", "stack">>} => net.hook = "rx_handler"
            /\ t \in {<<"protocol", "stack">>, <<"protocol", "protocol", "stack">>}
                 => net.hook = "protocol"
            /\ t = <<"protocol", "protocol", "stack">> => net.n = 2

Flight == {"arrived", "counting", "handled"}
Sts == {"nowhere", "sending", "gone", "delivered"} \cup Flight
Kinds == {"ip", "arp", "other", "sent"}
Tos == Address \cup {NoAddress}
Devs == {"parent", "child"}
Todos == WithStack \cup WithoutStack \cup {<<"look">>}
Users == 0..2
AFrame == [st : Sts, kind : Kinds, to : Tos, dev : Devs, todo : Todos, users : Users, read : Nat,
           touched : BOOLEAN, calm : BOOLEAN, due : BOOLEAN]

TypeOK ==
  /\ net \in Nets /\ state \in {"down", "up", "dead"} /\ (state = "up" => net.xmit # "none")
  /\ address \in Address \cup {NoAddress} /\ child_ip \in Address \cup {NoAddress}
  /\ moved \in BOOLEAN /\ raced \in BOOLEAN /\ frame \in [Frame -> AFrame]
  /\ rx_packets \in Nat /\ tx_packets \in Nat /\ handed \in Nat /\ sent \in Nat

\* Where a frame goes, and how many references there are to it.
Routed(r) ==
  /\ r.st \in Flight => /\ r.todo \in (IF r.kind \in Ip THEN WithStack ELSE WithoutStack)
                        /\ Hooks(r.todo)
  /\ r.st \in {"counting", "handled"} => r.todo \notin Waiting
  /\ r.st = "sending" => r.todo = <<>> \/ (r.todo = <<"look">> /\ net.looks)

Refs(r) ==
  /\ r.st = "arrived" => r.users = 1
  /\ r.st \in {"counting", "handled"} =>
       r.users = IF r.todo \in {<<"tap">>, <<"rx_handler">>, <<"rx_handler", "stack">>} THEN 1 ELSE 2
  /\ r.st \in {"gone", "delivered"} => r.users = 0
  /\ r.st = "sending" => r.users \in {0, 1}
  /\ r.touched => \/ r.st = "sending" /\ net.looks
                  \/ net.hook = "tap" /\ r.kind \in {"other", "sent"}

\* What the module knows of its address.
Knows == ~ moved /\ net.learns => child_ip = IF state = "up" THEN address ELSE NoAddress

\* A frame in hand is the child's as it was when it came, and is named so once.
Judged(r) ==
  r.st \in Flight /\ r.calm /\ net.hook # "none" =>
    /\ ~ moved /\ r.due = Due(r.kind, r.to)
    /\ net.picks = "address" => r.to \in Address
Named(r) ==
  r.st \in Flight /\ r.calm /\ net.hook # "none" /\ r.kind \in Ip =>
    IF r.st = "arrived" /\ r.todo # <<"stack">> THEN r.dev = "parent"
    ELSE (r.dev = "child") = r.due
Looped(r) == r.st \in Flight /\ net.hook = "none" => r.dev = "child" /\ r.due = TRUE
Delivered(r) == r.st = "delivered" /\ r.calm => (r.dev = "child") = r.due

\* Who is about to count has read no more than was handed on.
Readings == \A f \in Counting : /\ frame[f].read <= handed
                                /\ ~ raced => frame[f].read = rx_packets /\ Counting = {f}

Fine(r) == Routed(r) /\ Refs(r) /\ Judged(r) /\ Named(r) /\ Looped(r) /\ Delivered(r)

IInv == /\ TypeOK /\ Knows /\ Readings /\ StatisticsAddUp
        /\ \A f \in Frame : Fine(frame[f])
-----------------------------------------------------------------------------
(***************************************************************************)
(* What the modules have in common.                                        *)
(***************************************************************************)
LEMMA NetFacts ==
  ASSUME NEW m \in Nets
  PROVE  /\ m.hook \in {"rx_handler", "protocol", "tap", "none"}
         /\ m.hook = "protocol" => m.n \in {1, 2} /\ m.picks # "all"
         /\ m.hook = "protocol" /\ m.n = 2 => m.picks = "none"
         /\ m.picks \in {"all", "address", "none"}
         /\ m.picks = "address" => m.learns = TRUE /\ m.hook \in {"rx_handler", "protocol"}
         /\ m.xmit \in {"parent", "free", "loopback", "none"}
         /\ m.xmit = "loopback" => m.hook = "none"
<1> USE DEF Net
<1>1. CASE m \in {virt, virt1, virt2, virt_full, virt_proto, virt_old, virt1_old, virt2_old,
                  virt_full_old, virt_proto_old}
  BY <1>1 DEF virt, virt1, virt2, virt_full, virt_proto, virt_old, virt1_old, virt2_old,
     virt_full_old, virt_proto_old
<1>2. CASE m \in {net_proto, net_proto2, net_protox, net_proto_old, net_proto2_old, net_protox_old}
  BY <1>2 DEF net_proto, net_proto2, net_protox, net_proto_old, net_proto2_old, net_protox_old
<1>3. CASE m \in {network, mulnet, transmit, transmit_simple, receive, network_old,
                  transmit_old, transmit_simple_old, receive_old}
  BY <1>3 DEF network, mulnet, transmit, transmit_simple, receive, network_old,
     transmit_old, transmit_simple_old, receive_old
<1>4. CASE \E debug \in BOOLEAN : m \in {virtl(debug), virtl_old(debug)}
  BY <1>4 DEF virtl, virtl_old
<1> HIDE DEF Net
<1> QED BY <1>1, <1>2, <1>3, <1>4 DEF Nets

(***************************************************************************)
(* At first no frame is under way.                                         *)
(***************************************************************************)
LEMMA NowhereFine == Nowhere \in AFrame /\ Fine(Nowhere)
BY DEF Nowhere, AFrame, Sts, Kinds, Tos, Devs, Todos, Users, Flight, WithoutStack,
       Fine, Routed, Refs, Judged, Named, Looped, Delivered

\* No frame is under way.
LEMMA InitInv == Init => IInv
<1> SUFFICES ASSUME Init PROVE IInv OBVIOUS
<1>1. TypeOK BY NowhereFine DEF Init, TypeOK
<1>2. Knows /\ Readings /\ StatisticsAddUp
  BY DEF Init, Knows, Readings, StatisticsAddUp, Counting, In, Nowhere
<1>3. frame = [f \in Frame |-> Nowhere] BY DEF Init
<1>4. \A f \in Frame : frame[f] = Nowhere BY <1>3, Zenon
<1> QED BY <1>1, <1>2, <1>4, NowhereFine DEF IInv

(***************************************************************************)
(* A step that changes one frame, into one that is fine, leaves the others *)
(* as they were.                                                           *)
(***************************************************************************)
LEMMA OneFrame ==
  ASSUME TypeOK, \A g \in Frame : Fine(frame[g]), UNCHANGED <<net, ifconfig>>,
         NEW f \in Frame, NEW r \in AFrame, Fine(r), Becomes(f, r)
  PROVE  /\ frame' \in [Frame -> AFrame] /\ frame'[f] = r
         /\ \A g \in Frame : g # f => frame'[g] = frame[g]
         /\ \A g \in Frame : Fine(frame[g])'
<1>1. /\ frame' \in [Frame -> AFrame] /\ frame'[f] = r
      /\ \A g \in Frame : g # f => frame'[g] = frame[g]
  BY DEF Becomes, TypeOK
<1>2. \A g \in Frame : Fine(frame'[g]) BY <1>1
<1>3. SUFFICES ASSUME NEW g \in Frame PROVE Fine(frame'[g]) => Fine(frame[g])'
  BY <1>1, <1>2
<1>4. net' = net /\ state' = state /\ address' = address /\ moved' = moved BY DEF ifconfig
<1>5. Routed(frame'[g]) => Routed(frame[g])' BY <1>4 DEF Routed, Hooks
<1>6. Refs(frame'[g]) => Refs(frame[g])' BY <1>4 DEF Refs
<1>7. Judged(frame'[g]) => Judged(frame[g])' BY <1>4 DEF Judged, Due
<1>8. /\ Named(frame'[g]) => Named(frame[g])'
      /\ Looped(frame'[g]) => Looped(frame[g])'
      /\ Delivered(frame'[g]) => Delivered(frame[g])'
  BY <1>4 DEF Named, Looped, Delivered
<1> QED BY <1>5, <1>6, <1>7, <1>8 DEF Fine

(***************************************************************************)
(* Whom a frame goes to.                                                   *)
(***************************************************************************)
LEMMA ThenStack ==
  /\ <<"protocol">> \o <<"stack">> = <<"protocol", "stack">>
  /\ <<"protocol", "protocol">> \o <<"stack">> = <<"protocol", "protocol", "stack">>
<1> DEFINE S == {"protocol", "stack"}
           one == <<"protocol">> \o <<"stack">>
           two == <<"protocol", "protocol">> \o <<"stack">>
           u == <<"protocol", "stack">>
           v == <<"protocol", "protocol", "stack">>
<1>1. /\ <<"protocol">> \in Seq(S) /\ <<"stack">> \in Seq(S) /\ <<"protocol", "protocol">> \in Seq(S)
      /\ u \in Seq(S) /\ v \in Seq(S)
  OBVIOUS
<1>2. one \in Seq(S) /\ Len(one) = 2 /\ one[1] = "protocol" /\ one[2] = "stack"
  BY <1>1, ConcatProperties
<1>3. /\ two \in Seq(S) /\ Len(two) = 3
      /\ two[1] = "protocol" /\ two[2] = "protocol" /\ two[3] = "stack"
  BY <1>1, ConcatProperties
<1>4. /\ Len(u) = 2 /\ u[1] = "protocol" /\ u[2] = "stack"
      /\ Len(v) = 3 /\ v[1] = "protocol" /\ v[2] = "protocol" /\ v[3] = "stack"
  OBVIOUS
<1> HIDE DEF S, one, two, u, v
<1>5. (\A i \in 1..Len(one) : one[i] = u[i]) /\ (\A i \in 1..Len(two) : two[i] = v[i])
  BY <1>2, <1>3, <1>4
<1>6. one = u BY <1>1, <1>2, <1>4, <1>5, SeqEqual
<1>7. two = v BY <1>1, <1>3, <1>4, <1>5, SeqEqual
<1> QED BY <1>6, <1>7 DEF one, two, u, v

\* The handlers of a frame are one of a few sequences, by its kind and the hook.
LEMMA Route ==
  ASSUME TypeOK, NEW kind \in {"ip", "arp", "other", "sent"}, NEW t, t = Handlers(kind) \o Stack(kind)
  PROVE  /\ t \in (IF kind \in Ip THEN WithStack ELSE WithoutStack) /\ Hooks(t)
         /\ t = <<"stack">> => net.picks = "none"  \/ net.hook = "none"
<1>0. /\ net.hook \in {"rx_handler", "protocol", "tap", "none"}
      /\ net.hook = "protocol" => net.n \in {1, 2} /\ net.picks # "all"
      /\ net.picks \in {"all", "address", "none"}
  BY NetFacts DEF TypeOK
<1>1. CASE net.hook = "tap"
  <2>1. t = IF kind \in Ip THEN <<"tap", "stack">> ELSE <<"tap">>
    BY <1>1 DEF Handlers, Stack, Ip
  <2> QED BY <1>1, <2>1 DEF WithStack, WithoutStack, Hooks
<1>2. CASE net.hook = "rx_handler"
  <2>1. t = IF kind \in Ip THEN <<"rx_handler", "stack">>
            ELSE IF kind = "sent" THEN <<>> ELSE <<"rx_handler">>
    BY <1>2 DEF Handlers, Stack, Ip
  <2> QED BY <1>2, <2>1 DEF WithStack, WithoutStack, Hooks
<1>3. CASE net.hook = "protocol" /\ kind \in Protocols
  <2>0. kind \in Ip BY <1>3 DEF Protocols, Ip
  <2>1. Stack(kind) = <<"stack">> BY <2>0 DEF Stack, Ip
  <2>2. Handlers(kind) = [i \in 1..net.n |-> "protocol"] BY <1>3 DEF Handlers
  <2>3. CASE net.n = 1
    <3>0. Handlers(kind) = <<"protocol">> BY <2>2, <2>3
    <3>1. t = <<"protocol", "stack">> BY <2>1, <3>0, ThenStack, Zenon
    <3> QED BY <1>3, <2>0, <2>3, <3>1 DEF WithStack, Hooks
  <2>4. CASE net.n = 2
    <3>0. Handlers(kind) = <<"protocol", "protocol">> BY <2>2, <2>4
    <3>1. t = <<"protocol", "protocol", "stack">> BY <2>1, <3>0, ThenStack, Zenon
    <3> QED BY <1>3, <2>0, <2>4, <3>1 DEF WithStack, Hooks
  <2> QED BY <1>0, <1>3, <2>3, <2>4
<1>4. CASE net.hook = "none" \/ (net.hook = "protocol" /\ kind \notin Protocols)
  <2>1. t = IF kind \in Ip THEN <<"stack">> ELSE <<>> BY <1>4 DEF Handlers, Stack, Ip
  <2>2. kind \in Ip /\ net.hook = "protocol" => net.picks = "none"
    BY <1>0, <1>4 DEF Protocols, Ip
  <2> QED BY <1>4, <2>1, <2>2 DEF WithStack, WithoutStack, Hooks
<1> QED BY <1>0, <1>1, <1>2, <1>3, <1>4

\* Who is next in such a sequence, and what is left after it.
LEMMA TodoFacts ==
  ASSUME NEW t \in (WithStack \cup WithoutStack) \ Waiting
  PROVE  /\ Len(t) = 1 /\ Head(t) # "rx_handler" <=> t = <<"tap">>
         /\ Head(t) = "rx_handler" <=> t \in {<<"rx_handler">>, <<"rx_handler", "stack">>}
         /\ Tail(t) = IF t \in WithoutStack THEN <<>>
                      ELSE IF t = <<"protocol", "protocol", "stack">> THEN <<"protocol", "stack">>
                      ELSE <<"stack">>
<1>1. t \in {<<"tap">>, <<"rx_handler">>, <<"tap", "stack">>, <<"rx_handler", "stack">>,
             <<"protocol", "stack">>, <<"protocol", "protocol", "stack">>}
  BY DEF WithStack, WithoutStack, Waiting
<1>2. CASE t = <<"tap">> BY <1>2 DEF WithoutStack
<1>3. CASE t = <<"rx_handler">> BY <1>3 DEF WithoutStack
<1>4. CASE t = <<"tap", "stack">> BY <1>4 DEF WithoutStack
<1>5. CASE t = <<"rx_handler", "stack">> BY <1>5 DEF WithoutStack
<1>6. CASE t = <<"protocol", "stack">> BY <1>6 DEF WithoutStack
<1>7. CASE t = <<"protocol", "protocol", "stack">> BY <1>7 DEF WithoutStack
<1> QED BY <1>1, <1>2, <1>3, <1>4, <1>5, <1>6, <1>7

(***************************************************************************)
(* A step that only moves a frame keeps the invariant if the frame is fine *)
(* after it.                                                               *)
(***************************************************************************)
LEMMA OnlyMoves ==
  ASSUME IInv, NEW f \in Frame, NEW r \in AFrame, Fine(r), r.st # "counting",
         Becomes(f, r), FrameOnly
  PROVE  IInv'
<1>1. /\ frame' \in [Frame -> AFrame] /\ frame'[f] = r
      /\ \A g \in Frame : g # f => frame'[g] = frame[g]
      /\ \A g \in Frame : Fine(frame[g])'
  BY OneFrame DEF IInv, FrameOnly
<1>2. TypeOK' BY <1>1 DEF IInv, TypeOK, FrameOnly, ifconfig, stats
<1>3. Knows' /\ StatisticsAddUp' BY DEF IInv, Knows, StatisticsAddUp, FrameOnly, ifconfig, stats
<1>4. Counting' \subseteq Counting /\ \A g \in Counting' : frame'[g] = frame[g]
  BY <1>1 DEF Counting, In
<1>5. Readings' BY <1>4 DEF IInv, Readings, FrameOnly, stats
<1> QED BY <1>1, <1>2, <1>3, <1>5 DEF IInv

(***************************************************************************)
(* A frame arrives: what the module is to do with it follows from what it  *)
(* knows of its address.                                                   *)
(***************************************************************************)
LEMMA ArriveStep == ASSUME IInv, NEW f \in Frame, Arrive(f) PROVE IInv'
<1>0. TypeOK /\ FrameOnly /\ net.hook # "none" BY DEF IInv, Arrive
<1>1. PICK kind \in {"ip", "arp", "other", "sent"}, to \in Targets :
        Becomes(f, [Nowhere EXCEPT !.st = "arrived", !.kind = kind, !.to = to,
                                   !.todo = Handlers(kind) \o Stack(kind), !.users = 1,
                                   !.calm = ~ moved, !.due = Due(kind, to)])
  BY Zenon DEF Arrive
<1> DEFINE t == Handlers(kind) \o Stack(kind)
           c == ~ moved
           d == Due(kind, to)
           r == [Nowhere EXCEPT !.st = "arrived", !.kind = kind, !.to = to, !.todo = t, !.users = 1,
                                !.calm = c, !.due = d]
<1>2. Becomes(f, r) BY <1>1
<1>3. /\ t \in (IF kind \in Ip THEN WithStack ELSE WithoutStack) /\ Hooks(t)
      /\ t = <<"stack">> => net.picks = "none"
  BY <1>0, Route
<1>4. c \in BOOLEAN /\ d \in BOOLEAN /\ (c => ~ moved) /\ d = Due(kind, to) BY DEF Due
<1>5. to \in Address \cup {NoAddress} /\ (net.picks = "address" => to \in Address)
  BY DEF Targets
<1>6. net.picks = "none" => d = FALSE BY DEF Due
<1> HIDE DEF t, c, d
<1>7. t \in WithStack \cup WithoutStack BY <1>3
<1>8. r \in AFrame
  <2> DEFINE n == Nowhere
  <2>1. n \in AFrame BY NowhereFine
  <2> HIDE DEF n
  <2>2. "arrived" \in Sts /\ kind \in Kinds /\ to \in Tos /\ t \in Todos /\ 1 \in Users
    BY <1>5, <1>7 DEF Sts, Flight, Kinds, Tos, Todos, Users
  <2>3. [n EXCEPT !.st = "arrived", !.kind = kind, !.to = to, !.todo = t, !.users = 1, !.calm = c,
                  !.due = d] \in AFrame
    BY <2>1, <2>2, <1>4 DEF AFrame
  <2> QED BY <2>3 DEF n
<1>9. /\ r.st = "arrived" /\ r.kind = kind /\ r.to = to /\ r.todo = t /\ r.users = 1
      /\ r.calm = c /\ r.due = d /\ r.dev = "parent" /\ r.touched = FALSE
  BY DEF Nowhere
<1> HIDE DEF r
<1>10. Routed(r) BY <1>3, <1>9 DEF Routed
<1>11. Refs(r) /\ Looped(r) /\ Delivered(r) BY <1>0, <1>9 DEF Refs, Looped, Delivered
<1>12. Judged(r) BY <1>4, <1>5, <1>9 DEF Judged
<1>13. Named(r) BY <1>3, <1>6, <1>9 DEF Named
<1> QED BY <1>0, <1>2, <1>8, <1>9, <1>10, <1>11, <1>12, <1>13, OnlyMoves DEF Fine

(***************************************************************************)
(* The last steps of a frame.                                              *)
(***************************************************************************)
LEMMA Values ==
  /\ {"nowhere", "sending", "gone", "delivered", "arrived", "counting", "handled"} \subseteq Sts
  /\ {<<>>, <<"stack">>, <<"look">>} \subseteq Todos /\ {0, 1, 2} \subseteq Users
  /\ "child" \in Devs /\ <<"look">> # <<>>
BY DEF Sts, Flight, Todos, WithStack, WithoutStack, Users, Devs

\* A frame comes to its end: delivered, dropped, sent, or looked at once more.
LEMMA EndSteps ==
  ASSUME IInv, NEW f \in Frame, Deliver(f) \/ Drop(f) \/ Sent(f) \/ LookBack(f) \/ Forget(f)
  PROVE  IInv'
<1> DEFINE o == frame[f]
<1>0. o \in AFrame /\ Fine(o) BY DEF IInv, TypeOK
<1>1. CASE Deliver(f)
  <2> DEFINE u == o.users - 1
             r == [o EXCEPT !.st = "delivered", !.users = u, !.todo = <<>>]
  <2>1. o.st = "arrived" /\ o.todo = <<"stack">> /\ FrameOnly /\ Becomes(f, r)
    BY <1>1 DEF Deliver, In
  <2> HIDE DEF o
  <2>2. u = 0 BY <1>0, <2>1 DEF Fine, Refs
  <2> HIDE DEF u
  <2>3. r \in AFrame BY <1>0, <2>2, Values DEF AFrame
  <2>4. /\ r.st = "delivered" /\ r.users = 0 /\ r.calm = o.calm /\ r.due = o.due /\ r.dev = o.dev
        /\ r.touched = o.touched /\ r.kind = o.kind
    BY <1>0, <2>2 DEF AFrame
  <2> HIDE DEF r
  <2>5. o.kind \in Ip
    BY <1>0, <2>1 DEF Fine, Routed, Flight, WithoutStack
  <2>6. Delivered(r)
    BY <1>0, <2>1, <2>4, <2>5 DEF Fine, Named, Looped, Delivered, Flight
  <2>7. Refs(r) BY <1>0, <2>1, <2>4 DEF Fine, Refs
  <2>8. Routed(r) /\ Judged(r) /\ Named(r) /\ Looped(r)
    BY <2>4 DEF Routed, Judged, Named, Looped, Flight
  <2> QED BY <2>1, <2>3, <2>4, <2>6, <2>7, <2>8, OnlyMoves DEF Fine
<1>2. CASE Drop(f)
  <2> DEFINE u == o.users - 1
             r == [o EXCEPT !.st = "gone", !.users = u]
  <2>1. o.st = "arrived" /\ FrameOnly /\ Becomes(f, r) BY <1>2 DEF Drop, In
  <2> HIDE DEF o
  <2>2. u = 0 BY <1>0, <2>1 DEF Fine, Refs
  <2> HIDE DEF u
  <2>3. r \in AFrame BY <1>0, <2>2, Values DEF AFrame
  <2>4. r.st = "gone" /\ r.users = 0 /\ r.touched = o.touched /\ r.kind = o.kind
    BY <1>0, <2>2 DEF AFrame
  <2> HIDE DEF r
  <2>5. Refs(r) BY <1>0, <2>1, <2>4 DEF Fine, Refs
  <2>6. Routed(r) /\ Judged(r) /\ Named(r) /\ Looped(r) /\ Delivered(r)
    BY <2>4 DEF Routed, Judged, Named, Looped, Delivered, Flight
  <2> QED BY <2>1, <2>3, <2>4, <2>5, <2>6, OnlyMoves DEF Fine
<1>3. CASE Sent(f)
  <2> DEFINE r == [o EXCEPT !.users = 0]
  <2>1. o.st = "sending" /\ FrameOnly /\ Becomes(f, r) BY <1>3 DEF Sent, In
  <2> HIDE DEF o
  <2>2. r \in AFrame BY <1>0, Values DEF AFrame
  <2>3. r.st = "sending" /\ r.users = 0 /\ r.touched = o.touched /\ r.kind = o.kind /\ r.todo = o.todo
    BY <1>0, <2>1 DEF AFrame
  <2> HIDE DEF r
  <2>4. Refs(r) /\ Routed(r) BY <1>0, <2>1, <2>3 DEF Fine, Refs, Routed, Flight
  <2>5. Judged(r) /\ Named(r) /\ Looped(r) /\ Delivered(r)
    BY <2>3 DEF Judged, Named, Looped, Delivered, Flight
  <2> QED BY <2>1, <2>2, <2>3, <2>4, <2>5, OnlyMoves DEF Fine
<1>4. CASE LookBack(f)
  <2> DEFINE b == o.users = 0
             r == [o EXCEPT !.touched = b, !.todo = <<>>]
  <2>1. o.st = "sending" /\ o.todo # <<>> /\ FrameOnly /\ Becomes(f, r) /\ b \in BOOLEAN
    BY <1>4 DEF LookBack, In
  <2> HIDE DEF o, b
  <2>2. r \in AFrame BY <1>0, <2>1, Values DEF AFrame
  <2>3. r.st = "sending" /\ r.users = o.users /\ r.kind = o.kind /\ r.todo = <<>>
    BY <1>0, <2>1 DEF AFrame
  <2> HIDE DEF r
  <2>4. net.looks BY <1>0, <2>1 DEF Fine, Routed
  <2>5. Refs(r) /\ Routed(r) BY <1>0, <2>1, <2>3, <2>4 DEF Fine, Refs, Routed, Flight
  <2>6. Judged(r) /\ Named(r) /\ Looped(r) /\ Delivered(r)
    BY <2>3 DEF Judged, Named, Looped, Delivered, Flight
  <2> QED BY <2>1, <2>2, <2>3, <2>5, <2>6, OnlyMoves DEF Fine
<1>5. CASE Forget(f)
  <2>1. Nowhere.st = "nowhere" BY DEF Nowhere
  <2> QED BY <1>5, <2>1, NowhereFine, OnlyMoves DEF Forget
<1> QED BY <1>1, <1>2, <1>3, <1>4, <1>5

(***************************************************************************)
(* A handler is called for a frame, and returns.  The references it takes  *)
(* and gives back come out even, and what it takes for its interface is    *)
(* what was due when the frame came.                                       *)
(***************************************************************************)
LEMMA Handling ==
  ASSUME TypeOK, NEW o \in AFrame, Fine(o), o.st \in Flight, o.todo \notin Waiting
  PROVE  /\ Last(o) <=> o.todo = <<"tap">>
         /\ Head(o.todo) = "rx_handler" <=> o.todo \in {<<"rx_handler">>, <<"rx_handler", "stack">>}
         /\ Tail(o.todo) = IF o.kind \notin Ip THEN <<>>
                           ELSE IF o.todo = <<"protocol", "protocol", "stack">>
                                THEN <<"protocol", "stack">> ELSE <<"stack">>
         /\ net.hook # "none" /\ (o.kind \in Ip => o.todo # <<"tap">>)
<1>1. o.todo \in (IF o.kind \in Ip THEN WithStack ELSE WithoutStack) /\ Hooks(o.todo)
  BY DEF Fine, Routed
<1>2. o.todo \in (WithStack \cup WithoutStack) \ Waiting BY <1>1
<1>3. o.kind \in Ip => o.todo \notin WithoutStack
  BY <1>1, <1>2 DEF WithStack, WithoutStack, Waiting
<1>4. net.hook # "none" BY <1>1, <1>2 DEF WithStack, WithoutStack, Waiting, Hooks
<1>5. <<"tap">> \in WithoutStack BY DEF WithoutStack
<1> QED BY <1>1, <1>2, <1>3, <1>4, <1>5, TodoFacts DEF Last

\* A frame that a handler did not take goes on to the next.
LEMMA PassStep == ASSUME IInv, NEW f \in Frame, Pass(f) PROVE IInv'
<1> DEFINE o == frame[f]
           u == Freed(o)
           t == Tail(o.todo)
           b == o.touched \/ (Head(o.todo) # "rx_handler" /\ Freed(o) = 0)
           st == IF Last(o) THEN "gone" ELSE "arrived"
           r == [o EXCEPT !.users = u, !.todo = t, !.touched = b, !.st = st]
<1>0. /\ o \in AFrame /\ Fine(o) /\ TypeOK /\ o.st = "handled" /\ FrameOnly /\ Becomes(f, r)
      /\ o.todo \notin Waiting
  BY DEF IInv, TypeOK, Pass, In, Fine, Routed
<1> HIDE DEF o
<1>1. /\ Last(o) <=> o.todo = <<"tap">>
      /\ Head(o.todo) = "rx_handler" <=> o.todo \in {<<"rx_handler">>, <<"rx_handler", "stack">>}
      /\ t = IF o.kind \notin Ip THEN <<>>
             ELSE IF o.todo = <<"protocol", "protocol", "stack">>
                  THEN <<"protocol", "stack">> ELSE <<"stack">>
      /\ net.hook # "none" /\ (o.kind \in Ip => o.todo # <<"tap">>)
  BY <1>0, Handling DEF Flight
<1>2. o.users = IF o.todo \in {<<"tap">>, <<"rx_handler">>, <<"rx_handler", "stack">>} THEN 1 ELSE 2
  BY <1>0 DEF Fine, Refs
<1>3. u = IF o.todo = <<"tap">> THEN 0 ELSE 1 BY <1>1, <1>2 DEF Freed
<1>4. b \in BOOLEAN /\ (b => o.touched \/ o.todo = <<"tap">>) BY <1>3
<1>5. st = IF o.todo = <<"tap">> THEN "gone" ELSE "arrived" BY <1>1
<1>6. t \in Todos /\ u \in Users /\ st \in Sts
  BY <1>1, <1>3, <1>5, Values DEF Todos, WithStack, WithoutStack
<1> HIDE DEF u, t, b, st
<1>7. r \in AFrame BY <1>0, <1>4, <1>6 DEF AFrame
<1>8. /\ r.users = u /\ r.todo = t /\ r.touched = b /\ r.st = st /\ r.kind = o.kind /\ r.to = o.to
      /\ r.dev = o.dev /\ r.calm = o.calm /\ r.due = o.due
  BY <1>0 DEF AFrame
<1> HIDE DEF r
<1>9. Routed(r)
  <2>1. st = "arrived" => t \in (IF o.kind \in Ip THEN WithStack ELSE WithoutStack)
    BY <1>1 DEF WithStack, WithoutStack
  <2>2. o.todo = <<"protocol", "protocol", "stack">> => net.hook = "protocol"
    BY <1>0 DEF Fine, Routed, Hooks, Flight
  <2>3. Hooks(t) BY <1>1, <2>2 DEF Hooks
  <2> QED BY <1>5, <1>8, <2>1, <2>3 DEF Routed, Flight
<1>10. Refs(r)
  <2>1. o.touched => net.hook = "tap" /\ o.kind \in {"other", "sent"} BY <1>0 DEF Fine, Refs
  <2>2. o.todo = <<"tap">> => net.hook = "tap" BY <1>0 DEF Fine, Routed, Hooks, Flight
  <2>3. o.todo = <<"tap">> => o.kind \in {"other", "sent"} BY <1>0, <1>1 DEF AFrame, Kinds, Ip
  <2> QED BY <1>3, <1>4, <1>5, <1>8, <2>1, <2>2, <2>3 DEF Refs
<1>11. Judged(r) /\ Looped(r) BY <1>0, <1>1, <1>8 DEF Fine, Judged, Looped, Flight
<1>12. Delivered(r) BY <1>5, <1>8 DEF Delivered
<1>13. Named(r)
  <2> SUFFICES ASSUME o.calm, o.kind \in Ip, st = "arrived"
               PROVE  IF t # <<"stack">> THEN o.dev = "parent" ELSE (o.dev = "child") = o.due
    BY <1>5, <1>8 DEF Named, Flight
  <2>1. (o.dev = "child") = o.due BY <1>0, <1>1 DEF Fine, Named, Flight
  <2>2. CASE o.todo = <<"protocol", "protocol", "stack">>
    <3>1. net.picks = "none"
      BY <1>0, <2>2, NetFacts DEF Fine, Routed, Hooks, Flight, TypeOK
    <3>2. o.due = FALSE BY <1>0, <1>1, <3>1 DEF Fine, Judged, Flight, Due
    <3>3. o.dev \in Devs BY <1>0 DEF AFrame
    <3> QED BY <2>1, <3>2, <3>3 DEF Devs
  <2>3. CASE o.todo # <<"protocol", "protocol", "stack">> BY <1>1, <2>1, <2>3
  <2> QED BY <2>2, <2>3
<1> QED BY <1>0, <1>5, <1>7, <1>8, <1>9, <1>10, <1>11, <1>12, <1>13, OnlyMoves DEF Fine

(***************************************************************************)
(* What a module that knows its address picks is what is due to it.        *)
(***************************************************************************)
LEMMA PicksWhatIsDue ==
  ASSUME TypeOK, Knows, NEW o \in AFrame, Judged(o), o.st \in Flight, o.calm, o.kind \in Ip,
         net.hook # "none"
  PROVE  Picks(o) <=> o.due = TRUE
<1>1. ~ moved /\ o.due = Due(o.kind, o.to) /\ (net.picks = "address" => o.to \in Address)
  BY DEF Judged
<1>2. CASE net.picks = "address"
  <2>1. child_ip = IF state = "up" THEN address ELSE NoAddress
    BY <1>1, <1>2, NetFacts DEF Knows, TypeOK
  <2>2. o.kind # "other" BY DEF Ip
  <2> QED BY <1>1, <1>2, <2>1, <2>2, FramesAssumption DEF Picks, Due, Ip
<1>3. CASE net.picks # "address" BY <1>1, <1>3 DEF Picks, Due
<1> QED BY <1>2, <1>3

\* A frame meets the handler of the module.
LEMMA HandleStep == ASSUME IInv, NEW f \in Frame, Handle(f) PROVE IInv'
<1> DEFINE o == frame[f]
           u == Held(o)
           p == [o EXCEPT !.users = u]
           taken == [p EXCEPT !.st = "counting", !.dev = "child", !.read = rx_packets]
           left == [p EXCEPT !.st = "handled"]
<1>0. /\ o \in AFrame /\ Fine(o) /\ TypeOK /\ Knows /\ o.st = "arrived" /\ o.todo \notin Waiting
      /\ UNCHANGED <<net, ifconfig, rx_packets, tx_packets, handed, sent>>
      /\ rx_packets \in Nat
  BY DEF IInv, TypeOK, Handle, In, Waiting
<1>1. \/ Picks(p) /\ Becomes(f, taken) /\ raced' = (raced \/ Counting # {})
      \/ ~ Picks(p) /\ Becomes(f, left) /\ raced' = raced
  BY Zenon DEF Handle
<1> HIDE DEF o
<1>2. /\ Last(o) <=> o.todo = <<"tap">>
      /\ Head(o.todo) = "rx_handler" <=> o.todo \in {<<"rx_handler">>, <<"rx_handler", "stack">>}
      /\ net.hook # "none"
  BY <1>0, Handling DEF Flight
<1>3. u = IF o.todo \in {<<"tap">>, <<"rx_handler">>, <<"rx_handler", "stack">>} THEN 1 ELSE 2
  BY <1>0, <1>2 DEF Held, Fine, Refs
<1> HIDE DEF u
<1>4. u \in Users BY <1>3, Values
<1>5. p \in AFrame /\ p.to = o.to /\ p.kind = o.kind
  <2>1. \A r \in AFrame, n \in Users : [r EXCEPT !.users = n] \in AFrame BY DEF AFrame
  <2>2. p.to = o.to /\ p.kind = o.kind BY <1>0 DEF AFrame
  <2> QED BY <1>0, <1>4, <2>1, <2>2
<1>6. Picks(p) <=> Picks(o) BY <1>5 DEF Picks
<1>7. taken \in AFrame /\ left \in AFrame BY <1>5, <1>0, Values DEF AFrame
<1>8. \A r \in {taken, left} :
        /\ r.users = u /\ r.todo = o.todo /\ r.touched = o.touched /\ r.kind = o.kind /\ r.to = o.to
        /\ r.calm = o.calm /\ r.due = o.due
  <2>1. o \in AFrame BY <1>0
  <2>2. /\ taken.users = u /\ taken.todo = o.todo /\ taken.touched = o.touched
        /\ taken.kind = o.kind /\ taken.to = o.to /\ taken.calm = o.calm /\ taken.due = o.due
    BY <2>1 DEF AFrame
  <2>3. /\ left.users = u /\ left.todo = o.todo /\ left.touched = o.touched
        /\ left.kind = o.kind /\ left.to = o.to /\ left.calm = o.calm /\ left.due = o.due
    BY <2>1 DEF AFrame
  <2> HIDE DEF taken, left
  <2> QED BY <2>2, <2>3
<1>9. /\ taken.st = "counting" /\ taken.dev = "child" /\ taken.read = rx_packets
      /\ left.st = "handled" /\ left.dev = o.dev
  BY <1>0, <1>4 DEF AFrame
<1> HIDE DEF taken, left, p
<1>10. PICK r \in {taken, left} : /\ Becomes(f, r) /\ (r = taken <=> Picks(o))
                                  /\ raced' = (raced \/ (r = taken /\ Counting # {}))
  <2>1. taken # left BY <1>9
  <2> QED BY <1>1, <1>6, <2>1, <1>0 DEF TypeOK
<1>11. Routed(r) /\ Refs(r)
  BY <1>0, <1>3, <1>8, <1>9 DEF Fine, Routed, Refs, Flight
<1>12. Judged(r) /\ Looped(r) /\ Delivered(r)
  BY <1>0, <1>2, <1>8, <1>9 DEF Fine, Judged, Looped, Delivered, Flight
<1>13. Named(r)
  <2> SUFFICES ASSUME o.calm, o.kind \in Ip PROVE (r.dev = "child") = o.due
    BY <1>8, <1>9 DEF Named, Flight
  <2>1. Picks(o) <=> o.due = TRUE
    BY <1>0, <1>2, PicksWhatIsDue DEF Fine, Flight
  <2>2. o.due \in BOOLEAN BY <1>0 DEF AFrame
  <2>3. r # taken => r.dev = "parent"
    BY <1>0, <1>2, <1>9 DEF Fine, Named, Flight, Waiting
  <2> QED BY <1>9, <1>10, <2>1, <2>2, <2>3
<1>14. /\ frame' \in [Frame -> AFrame] /\ frame'[f] = r
       /\ \A g \in Frame : g # f => frame'[g] = frame[g]
       /\ \A g \in Frame : Fine(frame[g])'
  BY <1>0, <1>7, <1>10, <1>11, <1>12, <1>13, OneFrame DEF IInv, Fine
<1>15. TypeOK' BY <1>0, <1>10, <1>14 DEF TypeOK, ifconfig
<1>16. Knows' BY <1>0 DEF Knows, ifconfig
<1>17. StatisticsAddUp'
  BY <1>0, <1>10 DEF IInv, StatisticsAddUp
<1>18. Readings'
  <2>1. Counting' = IF r = taken THEN Counting \cup {f} ELSE Counting
    BY <1>0, <1>9, <1>14 DEF Counting, In, o
  <2>2. \A g \in Counting : g # f /\ frame'[g] = frame[g]
    BY <1>0, <1>14 DEF Counting, In, o
  <2>3. ~ raced' => ~ raced /\ (r = taken => Counting = {}) BY <1>10
  <2>4. rx_packets <= handed BY DEF IInv, StatisticsAddUp
  <2>5. \A g \in Counting : frame'[g].read <= handed
    BY <2>2 DEF IInv, Readings
  <2>6. r = taken => frame'[f].read = rx_packets BY <1>9, <1>14
  <2>7. ~ raced' => \A g \in Counting' : frame'[g].read = rx_packets /\ Counting' = {g}
    <3>1. CASE r = taken BY <2>1, <2>3, <2>6, <3>1
    <3>2. CASE r # taken BY <2>1, <2>2, <2>3, <3>2 DEF IInv, Readings
    <3> QED BY <3>1, <3>2
  <2>8. \A g \in Counting' : frame'[g].read <= handed BY <2>1, <2>4, <2>5, <2>6
  <2> QED BY <1>0, <2>7, <2>8 DEF Readings
<1> QED BY <1>14, <1>15, <1>16, <1>17, <1>18 DEF IInv

(***************************************************************************)
(* The count of what was received is written from a value read before: it  *)
(* falls behind when two were about to count, and is exact otherwise.      *)
(***************************************************************************)
LEMMA CountStep == ASSUME IInv, NEW f \in Frame, Count(f) PROVE IInv'
<1> DEFINE o == frame[f]
           r == [o EXCEPT !.st = "handled", !.read = 0]
<1>0. /\ o \in AFrame /\ Fine(o) /\ TypeOK /\ o.st = "counting" /\ Becomes(f, r) /\ f \in Counting
      /\ UNCHANGED <<net, ifconfig, tx_packets, sent, raced>>
      /\ rx_packets' = o.read + 1 /\ handed' = handed + 1
  BY DEF IInv, TypeOK, Count, Counting, In, Counted
<1>1. /\ o.read <= handed /\ (~ raced => o.read = rx_packets /\ Counting = {f})
      /\ o.read \in Nat /\ handed \in Nat /\ rx_packets \in Nat
  BY <1>0 DEF IInv, Readings, TypeOK, AFrame
<1>2. \A g \in Counting : frame[g].read <= handed /\ frame[g].read \in Nat
  BY DEF IInv, Readings, TypeOK, AFrame, Counting
<1> HIDE DEF o
<1>3. r \in AFrame BY <1>0, Values DEF AFrame
<1>4. /\ r.st = "handled" /\ r.users = o.users /\ r.todo = o.todo /\ r.touched = o.touched
      /\ r.kind = o.kind /\ r.to = o.to /\ r.calm = o.calm /\ r.due = o.due /\ r.dev = o.dev
  BY <1>0 DEF AFrame
<1> HIDE DEF r
<1>5. Fine(r)
  <2>1. Routed(r) /\ Refs(r) BY <1>0, <1>4 DEF Fine, Routed, Refs, Flight
  <2>2. Judged(r) /\ Looped(r) /\ Delivered(r)
    BY <1>0, <1>4 DEF Fine, Judged, Looped, Delivered, Flight
  <2>3. Named(r) BY <1>0, <1>4 DEF Fine, Named, Flight
  <2> QED BY <2>1, <2>2, <2>3 DEF Fine
<1>6. /\ frame' \in [Frame -> AFrame] /\ frame'[f] = r
      /\ \A g \in Frame : g # f => frame'[g] = frame[g]
      /\ \A g \in Frame : Fine(frame[g])'
  BY <1>0, <1>3, <1>5, OneFrame DEF IInv
<1>7. TypeOK' BY <1>0, <1>1, <1>6 DEF TypeOK, ifconfig
<1>8. Knows' BY <1>0 DEF IInv, Knows, ifconfig
<1>9. StatisticsAddUp' BY <1>0, <1>1 DEF IInv, StatisticsAddUp
<1>10. Readings'
  <2>1. Counting' = Counting \ {f} BY <1>4, <1>6 DEF Counting, In
  <2>2. \A g \in Counting' : g \in Counting /\ frame'[g] = frame[g] BY <1>6, <2>1 DEF Counting
  <2>3. ~ raced' => Counting' = {} BY <1>0, <1>1, <2>1
  <2>4. \A g \in Counting' : frame'[g].read <= handed' BY <1>0, <1>1, <1>2, <2>2
  <2> QED BY <2>3, <2>4 DEF Readings
<1> QED BY <1>6, <1>7, <1>8, <1>9, <1>10 DEF IInv

(***************************************************************************)
(* A frame is sent.                                                        *)
(***************************************************************************)
LEMMA SendStep == ASSUME IInv, NEW f \in Frame, Send(f) PROVE IInv'
<1>0. /\ TypeOK /\ state = "up" /\ frame[f].st = "nowhere"
      /\ UNCHANGED <<net, ifconfig, raced>>
      /\ sent' = sent + 1 /\ tx_packets' = IF net.counts THEN tx_packets + 1 ELSE tx_packets
  BY DEF IInv, Send, In, Counted
<1>1. net.xmit \in {"parent", "free", "loopback"} /\ (net.xmit = "loopback" => net.hook = "none")
  BY <1>0, NetFacts DEF TypeOK
<1>2. net.xmit = "loopback" => rx_packets' = rx_packets + 1 /\ handed' = handed + 1
  BY DEF Send, Counted
<1>3. net.xmit # "loopback" => rx_packets' = rx_packets /\ handed' = handed
  BY DEF Send
<1>4. PICK r \in AFrame : Becomes(f, r) /\ Fine(r) /\ r.st # "counting"
  <2>1. CASE net.xmit = "parent"
    <3> DEFINE t == IF net.looks THEN <<"look">> ELSE <<>>
               r == [Nowhere EXCEPT !.st = "sending", !.users = 1, !.todo = t]
    <3>1. Becomes(f, r) BY <2>1 DEF Send, SendsOut
    <3>2. t \in Todos /\ (t = <<>> \/ (t = <<"look">> /\ net.looks)) BY Values
    <3> HIDE DEF t
    <3>3. r \in AFrame BY <3>2, Values, NowhereFine DEF AFrame
    <3>4. r.st = "sending" /\ r.users = 1 /\ r.todo = t /\ r.touched = FALSE BY DEF Nowhere
    <3> HIDE DEF r
    <3>5. Fine(r)
      BY <3>2, <3>4 DEF Fine, Routed, Refs, Judged, Named, Looped, Delivered, Flight
    <3> QED BY <3>1, <3>3, <3>4, <3>5
  <2>2. CASE net.xmit = "free"
    <3> DEFINE r == [Nowhere EXCEPT !.st = "gone"]
    <3>1. Becomes(f, r) BY <2>2 DEF Send
    <3>2. r \in AFrame BY Values, NowhereFine DEF AFrame
    <3>3. r.st = "gone" /\ r.users = 0 /\ r.touched = FALSE BY DEF Nowhere
    <3> HIDE DEF r
    <3>4. Fine(r) BY <3>3 DEF Fine, Routed, Refs, Judged, Named, Looped, Delivered, Flight
    <3> QED BY <3>1, <3>2, <3>3, <3>4
  <2>3. CASE net.xmit = "loopback"
    <3>1. PICK kind \in {"ip", "other"} :
            Becomes(f, [Nowhere EXCEPT !.st = "arrived", !.kind = kind, !.users = 1,
                                       !.dev = "child", !.todo = Stack(kind), !.due = TRUE])
      BY <2>3 DEF Send, LoopsBack
    <3> DEFINE t == Stack(kind)
               r == [Nowhere EXCEPT !.st = "arrived", !.kind = kind, !.users = 1,
                                    !.dev = "child", !.todo = t, !.due = TRUE]
    <3>2. /\ t \in Waiting /\ t \in (IF kind \in Ip THEN WithStack ELSE WithoutStack)
          /\ kind \in Kinds
      BY DEF Stack, Waiting, Ip, WithStack, WithoutStack, Kinds
    <3>3. Becomes(f, r) BY <3>1
    <3>4. t \in Todos BY <3>2, Values DEF Waiting
    <3> HIDE DEF t
    <3>5. r \in AFrame BY <3>2, <3>4, Values, NowhereFine DEF AFrame
    <3>6. /\ r.st = "arrived" /\ r.users = 1 /\ r.todo = t /\ r.touched = FALSE /\ r.kind = kind
          /\ r.dev = "child" /\ r.due = TRUE
      BY DEF Nowhere
    <3> HIDE DEF r
    <3>7. Hooks(t) BY <3>2 DEF Waiting, Hooks
    <3>8. Routed(r) BY <3>2, <3>6, <3>7 DEF Routed
    <3>9. Refs(r) /\ Judged(r) /\ Named(r) /\ Looped(r) /\ Delivered(r)
      BY <1>1, <2>3, <3>6 DEF Refs, Judged, Named, Looped, Delivered
    <3> QED BY <3>3, <3>5, <3>6, <3>8, <3>9 DEF Fine
  <2> QED BY <1>1, <2>1, <2>2, <2>3
<1>5. /\ frame' \in [Frame -> AFrame] /\ frame'[f] = r
      /\ \A g \in Frame : g # f => frame'[g] = frame[g]
      /\ \A g \in Frame : Fine(frame[g])'
  BY <1>0, <1>4, OneFrame DEF IInv
<1>6. TypeOK' BY <1>0, <1>1, <1>2, <1>3, <1>5 DEF TypeOK, ifconfig
<1>7. Knows' BY <1>0 DEF IInv, Knows, ifconfig
<1>8. StatisticsAddUp'
  BY <1>0, <1>1, <1>2, <1>3 DEF IInv, StatisticsAddUp, TypeOK
<1>9. Counting' = Counting /\ \A g \in Counting : frame'[g] = frame[g]
  BY <1>0, <1>4, <1>5 DEF Counting, In
<1>10. net.hook = "none" => Counting = {}
  BY <1>0, Handling DEF IInv, Counting, In, Fine, Routed, Flight, TypeOK
<1>11. Readings' BY <1>0, <1>1, <1>2, <1>3, <1>9, <1>10 DEF IInv, Readings
<1> QED BY <1>5, <1>6, <1>7, <1>8, <1>11 DEF IInv

(***************************************************************************)
(* ifconfig leaves open what becomes of the frames in hand, and tells an   *)
(* interface that is opened its address.                                   *)
(***************************************************************************)
LEMMA IfconfigStep == ASSUME IInv, SetAddress \/ Open \/ Stop PROVE IInv'
<1>0. TypeOK /\ UNCHANGED <<net, stats>> BY DEF IInv, SetAddress, Open, Stop
<1>1. CASE frame' = Unsettled
  <2>1. \A g \in Frame : frame'[g] = [frame[g] EXCEPT !.calm = FALSE] BY <1>1 DEF Unsettled
  <2>2. \A g \in Frame : frame[g] \in AFrame BY <1>0 DEF TypeOK
  <2>3. \A g \in Frame :
          /\ frame'[g] \in AFrame /\ frame'[g].calm = FALSE
          /\ frame'[g].st = frame[g].st /\ frame'[g].users = frame[g].users
          /\ frame'[g].todo = frame[g].todo /\ frame'[g].touched = frame[g].touched
          /\ frame'[g].kind = frame[g].kind /\ frame'[g].dev = frame[g].dev
          /\ frame'[g].due = frame[g].due /\ frame'[g].read = frame[g].read
    <3> TAKE g \in Frame
    <3>1. PICK f \in AFrame : f = frame[g] BY <2>2
    <3>2. PICK h : h = frame'[g] OBVIOUS
    <3>3. h = [f EXCEPT !.calm = FALSE] BY <2>1, <3>1, <3>2
    <3>4. h \in AFrame BY <3>3 DEF AFrame
    <3>5. /\ h.calm = FALSE /\ h.st = f.st /\ h.users = f.users
          /\ h.todo = f.todo /\ h.touched = f.touched
          /\ h.kind = f.kind /\ h.dev = f.dev
          /\ h.due = f.due /\ h.read = f.read
      BY <3>3 DEF AFrame
    <3> QED BY <3>1, <3>2, <3>4, <3>5
  <2>4. ASSUME NEW g \in Frame PROVE Fine(frame[g])'
    <3>1. Routed(frame[g])' BY <1>0, <2>3 DEF IInv, Fine, Routed, Hooks
    <3>2. Refs(frame[g])' BY <1>0, <2>3 DEF IInv, Fine, Refs
    <3>3. Judged(frame[g])' /\ Named(frame[g])' /\ Delivered(frame[g])'
      BY <2>3 DEF Judged, Named, Delivered
    <3>4. Looped(frame[g])' BY <1>0, <2>3 DEF IInv, Fine, Looped
    <3> QED BY <3>1, <3>2, <3>3, <3>4 DEF Fine
  <2>5. frame' \in [Frame -> AFrame] BY <1>1, <2>1, <2>3 DEF Unsettled
  <2>6. Counting' = Counting BY <2>3 DEF Counting, In
  <2>7. Readings' BY <1>0, <2>3, <2>6 DEF IInv, Readings, stats, Counting
  <2>8. StatisticsAddUp' BY <1>0 DEF IInv, StatisticsAddUp, stats
  <2>9. CASE SetAddress
    <3>1. TypeOK' BY <1>0, <2>5, <2>9 DEF SetAddress, TypeOK, stats
    <3>2. Knows' BY <2>9 DEF SetAddress, IInv, Knows, TypeOK
    <3> QED BY <2>4, <2>7, <2>8, <3>1, <3>2 DEF IInv
  <2>10. CASE Open
    <3>1. TypeOK' BY <1>0, <2>5, <2>10 DEF Open, TypeOK, stats
    <3>2. Knows' BY <1>0, <2>10 DEF Open, IInv, Knows
    <3> QED BY <2>4, <2>7, <2>8, <3>1, <3>2 DEF IInv
  <2>11. CASE Stop
    <3>1. TypeOK' /\ Knows' BY <1>0, <2>5, <2>11 DEF Stop, TypeOK, Knows, stats
    <3> QED BY <2>4, <2>7, <2>8, <3>1 DEF IInv
  <2> QED BY <2>9, <2>10, <2>11
<1>2. CASE Open /\ state' = "dead" /\ UNCHANGED <<child_ip, moved, frame>>
  <2>1. state = "down" /\ address' = address BY <1>2 DEF Open
  <2>2. ASSUME NEW g \in Frame PROVE Fine(frame[g])'
    <3>1. Routed(frame[g])' /\ Refs(frame[g])' BY <1>0, <1>2 DEF IInv, Fine, Routed, Refs, Hooks
    <3>2. \A kind, to : Due(kind, to)' = Due(kind, to) BY <1>0, <1>2, <2>1 DEF Due
    <3>3. Judged(frame[g])' BY <1>0, <1>2, <2>1, <3>2 DEF IInv, Fine, Judged, Due
    <3>4. Named(frame[g])' /\ Looped(frame[g])' /\ Delivered(frame[g])'
      BY <1>0, <1>2 DEF IInv, Fine, Named, Looped, Delivered
    <3> QED BY <3>1, <3>3, <3>4 DEF Fine
  <2>3. TypeOK' BY <1>0, <1>2, <2>1 DEF TypeOK, stats
  <2>4. Knows' BY <1>0, <1>2, <2>1 DEF IInv, Knows
  <2>5. Readings' /\ StatisticsAddUp'
    BY <1>0, <1>2 DEF IInv, Readings, StatisticsAddUp, Counting, In, stats
  <2> QED BY <2>2, <2>3, <2>4, <2>5 DEF IInv
<1> QED BY <1>1, <1>2 DEF SetAddress, Open, Stop
-----------------------------------------------------------------------------
(***************************************************************************)
(* The invariant holds in every state, for every number of frames and of   *)
(* addresses, and whatever is counted.                                     *)
(***************************************************************************)
THEOREM Invariance == Spec => []IInv
<1>1. IInv /\ [Next]_vars => IInv'
  <2> SUFFICES ASSUME IInv, [Next]_vars PROVE IInv' OBVIOUS
  <2>1. CASE SetAddress \/ Open \/ Stop BY <2>1, IfconfigStep
  <2>2. ASSUME NEW f \in Frame, Arrive(f) \/ Send(f) \/ Moves(f) PROVE IInv'
    BY <2>2, ArriveStep, SendStep, HandleStep, CountStep, PassStep, EndSteps DEF Moves
  <2>3. CASE UNCHANGED vars
    <3>1. FrameOnly /\ frame' = frame BY <2>3 DEF vars, FrameOnly, ifconfig, stats
    <3>2. \A f \in Frame : Fine(frame[f])'
      <4> SUFFICES ASSUME NEW f \in Frame PROVE Fine(frame[f])' OBVIOUS
      <4>0. /\ net' = net /\ state' = state /\ address' = address /\ moved' = moved
            /\ frame' = frame /\ Fine(frame[f])
        BY <3>1 DEF IInv, FrameOnly, ifconfig
      <4>1. Routed(frame[f])' /\ Refs(frame[f])' BY <4>0 DEF Fine, Routed, Refs, Hooks
      <4>2. Judged(frame[f])' BY <4>0 DEF Fine, Judged, Due
      <4>3. Named(frame[f])' /\ Looped(frame[f])' /\ Delivered(frame[f])'
        BY <4>0 DEF Fine, Named, Looped, Delivered
      <4> QED BY <4>1, <4>2, <4>3 DEF Fine
    <3>3. TypeOK' /\ Knows' /\ Readings' /\ StatisticsAddUp'
      BY <3>1 DEF IInv, FrameOnly, ifconfig, stats, TypeOK, Knows, Readings, StatisticsAddUp,
         Counting, In
    <3> QED BY <3>2, <3>3 DEF IInv
  <2> QED BY <2>1, <2>2, <2>3 DEF Next
<1> QED BY InitInv, <1>1, PTL DEF Spec

(***************************************************************************)
(* Every frame is freed once, and read afterwards only in the two ways     *)
(* that are known.                                                         *)
(***************************************************************************)
THEOREM FramesAreFreedOnce == Spec => []FreedOnce
<1>1. IInv => FreedOnce
  <2> SUFFICES ASSUME IInv, NEW f \in Frame
               PROVE  /\ frame[f].st \in Flight => frame[f].users >= 1
                      /\ frame[f].st \in {"gone", "delivered"} => frame[f].users = 0
                      /\ frame[f].touched => \/ frame[f].st = "sending" /\ net.looks
                                             \/ net.hook = "tap" /\ frame[f].kind \in {"other", "sent"}
    BY Zenon DEF FreedOnce, Flight
  <2>1. Refs(frame[f]) BY DEF IInv, Fine
  <2>2. frame[f].st \in {"counting", "handled"} => frame[f].users \in {1, 2} BY <2>1 DEF Refs
  <2> QED BY <2>1, <2>2 DEF Refs, Flight
<1> QED BY <1>1, Invariance, PTL

(***************************************************************************)
(* The stack gets a frame from the child exactly when it is the child's.   *)
(***************************************************************************)
THEOREM InterfaceIsRight == Spec => []RightInterface
<1>1. IInv => RightInterface
  BY DEF IInv, TypeOK, AFrame, Fine, Delivered, RightInterface, In
<1> QED BY <1>1, Invariance, PTL

(***************************************************************************)
(* The statistics are exact, but for what two processors count at once.    *)
(***************************************************************************)
THEOREM StatisticsAreRight == Spec => []StatisticsAddUp
<1>1. IInv => StatisticsAddUp BY DEF IInv
<1> QED BY <1>1, Invariance, PTL
=============================================================================
