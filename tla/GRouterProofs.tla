---------------------------- MODULE GRouterProofs ----------------------------
(***************************************************************************)
(* Proofs about GRouter for every network, every set of messages and every *)
(* choice of delays and bounds.                                            *)
(***************************************************************************)
EXTENDS GRouter, SequenceTheorems, TLAPS

\* The two ends of a connection are both links, each the other's reverse.
LEMMA ReverseLink ==
    ASSUME NEW l \in Link
    PROVE  /\ Reverse(l) \in Link
           /\ l[2] \in Node /\ l[3] \in Node
           /\ Sender(l) \in Peer
<1>1. PICK k \in {"friend", "out", "in"}, a \in Node, b \in Node :
         l = <<k, a, b>>
  BY DEF Link
<1>2. Reverse(l) = <<IF k = "out" THEN "in" ELSE IF k = "in" THEN "out"
                                                            ELSE k, b, a>>
  BY <1>1 DEF Reverse
<1>3. Reverse(l) \in Link
  <2>1. CASE k = "friend"
    <3>1. b \in Friends[a]
      BY <1>1, <2>1 DEF Link
    <3>2. a \in Friends[b]
      BY <3>1, ParticipantsAssumption
    <3> QED BY <1>2, <2>1, <3>2 DEF Link
  <2>2. CASE k = "out"
    BY <1>1, <1>2, <2>2 DEF Link
  <2>3. CASE k = "in"
    BY <1>1, <1>2, <2>3 DEF Link
  <2> QED BY <2>1, <2>2, <2>3
<1>4. Sender(l) \in Peer
  BY <1>1, <1>2 DEF Sender, Peer
<1> QED BY <1>1, <1>3, <1>4

\* Items built for a message are items.
LEMMA ItemTypes ==
    ASSUME NEW m \in Msg
    PROVE  Data(m) \in Item /\ Receipt(m) \in Item /\ Ack(m) \in Item
BY DEF Data, Receipt, Ack, Item

\* What a routing round makes of an entry is an entry.
LEMMA RoutedType ==
    ASSUME NEW e \in Entry, NEW hops, now \in Nat
    PROVE  Routed(e, hops) \in Entry
BY DEF Routed, Entry

\* Striking routes off an entry leaves an entry.
LEMMA StruckType ==
    ASSUME NEW e \in Entry, NEW answered
    PROVE  Struck(e, answered) \in Entry
BY DEF Struck, Entry

\* So do the assignments that acknowledgements, data and receipts cause.
LEMMA UpdateTypes ==
    ASSUME NEW e \in Entry, NEW t \in Nat, NEW p \in Peer
    PROVE  /\ [e EXCEPT !.status = "SENT", !.lastSent = t] \in Entry
           /\ [e EXCEPT !.routes = @ \cup {p}] \in Entry
           /\ [e EXCEPT !.status = "DONE"] \in Entry
           /\ [e EXCEPT !.status = "RECEIPT_OK", !.receipt = TRUE] \in Entry
           /\ [e EXCEPT !.transaction = 0] \in Entry
BY DEF Entry

\* A new entry is an entry.
LEMMA NewEntryType ==
    ASSUME NEW forUs \in BOOLEAN, now \in Nat
    PROVE  NewEntry(forUs) \in Entry
BY DEF NewEntry, Entry

\* Virtual peer ids that die are still peers.
LEMMA OutdatedType ==
    ASSUME NEW n, NEW x, NEW p \in Peer
    PROVE  Outdated(n, x, p) \in Peer
BY DEF Outdated, Peer

\* The channels stay bags of items when a node sends or a link breaks.
LEMMA ChannelTypes ==
    ASSUME net \in Channels
    PROVE  /\ \A n, sent : Sending(n, sent) \in Channels
           /\ \A links : Lost(links) \in Channels
<1>1. ASSUME NEW n, NEW sent PROVE Sending(n, sent) \in Channels
  BY DEF Sending, Channels
<1>2. ASSUME NEW links PROVE Lost(links) \in Channels
  BY DEF Lost, Channels, NoItems
<1> QED BY <1>1, <1>2

\* Writing one slot of one cache.
LEMMA PutSlot ==
    ASSUME NEW c \in Caches, NEW n \in Node, NEW m \in Msg, NEW e \in Slot
    PROVE  /\ [c EXCEPT ![n][m] = e] \in Caches
           /\ c[n][m] \in Slot
BY DEF Caches

\* Asking for a save only adds a node.
LEMMA DirtyType ==
    ASSUME NEW n \in Node, dirty \subseteq Node
    PROVE  Dirty(n) \subseteq Node
BY DEF Dirty
-----------------------------------------------------------------------------
(* Type correctness *)

\* The initial state is well typed.
LEMMA InitType == Init => TypeOK
<1> SUFFICES ASSUME Init PROVE TypeOK
  OBVIOUS
<1> USE DEF Init
<1>1. now \in Nat
  BY DelaysAssumption DEF StartTime
<1>2. phase \in Phases
  BY DEF Phases
<1>3. pending \in Caches /\ saved \in Files
  BY DEF Caches, Slot, Files
<1>4. incoming \in Queues
  BY DEF Queues
<1>5. clues \in Matrices
  BY DEF Matrices
<1>6. net \in Channels
  BY DEF Channels, NoItems
<1>7. delivered \in [Msg -> Nat]
  OBVIOUS
<1> QED
  BY <1>1, <1>2, <1>3, <1>4, <1>5, <1>6, <1>7 DEF TypeOK

\* Every step keeps the types.
LEMMA NextType == TypeOK /\ [Next]_vars => TypeOK'
<1> SUFFICES ASSUME TypeOK, [Next]_vars PROVE TypeOK'
  OBVIOUS
<1>0. ASSUME NEW n \in Node, NEW m \in Msg, Holds(n, m)
      PROVE  pending[n][m] \in Entry
  BY <1>0 DEF Holds, TypeOK, Caches, Slot
<1>1. ASSUME NEW m \in Msg, SendData(m) PROVE TypeOK'
  <2>1. [role |-> "origin", status |-> "PENDING", allowTunnels |-> FALSE,
         receipt |-> FALSE, routes |-> {}, received |-> now, lastSent |-> 0,
         transaction |-> 0] \in Slot
    BY DEF TypeOK, Entry, Slot
  <2>2. Origin[m] \in Node
    BY ParticipantsAssumption
  <2>3. pending' \in Caches
    BY <1>1, <2>1, <2>2, PutSlot DEF TypeOK, SendData
  <2>4. dirty' \subseteq Node
    BY <1>1, <2>2, DirtyType DEF TypeOK, SendData
  <2> QED BY <1>1, <2>3, <2>4 DEF TypeOK, SendData, faults
<1>2. ASSUME NEW m \in Msg, Cancel(m) PROVE TypeOK'
  <2>1. Origin[m] \in Node
    BY ParticipantsAssumption
  <2>2. pending' \in Caches
    BY <1>2, <2>1, PutSlot DEF TypeOK, Cancel, Slot
  <2>3. dirty' \subseteq Node
    BY <1>2, <2>1, DirtyType DEF TypeOK, Cancel
  <2> QED BY <1>2, <2>2, <2>3 DEF TypeOK, Cancel, faults
<1>3. ASSUME NEW n \in Node, NEW d \in Node, NEW f \in Node,
             AddRoutingClue(n, d, f) PROVE TypeOK'
  <2>1. clues' \in Matrices
    BY <1>3 DEF TypeOK, AddRoutingClue, Matrices
  <2>2. dirty' \subseteq Node
    BY <1>3, DirtyType DEF TypeOK, AddRoutingClue
  <2> QED BY <1>3, <2>1, <2>2 DEF TypeOK, AddRoutingClue, faults, history
<1>4. ASSUME NEW l \in Link, NEW m \in Msg, ReceiveAck(l, m) PROVE TypeOK'
  <2>1. l[3] \in Node /\ Ack(m) \in Item
    BY ReverseLink, ItemTypes
  <2>2. net' \in Channels
    BY <1>4, <2>1 DEF TypeOK, ReceiveAck, Channels
  <2>3. pending' \in Caches
    <3>1. CASE Holds(l[3], m) /\ pending[l[3]][m].status = "ONGOING"
      <4> DEFINE new == [pending[l[3]][m] EXCEPT !.status = "SENT",
                                                 !.lastSent = now]
      <4>1. new \in Slot
        <5>1. pending[l[3]][m] \in Entry /\ now \in Nat
          BY <1>0, <2>1, <3>1 DEF TypeOK
        <5> QED BY <5>1, UpdateTypes, ReverseLink DEF Slot
      <4>2. pending' = [pending EXCEPT ![l[3]][m] = new]
        BY <1>4, <3>1 DEF ReceiveAck, AwaitsAck
      <4> HIDE DEF new
      <4> QED BY <2>1, <4>1, <4>2, PutSlot DEF TypeOK
    <3>2. CASE ~(Holds(l[3], m) /\ pending[l[3]][m].status = "ONGOING")
      BY <1>4, <3>2 DEF TypeOK, ReceiveAck, AwaitsAck
    <3> QED BY <3>1, <3>2
  <2> QED BY <1>4, <2>2, <2>3 DEF TypeOK, ReceiveAck, faults, history
<1>5. ASSUME NEW l \in Link, NEW item \in Item, ReceiveItem(l, item)
      PROVE  TypeOK'
  <2>1. /\ l[3] \in Node /\ Reverse(l) \in Link /\ Sender(l) \in Peer
        /\ Ack(item.id) \in Item
    BY ReverseLink, ItemTypes DEF Item
  <2>2. net' \in Channels
    <3> DEFINE less == [net EXCEPT ![l][item] = @ - 1]
               count == net[Reverse(l)][Ack(item.id)]
    <3>1. net \in [Link -> [Item -> Nat]] /\ net[l][item] > 0
      BY <1>5 DEF TypeOK, ReceiveItem, Channels
    <3>2. less \in [Link -> [Item -> Nat]]
      BY <3>1
    <3>3. net' = [less EXCEPT ![Reverse(l)][Ack(item.id)] =
                     IF Reverse(l) \in Carrying THEN count + 1 ELSE count]
      BY <1>5 DEF ReceiveItem
    <3> HIDE DEF less
    <3>4. count \in Nat
      BY <2>1, <3>1
    <3> QED BY <2>1, <3>2, <3>3, <3>4 DEF Channels
  <2>3. [item |-> item, from |-> Sender(l)] \in QueuedItem
    BY <2>1 DEF QueuedItem
  <2>4. incoming[l[3]] \in Seq(QueuedItem)
    BY <2>1 DEF TypeOK, Queues
  <2>5. Append(incoming[l[3]], [item |-> item, from |-> Sender(l)])
           \in Seq(QueuedItem)
    BY <2>3, <2>4, AppendProperties
  <2>6. incoming' \in Queues
    BY <1>5, <2>1, <2>5 DEF TypeOK, ReceiveItem, Queues
  <2> QED BY <1>5, <2>2, <2>6 DEF TypeOK, ReceiveItem, faults, history
<1>6. ASSUME NEW n \in Node, LowLevelDone(n) \/ IdleTick(n) PROVE TypeOK'
  <2>1. phase' \in Phases
    BY <1>6 DEF TypeOK, LowLevelDone, IdleTick, vars, Phases
  <2> QED
    BY <1>6, <2>1 DEF TypeOK, LowLevelDone, IdleTick, vars, faults, history
<1>7. ASSUME NEW n \in Node, NEW outcome, HandleIncomingDataItem(n, outcome)
      PROVE  TypeOK'
  <2> DEFINE h == Head(incoming[n])
             m == h.item.id
             info == IF Holds(n, m) THEN pending[n][m]
                                    ELSE NewEntry(n = Dest[m])
             new == [info EXCEPT !.routes = @ \cup {h.from}]
  <2>1. incoming[n] \in Seq(QueuedItem) /\ incoming[n] # <<>>
    BY <1>7 DEF TypeOK, HandleIncomingDataItem, Queues
  <2>2. h \in QueuedItem /\ Tail(incoming[n]) \in Seq(QueuedItem)
    BY <2>1, HeadTailProperties
  <2>3. m \in Msg /\ h.from \in Peer
    BY <2>2 DEF QueuedItem, Item
  <2>4. incoming' \in Queues
    BY <1>7, <2>2 DEF TypeOK, HandleIncomingDataItem, Queues
  <2>5. info \in Entry
    BY <1>0, <2>3, NewEntryType DEF TypeOK
  <2>6. new \in Slot
    <3> HIDE DEF info
    <3> QED BY <2>3, <2>5, UpdateTypes DEF Slot
  <2>7. pending' = [pending EXCEPT ![n][m] = new] \/ pending' = pending
    BY <1>7 DEF HandleIncomingDataItem
  <2>8. pending' \in Caches
    <3> HIDE DEF new, m
    <3> QED BY <2>3, <2>6, <2>7, PutSlot DEF TypeOK
  <2>9. handled' \subseteq Msg /\ delivered' \in [Msg -> Nat]
    <3>1. /\ handled' = handled \cup {m} \/ handled' = handled
          /\ \/ delivered' = [delivered EXCEPT ![m] = @ + 1]
             \/ delivered' = delivered
      BY <1>7 DEF HandleIncomingDataItem
    <3> HIDE DEF m
    <3> QED BY <2>3, <3>1 DEF TypeOK
  <2>10. dirty' \subseteq Node
    BY <1>7, DirtyType DEF TypeOK, HandleIncomingDataItem
  <2> HIDE DEF new, m, info, h
  <2> QED
    BY <1>7, <2>4, <2>8, <2>9, <2>10
    DEF TypeOK, HandleIncomingDataItem, faults, requests
<1>8. ASSUME NEW n \in Node, NEW accepted, HandleIncomingReceiptItem(n, accepted)
      PROVE  TypeOK'
  <2> DEFINE h == Head(incoming[n])
             m == h.item.id
             e == pending[n][m]
             taken == Holds(n, m) /\ accepted
             new == IF e.role = "origin" THEN [e EXCEPT !.status = "DONE"]
                    ELSE [e EXCEPT !.status = "RECEIPT_OK", !.receipt = TRUE]
  <2>1. incoming[n] \in Seq(QueuedItem) /\ incoming[n] # <<>>
    BY <1>8 DEF TypeOK, HandleIncomingReceiptItem, Queues
  <2>2. h \in QueuedItem /\ Tail(incoming[n]) \in Seq(QueuedItem)
    BY <2>1, HeadTailProperties
  <2>3. m \in Msg /\ h.from \in Peer /\ h.from[2] \in Node /\ Dest[m] \in Node
    BY <2>2, ParticipantsAssumption DEF QueuedItem, Item, Peer
  <2>4. incoming' \in Queues
    BY <1>8, <2>2 DEF TypeOK, HandleIncomingReceiptItem, Queues
  <2>5. pending' \in Caches
    <3>1. CASE taken
      <4>1. new \in Slot
        <5>1. e \in Entry
          BY <1>0, <2>3, <3>1
        <5> HIDE DEF e
        <5> QED BY <2>3, <5>1, UpdateTypes DEF Slot
      <4>2. pending' = [pending EXCEPT ![n][m] = new]
        BY <1>8, <3>1 DEF HandleIncomingReceiptItem, WithReceipt
      <4> HIDE DEF new, m
      <4> QED BY <2>3, <4>1, <4>2, PutSlot DEF TypeOK
    <3>2. CASE ~taken
      BY <1>8, <3>2 DEF TypeOK, HandleIncomingReceiptItem
    <3> QED BY <3>1, <3>2
  <2>6. clues' \in Matrices
    <3>1. \/ clues' = clues
          \/ clues' = [clues EXCEPT ![n][Dest[m]] = @ \cup {h.from[2]}]
      BY <1>8 DEF HandleIncomingReceiptItem
    <3> HIDE DEF h, m
    <3>2. clues[n][Dest[m]] \cup {h.from[2]} \in SUBSET Node
      BY <2>3 DEF TypeOK, Matrices
    <3> QED BY <2>3, <3>1, <3>2 DEF TypeOK, Matrices
  <2>7. told' \subseteq Notices
    <3>1. <<n, m, "RECEIVED">> \in Notices
      BY <2>3 DEF Notices
    <3> QED BY <1>8, <3>1 DEF TypeOK, HandleIncomingReceiptItem
  <2>8. dirty' \subseteq Node
    BY <1>8, DirtyType DEF TypeOK, HandleIncomingReceiptItem
  <2> HIDE DEF new, taken, e, m, h
  <2> QED
    BY <1>8, <2>4, <2>5, <2>6, <2>7, <2>8
    DEF TypeOK, HandleIncomingReceiptItem, faults, requests
<1>9. ASSUME NEW n \in Node, RoutePendingObjects(n) PROVE TypeOK'
  <2>1. PICK hops, sent :
          /\ pending' = [pending EXCEPT ![n] = [m \in Msg |->
               IF m \in {k \in Msg : Holds(n, k)}
               THEN Struck(Routed(pending[n][m], hops[m]),
                           Answered(n, pending[n][m], hops[m]))
               ELSE None]]
          /\ net' = Sending(n, sent)
          /\ dirty' \in {Dirty(n), dirty}
    BY <1>9 DEF RoutePendingObjects
  <2>2. ASSUME NEW m \in Msg, Holds(n, m)
        PROVE  Struck(Routed(pending[n][m], hops[m]),
                      Answered(n, pending[n][m], hops[m])) \in Entry
    <3>1. Routed(pending[n][m], hops[m]) \in Entry
      BY <1>0, <2>2, RoutedType DEF TypeOK
    <3> QED BY <3>1, StruckType
  <2>3. pending' \in Caches
    BY <2>1, <2>2 DEF TypeOK, Caches, Slot
  <2>4. net' \in Channels
    BY <2>1, ChannelTypes DEF TypeOK
  <2>5. dirty' \subseteq Node
    BY <2>1, DirtyType DEF TypeOK
  <2>6. phase' \in Phases
    BY <1>9 DEF TypeOK, RoutePendingObjects, Phases
  <2>7. UNCHANGED <<now, incoming, clues, up, saved, history, faults>>
    BY <1>9 DEF RoutePendingObjects
  <2> QED
    BY <2>3, <2>4, <2>5, <2>6, <2>7 DEF TypeOK, faults, history
<1>10. ASSUME NEW n \in Node, AutoWash(n) PROVE TypeOK'
  <2>1. pending' \in Caches
    BY <1>10 DEF TypeOK, AutoWash, Caches, Slot
  <2>2. told' \subseteq Notices
    BY <1>10 DEF TypeOK, AutoWash, Notices, FailureNotices
  <2>3. dirty' \subseteq Node
    BY <1>10, DirtyType DEF TypeOK, AutoWash
  <2>4. phase' \in Phases
    BY <1>10 DEF TypeOK, AutoWash, Phases
  <2> QED
    BY <1>10, <2>1, <2>2, <2>3, <2>4 DEF TypeOK, AutoWash, faults, requests
<1>11. ASSUME NEW n \in Node, SaveConfig(n) PROVE TypeOK'
  <2> DEFINE kept == [m \in Msg |->
               IF Holds(n, m) THEN [pending[n][m] EXCEPT !.transaction = 0]
                              ELSE None]
  <2>1. kept \in [Msg -> Slot]
    BY <1>0 DEF Entry, Slot
  <2>2. clues[n] \in [Node -> SUBSET Node]
    BY DEF TypeOK, Matrices
  <2>3. saved' = [saved EXCEPT ![n] = [pending |-> kept, clues |-> clues[n]]]
    BY <1>11 DEF SaveConfig
  <2>4. saved' \in Files
    <3> HIDE DEF kept
    <3> QED BY <2>1, <2>2, <2>3 DEF TypeOK, Files
  <2>5. dirty' \subseteq Node
    BY <1>11 DEF TypeOK, SaveConfig
  <2>6. UNCHANGED <<now, phase, pending, incoming, clues, up, net, history,
                    faults>>
    BY <1>11 DEF SaveConfig
  <2> QED BY <2>4, <2>5, <2>6 DEF TypeOK, faults, history
<1>12. ASSUME NEW x \in Node, Crash(x) PROVE TypeOK'
  <2>1. ASSUME NEW n \in Node, NEW m \in Msg
        PROVE  pending'[n][m] \in Slot
    <3> DEFINE e == IF n = x THEN saved[x].pending[m] ELSE pending[n][m]
    <3>1. e \in Slot
      BY DEF TypeOK, Files, Caches
    <3>2. pending'[n][m] = IF e = None THEN None
             ELSE [e EXCEPT !.routes = {Outdated(n, x, p) : p \in @}]
      BY <1>12 DEF Crash
    <3> HIDE DEF e
    <3>3. CASE e = None
      BY <3>2, <3>3 DEF Slot
    <3>4. CASE e # None
      <4>1. e \in Entry /\ e.routes \subseteq Peer
        BY <3>1, <3>4 DEF Entry, Slot
      <4>2. {Outdated(n, x, p) : p \in e.routes} \subseteq Peer
        BY <4>1, OutdatedType
      <4>3. [e EXCEPT !.routes = {Outdated(n, x, p) : p \in e.routes}]
              \in Entry
        BY <4>1, <4>2 DEF Entry
      <4> QED BY <3>2, <3>4, <4>3 DEF Slot
    <3> QED BY <3>3, <3>4
  <2>2. pending' \in Caches
    <3>1. pending' = [n \in Node |-> [m \in Msg |-> pending'[n][m]]]
      BY <1>12 DEF Crash
    <3> QED BY <2>1, <3>1 DEF Caches
  <2>3. ASSUME NEW n \in Node PROVE incoming'[n] \in Seq(QueuedItem)
    <3>1. CASE n = x
      BY <1>12, <3>1 DEF Crash
    <3>2. CASE n # x
      <4>1. incoming'[n] = [i \in DOMAIN incoming[n] |->
               [incoming[n][i] EXCEPT !.from = Outdated(n, x, @)]]
        BY <1>12, <3>2 DEF Crash
      <4>2. incoming[n] \in Seq(QueuedItem)
        BY DEF TypeOK, Queues
      <4>3. DOMAIN incoming[n] = 1 .. Len(incoming[n]) /\ Len(incoming[n]) \in Nat
        BY <4>2, LenProperties
      <4>4. ASSUME NEW i \in 1 .. Len(incoming[n])
            PROVE  [incoming[n][i] EXCEPT !.from = Outdated(n, x, @)]
                     \in QueuedItem
        <5>1. incoming[n][i] \in QueuedItem
          BY <4>2, ElementOfSeq
        <5>2. Outdated(n, x, incoming[n][i].from) \in Peer
          BY <5>1, OutdatedType DEF QueuedItem
        <5> QED BY <5>1, <5>2 DEF QueuedItem
      <4>5. incoming'[n] \in [1 .. Len(incoming[n]) -> QueuedItem]
        BY <4>1, <4>3, <4>4
      <4> QED BY <4>3, <4>5, SeqDef
    <3> QED BY <3>1, <3>2
  <2>4. incoming' \in Queues
    <3>1. incoming' = [n \in Node |-> incoming'[n]]
      BY <1>12 DEF Crash
    <3> QED BY <2>3, <3>1 DEF Queues
  <2>5. net' \in Channels
    BY <1>12 DEF Crash, TypeOK, NoItems, Channels
  <2>6. clues' \in Matrices
    BY <1>12 DEF Crash, TypeOK, Matrices, Files
  <2>7. phase' \in Phases
    BY <1>12 DEF Crash, TypeOK, Phases
  <2>8. up' \subseteq Link /\ dirty' \subseteq Node /\ crashes' \in Nat
    BY <1>12 DEF Crash, TypeOK
  <2>9. UNCHANGED <<now, saved, history, downs>>
    BY <1>12 DEF Crash
  <2> QED
    BY <2>2, <2>4, <2>5, <2>6, <2>7, <2>8, <2>9 DEF TypeOK, history
<1>13. ASSUME NEW l \in Link,
              LinkUp(l) \/ LinkDown(l) \/ CloseTunnel(l) \/ IdleTunnel(l)
       PROVE  TypeOK'
  <2>1. Reverse(l) \in Link
    BY ReverseLink
  <2>2. up' \subseteq Link
    BY <1>13, <2>1 DEF TypeOK, LinkUp, LinkDown, CloseTunnel, IdleTunnel
  <2>3. net' \in Channels
    BY <1>13, ChannelTypes
    DEF TypeOK, LinkUp, LinkDown, CloseTunnel, IdleTunnel
  <2>4. downs' \in Nat /\ crashes' = crashes
    BY <1>13
    DEF TypeOK, LinkUp, LinkDown, CloseTunnel, IdleTunnel, faults
  <2>5. UNCHANGED <<now, phase, pending, incoming, clues, saved, dirty,
                    history>>
    BY <1>13 DEF LinkUp, LinkDown, CloseTunnel, IdleTunnel
  <2> QED BY <2>2, <2>3, <2>4, <2>5 DEF TypeOK, history
<1>14. CASE Clock
  BY <1>14 DEF TypeOK, Clock, faults, history
<1>15. CASE UNCHANGED vars
  BY <1>15 DEF TypeOK, vars
<1> QED
  BY <1>1, <1>2, <1>3, <1>4, <1>5, <1>6, <1>7, <1>8, <1>9, <1>10, <1>11,
     <1>12, <1>13, <1>14, <1>15
  DEF Next, Client, Tick, HandleIncoming, Receive

\* Type correctness: in every behaviour of the routers, crashes and restarts
\* included, the variables keep their types.
THEOREM TypeCorrect == Spec => []TypeOK
BY InitType, NextType, PTL DEF Spec
-----------------------------------------------------------------------------
(* Receipts are genuine *)

\* What is genuine stays genuine while messages are only added to the history.
LEMMA GenuineStays ==
    ASSUME issued \subseteq issued', handled \subseteq handled'
    PROVE  /\ \A i : ItemGenuine(i) => ItemGenuine(i)'
           /\ \A n, m, e : EntryGenuine(n, m, e) => EntryGenuine(n, m, e)'
           /\ LinksGenuine /\ net' = net => LinksGenuine'
           /\ QueuesGenuine /\ incoming' = incoming => QueuesGenuine'
           /\ CachesGenuine /\ pending' = pending => CachesGenuine'
           /\ FilesGenuine /\ saved' = saved => FilesGenuine'
<1>1. ASSUME NEW i, ItemGenuine(i) PROVE ItemGenuine(i)'
  BY <1>1 DEF ItemGenuine
<1>2. ASSUME NEW n, NEW m, NEW e, EntryGenuine(n, m, e)
      PROVE  EntryGenuine(n, m, e)'
  BY <1>2 DEF EntryGenuine
<1>3. ASSUME LinksGenuine, net' = net PROVE LinksGenuine'
  BY <1>1, <1>3 DEF LinksGenuine
<1>4. ASSUME QueuesGenuine, incoming' = incoming PROVE QueuesGenuine'
  BY <1>1, <1>4 DEF QueuesGenuine
<1>5. ASSUME CachesGenuine, pending' = pending PROVE CachesGenuine'
  BY <1>2, <1>5 DEF CachesGenuine
<1>6. ASSUME FilesGenuine, saved' = saved PROVE FilesGenuine'
  BY <1>2, <1>6 DEF FilesGenuine
<1> QED BY <1>1, <1>2, <1>3, <1>4, <1>5, <1>6

\* Losing what is on some links keeps the rest genuine.
LEMMA LostGenuine ==
    ASSUME TypeOK, LinksGenuine, NEW links, net' = Lost(links),
           issued' = issued, handled' = handled
    PROVE  LinksGenuine'
<1> SUFFICES ASSUME NEW l \in Link, NEW i \in Item, net'[l][i] > 0
             PROVE  ItemGenuine(i)'
  BY DEF LinksGenuine
<1>1. net[l][i] > 0
  BY DEF Lost, NoItems
<1> QED BY <1>1, GenuineStays DEF LinksGenuine

\* Sending items of genuine messages keeps the links genuine.
LEMMA SendingGenuine ==
    ASSUME TypeOK, LinksGenuine, NEW n, NEW sent,
           net' = Sending(n, sent), issued' = issued, handled' = handled,
           \A p \in Peer : \A i \in sent[p] : ItemGenuine(i)
    PROVE  LinksGenuine'
<1> SUFFICES ASSUME NEW l \in Link, NEW i \in Item, net'[l][i] > 0
             PROVE  ItemGenuine(i)'
  BY DEF LinksGenuine
<1>1. net'[l][i] = IF l[2] = n /\ l \in Carrying /\ i \in sent[<<l[1], l[3]>>]
                   THEN net[l][i] + 1 ELSE net[l][i]
  BY DEF Sending
<1>2. <<l[1], l[3]>> \in Peer
  BY DEF Link, Peer
<1>3. ItemGenuine(i)
  BY <1>1, <1>2 DEF LinksGenuine
<1> QED BY <1>3, GenuineStays

\* A routing round changes neither the role of an entry nor whether it has a
\* receipt.
LEMMA RoundKeeps ==
    ASSUME NEW e \in Entry, NEW hops, NEW answered, now \in Nat
    PROVE  LET f == Struck(Routed(e, hops), answered) IN
           f # None /\ f.role = e.role /\ f.receipt = e.receipt
<1>1. /\ Routed(e, hops) \in Entry
      /\ Routed(e, hops).role = e.role /\ Routed(e, hops).receipt = e.receipt
  <2>1. Routed(e, hops) \in Entry
    BY RoutedType
  <2>2. Routed(e, hops).role = e.role
    BY DEF Routed, Entry
  <2>3. Routed(e, hops).receipt = e.receipt
    BY DEF Routed, Entry
  <2> QED BY <2>1, <2>2, <2>3
<1> DEFINE g == Routed(e, hops)
<1> HIDE DEF g
<1>2. g \in Entry /\ g.role = e.role /\ g.receipt = e.receipt
  BY <1>1 DEF g
<1>3. Struck(g, answered) \in Entry
  BY <1>2, StruckType
<1>4. Struck(g, answered).role = g.role /\ Struck(g, answered).receipt = g.receipt
  BY <1>2 DEF Struck, Entry
<1>5. Struck(g, answered) # None
  BY <1>3 DEF Entry, None
<1> QED BY <1>2, <1>4, <1>5 DEF g

\* The item that handleIncoming() takes from the queue is genuine.
LEMMA HeadGenuine ==
    ASSUME TypeOK, Provenance, NEW n \in Node, incoming[n] # <<>>
    PROVE  /\ Head(incoming[n]).item.id \in Msg
           /\ ItemGenuine(Head(incoming[n]).item)
<1>1. incoming[n] \in Seq(QueuedItem)
  BY DEF TypeOK, Queues
<1>2. Head(incoming[n]) = incoming[n][1] /\ 1 \in DOMAIN incoming[n]
  <2>1. Len(incoming[n]) \in Nat /\ Len(incoming[n]) # 0
        /\ DOMAIN incoming[n] = 1 .. Len(incoming[n])
    BY <1>1, LenProperties, EmptySeq
  <2> QED BY <1>1, <2>1
<1>3. Head(incoming[n]) \in QueuedItem
  BY <1>1, HeadTailProperties
<1> QED BY <1>2, <1>3 DEF Provenance, QueuesGenuine, QueuedItem, Item

\* No step makes anything that is not genuine.
LEMMA NextGenuine ==
    TypeOK /\ Provenance /\ [Next]_vars => Provenance'
<1> SUFFICES ASSUME TypeOK, Provenance, [Next]_vars PROVE Provenance'
  OBVIOUS
<1>0. LinksGenuine /\ QueuesGenuine /\ CachesGenuine /\ FilesGenuine
  BY DEF Provenance
<1>1. ASSUME NEW m \in Msg, SendData(m) PROVE Provenance'
  <2>1. issued' = issued \cup {m} /\ handled' = handled
    BY <1>1 DEF SendData
  <2>2. UNCHANGED <<incoming, net, saved>>
    BY <1>1 DEF SendData
  <2>3. LinksGenuine' /\ QueuesGenuine' /\ FilesGenuine'
    BY <1>0, <2>1, <2>2, GenuineStays
  <2>4. CachesGenuine'
    <3> SUFFICES ASSUME NEW n \in Node, NEW k \in Msg
                 PROVE  EntryGenuine(n, k, pending[n][k])'
      BY DEF CachesGenuine
    <3>1. CASE n = Origin[m] /\ k = m
      BY <1>1, <2>1, <3>1 DEF SendData, EntryGenuine, TypeOK, Caches
    <3>2. CASE ~(n = Origin[m] /\ k = m)
      <4>1. pending'[n][k] = pending[n][k]
        BY <1>1, <3>2 DEF SendData, TypeOK, Caches
      <4>2. EntryGenuine(n, k, pending[n][k])
        BY <1>0 DEF CachesGenuine
      <4> QED BY <2>1, <4>1, <4>2 DEF EntryGenuine
    <3> QED BY <3>1, <3>2
  <2> QED BY <2>3, <2>4 DEF Provenance
<1>2. ASSUME NEW m \in Msg, Cancel(m) PROVE Provenance'
  <2>1. UNCHANGED <<issued, handled, incoming, net, saved>>
    BY <1>2 DEF Cancel
  <2>2. LinksGenuine' /\ QueuesGenuine' /\ FilesGenuine'
    BY <1>0, <2>1, GenuineStays
  <2>3. CachesGenuine'
    <3> SUFFICES ASSUME NEW n \in Node, NEW k \in Msg
                 PROVE  EntryGenuine(n, k, pending[n][k])'
      BY DEF CachesGenuine
    <3>1. pending'[n][k] \in {None, pending[n][k]}
      BY <1>2 DEF Cancel, TypeOK, Caches
    <3>2. EntryGenuine(n, k, pending[n][k])
      BY <1>0 DEF CachesGenuine
    <3> QED BY <2>1, <3>1, <3>2 DEF EntryGenuine
  <2> QED BY <2>2, <2>3 DEF Provenance
<1>3. ASSUME \/ \E n, d, f \in Node : AddRoutingClue(n, d, f)
             \/ \E n \in Node : LowLevelDone(n) \/ IdleTick(n)
             \/ Clock \/ UNCHANGED vars
      PROVE  Provenance'
  <2>1. UNCHANGED <<issued, handled, incoming, net, saved, pending>>
    BY <1>3 DEF AddRoutingClue, LowLevelDone, IdleTick, Clock, vars, history
  <2> QED BY <1>0, <2>1, GenuineStays DEF Provenance
<1>4. ASSUME NEW l \in Link, NEW m \in Msg, ReceiveAck(l, m)
      PROVE  Provenance'
  <2>1. UNCHANGED <<issued, handled, incoming, saved>>
    BY <1>4 DEF ReceiveAck, history
  <2>2. QueuesGenuine' /\ FilesGenuine'
    BY <1>0, <2>1, GenuineStays
  <2>3. LinksGenuine'
    <3> SUFFICES ASSUME NEW k \in Link, NEW i \in Item, net'[k][i] > 0
                 PROVE  ItemGenuine(i)'
      BY DEF LinksGenuine
    <3>1. net[k][i] \in Nat /\ net'[k][i] \in {net[k][i], net[k][i] - 1}
      BY <1>4 DEF ReceiveAck, TypeOK, Channels
    <3>2. net[k][i] > 0
      BY <3>1
    <3> QED BY <1>0, <2>1, <3>2, GenuineStays DEF LinksGenuine
  <2>4. CachesGenuine'
    <3> SUFFICES ASSUME NEW n \in Node, NEW k \in Msg
                 PROVE  EntryGenuine(n, k, pending[n][k])'
      BY DEF CachesGenuine
    <3> DEFINE e == pending[n][k]
               new == [e EXCEPT !.status = "SENT", !.lastSent = now]
    <3>1. pending'[n][k] = e \/ (e # None /\ pending'[n][k] = new)
      <4>1. CASE pending' = pending
        BY <4>1
      <4>2. CASE pending' # pending
        <5>1. /\ Holds(l[3], m)
              /\ pending' = [pending EXCEPT ![l[3]][m] =
                               [@ EXCEPT !.status = "SENT", !.lastSent = now]]
          BY <1>4, <4>2 DEF ReceiveAck, AwaitsAck
        <5>2. l[3] \in Node
          BY ReverseLink
        <5>3. CASE n = l[3] /\ k = m
          BY <5>1, <5>3 DEF Holds, TypeOK, Caches
        <5>4. CASE ~(n = l[3] /\ k = m)
          BY <5>1, <5>2, <5>4 DEF TypeOK, Caches
        <5> QED BY <5>3, <5>4
      <4> QED BY <4>1, <4>2
    <3>2. e # None => new.role = e.role /\ new.receipt = e.receipt
      BY DEF TypeOK, Caches, Slot, Entry
    <3>3. EntryGenuine(n, k, e)
      BY <1>0 DEF CachesGenuine
    <3> HIDE DEF e, new
    <3> QED BY <2>1, <3>1, <3>2, <3>3 DEF EntryGenuine
  <2> QED BY <2>2, <2>3, <2>4 DEF Provenance
<1>5. ASSUME NEW l \in Link, NEW item \in Item, ReceiveItem(l, item)
      PROVE  Provenance'
  <2>1. UNCHANGED <<issued, handled, pending, saved>>
    BY <1>5 DEF ReceiveItem, history
  <2>2. CachesGenuine' /\ FilesGenuine'
    BY <1>0, <2>1, GenuineStays
  <2>3. ItemGenuine(item) /\ item.id \in issued
    BY <1>0, <1>5 DEF ReceiveItem, LinksGenuine, ItemGenuine
  <2>4. ItemGenuine(Ack(item.id))
    BY <2>3 DEF ItemGenuine, Ack
  <2>5. LinksGenuine'
    <3> SUFFICES ASSUME NEW k \in Link, NEW i \in Item, net'[k][i] > 0
                 PROVE  ItemGenuine(i)
      BY <2>1, GenuineStays DEF LinksGenuine
    <3>1. CASE i = Ack(item.id)
      BY <2>4, <3>1
    <3>2. CASE i # Ack(item.id)
      <4>1. net[k][i] \in Nat /\ net'[k][i] \in {net[k][i], net[k][i] - 1}
        <5>1. Reverse(l) \in Link /\ Ack(item.id) \in Item
          BY ReverseLink, ItemTypes DEF Item
        <5> QED BY <1>5, <3>2, <5>1 DEF ReceiveItem, TypeOK, Channels
      <4>2. net[k][i] > 0
        BY <4>1
      <4> QED BY <1>0, <4>2 DEF LinksGenuine
    <3> QED BY <3>1, <3>2
  <2>6. QueuesGenuine'
    <3> DEFINE n == l[3]
               q == incoming[n]
               new == [item |-> item, from |-> Sender(l)]
    <3>1. n \in Node /\ Sender(l) \in Peer
      BY ReverseLink
    <3>2. q \in Seq(QueuedItem) /\ new \in QueuedItem
      BY <3>1 DEF TypeOK, Queues, QueuedItem
    <3>3. incoming' = [incoming EXCEPT ![n] = Append(q, new)]
      BY <1>5 DEF ReceiveItem
    <3>4. ASSUME NEW k \in DOMAIN Append(q, new)
          PROVE  ItemGenuine(Append(q, new)[k].item)
      <4>1. /\ k \in 1 .. Len(q) => Append(q, new)[k] = q[k]
            /\ k \notin 1 .. Len(q) => Append(q, new)[k] = new
        BY <3>2, AppendProperties
      <4>2. k \in 1 .. Len(q) => k \in DOMAIN q
        BY <3>2, LenProperties
      <4>3. \A j \in DOMAIN q : ItemGenuine(q[j].item)
        BY <1>0, <3>1 DEF QueuesGenuine
      <4>4. new.item = item
        OBVIOUS
      <4> HIDE DEF q, new
      <4> QED BY <2>3, <4>1, <4>2, <4>3, <4>4
    <3>5. ASSUME NEW j \in Node, NEW k \in DOMAIN incoming'[j]
          PROVE  ItemGenuine(incoming'[j][k].item)
      <4> HIDE DEF q, new
      <4>1. CASE j = n
        <5>1. incoming'[j] = Append(q, new)
          BY <3>1, <3>3, <4>1 DEF TypeOK, Queues
        <5> QED BY <3>4, <5>1
      <4>2. CASE j # n
        <5>1. incoming'[j] = incoming[j]
          BY <3>3, <4>2 DEF TypeOK, Queues
        <5> QED BY <1>0, <5>1 DEF QueuesGenuine
      <4> QED BY <4>1, <4>2
    <3> QED BY <2>1, <3>5, GenuineStays DEF QueuesGenuine
  <2> QED BY <2>2, <2>5, <2>6 DEF Provenance
<1>6. ASSUME NEW n \in Node, incoming[n] # <<>>,
             incoming' = [incoming EXCEPT ![n] = Tail(@)],
             issued' = issued, handled \subseteq handled'
      PROVE  QueuesGenuine'
  <2>1. incoming[n] \in Seq(QueuedItem)
    BY DEF TypeOK, Queues
  <2>2. ASSUME NEW j \in Node, NEW k \in DOMAIN incoming'[j]
        PROVE  ItemGenuine(incoming'[j][k].item)
    <3>1. CASE j = n
      <4>1. incoming'[j] = Tail(incoming[n])
        BY <1>6, <3>1 DEF TypeOK, Queues
      <4>2. k \in 1 .. Len(incoming[n]) - 1
            /\ incoming'[j][k] = incoming[n][k + 1]
        <5>1. Tail(incoming[n]) \in Seq(QueuedItem)
          BY <1>6, <2>1, HeadTailProperties
        <5>2. Len(Tail(incoming[n])) = Len(incoming[n]) - 1
          BY <1>6, <2>1, HeadTailProperties
        <5>3. k \in 1 .. Len(Tail(incoming[n]))
          BY <4>1, <5>1, LenProperties
        <5>4. Tail(incoming[n])[k] = incoming[n][k + 1]
          BY <1>6, <2>1, <5>2, <5>3, HeadTailProperties
        <5> QED BY <4>1, <5>2, <5>3, <5>4
      <4>3. k + 1 \in DOMAIN incoming[n]
        <5>1. Len(incoming[n]) \in Nat /\ DOMAIN incoming[n] = 1 .. Len(incoming[n])
          BY <2>1, LenProperties
        <5> QED BY <4>2, <5>1
      <4> QED BY <1>0, <4>2, <4>3 DEF QueuesGenuine
    <3>2. CASE j # n
      <4>1. incoming'[j] = incoming[j]
        BY <1>6, <3>2 DEF TypeOK, Queues
      <4> QED BY <1>0, <4>1 DEF QueuesGenuine
    <3> QED BY <3>1, <3>2
  <2> QED BY <1>6, <2>2, GenuineStays DEF QueuesGenuine
<1>8. ASSUME NEW n \in Node, NEW outcome, HandleIncomingDataItem(n, outcome)
      PROVE  Provenance'
  <2> DEFINE h == Head(incoming[n])
             m == h.item.id
             info == IF Holds(n, m) THEN pending[n][m]
                                    ELSE NewEntry(n = Dest[m])
             new == [info EXCEPT !.routes = @ \cup {h.from}]
             first == n = Dest[m] /\ ~Holds(n, m)
  <2>1. incoming[n] # <<>> /\ incoming' = [incoming EXCEPT ![n] = Tail(@)]
    BY <1>8 DEF HandleIncomingDataItem
  <2>2. UNCHANGED <<issued, net, saved>>
    BY <1>8 DEF HandleIncomingDataItem, requests
  <2>3. handled \subseteq handled' /\ m \in Msg /\ m \in issued
    BY HeadGenuine, <1>8, <2>1 DEF HandleIncomingDataItem, ItemGenuine
  <2>4. LinksGenuine' /\ QueuesGenuine' /\ FilesGenuine'
    BY <1>0, <1>6, <2>1, <2>2, <2>3, GenuineStays
  <2>5. CachesGenuine'
    <3>1. CASE pending' = pending
      BY <1>0, <2>2, <2>3, <3>1, GenuineStays
    <3>2. CASE pending' # pending
      <4>1. pending' = [pending EXCEPT ![n][m] = new]
        BY <1>8, <3>2 DEF HandleIncomingDataItem
      <4>2. first => m \in handled'
        BY <1>8, <3>2 DEF HandleIncomingDataItem, Dropped
      <4>3. info \in Entry
        <5>1. Holds(n, m) => pending[n][m] \in Entry
          BY <2>3 DEF TypeOK, Caches, Slot, Holds
        <5> QED BY <5>1, NewEntryType DEF TypeOK
      <4>4. new.role = info.role /\ new.receipt = info.receipt
        <5> HIDE DEF info
        <5> QED BY <4>3 DEF Entry
      <4>5. /\ new.role = "origin" => n = Origin[m]
            /\ new.receipt => m \in handled'
        <5>1. CASE Holds(n, m)
          <6>1. info = pending[n][m] /\ info # None
            BY <5>1 DEF Holds
          <6>2. EntryGenuine(n, m, info)
            BY <1>0, <2>3, <6>1 DEF CachesGenuine
          <6> HIDE DEF info, new, m
          <6> QED BY <2>3, <4>4, <6>1, <6>2 DEF EntryGenuine
        <5>2. CASE ~Holds(n, m)
          <6>1. info.role # "origin" /\ (info.receipt => n = Dest[m])
            BY <5>2 DEF NewEntry
          <6>2. info.receipt => m \in handled'
            BY <4>2, <5>2, <6>1
          <6> HIDE DEF info, new, m
          <6> QED BY <4>4, <6>1, <6>2
        <5> QED BY <5>1, <5>2
      <4> SUFFICES ASSUME NEW j \in Node, NEW k \in Msg
                   PROVE  EntryGenuine(j, k, pending[j][k])'
        BY DEF CachesGenuine
      <4>6. CASE j = n /\ k = m
        <5>1. pending'[j][k] = new
          BY <2>3, <4>1, <4>6 DEF TypeOK, Caches
        <5> HIDE DEF new, m
        <5> QED BY <2>2, <2>3, <4>5, <4>6, <5>1 DEF EntryGenuine
      <4>7. CASE ~(j = n /\ k = m)
        <5>1. pending'[j][k] = pending[j][k]
          BY <2>3, <4>1, <4>7 DEF TypeOK, Caches
        <5>2. EntryGenuine(j, k, pending[j][k])
          BY <1>0 DEF CachesGenuine
        <5> QED BY <2>2, <2>3, <5>1, <5>2 DEF EntryGenuine
      <4> QED BY <4>6, <4>7
    <3> QED BY <3>1, <3>2
  <2> QED BY <2>4, <2>5 DEF Provenance
<1>9. ASSUME NEW n \in Node, NEW accepted, HandleIncomingReceiptItem(n, accepted)
      PROVE  Provenance'
  <2> DEFINE m == Head(incoming[n]).item.id
             e == pending[n][m]
             new == IF e.role = "origin" THEN [e EXCEPT !.status = "DONE"]
                    ELSE [e EXCEPT !.status = "RECEIPT_OK", !.receipt = TRUE]
  <2>1. incoming[n] # <<>> /\ incoming' = [incoming EXCEPT ![n] = Tail(@)]
    BY <1>9 DEF HandleIncomingReceiptItem
  <2>2. UNCHANGED <<issued, handled, net, saved>>
    BY <1>9 DEF HandleIncomingReceiptItem, requests
  <2>3. m \in Msg /\ m \in issued /\ m \in handled
    BY HeadGenuine, <1>9, <2>1 DEF HandleIncomingReceiptItem, ItemGenuine
  <2>4. LinksGenuine' /\ QueuesGenuine' /\ FilesGenuine'
    BY <1>0, <1>6, <2>1, <2>2, GenuineStays
  <2>5. CachesGenuine'
    <3>1. CASE pending' = pending
      BY <1>0, <2>2, <3>1, GenuineStays
    <3>2. CASE pending' # pending
      <4>1. Holds(n, m) /\ pending' = [pending EXCEPT ![n][m] = new]
        BY <1>9, <3>2 DEF HandleIncomingReceiptItem, WithReceipt
      <4>2. e \in Entry
        BY <2>3, <4>1 DEF TypeOK, Caches, Slot, Holds
      <4>3. new.role = e.role
        <5> HIDE DEF e
        <5> QED BY <4>2 DEF Entry
      <4>4. EntryGenuine(n, m, e) /\ e # None
        BY <1>0, <2>3, <4>1 DEF CachesGenuine, Holds
      <4> SUFFICES ASSUME NEW j \in Node, NEW k \in Msg
                   PROVE  EntryGenuine(j, k, pending[j][k])'
        BY DEF CachesGenuine
      <4>5. CASE j = n /\ k = m
        <5>1. pending'[j][k] = new
          BY <2>3, <4>1, <4>5 DEF TypeOK, Caches
        <5> HIDE DEF new, m, e
        <5> QED BY <2>2, <2>3, <4>3, <4>4, <4>5, <5>1 DEF EntryGenuine
      <4>6. CASE ~(j = n /\ k = m)
        <5>1. pending'[j][k] = pending[j][k]
          BY <2>3, <4>1, <4>6 DEF TypeOK, Caches
        <5>2. EntryGenuine(j, k, pending[j][k])
          BY <1>0 DEF CachesGenuine
        <5> QED BY <2>2, <5>1, <5>2 DEF EntryGenuine
      <4> QED BY <4>5, <4>6
    <3> QED BY <3>1, <3>2
  <2> QED BY <2>4, <2>5 DEF Provenance
<1>10. ASSUME NEW n \in Node, RoutePendingObjects(n) PROVE Provenance'
  <2>1. UNCHANGED <<issued, handled, incoming, saved>>
    BY <1>10 DEF RoutePendingObjects, history
  <2>2. QueuesGenuine' /\ FilesGenuine'
    BY <1>0, <2>1, GenuineStays
  <2>3. PICK hops :
          LET held == {m \in Msg : Holds(n, m)}
              answered(m) == Answered(n, pending[n][m], hops[m])
              sent(p) == {Data(m) : m \in {k \in held : p \in hops[k]}} \cup
                         {Receipt(m) : m \in {k \in held : p \in answered(k)}}
          IN
          /\ pending' = [pending EXCEPT ![n] = [m \in Msg |->
               IF m \in held
               THEN Struck(Routed(pending[n][m], hops[m]), answered(m))
               ELSE None]]
          /\ net' = Sending(n, [p \in Peer |-> sent(p)])
    BY <1>10 DEF RoutePendingObjects
  <2> DEFINE answered(m) == Answered(n, pending[n][m], hops[m])
             new(m) == Struck(Routed(pending[n][m], hops[m]), answered(m))
             sent(p) == {Data(m) : m \in {k \in {j \in Msg : Holds(n, j)} :
                                            p \in hops[k]}} \cup
                        {Receipt(m) : m \in {k \in {j \in Msg : Holds(n, j)} :
                                               p \in answered(k)}}
  <2>4. ASSUME NEW m \in Msg, Holds(n, m)
        PROVE  /\ pending[n][m] \in Entry
               /\ m \in issued
               /\ pending[n][m].receipt => m \in handled
    BY <1>0, <2>4 DEF TypeOK, Caches, Slot, Holds, CachesGenuine, EntryGenuine
  <2>5. LinksGenuine'
    <3>1. ASSUME NEW p \in Peer, NEW i \in sent(p) PROVE ItemGenuine(i)
      <4>1. CASE \E m \in Msg : Holds(n, m) /\ i = Data(m)
        BY <2>4, <4>1 DEF ItemGenuine, Data
      <4>2. CASE \E m \in Msg : Holds(n, m) /\ p \in answered(m) /\ i = Receipt(m)
        <5>1. PICK m \in Msg : Holds(n, m) /\ p \in answered(m) /\ i = Receipt(m)
          BY <4>2
        <5>2. pending[n][m].receipt
          BY <5>1 DEF Answered
        <5> QED BY <2>4, <5>1, <5>2 DEF ItemGenuine, Receipt
      <4> QED BY <4>1, <4>2
    <3>2. net' = Sending(n, [p \in Peer |-> sent(p)])
      BY <2>3
    <3> HIDE DEF sent
    <3>3. \A p \in Peer : \A i \in [q \in Peer |-> sent(q)][p] : ItemGenuine(i)
      BY <3>1
    <3> QED BY <1>0, <2>1, <3>2, <3>3, SendingGenuine
  <2>6. CachesGenuine'
    <3> SUFFICES ASSUME NEW j \in Node, NEW k \in Msg
                 PROVE  EntryGenuine(j, k, pending[j][k])'
      BY DEF CachesGenuine
    <3>1. EntryGenuine(j, k, pending[j][k])
      BY <1>0 DEF CachesGenuine
    <3>2. CASE j = n /\ Holds(n, k)
      <4>1. pending'[j][k] = new(k)
        BY <2>3, <3>2 DEF TypeOK, Caches
      <4>2. /\ new(k).role = pending[n][k].role
            /\ new(k).receipt = pending[n][k].receipt
        BY <2>4, <3>2, RoundKeeps DEF TypeOK
      <4> HIDE DEF new
      <4> QED BY <2>1, <3>1, <3>2, <4>1, <4>2 DEF EntryGenuine, Holds
    <3>3. CASE ~(j = n /\ Holds(n, k))
      <4>1. pending'[j][k] \in {None, pending[j][k]}
        BY <2>3, <3>3 DEF TypeOK, Caches
      <4> QED BY <2>1, <3>1, <4>1 DEF EntryGenuine
    <3> QED BY <3>2, <3>3
  <2> QED BY <2>2, <2>5, <2>6 DEF Provenance
<1>11. ASSUME NEW n \in Node, AutoWash(n) PROVE Provenance'
  <2>1. UNCHANGED <<issued, handled, incoming, saved, net>>
    BY <1>11 DEF AutoWash, requests
  <2>2. LinksGenuine' /\ QueuesGenuine' /\ FilesGenuine'
    BY <1>0, <2>1, GenuineStays
  <2>3. CachesGenuine'
    <3> SUFFICES ASSUME NEW j \in Node, NEW k \in Msg
                 PROVE  EntryGenuine(j, k, pending[j][k])'
      BY DEF CachesGenuine
    <3>1. pending'[j][k] \in {None, pending[j][k]}
      BY <1>11 DEF AutoWash, TypeOK, Caches
    <3>2. EntryGenuine(j, k, pending[j][k])
      BY <1>0 DEF CachesGenuine
    <3> QED BY <2>1, <3>1, <3>2 DEF EntryGenuine
  <2> QED BY <2>2, <2>3 DEF Provenance
<1>12. ASSUME NEW n \in Node, SaveConfig(n) PROVE Provenance'
  <2>1. UNCHANGED <<issued, handled, incoming, pending, net>>
    BY <1>12 DEF SaveConfig, history
  <2>2. LinksGenuine' /\ QueuesGenuine' /\ CachesGenuine'
    BY <1>0, <2>1, GenuineStays
  <2>3. FilesGenuine'
    <3> SUFFICES ASSUME NEW j \in Node, NEW k \in Msg
                 PROVE  EntryGenuine(j, k, saved[j].pending[k])'
      BY DEF FilesGenuine
    <3> DEFINE new == [pending[n][k] EXCEPT !.transaction = 0]
    <3>1. CASE j # n
      <4>1. saved'[j] = saved[j]
        BY <1>12, <3>1 DEF SaveConfig, TypeOK, Files
      <4>2. EntryGenuine(j, k, saved[j].pending[k])
        BY <1>0 DEF FilesGenuine
      <4> QED BY <2>1, <4>1, <4>2 DEF EntryGenuine
    <3>2. CASE j = n
      <4>1. saved'[j].pending[k] = IF Holds(n, k) THEN new ELSE None
        BY <1>12, <3>2 DEF SaveConfig, TypeOK, Files
      <4>2. Holds(n, k) => /\ new.role = pending[n][k].role
                           /\ new.receipt = pending[n][k].receipt
        BY DEF TypeOK, Caches, Slot, Holds, Entry
      <4>3. EntryGenuine(n, k, pending[n][k])
        BY <1>0 DEF CachesGenuine
      <4> HIDE DEF new
      <4> QED BY <2>1, <3>2, <4>1, <4>2, <4>3 DEF EntryGenuine, Holds
    <3> QED BY <3>1, <3>2
  <2> QED BY <2>2, <2>3 DEF Provenance
<1>13. ASSUME NEW x \in Node, Crash(x) PROVE Provenance'
  <2>1. UNCHANGED <<issued, handled, saved>>
    BY <1>13 DEF Crash, history
  <2>2. FilesGenuine'
    BY <1>0, <2>1, GenuineStays
  <2>3. LinksGenuine'
    <3> SUFFICES ASSUME NEW l \in Link, NEW i \in Item, net'[l][i] > 0
                 PROVE  ItemGenuine(i)
      BY <2>1, GenuineStays DEF LinksGenuine
    <3>1. net[l][i] > 0
      BY <1>13 DEF Crash, NoItems
    <3> QED BY <1>0, <3>1 DEF LinksGenuine
  <2>4. QueuesGenuine'
    <3> SUFFICES ASSUME NEW n \in Node, NEW k \in DOMAIN incoming'[n]
                 PROVE  ItemGenuine(incoming'[n][k].item)
      BY <2>1, GenuineStays DEF QueuesGenuine
    <3>1. n # x
      BY <1>13 DEF Crash
    <3>2. incoming'[n] = [i \in DOMAIN incoming[n] |->
             [incoming[n][i] EXCEPT !.from = Outdated(n, x, @)]]
      BY <1>13, <3>1 DEF Crash
    <3>3. k \in DOMAIN incoming[n]
      BY <3>2
    <3>4. incoming[n][k] \in QueuedItem
      <4>1. incoming[n] \in Seq(QueuedItem)
        BY DEF TypeOK, Queues
      <4> QED BY <3>3, <4>1, LenProperties, ElementOfSeq
    <3>5. incoming'[n][k].item = incoming[n][k].item
      BY <3>2, <3>3, <3>4 DEF QueuedItem
    <3> QED BY <1>0, <3>3, <3>5 DEF QueuesGenuine
  <2>5. CachesGenuine'
    <3> SUFFICES ASSUME NEW n \in Node, NEW m \in Msg
                 PROVE  EntryGenuine(n, m, pending'[n][m])
      BY <2>1, GenuineStays DEF CachesGenuine, EntryGenuine
    <3> DEFINE e == IF n = x THEN saved[x].pending[m] ELSE pending[n][m]
               new == [e EXCEPT !.routes = {Outdated(n, x, p) : p \in @}]
    <3>1. pending'[n][m] = IF e = None THEN None ELSE new
      BY <1>13 DEF Crash
    <3>2. e \in Slot
      BY DEF TypeOK, Caches, Files
    <3>3. EntryGenuine(n, m, e)
      BY <1>0 DEF CachesGenuine, FilesGenuine
    <3> HIDE DEF e
    <3>4. e # None => new.role = e.role /\ new.receipt = e.receipt
      BY <3>2 DEF Slot, Entry
    <3> HIDE DEF new
    <3> QED BY <3>1, <3>3, <3>4 DEF EntryGenuine
  <2> QED BY <2>2, <2>3, <2>4, <2>5 DEF Provenance
<1>14. ASSUME NEW l \in Link,
              LinkUp(l) \/ LinkDown(l) \/ CloseTunnel(l) \/ IdleTunnel(l)
       PROVE  Provenance'
  <2>1. UNCHANGED <<issued, handled, incoming, saved, pending>>
    BY <1>14 DEF LinkUp, LinkDown, CloseTunnel, IdleTunnel, history
  <2>2. net' = net \/ \E links : net' = Lost(links)
    BY <1>14 DEF LinkUp, LinkDown, CloseTunnel, IdleTunnel
  <2>3. LinksGenuine'
    BY <1>0, <2>1, <2>2, GenuineStays, LostGenuine
  <2> QED BY <1>0, <2>1, <2>3, GenuineStays DEF Provenance
<1> QED
  BY <1>1, <1>2, <1>3, <1>4, <1>5, <1>8, <1>9, <1>10, <1>11, <1>12, <1>13,
     <1>14
  DEF Next, Client, Tick, HandleIncoming, Receive

\* In the initial states there is nothing to be genuine.
LEMMA InitGenuine == Init => Provenance
<1> SUFFICES ASSUME Init PROVE Provenance
  OBVIOUS
<1>1. LinksGenuine
  BY DEF Init, LinksGenuine, NoItems
<1>2. QueuesGenuine
  BY DEF Init, QueuesGenuine
<1>3. CachesGenuine
  BY DEF Init, CachesGenuine, EntryGenuine
<1>4. FilesGenuine
  BY DEF Init, FilesGenuine, EntryGenuine
<1> QED BY <1>1, <1>2, <1>3, <1>4 DEF Provenance

\* Every item and every entry, live or saved, descends from a sendData(), and
\* every receipt from a message that its destination handled.
THEOREM Genuine == Spec => []Provenance
BY InitType, InitGenuine, NextType, NextGenuine, PTL DEF Spec

\* Only handleIncomingReceiptItem() notifies RECEIVED, about the receipt at the
\* head of the queue, and only if the entry is the origin's own.
LEMMA NextSound ==
    TypeOK /\ Provenance /\ ReceiptSound /\ [Next]_vars => ReceiptSound'
<1> SUFFICES ASSUME TypeOK, Provenance, ReceiptSound, [Next]_vars,
                    NEW n \in Node, NEW m \in Msg,
                    <<n, m, "RECEIVED">> \in told'
             PROVE  n = Origin[m] /\ m \in handled'
  BY DEF ReceiptSound
<1>1. CASE <<n, m, "RECEIVED">> \in told
  <2>1. n = Origin[m] /\ m \in handled
    BY <1>1 DEF ReceiptSound
  <2>2. handled \subseteq handled'
    <3>1. ASSUME NEW x \in Node, NEW outcome, HandleIncomingDataItem(x, outcome)
          PROVE  handled \subseteq handled'
      BY <3>1 DEF HandleIncomingDataItem
    <3>2. \/ handled' = handled
          \/ \E x \in Node : \E outcome : HandleIncomingDataItem(x, outcome)
      BY DEF Next, vars, Client, SendData, Cancel, AddRoutingClue, Tick,
             LowLevelDone, IdleTick, HandleIncoming, HandleIncomingReceiptItem,
             RoutePendingObjects, AutoWash, SaveConfig, Crash, Receive,
             ReceiveAck, ReceiveItem, LinkUp, LinkDown, CloseTunnel,
             IdleTunnel, Clock, history
    <3> QED BY <3>1, <3>2
  <2> QED BY <2>1, <2>2
<1>2. CASE <<n, m, "RECEIVED">> \notin told
  <2>1. \E x \in Node, accepted \in BOOLEAN :
           HandleIncomingReceiptItem(x, accepted)
    <3>1. ASSUME NEW x \in Node, AutoWash(x) PROVE FALSE
      BY <1>2, <3>1 DEF AutoWash, FailureNotices
    <3>2. \/ told' = told
          \/ \E x \in Node : AutoWash(x)
          \/ \E x \in Node, accepted \in BOOLEAN :
                HandleIncomingReceiptItem(x, accepted)
      BY DEF Next, vars, Client, SendData, Cancel, AddRoutingClue, Tick,
             LowLevelDone, IdleTick, HandleIncoming, HandleIncomingDataItem,
             RoutePendingObjects, SaveConfig, Crash, Receive, ReceiveAck,
             ReceiveItem, LinkUp, LinkDown, CloseTunnel, IdleTunnel, Clock,
             history
    <3> QED BY <1>2, <3>1, <3>2
  <2>2. PICK x \in Node, accepted \in BOOLEAN :
           HandleIncomingReceiptItem(x, accepted)
    BY <2>1
  <2> DEFINE h == Head(incoming[x])
  <2>3. /\ incoming[x] # <<>> /\ h.item.type = "receipt"
        /\ n = x /\ m = h.item.id
        /\ Holds(n, m) /\ pending[n][m].role = "origin"
        /\ handled' = handled
    <3>1. told' # told
      BY <1>2
    <3>2. /\ Holds(x, h.item.id) /\ pending[x][h.item.id].role = "origin"
          /\ told' = told \cup {<<x, h.item.id, "RECEIVED">>}
      BY <2>2, <3>1 DEF HandleIncomingReceiptItem
    <3>3. n = x /\ m = h.item.id
      BY <1>2, <3>2
    <3>4. incoming[x] # <<>> /\ h.item.type = "receipt" /\ handled' = handled
      BY <2>2 DEF HandleIncomingReceiptItem
    <3> QED BY <3>2, <3>3, <3>4
  <2>4. m \in handled
    BY <2>3, HeadGenuine DEF ItemGenuine
  <2>5. n = Origin[m]
    BY <2>3 DEF Provenance, CachesGenuine, EntryGenuine, Holds
  <2> QED BY <2>3, <2>4, <2>5
<1> QED BY <1>1, <1>2

\* The client of a message is told RECEIVED only at its origin and only after
\* the destination signed a receipt, whatever is lost, duplicated, reordered or
\* forgotten in a crash.
THEOREM ReceiptsSound == Spec => []ReceiptSound
<1>1. Init => ReceiptSound
  BY DEF Init, ReceiptSound
<1> QED BY <1>1, InitType, InitGenuine, NextType, NextGenuine, NextSound, PTL
        DEF Spec
-----------------------------------------------------------------------------
(* Data is not sent again once the receipt is known *)

Known == {"RECEIPT_OK", "DONE"}

\* What NoReroute says of one step.
KnownStaysKnown ==
    \A n \in Node, m \in Msg :
        /\ Holds(n, m) /\ pending[n][m].status \in {"RECEIPT_OK", "DONE"}
        /\ Holds(n, m)' /\ crashes' = crashes
        => pending'[n][m].status \in {"RECEIPT_OK", "DONE"}

\* A routing round keeps an entry whose receipt is known as it is, or finishes
\* it.
LEMMA RoundKeepsKnown ==
    ASSUME NEW e \in Entry, NEW hops, NEW answered, e.status \in Known
    PROVE  Struck(Routed(e, hops), answered).status \in Known
<1>1. Routed(e, hops) = e
  BY DEF Routed, Known
<1>2. Struck(e, answered).status \in {"DONE", e.status}
  BY DEF Struck, Entry
<1> QED BY <1>1, <1>2 DEF Known

\* No step but a crash forgets that the receipt is known.
LEMMA NextKnown == TypeOK /\ Provenance /\ [Next]_vars => KnownStaysKnown
<1> SUFFICES ASSUME TypeOK, Provenance, [Next]_vars, NEW n \in Node, NEW m \in Msg,
                    Holds(n, m), pending[n][m].status \in Known,
                    Holds(n, m)', crashes' = crashes
             PROVE  pending'[n][m].status \in Known
  BY DEF KnownStaysKnown, Known
<1> DEFINE e == pending[n][m]
<1>0. e \in Entry
  BY DEF TypeOK, Caches, Slot, Holds
<1>1. ASSUME NEW k \in Msg, SendData(k) PROVE pending'[n][m].status \in Known
  <2>1. CASE n = Origin[k] /\ k = m
    BY <1>1, <2>1 DEF SendData, Provenance, CachesGenuine, EntryGenuine, Holds
  <2>2. CASE ~(n = Origin[k] /\ k = m)
    BY <1>1, <2>2 DEF SendData, TypeOK, Caches
  <2> QED BY <2>1, <2>2
<1>2. ASSUME NEW k \in Msg, Cancel(k) PROVE pending'[n][m].status \in Known
  BY <1>2 DEF Cancel, TypeOK, Caches, Holds
<1>3. ASSUME pending' = pending PROVE pending'[n][m].status \in Known
  BY <1>3
<1>4. ASSUME NEW l \in Link, NEW k \in Msg, ReceiveAck(l, k)
      PROVE  pending'[n][m].status \in Known
  <2>1. CASE pending' = pending
    BY <2>1
  <2>2. CASE pending' # pending
    <3>1. /\ pending[l[3]][k].status = "ONGOING"
          /\ pending' = [pending EXCEPT ![l[3]][k] =
                           [@ EXCEPT !.status = "SENT", !.lastSent = now]]
      BY <1>4, <2>2 DEF ReceiveAck, AwaitsAck
    <3>2. ~(n = l[3] /\ m = k)
      BY <3>1 DEF Known
    <3>3. pending'[n][m] = pending[n][m]
      BY <3>1, <3>2, ReverseLink DEF TypeOK, Caches
    <3> QED BY <3>3
  <2> QED BY <2>1, <2>2
<1>5. ASSUME NEW x \in Node, NEW outcome, HandleIncomingDataItem(x, outcome)
      PROVE  pending'[n][m].status \in Known
  <2>1. CASE pending' = pending
    BY <2>1
  <2>2. CASE pending' # pending
    <3> DEFINE h == Head(incoming[x])
               k == h.item.id
               info == IF Holds(x, k) THEN pending[x][k]
                                      ELSE NewEntry(x = Dest[k])
               new == [info EXCEPT !.routes = @ \cup {h.from}]
    <3>1. pending' = [pending EXCEPT ![x][k] = new]
      BY <1>5, <2>2 DEF HandleIncomingDataItem
    <3>2. CASE n = x /\ m = k
      <4>1. new = [e EXCEPT !.routes = @ \cup {h.from}]
        BY <3>2
      <4>2. pending'[n][m] = new
        BY <3>1, <3>2 DEF TypeOK, Caches
      <4> HIDE DEF e, new, h
      <4>3. new.status = e.status
        BY <1>0, <4>1 DEF Entry
      <4> QED BY <4>2, <4>3 DEF e
    <3>3. CASE ~(n = x /\ m = k)
      BY <3>1, <3>3 DEF TypeOK, Caches
    <3> QED BY <3>2, <3>3
  <2> QED BY <2>1, <2>2
<1>6. ASSUME NEW x \in Node, NEW accepted, HandleIncomingReceiptItem(x, accepted)
      PROVE  pending'[n][m].status \in Known
  <2>1. CASE pending' = pending
    BY <2>1
  <2>2. CASE pending' # pending
    <3> DEFINE k == Head(incoming[x]).item.id
               new == IF pending[x][k].role = "origin"
                      THEN [pending[x][k] EXCEPT !.status = "DONE"]
                      ELSE [pending[x][k] EXCEPT !.status = "RECEIPT_OK",
                                                 !.receipt = TRUE]
    <3>1. pending' = [pending EXCEPT ![x][k] = new]
      BY <1>6, <2>2 DEF HandleIncomingReceiptItem, WithReceipt
    <3>2. CASE n = x /\ m = k
      <4>1. new = IF e.role = "origin" THEN [e EXCEPT !.status = "DONE"]
                  ELSE [e EXCEPT !.status = "RECEIPT_OK", !.receipt = TRUE]
        BY <3>2
      <4>2. pending'[n][m] = new
        BY <3>1, <3>2 DEF TypeOK, Caches
      <4> HIDE DEF e, new, k
      <4>3. new.status \in Known
        BY <1>0, <4>1 DEF Entry, Known
      <4> QED BY <4>2, <4>3
    <3>3. CASE ~(n = x /\ m = k)
      BY <3>1, <3>3 DEF TypeOK, Caches
    <3> QED BY <3>2, <3>3
  <2> QED BY <2>1, <2>2
<1>7. ASSUME NEW x \in Node, RoutePendingObjects(x)
      PROVE  pending'[n][m].status \in Known
  <2>1. PICK hops :
          LET held == {k \in Msg : Holds(x, k)}
              answered(k) == Answered(x, pending[x][k], hops[k])
          IN  pending' = [pending EXCEPT ![x] = [k \in Msg |->
                IF k \in held
                THEN Struck(Routed(pending[x][k], hops[k]), answered(k))
                ELSE None]]
    BY <1>7 DEF RoutePendingObjects
  <2>2. CASE n = x
    <3>1. pending'[n][m] = Struck(Routed(e, hops[m]), Answered(n, e, hops[m]))
      BY <2>1, <2>2 DEF TypeOK, Caches
    <3> QED BY <1>0, <3>1, RoundKeepsKnown
  <2>3. CASE n # x
    BY <2>1, <2>3 DEF TypeOK, Caches
  <2> QED BY <2>2, <2>3
<1>8. ASSUME NEW x \in Node, AutoWash(x) PROVE pending'[n][m].status \in Known
  <2>1. pending'[n][m] \in {None, pending[n][m]}
    BY <1>8 DEF AutoWash, TypeOK, Caches
  <2> QED BY <2>1 DEF Holds
<1>9. ASSUME NEW x \in Node, Crash(x) PROVE FALSE
  BY <1>9 DEF Crash, TypeOK
<1> QED
  BY <1>1, <1>2, <1>3, <1>4, <1>5, <1>6, <1>7, <1>8, <1>9
  DEF Next, vars, Client, Tick, HandleIncoming, Receive, AddRoutingClue,
      LowLevelDone, IdleTick, ReceiveItem, SaveConfig, LinkUp, LinkDown,
      CloseTunnel, IdleTunnel, Clock

\* Once a node knows the receipt of a message it never sends the data again:
\* only a crash brings an earlier status back.
THEOREM KnownReceipts == Spec => NoReroute
<1>1. TypeOK /\ Provenance /\ [Next]_vars => [KnownStaysKnown]_vars
  BY NextKnown
<1>2. NoReroute <=> [][KnownStaysKnown]_vars
  BY DEF NoReroute, KnownStaysKnown
<1> QED BY <1>1, <1>2, TypeCorrect, Genuine, PTL DEF Spec
-----------------------------------------------------------------------------
(* The routers implement the service *)

\* A step of the network is a step of the service or is invisible to it.
LEMMA NextImplements ==
    TypeOK /\ Provenance /\ ReceiptSound' /\ [Next]_vars
        => [Service!Next]_(Service!vars)
<1> SUFFICES ASSUME TypeOK, Provenance, ReceiptSound', [Next]_vars
             PROVE  Service!Next \/ UNCHANGED Service!vars
  OBVIOUS
<1>0. told' = told => Verdicts' = Verdicts
  BY DEF Verdicts
<1>1. ASSUME NEW m \in Msg, SendData(m) PROVE Service!Next
  <2>1. Service!Send(m)
    BY <1>0, <1>1 DEF SendData, Service!Send
  <2> QED BY <2>1 DEF Service!Next
<1>2. ASSUME NEW m \in Msg, Cancel(m) PROVE Service!Next
  <2>1. Service!Cancel(m)
    BY <1>0, <1>2 DEF Cancel, Service!Cancel
  <2> QED BY <2>1 DEF Service!Next
<1>3. ASSUME NEW n \in Node, NEW outcome, HandleIncomingDataItem(n, outcome)
      PROVE  Service!Next \/ UNCHANGED Service!vars
  <2> DEFINE m == Head(incoming[n]).item.id
  <2>1. UNCHANGED <<issued, cancelled, told>> /\ incoming[n] # <<>>
    BY <1>3 DEF HandleIncomingDataItem, requests
  <2>2. handled' = handled \/ handled' = handled \cup {m}
    BY <1>3 DEF HandleIncomingDataItem
  <2>3. m \in Msg /\ m \in issued
    BY <2>1, HeadGenuine DEF ItemGenuine
  <2>4. handled' = handled \cup {m} => Service!Accept(m)
    BY <1>0, <2>1, <2>3 DEF Service!Accept
  <2>5. handled' = handled => UNCHANGED Service!vars
    BY <1>0, <2>1 DEF Service!vars
  <2> QED BY <2>2, <2>3, <2>4, <2>5 DEF Service!Next
<1>4. ASSUME NEW n \in Node, NEW accepted, HandleIncomingReceiptItem(n, accepted)
      PROVE  Service!Next \/ UNCHANGED Service!vars
  <2> DEFINE m == Head(incoming[n]).item.id
  <2>1. /\ UNCHANGED <<issued, cancelled, handled>> /\ incoming[n] # <<>>
        /\ told' = told \/ told' = told \cup {<<n, m, "RECEIVED">>}
    BY <1>4 DEF HandleIncomingReceiptItem, requests
  <2>2. CASE told' = told
    BY <1>0, <2>1, <2>2 DEF Service!vars
  <2>3. CASE told' = told \cup {<<n, m, "RECEIVED">>}
    <3>1. m \in Msg
      BY <2>1, HeadGenuine
    <3>2. n = Origin[m] /\ m \in handled
      BY <2>1, <2>3, <3>1 DEF ReceiptSound
    <3>3. Verdicts' = Verdicts \cup {<<m, "RECEIVED">>}
      BY <2>3, <3>1, <3>2 DEF Verdicts
    <3>4. Service!Confirm(m)
      BY <2>1, <3>2, <3>3 DEF Service!Confirm
    <3> QED BY <3>1, <3>4 DEF Service!Next
  <2> QED BY <2>1, <2>2, <2>3
<1>5. ASSUME NEW n \in Node, AutoWash(n) PROVE Service!Next
  <2> DEFINE old == {m \in Msg : Holds(n, m) /\ Expired(pending[n][m])}
             failed == {m \in old : pending[n][m].status # "DONE"}
             M == {m \in failed : n = Origin[m]}
  <2>1. /\ UNCHANGED <<issued, cancelled, handled>>
        /\ told' = told \cup {<<n, m, "FAILED">> : m \in failed}
    BY <1>5 DEF AutoWash, requests, FailureNotices
  <2>2. failed \subseteq Msg /\ failed \subseteq issued
    BY DEF Provenance, CachesGenuine, EntryGenuine, Holds
  <2> HIDE DEF failed
  <2>3. Verdicts' = Verdicts \cup (M \X {"FAILED"})
    BY <2>1, <2>2 DEF Verdicts
  <2>4. M \in SUBSET Msg /\ Service!GiveUp(M)
    BY <2>1, <2>2, <2>3 DEF Service!GiveUp
  <2> QED BY <2>4 DEF Service!Next
<1>6. ASSUME UNCHANGED history PROVE UNCHANGED Service!vars
  BY <1>0, <1>6 DEF history, Service!vars
<1>7. UNCHANGED vars => UNCHANGED history
  BY DEF vars, history
<1> QED
  BY <1>1, <1>2, <1>3, <1>4, <1>5, <1>6, <1>7
  DEF Next, Client, Tick, HandleIncoming, Receive, AddRoutingClue,
      LowLevelDone, IdleTick, ReceiveAck, ReceiveItem, RoutePendingObjects,
      SaveConfig, Crash, LinkUp, LinkDown, CloseTunnel, IdleTunnel, Clock

\* The network of routers implements GRouterService: whatever links, tunnels
\* and crashes do, a client only sees what the service allows.
THEOREM Implements == Spec => ImplementsService
<1>1. Init => Service!Init
  BY DEF Init, Service!Init, Verdicts
<1> QED
  BY <1>1, TypeCorrect, Genuine, ReceiptsSound, NextImplements, PTL
  DEF Spec, ImplementsService, Service!Spec
=============================================================================
