-------------------------- MODULE GRouterCacheProofs --------------------------
(***************************************************************************)
(* What the caches of the routers promise, for every network, every set of *)
(* messages and every choice of delays and bounds: no entry waits for a    *)
(* receipt it has no route for (ReceiptHasRoute), no client gets a message *)
(* twice (DeliveredOnce), and none is forgotten silently (NoSilentLoss).   *)
(* Where friends form no cycle and no node crashed, no client is told two  *)
(* things of one message (OneVerdict): data only goes away from its origin *)
(* (OutwardInv), so no entry there outlives the report (Reported).         *)
(*                                                                         *)
(* The invariant: the destination of a message never sends the data on, so *)
(* no receipt ever comes to it, and its own entry, which stays RECEIPT_OK  *)
(* or DONE, can wait for nothing but a route back (EntryShape, Direction). *)
(* A relay has a route back as long as it is not about to be removed       *)
(* (Answerable).                                                           *)
(***************************************************************************)
EXTENDS GRouterProofs

\* An entry of node n for message m, in memory or in the configuration file.
EntryShape(n, m, e) ==
    e # None =>
        /\ e.role = "destination" <=> n = Dest[m]
        /\ e.role = "destination" => e.receipt /\ e.status \in Known
        /\ e.role = "origin" => ~e.receipt /\ e.status # "RECEIPT_OK"
        /\ e.status = "RECEIPT_OK" => e.receipt /\ e.routes # {}
        /\ e.role = "relay" => e.routes # {} \/ e.status = "DONE"
        /\ \A p \in e.routes : p[2] # Dest[m]
        /\ e.received >= StartTime

\* A relay knows where its message came from, but for the time between a
\* routing round that answered its last route and the wash that follows.
Answerable(e) == e # None /\ e.role = "relay" => e.routes # {}

\* Item i on its way from a to b.
Direction(i, a, b) == /\ i.type = "data" => a # Dest[i.id]
                      /\ i.type = "receipt" => b # Dest[i.id]

Shapes == \A n \in Node, m \in Msg :
              /\ EntryShape(n, m, pending[n][m])
              /\ EntryShape(n, m, saved[n].pending[m])

Relays == \A n \in Node, m \in Msg :
              /\ phase[n] # "wash" => Answerable(pending[n][m])
              /\ Answerable(saved[n].pending[m])

LinksDirected == \A l \in Link, i \in Item : net[l][i] > 0 => Direction(i, l[2], l[3])

QueuesDirected ==
    \A n \in Node : \A k \in DOMAIN incoming[n] :
        Direction(incoming[n][k].item, incoming[n][k].from[2], n)

CacheInv == /\ Shapes /\ Relays /\ LinksDirected /\ QueuesDirected
            /\ now >= StartTime

-----------------------------------------------------------------------------
(* Single entries *)

\* What a routing round leaves alone before receipts are sent.
LEMMA RoutedKeeps ==
    ASSUME NEW e \in Entry, NEW hops, now \in Nat
    PROVE  LET g == Routed(e, hops) IN
           /\ g \in Entry /\ g.role = e.role /\ g.receipt = e.receipt
           /\ g.routes = e.routes /\ g.received = e.received
           /\ \A s \in Known : g.status = s <=> e.status = s
<1> DEFINE g == Routed(e, hops)
<1>1. g \in Entry
  BY RoutedType
<1>2. g.role = e.role /\ g.receipt = e.receipt
  BY DEF Routed, Entry
<1>3. g.routes = e.routes /\ g.received = e.received
  BY DEF Routed, Entry
<1>4. \A s \in Known : g.status = s <=> e.status = s
  BY DEF Routed, Entry, Known
<1> QED BY <1>1, <1>2, <1>3, <1>4

\* Receipts are sent on some routes of an entry that has one.
LEMMA StruckShape ==
    ASSUME NEW n, NEW m, NEW g \in Entry, EntryShape(n, m, g),
           NEW answered, answered \subseteq g.routes, answered # {} => g.receipt
    PROVE  LET f == Struck(g, answered) IN
           /\ f # None /\ f \in Entry /\ f.role = g.role /\ EntryShape(n, m, f)
           /\ f.role = "origin" /\ f.status = "DONE" => g.status = "DONE"
<1> DEFINE f == Struck(g, answered)
<1>1. /\ f \in Entry /\ f.role = g.role /\ f.receipt = g.receipt
      /\ f.received = g.received /\ f.routes = g.routes \ answered
      /\ f.status = IF answered # {} /\ g.routes = answered THEN "DONE" ELSE g.status
  BY DEF Struck, Entry
<1>2. g # None /\ f # None
  BY <1>1 DEF Entry, None
<1> HIDE DEF f
<1>3. EntryShape(n, m, f)
  BY <1>1, <1>2 DEF EntryShape, Known
<1>4. f.role = "origin" /\ f.status = "DONE" => g.status = "DONE"
  BY <1>1, <1>2 DEF EntryShape
<1> QED BY <1>1, <1>2, <1>3, <1>4 DEF f

\* A routing round (routePendingObjects()) keeps the shape of an entry.
LEMMA RoundShape ==
    ASSUME TypeOK, NEW n, NEW m, NEW e \in Entry, EntryShape(n, m, e), NEW hops
    PROVE  LET f == Struck(Routed(e, hops), Answered(n, e, hops)) IN
           /\ f # None /\ f \in Entry /\ f.role = e.role /\ EntryShape(n, m, f)
           /\ f.role = "origin" /\ f.status = "DONE" => e.status = "DONE"
<1> DEFINE g == Routed(e, hops)
           a == Answered(n, e, hops)
<1>1. /\ g \in Entry /\ g.role = e.role /\ g.receipt = e.receipt
      /\ g.routes = e.routes /\ g.received = e.received
      /\ \A s \in Known : g.status = s <=> e.status = s
  BY RoutedKeeps DEF TypeOK
<1>2. a \subseteq e.routes /\ (a # {} => e.receipt)
  BY DEF Answered
<1> HIDE DEF g, a
<1>3. e # None /\ g # None
  BY <1>1 DEF Entry, None
<1>4. EntryShape(n, m, g)
  BY <1>1, <1>3 DEF EntryShape, Known
<1>5. a \subseteq g.routes /\ (a # {} => g.receipt)
  BY <1>1, <1>2
<1>6. LET f == Struck(g, a) IN
      /\ f # None /\ f \in Entry /\ f.role = g.role /\ EntryShape(n, m, f)
      /\ f.role = "origin" /\ f.status = "DONE" => g.status = "DONE"
  BY <1>1, <1>4, <1>5, StruckShape
<1> QED BY <1>1, <1>6 DEF g, a, Known

\* The other assignments to an entry.
LEMMA UpdateShapes ==
    ASSUME NEW n, NEW m, NEW e \in Entry, EntryShape(n, m, e), NEW t
    PROVE  /\ e.status = "ONGOING" =>
                LET f == [e EXCEPT !.status = "SENT", !.lastSent = t] IN
                EntryShape(n, m, f) /\ (Answerable(e) => Answerable(f))
           /\ LET f == [e EXCEPT !.transaction = 0] IN
              EntryShape(n, m, f) /\ (Answerable(e) => Answerable(f))
           /\ \A p : p[2] # Dest[m] =>
                LET f == [e EXCEPT !.routes = @ \cup {p}] IN
                EntryShape(n, m, f) /\ Answerable(f)
           /\ n # Dest[m] /\ Answerable(e) =>
                LET f == WithReceipt(e) IN
                EntryShape(n, m, f) /\ Answerable(f)
<1> USE DEF EntryShape, Answerable, Known
<1>0. e # None
  BY DEF Entry, None
<1>1. ASSUME e.status = "ONGOING"
      PROVE  LET f == [e EXCEPT !.status = "SENT", !.lastSent = t] IN
             EntryShape(n, m, f) /\ (Answerable(e) => Answerable(f))
  BY <1>0, <1>1 DEF Entry
<1>2. LET f == [e EXCEPT !.transaction = 0] IN
      EntryShape(n, m, f) /\ (Answerable(e) => Answerable(f))
  BY <1>0 DEF Entry
<1>3. ASSUME NEW p, p[2] # Dest[m]
      PROVE  LET f == [e EXCEPT !.routes = @ \cup {p}] IN
             EntryShape(n, m, f) /\ Answerable(f)
  BY <1>0, <1>3 DEF Entry
<1>4. ASSUME n # Dest[m], Answerable(e)
      PROVE  LET f == WithReceipt(e) IN EntryShape(n, m, f) /\ Answerable(f)
  <2>1. CASE e.role = "origin"
    BY <1>0, <2>1 DEF WithReceipt, Entry
  <2>2. CASE e.role = "relay"
    BY <1>0, <1>4, <2>2 DEF WithReceipt, Entry
  <2>3. e.role # "destination"
    BY <1>0, <1>4
  <2> QED BY <2>1, <2>2, <2>3 DEF Entry
<1> QED BY <1>1, <1>2, <1>3, <1>4

\* A restart of node x gives some routes of an entry a new name.
LEMMA OutdatedShape ==
    ASSUME NEW n, NEW x, NEW m, NEW e \in Slot, EntryShape(n, m, e)
    PROVE  LET f == IF e = None THEN None
                    ELSE [e EXCEPT !.routes = {Outdated(n, x, p) : p \in @}] IN
           EntryShape(n, m, f) /\ (Answerable(e) => Answerable(f))
<1>1. CASE e = None
  BY <1>1 DEF EntryShape, Answerable
<1>2. CASE e # None
  <2> DEFINE R == {Outdated(n, x, p) : p \in e.routes}
             f == [e EXCEPT !.routes = R]
  <2>1. e \in Entry
    BY <1>2 DEF Slot
  <2>2. /\ f.role = e.role /\ f.receipt = e.receipt /\ f.status = e.status
        /\ f.received = e.received /\ f.routes = R
    BY <2>1 DEF Entry
  <2>3. \A p : Outdated(n, x, p)[2] = p[2]
    BY DEF Outdated
  <2>4. (e.routes # {} => R # {})
    OBVIOUS
  <2>5. ASSUME NEW q \in R PROVE q[2] # Dest[m]
    BY <1>2, <2>3 DEF EntryShape
  <2> HIDE DEF R, f
  <2>6. EntryShape(n, m, f)
    BY <1>2, <2>2, <2>4, <2>5 DEF EntryShape
  <2>7. Answerable(e) => Answerable(f)
    BY <1>2, <2>2, <2>4 DEF Answerable
  <2> QED BY <1>2, <2>6, <2>7 DEF f, R
<1> QED BY <1>1, <1>2
-----------------------------------------------------------------------------
(* Steps that write one entry, or none *)

\* Nothing else depends on which entry is written.
LEMMA PutShape ==
    ASSUME TypeOK, Shapes, Relays, NEW n \in Node, NEW m \in Msg, NEW e,
           EntryShape(n, m, e), Answerable(e),
           pending' = [pending EXCEPT ![n][m] = e],
           UNCHANGED <<saved, phase>>
    PROVE  Shapes' /\ Relays'
<1>1. ASSUME NEW j \in Node, NEW k \in Msg
      PROVE  /\ EntryShape(j, k, pending'[j][k])
             /\ phase[j] # "wash" => Answerable(pending'[j][k])
  <2>1. CASE j = n /\ k = m
    BY <2>1 DEF TypeOK, Caches
  <2>2. CASE ~(j = n /\ k = m)
    <3>1. pending'[j][k] = pending[j][k]
      BY <2>2 DEF TypeOK, Caches
    <3> QED BY <3>1 DEF Shapes, Relays
  <2> QED BY <2>1, <2>2
<1>2. Shapes'
  BY <1>1 DEF Shapes
<1>3. Relays'
  BY <1>1 DEF Relays
<1> QED BY <1>2, <1>3

\* What does not touch a part of the state keeps what is said of it.
LEMMA ShapesStay ==
    /\ Shapes /\ UNCHANGED <<pending, saved>> => Shapes'
    /\ Relays /\ UNCHANGED <<pending, saved, phase>> => Relays'
    /\ LinksDirected /\ net' = net => LinksDirected'
    /\ QueuesDirected /\ incoming' = incoming => QueuesDirected'
BY DEF Shapes, Relays, LinksDirected, QueuesDirected

\* Losing what is on some links.
LEMMA LostDirected ==
    ASSUME LinksDirected, NEW links, net' = Lost(links)
    PROVE  LinksDirected'
<1> SUFFICES ASSUME NEW l \in Link, NEW i \in Item, net'[l][i] > 0
             PROVE  Direction(i, l[2], l[3])
  BY DEF LinksDirected
<1>1. net[l][i] > 0
  BY DEF Lost, NoItems
<1> QED BY <1>1 DEF LinksDirected

\* Sending items in the right directions.
LEMMA SendingDirected ==
    ASSUME LinksDirected, NEW n, NEW sent, net' = Sending(n, sent),
           \A p \in Peer : \A i \in sent[p] : Direction(i, n, p[2])
    PROVE  LinksDirected'
<1> SUFFICES ASSUME NEW l \in Link, NEW i \in Item, net'[l][i] > 0
             PROVE  Direction(i, l[2], l[3])
  BY DEF LinksDirected
<1>1. net'[l][i] = IF l[2] = n /\ l \in Carrying /\ i \in sent[<<l[1], l[3]>>]
                   THEN net[l][i] + 1 ELSE net[l][i]
  BY DEF Sending
<1>2. <<l[1], l[3]>> \in Peer
  BY DEF Link, Peer
<1> QED BY <1>1, <1>2 DEF LinksDirected

\* The item that handleIncoming() takes from the queue.
LEMMA HeadDirected ==
    ASSUME TypeOK, QueuesDirected, NEW n \in Node, incoming[n] # <<>>
    PROVE  LET h == Head(incoming[n]) IN
           /\ h \in QueuedItem /\ h.item.id \in Msg
           /\ Direction(h.item, h.from[2], n)
<1>1. incoming[n] \in Seq(QueuedItem)
  BY DEF TypeOK, Queues
<1>2. Head(incoming[n]) = incoming[n][1] /\ 1 \in DOMAIN incoming[n]
  <2>1. Len(incoming[n]) \in Nat /\ Len(incoming[n]) # 0
        /\ DOMAIN incoming[n] = 1 .. Len(incoming[n])
    BY <1>1, LenProperties, EmptySeq
  <2> QED BY <1>1, <2>1
<1>3. Head(incoming[n]) \in QueuedItem
  BY <1>1, HeadTailProperties
<1> QED BY <1>2, <1>3 DEF QueuesDirected, QueuedItem, Item

\* Taking the first item off a queue.
LEMMA TailDirected ==
    ASSUME TypeOK, QueuesDirected, NEW n \in Node, incoming[n] # <<>>,
           incoming' = [incoming EXCEPT ![n] = Tail(@)]
    PROVE  QueuesDirected'
<1>1. incoming[n] \in Seq(QueuedItem)
  BY DEF TypeOK, Queues
<1> SUFFICES ASSUME NEW j \in Node, NEW k \in DOMAIN incoming'[j]
             PROVE  Direction(incoming'[j][k].item, incoming'[j][k].from[2], j)
  BY DEF QueuesDirected
<1>2. CASE j = n
  <2>1. incoming'[j] = Tail(incoming[n])
    BY <1>2 DEF TypeOK, Queues
  <2>2. Tail(incoming[n]) \in Seq(QueuedItem)
    BY <1>1, HeadTailProperties
  <2>3. Len(Tail(incoming[n])) = Len(incoming[n]) - 1
    BY <1>1, HeadTailProperties
  <2>4. k \in 1 .. Len(Tail(incoming[n]))
    BY <2>1, <2>2, LenProperties
  <2>5. Tail(incoming[n])[k] = incoming[n][k + 1]
    BY <1>1, <2>3, <2>4, HeadTailProperties
  <2>6. k + 1 \in DOMAIN incoming[n]
    <3>1. Len(incoming[n]) \in Nat /\ DOMAIN incoming[n] = 1 .. Len(incoming[n])
      BY <1>1, LenProperties
    <3> QED BY <2>3, <2>4, <3>1
  <2> QED BY <1>2, <2>1, <2>5, <2>6 DEF QueuesDirected
<1>3. CASE j # n
  <2>1. incoming'[j] = incoming[j]
    BY <1>3 DEF TypeOK, Queues
  <2> QED BY <2>1 DEF QueuesDirected
<1> QED BY <1>2, <1>3
-----------------------------------------------------------------------------
(* The invariant is inductive *)

\* An entry that a node holds is one.
LEMMA HeldEntry ==
    ASSUME TypeOK, NEW n \in Node, NEW m \in Msg, Holds(n, m)
    PROVE  pending[n][m] \in Entry
BY DEF Holds, TypeOK, Caches, Slot

\* handleIncomingDataItem(): the item came from a peer that is not the
\* destination, so the route back that the entry gains is a good one.
LEMMA DataKeeps ==
    ASSUME TypeOK, Provenance, CacheInv,
           NEW n \in Node, NEW outcome, HandleIncomingDataItem(n, outcome)
    PROVE  CacheInv'
<1> DEFINE h == Head(incoming[n])
           m == h.item.id
           info == IF Holds(n, m) THEN pending[n][m]
                                  ELSE NewEntry(n = Dest[m])
           new == [info EXCEPT !.routes = @ \cup {h.from}]
<1>1. /\ incoming[n] # <<>> /\ incoming' = [incoming EXCEPT ![n] = Tail(@)]
      /\ phase[n] = "incoming"
      /\ UNCHANGED <<now, phase, net, saved>> /\ h.item.type = "data"
  BY DEF HandleIncomingDataItem
<1>2. m \in Msg /\ h.from[2] # Dest[m] /\ h.from \in Peer
  BY <1>1, HeadDirected DEF CacheInv, Direction, QueuedItem
<1>3. QueuesDirected' /\ LinksDirected' /\ now' >= StartTime
  BY <1>1, TailDirected, ShapesStay DEF CacheInv
<1>4. CASE pending' = pending
  BY <1>1, <1>3, <1>4, ShapesStay DEF CacheInv
<1>5. CASE pending' # pending
  <2>1. pending' = [pending EXCEPT ![n][m] = new]
    BY <1>5 DEF HandleIncomingDataItem
  <2>2. CASE Holds(n, m)
    <3>1. info = pending[n][m] /\ info \in Entry
      BY <1>2, <2>2, HeldEntry
    <3>2. EntryShape(n, m, info)
      BY <1>2, <3>1 DEF CacheInv, Shapes
    <3> HIDE DEF info, m, h
    <3>3. EntryShape(n, m, new) /\ Answerable(new)
      BY <1>2, <3>1, <3>2, UpdateShapes
    <3> HIDE DEF new
    <3> QED BY <1>1, <1>2, <1>3, <2>1, <3>3, PutShape DEF CacheInv
  <2>3. CASE ~Holds(n, m)
    <3>1. info = NewEntry(n = Dest[m])
      BY <2>3
    <3>2. /\ new.role = IF n = Dest[m] THEN "destination" ELSE "relay"
          /\ new.status = IF n = Dest[m] THEN "RECEIPT_OK" ELSE "PENDING"
          /\ new.receipt = (n = Dest[m])
          /\ new.routes = {h.from} /\ new.received = now
      <4> HIDE DEF m, h, info
      <4> QED BY <3>1 DEF NewEntry
    <3> HIDE DEF m, h, info, new
    <3>3. EntryShape(n, m, new) /\ Answerable(new)
      BY <1>2, <3>2 DEF EntryShape, Answerable, Known, CacheInv
    <3> QED BY <1>1, <1>2, <1>3, <2>1, <3>3, PutShape DEF CacheInv
  <2> QED BY <2>2, <2>3
<1> QED BY <1>4, <1>5

\* handleIncomingReceiptItem(): the node is not the destination, and what it
\* holds is its own message or has a route to pass the receipt on.
LEMMA ReceiptKeeps ==
    ASSUME TypeOK, Provenance, CacheInv,
           NEW n \in Node, NEW accepted, HandleIncomingReceiptItem(n, accepted)
    PROVE  CacheInv'
<1> DEFINE h == Head(incoming[n])
           m == h.item.id
           e == pending[n][m]
<1>1. /\ incoming[n] # <<>> /\ incoming' = [incoming EXCEPT ![n] = Tail(@)]
      /\ phase[n] = "incoming"
      /\ UNCHANGED <<now, phase, net, saved>> /\ h.item.type = "receipt"
  BY DEF HandleIncomingReceiptItem
<1>2. m \in Msg /\ n # Dest[m]
  BY <1>1, HeadDirected DEF CacheInv, Direction
<1>3. QueuesDirected' /\ LinksDirected' /\ now' >= StartTime
  BY <1>1, TailDirected, ShapesStay DEF CacheInv
<1>4. CASE pending' = pending
  BY <1>1, <1>3, <1>4, ShapesStay DEF CacheInv
<1>5. CASE pending' # pending
  <2>1. Holds(n, m) /\ pending' = [pending EXCEPT ![n][m] = WithReceipt(e)]
    BY <1>5 DEF HandleIncomingReceiptItem
  <2>2. e \in Entry /\ EntryShape(n, m, e) /\ Answerable(e)
    BY <1>1, <1>2, <2>1, HeldEntry DEF CacheInv, Shapes, Relays
  <2> HIDE DEF e, m, h
  <2>3. EntryShape(n, m, WithReceipt(e)) /\ Answerable(WithReceipt(e))
    BY <1>2, <2>2, UpdateShapes
  <2> QED BY <1>1, <1>2, <1>3, <2>1, <2>3, PutShape DEF CacheInv
<1> QED BY <1>4, <1>5

\* routePendingObjects(): only entries that are PENDING, hence not of the
\* destination, send data, and receipts go to where the data came from.
LEMMA RoundKeepsCaches ==
    ASSUME TypeOK, CacheInv, NEW n \in Node, RoutePendingObjects(n)
    PROVE  CacheInv'
<1>1. PICK hops :
        LET held == {m \in Msg : Holds(n, m)}
            answered(m) == Answered(n, pending[n][m], hops[m])
            sent(p) == {Data(m) : m \in {k \in held : p \in hops[k]}} \cup
                       {Receipt(m) : m \in {k \in held : p \in answered(k)}}
        IN
        /\ \A m \in Msg : hops[m] \in Hops(n, m)
        /\ pending' = [pending EXCEPT ![n] = [m \in Msg |->
             IF m \in held
             THEN Struck(Routed(pending[n][m], hops[m]), answered(m))
             ELSE None]]
        /\ net' = Sending(n, [p \in Peer |-> sent(p)])
  BY DEF RoutePendingObjects
<1> DEFINE answered(m) == Answered(n, pending[n][m], hops[m])
           new(m) == Struck(Routed(pending[n][m], hops[m]), answered(m))
           sent(p) == {Data(m) : m \in {k \in {j \in Msg : Holds(n, j)} :
                                          p \in hops[k]}} \cup
                      {Receipt(m) : m \in {k \in {j \in Msg : Holds(n, j)} :
                                             p \in answered(k)}}
<1>2. /\ UNCHANGED <<now, incoming, saved>> /\ phase[n] = "incoming"
      /\ phase' = [phase EXCEPT ![n] = "wash"]
  BY DEF RoutePendingObjects
<1>3. ASSUME NEW m \in Msg, Holds(n, m)
      PROVE  pending[n][m] \in Entry /\ EntryShape(n, m, pending[n][m])
  BY <1>3, HeldEntry DEF CacheInv, Shapes
<1>4. LinksDirected'
  <2>1. ASSUME NEW p \in Peer, NEW i \in sent(p) PROVE Direction(i, n, p[2])
    <3>1. CASE \E m \in Msg : Holds(n, m) /\ p \in hops[m] /\ i = Data(m)
      <4>1. PICK m \in Msg : Holds(n, m) /\ p \in hops[m] /\ i = Data(m)
        BY <3>1
      <4>2. pending[n][m].status = "PENDING"
        BY <1>1, <4>1 DEF Hops
      <4>3. n # Dest[m]
        BY <1>3, <4>1, <4>2 DEF EntryShape, Known, Holds
      <4> QED BY <4>1, <4>3 DEF Direction, Data
    <3>2. CASE \E m \in Msg : Holds(n, m) /\ p \in answered(m) /\ i = Receipt(m)
      <4>1. PICK m \in Msg : Holds(n, m) /\ p \in answered(m) /\ i = Receipt(m)
        BY <3>2
      <4>2. p \in pending[n][m].routes
        BY <4>1 DEF Answered
      <4>3. p[2] # Dest[m]
        BY <1>3, <4>1, <4>2 DEF EntryShape, Holds
      <4> QED BY <4>1, <4>3 DEF Direction, Receipt
    <3> QED BY <3>1, <3>2
  <2>2. net' = Sending(n, [p \in Peer |-> sent(p)])
    BY <1>1
  <2> HIDE DEF sent
  <2>3. \A p \in Peer : \A i \in [q \in Peer |-> sent(q)][p] : Direction(i, n, p[2])
    BY <2>1
  <2> QED BY <2>2, <2>3, SendingDirected DEF CacheInv
<1>5. ASSUME NEW j \in Node, NEW k \in Msg
      PROVE  /\ EntryShape(j, k, pending'[j][k])
             /\ j # n => pending'[j][k] = pending[j][k]
  <2>1. CASE j = n /\ Holds(n, k)
    <3>1. pending'[j][k] = new(k)
      BY <1>1, <2>1 DEF TypeOK, Caches
    <3>2. EntryShape(n, k, new(k))
      BY <1>3, <2>1, RoundShape
    <3> QED BY <2>1, <3>1, <3>2
  <2>2. CASE j = n /\ ~Holds(n, k)
    <3>1. pending'[j][k] = None
      BY <1>1, <2>2 DEF TypeOK, Caches
    <3> QED BY <2>2, <3>1 DEF EntryShape
  <2>3. CASE j # n
    <3>1. pending'[j][k] = pending[j][k]
      BY <1>1, <2>3 DEF TypeOK, Caches
    <3> QED BY <3>1 DEF CacheInv, Shapes
  <2> QED BY <2>1, <2>2, <2>3
<1>6. Shapes'
  BY <1>2, <1>5 DEF CacheInv, Shapes
<1>7. Relays'
  BY <1>2, <1>5 DEF CacheInv, Relays, TypeOK, Phases
<1>8. QueuesDirected' /\ now' >= StartTime
  BY <1>2, ShapesStay DEF CacheInv
<1> QED BY <1>4, <1>6, <1>7, <1>8 DEF CacheInv

\* autoWash(): a relay without a route back is DONE, and goes.
LEMMA WashKeeps ==
    ASSUME TypeOK, CacheInv, NEW n \in Node, AutoWash(n)
    PROVE  CacheInv'
<1>1. /\ UNCHANGED <<now, incoming, saved, net>>
      /\ phase' = [phase EXCEPT ![n] = "low"]
  BY DEF AutoWash
<1>2. ASSUME NEW j \in Node, NEW k \in Msg
      PROVE  /\ EntryShape(j, k, pending'[j][k])
             /\ j # n => pending'[j][k] = pending[j][k]
             /\ j = n => Answerable(pending'[j][k])
  <2>1. EntryShape(j, k, pending[j][k])
    BY DEF CacheInv, Shapes
  <2>2. CASE j # n
    <3>1. pending'[j][k] = pending[j][k]
      BY <2>2 DEF AutoWash, TypeOK, Caches
    <3> QED BY <2>1, <2>2, <3>1
  <2>3. CASE j = n /\ Holds(n, k) /\ ~Expired(pending[n][k])
    <3>1. pending'[j][k] = pending[j][k]
      BY <2>3 DEF AutoWash, TypeOK, Caches
    <3>2. Answerable(pending[n][k])
      BY <2>1, <2>3 DEF Expired, Answerable, EntryShape
    <3> QED BY <2>1, <2>3, <3>1, <3>2
  <2>4. CASE j = n /\ ~(Holds(n, k) /\ ~Expired(pending[n][k]))
    <3>1. pending'[j][k] = None
      BY <2>4 DEF AutoWash, TypeOK, Caches, Holds
    <3> QED BY <2>4, <3>1 DEF EntryShape, Answerable
  <2> QED BY <2>2, <2>3, <2>4
<1>3. Shapes'
  BY <1>1, <1>2 DEF CacheInv, Shapes
<1>4. Relays'
  BY <1>1, <1>2 DEF CacheInv, Relays, TypeOK, Phases
<1> QED BY <1>1, <1>3, <1>4, ShapesStay DEF CacheInv

\* An acknowledgement changes an entry that was being sent.
LEMMA AckKeeps ==
    ASSUME TypeOK, CacheInv, NEW l \in Link, NEW m \in Msg, ReceiveAck(l, m)
    PROVE  CacheInv'
<1> DEFINE n == l[3]
           e == pending[n][m]
           new == [e EXCEPT !.status = "SENT", !.lastSent = now]
<1>1. UNCHANGED <<now, phase, incoming, saved>> /\ phase[n] = "low" /\ n \in Node
  BY ReverseLink DEF ReceiveAck
<1>2. LinksDirected'
  <2> SUFFICES ASSUME NEW k \in Link, NEW i \in Item, net'[k][i] > 0
               PROVE  Direction(i, k[2], k[3])
    BY DEF LinksDirected
  <2>1. net[k][i] \in Nat /\ net'[k][i] \in {net[k][i], net[k][i] - 1}
    BY DEF ReceiveAck, TypeOK, Channels
  <2>2. net[k][i] > 0
    BY <2>1
  <2> QED BY <2>2 DEF CacheInv, LinksDirected
<1>3. QueuesDirected' /\ now' >= StartTime
  BY <1>1, ShapesStay DEF CacheInv
<1>4. CASE pending' = pending
  BY <1>1, <1>2, <1>3, <1>4, ShapesStay DEF CacheInv
<1>5. CASE pending' # pending
  <2>1. /\ Holds(n, m) /\ e.status = "ONGOING"
        /\ pending' = [pending EXCEPT ![n][m] = new]
    BY <1>5 DEF ReceiveAck, AwaitsAck
  <2>2. e \in Entry /\ EntryShape(n, m, e) /\ Answerable(e)
    BY <1>1, <2>1, HeldEntry DEF CacheInv, Shapes, Relays
  <2> HIDE DEF e, n
  <2>3. EntryShape(n, m, new) /\ Answerable(new)
    BY <2>1, <2>2, UpdateShapes
  <2> HIDE DEF new
  <2> QED BY <1>1, <1>2, <1>3, <2>1, <2>3, PutShape DEF CacheInv
<1> QED BY <1>4, <1>5

\* An item that arrives is queued with the peer it came from.
LEMMA ItemKeeps ==
    ASSUME TypeOK, CacheInv, NEW l \in Link, NEW item \in Item,
           ReceiveItem(l, item)
    PROVE  CacheInv'
<1>1. UNCHANGED <<now, phase, pending, saved>>
  BY DEF ReceiveItem
<1>2. Direction(item, l[2], l[3])
  BY DEF ReceiveItem, CacheInv, LinksDirected
<1>3. LinksDirected'
  <2> SUFFICES ASSUME NEW k \in Link, NEW i \in Item, net'[k][i] > 0
               PROVE  Direction(i, k[2], k[3])
    BY DEF LinksDirected
  <2>1. CASE i = Ack(item.id)
    BY <2>1 DEF Direction, Ack
  <2>2. CASE i # Ack(item.id)
    <3>1. net[k][i] \in Nat /\ net'[k][i] \in {net[k][i], net[k][i] - 1}
      <4>1. Reverse(l) \in Link /\ Ack(item.id) \in Item
        BY ReverseLink, ItemTypes DEF Item
      <4> QED BY <2>2, <4>1 DEF ReceiveItem, TypeOK, Channels
    <3>2. net[k][i] > 0
      BY <3>1
    <3> QED BY <3>2 DEF CacheInv, LinksDirected
  <2> QED BY <2>1, <2>2
<1>4. QueuesDirected'
  <2> DEFINE n == l[3]
             q == incoming[n]
             new == [item |-> item, from |-> Sender(l)]
  <2>1. n \in Node /\ Sender(l) \in Peer /\ Sender(l)[2] = l[2]
    BY ReverseLink DEF Sender
  <2>2. q \in Seq(QueuedItem) /\ new \in QueuedItem
    BY <2>1 DEF TypeOK, Queues, QueuedItem
  <2>3. incoming' = [incoming EXCEPT ![n] = Append(q, new)]
    BY DEF ReceiveItem
  <2>4. ASSUME NEW k \in DOMAIN Append(q, new)
        PROVE  Direction(Append(q, new)[k].item, Append(q, new)[k].from[2], n)
    <3>1. /\ k \in 1 .. Len(q) => Append(q, new)[k] = q[k]
          /\ k \notin 1 .. Len(q) => Append(q, new)[k] = new
      BY <2>2, AppendProperties
    <3>2. k \in 1 .. Len(q) => k \in DOMAIN q
      BY <2>2, LenProperties
    <3>3. \A j \in DOMAIN q : Direction(q[j].item, q[j].from[2], n)
      BY <2>1 DEF CacheInv, QueuesDirected
    <3>4. Direction(new.item, new.from[2], n)
      BY <1>2, <2>1
    <3> HIDE DEF q, new, n
    <3> QED BY <3>1, <3>2, <3>3, <3>4
  <2> SUFFICES ASSUME NEW j \in Node, NEW k \in DOMAIN incoming'[j]
               PROVE  Direction(incoming'[j][k].item, incoming'[j][k].from[2], j)
    BY DEF QueuesDirected
  <2> HIDE DEF q, new
  <2>5. CASE j = n
    <3>1. incoming'[j] = Append(q, new)
      BY <2>1, <2>3, <2>5 DEF TypeOK, Queues
    <3> QED BY <2>4, <2>5, <3>1
  <2>6. CASE j # n
    <3>1. incoming'[j] = incoming[j]
      BY <2>3, <2>6 DEF TypeOK, Queues
    <3> QED BY <3>1 DEF CacheInv, QueuesDirected
  <2> QED BY <2>5, <2>6
<1> QED BY <1>1, <1>3, <1>4, ShapesStay DEF CacheInv

\* saveList() writes the entries of a node that is between two rounds.
LEMMA SaveKeeps ==
    ASSUME TypeOK, CacheInv, NEW n \in Node, SaveConfig(n)
    PROVE  CacheInv'
<1>1. UNCHANGED <<now, phase, pending, incoming, net>> /\ phase[n] = "low"
  BY DEF SaveConfig
<1>2. ASSUME NEW j \in Node, NEW k \in Msg
      PROVE  /\ EntryShape(j, k, saved'[j].pending[k])
             /\ Answerable(saved'[j].pending[k])
  <2>1. CASE j # n
    <3>1. saved'[j] = saved[j]
      BY <2>1 DEF SaveConfig, TypeOK, Files
    <3> QED BY <3>1 DEF CacheInv, Shapes, Relays
  <2>2. CASE j = n /\ Holds(n, k)
    <3> DEFINE e == pending[n][k]
               new == [e EXCEPT !.transaction = 0]
    <3>1. saved'[j].pending[k] = new
      BY <2>2 DEF SaveConfig, TypeOK, Files
    <3>2. e \in Entry /\ EntryShape(n, k, e) /\ Answerable(e)
      BY <1>1, <2>2, HeldEntry DEF CacheInv, Shapes, Relays
    <3> HIDE DEF e
    <3>3. EntryShape(n, k, new) /\ Answerable(new)
      BY <3>2, UpdateShapes
    <3> HIDE DEF new
    <3> QED BY <2>2, <3>1, <3>3
  <2>3. CASE j = n /\ ~Holds(n, k)
    <3>1. saved'[j].pending[k] = None
      BY <2>3 DEF SaveConfig, TypeOK, Files
    <3> QED BY <3>1 DEF EntryShape, Answerable
  <2> QED BY <2>1, <2>2, <2>3
<1>3. Shapes'
  BY <1>1, <1>2 DEF CacheInv, Shapes
<1>4. Relays'
  BY <1>1, <1>2 DEF CacheInv, Relays
<1> QED BY <1>1, <1>3, <1>4, ShapesStay DEF CacheInv

\* After a crash the routes of every entry lead to the same nodes as before.
LEMMA CrashKeeps ==
    ASSUME TypeOK, CacheInv, NEW x \in Node, Crash(x)
    PROVE  CacheInv'
<1>1. UNCHANGED <<now, saved>> /\ phase' = [phase EXCEPT ![x] = "low"]
  BY DEF Crash
<1>2. LinksDirected'
  <2> SUFFICES ASSUME NEW l \in Link, NEW i \in Item, net'[l][i] > 0
               PROVE  Direction(i, l[2], l[3])
    BY DEF LinksDirected
  <2>1. net[l][i] > 0
    BY DEF Crash, NoItems
  <2> QED BY <2>1 DEF CacheInv, LinksDirected
<1>3. QueuesDirected'
  <2> SUFFICES ASSUME NEW n \in Node, NEW k \in DOMAIN incoming'[n]
               PROVE  Direction(incoming'[n][k].item, incoming'[n][k].from[2], n)
    BY DEF QueuesDirected
  <2>1. n # x
    BY DEF Crash
  <2>2. incoming'[n] = [i \in DOMAIN incoming[n] |->
           [incoming[n][i] EXCEPT !.from = Outdated(n, x, @)]]
    BY <2>1 DEF Crash
  <2>3. k \in DOMAIN incoming[n]
    BY <2>2
  <2>4. incoming[n][k] \in QueuedItem
    <3>1. incoming[n] \in Seq(QueuedItem)
      BY DEF TypeOK, Queues
    <3> QED BY <2>3, <3>1, LenProperties, ElementOfSeq
  <2>5. /\ incoming'[n][k].item = incoming[n][k].item
        /\ incoming'[n][k].from = Outdated(n, x, incoming[n][k].from)
    BY <2>2, <2>3, <2>4 DEF QueuedItem
  <2>6. incoming'[n][k].from[2] = incoming[n][k].from[2]
    BY <2>5 DEF Outdated
  <2> QED BY <2>3, <2>5, <2>6 DEF CacheInv, QueuesDirected
<1>4. ASSUME NEW n \in Node, NEW m \in Msg
      PROVE  /\ EntryShape(n, m, pending'[n][m])
             /\ phase'[n] # "wash" => Answerable(pending'[n][m])
  <2> DEFINE e == IF n = x THEN saved[x].pending[m] ELSE pending[n][m]
  <2>1. pending'[n][m] = IF e = None THEN None
           ELSE [e EXCEPT !.routes = {Outdated(n, x, p) : p \in @}]
    BY DEF Crash
  <2>2. /\ e \in Slot /\ EntryShape(n, m, e)
        /\ phase'[n] # "wash" => Answerable(e)
    BY <1>1 DEF TypeOK, Caches, Files, CacheInv, Shapes, Relays, Phases
  <2> HIDE DEF e
  <2> QED BY <2>1, <2>2, OutdatedShape
<1>5. Shapes'
  BY <1>1, <1>4 DEF CacheInv, Shapes
<1>6. Relays'
  BY <1>1, <1>4 DEF CacheInv, Relays
<1> QED BY <1>1, <1>2, <1>3, <1>5, <1>6 DEF CacheInv

\* Every step keeps the invariant.
LEMMA NextCache ==
    TypeOK /\ Provenance /\ CacheInv /\ [Next]_vars => CacheInv'
<1> SUFFICES ASSUME TypeOK, Provenance, CacheInv, [Next]_vars PROVE CacheInv'
  OBVIOUS
<1>1. ASSUME NEW m \in Msg, SendData(m) PROVE CacheInv'
  <2> DEFINE n == Origin[m]
             new == [role |-> "origin", status |-> "PENDING",
                     allowTunnels |-> FALSE, receipt |-> FALSE,
                     routes |-> {}, received |-> now, lastSent |-> 0,
                     transaction |-> 0]
  <2>1. /\ UNCHANGED <<now, phase, incoming, net, saved>>
        /\ pending' = [pending EXCEPT ![n][m] = new]
    BY <1>1 DEF SendData
  <2>2. n \in Node /\ n # Dest[m]
    BY ParticipantsAssumption
  <2>3. EntryShape(n, m, new) /\ Answerable(new)
    BY <2>2 DEF EntryShape, Answerable, CacheInv
  <2> HIDE DEF n, new
  <2> QED BY <2>1, <2>2, <2>3, PutShape, ShapesStay DEF CacheInv
<1>2. ASSUME NEW m \in Msg, Cancel(m) PROVE CacheInv'
  <2>1. /\ UNCHANGED <<now, phase, incoming, net, saved>>
        /\ pending' = [pending EXCEPT ![Origin[m]][m] = None]
        /\ Origin[m] \in Node
    BY <1>2, ParticipantsAssumption DEF Cancel
  <2>2. EntryShape(Origin[m], m, None) /\ Answerable(None)
    BY DEF EntryShape, Answerable
  <2> QED BY <2>1, <2>2, PutShape, ShapesStay DEF CacheInv
<1>3. ASSUME \/ \E n, d, f \in Node : AddRoutingClue(n, d, f)
             \/ \E n \in Node : IdleTick(n)
             \/ UNCHANGED vars
      PROVE  CacheInv'
  <2>1. UNCHANGED <<now, phase, pending, incoming, net, saved>>
    BY <1>3 DEF AddRoutingClue, IdleTick, vars
  <2> QED BY <2>1, ShapesStay DEF CacheInv
<1>4. ASSUME NEW n \in Node, LowLevelDone(n) PROVE CacheInv'
  <2>1. /\ UNCHANGED <<now, pending, incoming, net, saved>>
        /\ \A j \in Node : phase'[j] # "wash" => phase[j] # "wash"
    BY <1>4 DEF LowLevelDone, TypeOK, Phases
  <2>2. Relays'
    BY <2>1 DEF CacheInv, Relays
  <2> QED BY <2>1, <2>2, ShapesStay DEF CacheInv
<1>5. ASSUME Clock PROVE CacheInv'
  <2>1. UNCHANGED <<phase, pending, incoming, net, saved>> /\ now' = now + 1
    BY <1>5 DEF Clock
  <2>2. now' >= StartTime
    BY <2>1, DelaysAssumption DEF CacheInv, StartTime, TypeOK
  <2> QED BY <2>1, <2>2, ShapesStay DEF CacheInv
<1>6. ASSUME NEW l \in Link,
             LinkUp(l) \/ LinkDown(l) \/ CloseTunnel(l) \/ IdleTunnel(l)
      PROVE  CacheInv'
  <2>1. UNCHANGED <<now, phase, pending, incoming, saved>>
    BY <1>6 DEF LinkUp, LinkDown, CloseTunnel, IdleTunnel
  <2>2. net' = net \/ \E links : net' = Lost(links)
    BY <1>6 DEF LinkUp, LinkDown, CloseTunnel, IdleTunnel
  <2>3. LinksDirected'
    BY <2>2, LostDirected, ShapesStay DEF CacheInv
  <2> QED BY <2>1, <2>3, ShapesStay DEF CacheInv
<1> QED
  BY <1>1, <1>2, <1>3, <1>4, <1>5, <1>6, AckKeeps, ItemKeeps, DataKeeps,
     ReceiptKeeps, RoundKeepsCaches, WashKeeps, SaveKeeps, CrashKeeps
  DEF Next, Client, Tick, HandleIncoming, Receive

\* It holds of the empty caches.
LEMMA InitCache == Init => CacheInv
<1> SUFFICES ASSUME Init PROVE CacheInv
  OBVIOUS
<1>1. Shapes /\ Relays
  BY DEF Init, Shapes, Relays, EntryShape, Answerable
<1>2. LinksDirected /\ QueuesDirected
  BY DEF Init, LinksDirected, QueuesDirected, NoItems
<1>3. now >= StartTime
  BY DelaysAssumption DEF Init, StartTime
<1> QED BY <1>1, <1>2, <1>3 DEF CacheInv

\* No entry keeps a receipt without an incoming route to deliver it on: through
\* duplicated data, receipts that overtake each other, rounds that answer only
\* some routes, and restarts that leave routes to tunnels that are gone.
THEOREM ReceiptsHaveRoutes == Spec => []ReceiptHasRoute
<1>1. CacheInv => ReceiptHasRoute
  BY DEF CacheInv, Shapes, EntryShape, Holds, ReceiptHasRoute
<1> QED BY <1>1, InitType, InitGenuine, InitCache, NextType, NextGenuine,
           NextCache, PTL DEF Spec
-----------------------------------------------------------------------------
(* What a step may do to an entry *)

\* The ways in which a step that is not a crash treats the entry of one node
\* for one message.
Unchanged(n, m) == pending'[n][m] = pending[n][m]

Sent(n, m) == /\ n = Origin[m] /\ m \notin issued
              /\ pending'[n][m] # None /\ pending'[n][m].role = "origin"
              /\ pending'[n][m].status = "PENDING"

Withdrawn(n, m) == pending'[n][m] = None /\ n = Origin[m] /\ m \in cancelled'

Washed(n, m) ==
    /\ pending'[n][m] = None /\ Holds(n, m) /\ Expired(pending[n][m])
    /\ pending[n][m].status # "DONE" => <<n, m, "FAILED">> \in told'

Changed(n, m) ==
    /\ Holds(n, m) /\ pending'[n][m] # None
    /\ pending'[n][m].role = pending[n][m].role
    /\ pending[n][m].role = "origin" /\ pending'[n][m].status = "DONE" =>
          pending[n][m].status = "DONE" \/ <<n, m, "RECEIVED">> \in told'

Arrived(n, m) == /\ ~Holds(n, m) /\ pending'[n][m] # None
                 /\ pending'[n][m].role # "origin"

\* There are no others.
LEMMA SlotStep ==
    ASSUME TypeOK, CacheInv, [Next]_vars, crashes' = crashes,
           NEW n \in Node, NEW m \in Msg
    PROVE  \/ Unchanged(n, m) \/ Sent(n, m) \/ Withdrawn(n, m) \/ Washed(n, m)
           \/ Changed(n, m) \/ Arrived(n, m)
<1> DEFINE Goal == \/ Unchanged(n, m) \/ Sent(n, m) \/ Withdrawn(n, m)
                   \/ Washed(n, m) \/ Changed(n, m) \/ Arrived(n, m)
<1>0. EntryShape(n, m, pending[n][m])
  BY DEF CacheInv, Shapes
<1>1. ASSUME NEW k \in Msg, SendData(k) PROVE Goal
  <2> DEFINE new == [role |-> "origin", status |-> "PENDING",
                     allowTunnels |-> FALSE, receipt |-> FALSE,
                     routes |-> {}, received |-> now, lastSent |-> 0,
                     transaction |-> 0]
  <2>1. pending' = [pending EXCEPT ![Origin[k]][k] = new] /\ k \notin issued
    BY <1>1 DEF SendData
  <2>2. CASE n = Origin[k] /\ m = k
    <3>1. pending'[n][m] = new
      BY <2>1, <2>2 DEF TypeOK, Caches
    <3>2. new # None /\ new.role = "origin" /\ new.status = "PENDING"
      BY DEF None
    <3> QED BY <2>1, <2>2, <3>1, <3>2 DEF Sent
  <2>3. CASE ~(n = Origin[k] /\ m = k)
    BY <2>1, <2>3 DEF TypeOK, Caches, Unchanged
  <2> QED BY <2>2, <2>3
<1>2. ASSUME NEW k \in Msg, Cancel(k) PROVE Goal
  <2>1. CASE n = Origin[k] /\ m = k
    BY <1>2, <2>1 DEF Cancel, TypeOK, Caches, Withdrawn
  <2>2. CASE ~(n = Origin[k] /\ m = k)
    BY <1>2, <2>2 DEF Cancel, TypeOK, Caches, Unchanged
  <2> QED BY <2>1, <2>2
<1>3. ASSUME pending' = pending PROVE Goal
  BY <1>3 DEF Unchanged
<1>4. ASSUME NEW l \in Link, NEW k \in Msg, ReceiveAck(l, k) PROVE Goal
  <2> DEFINE x == l[3]
             e == pending[x][k]
             new == [e EXCEPT !.status = "SENT", !.lastSent = now]
  <2>1. CASE pending' = pending
    BY <1>3, <2>1
  <2>2. CASE pending' # pending
    <3>1. Holds(x, k) /\ pending' = [pending EXCEPT ![x][k] = new] /\ x \in Node
      BY <1>4, <2>2, ReverseLink DEF ReceiveAck, AwaitsAck
    <3>2. new \in Entry /\ new.role = e.role /\ new.status = "SENT"
      <4>1. e \in Entry
        BY <3>1, HeldEntry
      <4> HIDE DEF e
      <4> QED BY <4>1 DEF Entry, TypeOK
    <3>3. new # None
      BY <3>2 DEF Entry, None
    <3>4. CASE n = x /\ m = k
      <4>1. pending'[n][m] = new
        BY <3>1, <3>4 DEF TypeOK, Caches
      <4> HIDE DEF new
      <4> QED BY <3>1, <3>2, <3>3, <3>4, <4>1 DEF Changed
    <3>5. CASE ~(n = x /\ m = k)
      BY <3>1, <3>5 DEF TypeOK, Caches, Unchanged
    <3> QED BY <3>4, <3>5
  <2> QED BY <2>1, <2>2
<1>5. ASSUME NEW x \in Node, NEW outcome, HandleIncomingDataItem(x, outcome)
      PROVE  Goal
  <2> DEFINE h == Head(incoming[x])
             k == h.item.id
             info == IF Holds(x, k) THEN pending[x][k]
                                    ELSE NewEntry(x = Dest[k])
             new == [info EXCEPT !.routes = @ \cup {h.from}]
  <2>1. CASE pending' = pending
    BY <1>3, <2>1
  <2>2. CASE pending' # pending
    <3>1. pending' = [pending EXCEPT ![x][k] = new] /\ incoming[x] # <<>>
      BY <1>5, <2>2 DEF HandleIncomingDataItem
    <3>2. k \in Msg /\ h.from \in Peer
      BY <3>1, HeadDirected DEF CacheInv, QueuedItem
    <3>3. info \in Entry
      BY <3>2, HeldEntry, NewEntryType DEF TypeOK
    <3>4. ~Holds(x, k) => info.role # "origin"
      <4> HIDE DEF k
      <4> QED BY DEF NewEntry
    <3>5. new \in Entry /\ new.role = info.role /\ new.status = info.status
      <4> HIDE DEF info, h
      <4> QED BY <3>2, <3>3 DEF Entry
    <3>6. new # None
      BY <3>5 DEF Entry, None
    <3>7. Holds(x, k) => info = pending[x][k]
      OBVIOUS
    <3>8. CASE n = x /\ m = k
      <4>1. pending'[n][m] = new
        BY <3>1, <3>8 DEF TypeOK, Caches
      <4> HIDE DEF new, info, k
      <4> QED BY <3>4, <3>5, <3>6, <3>7, <3>8, <4>1 DEF Changed, Arrived
    <3>9. CASE ~(n = x /\ m = k)
      <4> HIDE DEF new, k
      <4> QED BY <3>1, <3>9 DEF TypeOK, Caches, Unchanged
    <3> QED BY <3>8, <3>9
  <2> QED BY <2>1, <2>2
<1>6. ASSUME NEW x \in Node, NEW accepted, HandleIncomingReceiptItem(x, accepted)
      PROVE  Goal
  <2> DEFINE k == Head(incoming[x]).item.id
             e == pending[x][k]
             new == WithReceipt(e)
  <2>1. CASE pending' = pending
    BY <1>3, <2>1
  <2>2. CASE pending' # pending
    <3>1. /\ pending' = [pending EXCEPT ![x][k] = new] /\ incoming[x] # <<>>
          /\ Holds(x, k)
          /\ e.role = "origin" => <<x, k, "RECEIVED">> \in told'
      BY <1>6, <2>2 DEF HandleIncomingReceiptItem
    <3>2. k \in Msg
      BY <3>1, HeadDirected DEF CacheInv
    <3>3. e \in Entry
      BY <3>1, <3>2, HeldEntry
    <3>4. new \in Entry /\ new.role = e.role
      <4> HIDE DEF e
      <4> QED BY <3>3 DEF Entry, WithReceipt
    <3>5. new # None
      <4> HIDE DEF new
      <4> QED BY <3>4 DEF Entry, None
    <3>6. CASE n = x /\ m = k
      <4>1. pending'[n][m] = new
        BY <3>1, <3>6 DEF TypeOK, Caches
      <4>2. e = pending[n][m]
        BY <3>6
      <4> HIDE DEF new, k, e
      <4> QED BY <3>1, <3>4, <3>5, <3>6, <4>1, <4>2 DEF Changed
    <3>7. CASE ~(n = x /\ m = k)
      <4> HIDE DEF new, k
      <4> QED BY <3>1, <3>7 DEF TypeOK, Caches, Unchanged
    <3> QED BY <3>6, <3>7
  <2> QED BY <2>1, <2>2
<1>7. ASSUME NEW x \in Node, RoutePendingObjects(x) PROVE Goal
  <2>1. PICK hops :
          LET held == {k \in Msg : Holds(x, k)}
              answered(k) == Answered(x, pending[x][k], hops[k])
          IN  pending' = [pending EXCEPT ![x] = [k \in Msg |->
                IF k \in held
                THEN Struck(Routed(pending[x][k], hops[k]), answered(k))
                ELSE None]]
    BY <1>7 DEF RoutePendingObjects
  <2>2. CASE n = x /\ Holds(n, m)
    <3> DEFINE e == pending[n][m]
               new == Struck(Routed(e, hops[m]), Answered(n, e, hops[m]))
    <3>1. pending'[n][m] = new
      BY <2>1, <2>2 DEF TypeOK, Caches
    <3>2. e \in Entry
      BY <2>2, HeldEntry
    <3>3. /\ new # None /\ new.role = e.role
          /\ new.role = "origin" /\ new.status = "DONE" => e.status = "DONE"
      <4> HIDE DEF e
      <4> QED BY <1>0, <3>2, RoundShape DEF e
    <3> HIDE DEF new
    <3> QED BY <2>2, <3>1, <3>3 DEF Changed
  <2>3. CASE n = x /\ ~Holds(n, m)
    BY <2>1, <2>3 DEF TypeOK, Caches, Holds, Unchanged
  <2>4. CASE n # x
    BY <2>1, <2>4 DEF TypeOK, Caches, Unchanged
  <2> QED BY <2>2, <2>3, <2>4
<1>8. ASSUME NEW x \in Node, AutoWash(x) PROVE Goal
  <2>1. CASE n = x /\ Holds(n, m) /\ Expired(pending[n][m])
    <3>1. pending'[n][m] = None
      BY <1>8, <2>1 DEF AutoWash, TypeOK, Caches
    <3>2. pending[n][m].status # "DONE" => <<n, m, "FAILED">> \in told'
      BY <1>8, <2>1 DEF AutoWash, FailureNotices
    <3> QED BY <2>1, <3>1, <3>2 DEF Washed
  <2>2. CASE ~(n = x /\ Holds(n, m) /\ Expired(pending[n][m]))
    BY <1>8, <2>2 DEF AutoWash, TypeOK, Caches, Unchanged
  <2> QED BY <2>1, <2>2
<1>9. ASSUME NEW x \in Node, Crash(x) PROVE FALSE
  BY <1>9 DEF Crash, TypeOK
<1> QED
  BY <1>1, <1>2, <1>3, <1>4, <1>5, <1>6, <1>7, <1>8, <1>9
  DEF Next, vars, Client, Tick, HandleIncoming, Receive, AddRoutingClue,
      LowLevelDone, IdleTick, ReceiveItem, SaveConfig, LinkUp, LinkDown,
      CloseTunnel, IdleTunnel, Clock
-----------------------------------------------------------------------------
(* The client of the destination sees a message once *)

\* What DeliveredOnce rests on: while no copy can outlive the entry of the
\* destination, a message was delivered at most once for each crash, or once
\* more and the destination still holds the entry that remembers it.
Counted ==
    now <= StartTime + DestKeep =>
        \A m \in Msg : \/ delivered[m] <= crashes
                       \/ delivered[m] <= 1 + crashes /\ Holds(Dest[m], m)

\* Only a crash takes the entry of the destination away in time.
LEMMA DestinationHolds ==
    ASSUME TypeOK, CacheInv, [Next]_vars, crashes' = crashes, NEW m \in Msg,
           now <= StartTime + DestKeep, Holds(Dest[m], m)
    PROVE  Holds(Dest[m], m)'
<1> DEFINE n == Dest[m]
           e == pending[n][m]
<1>1. n \in Node /\ n # Origin[m]
  BY ParticipantsAssumption
<1>2. e \in Entry /\ EntryShape(n, m, e)
  BY <1>1, HeldEntry DEF CacheInv, Shapes
<1>3. e.status \in Known /\ e.received >= StartTime
  BY <1>2 DEF EntryShape, Holds
<1>4. ~Expired(e)
  <2>1. e.role = "destination"
    BY <1>2 DEF EntryShape, Holds
  <2>2. StartTime \in Nat /\ DestKeep \in Nat /\ e.received \in Nat /\ now \in Nat
    BY <1>2, DelaysAssumption DEF Entry, StartTime, TypeOK
  <2>3. ~(e.received + DestKeep < now)
    BY <1>3, <2>2
  <2> QED BY <1>3, <2>1, <2>3 DEF Expired, Known
<1>5. \/ Unchanged(n, m) \/ Sent(n, m) \/ Withdrawn(n, m)
      \/ Washed(n, m) \/ Changed(n, m) \/ Arrived(n, m)
  BY <1>1, SlotStep
<1> QED
  BY <1>1, <1>4, <1>5
  DEF Unchanged, Sent, Withdrawn, Washed, Changed, Arrived, Holds

\* Only Crash counts crashes.
LEMMA CrashSteps ==
    [Next]_vars => crashes' = crashes \/ \E x \in Node : Crash(x)
<1> SUFFICES ASSUME [Next]_vars, ~\E x \in Node : Crash(x)
             PROVE  crashes' = crashes
  OBVIOUS
<1>1. ASSUME Client PROVE crashes' = crashes
  BY <1>1 DEF Client, SendData, Cancel, faults
<1>2. ASSUME NEW n \in Node, Tick(n) \/ SaveConfig(n) PROVE crashes' = crashes
  BY <1>2 DEF Tick, LowLevelDone, IdleTick, HandleIncoming,
              HandleIncomingDataItem, HandleIncomingReceiptItem,
              RoutePendingObjects, AutoWash, SaveConfig, vars, faults
<1>3. ASSUME NEW l \in Link, \/ Receive(l) \/ LinkUp(l) \/ LinkDown(l)
                             \/ CloseTunnel(l) \/ IdleTunnel(l)
      PROVE  crashes' = crashes
  BY <1>3 DEF Receive, ReceiveAck, ReceiveItem, LinkUp, LinkDown,
              CloseTunnel, IdleTunnel, faults
<1>4. ASSUME (\E n, d, f \in Node : AddRoutingClue(n, d, f)) \/ Clock
             \/ UNCHANGED vars
      PROVE  crashes' = crashes
  BY <1>4 DEF AddRoutingClue, Clock, vars, faults
<1> QED BY <1>1, <1>2, <1>3, <1>4 DEF Next

\* Time passes one tick at a time.
LEMMA ClockSteps ==
    [Next]_vars => now' = now \/ now' = now + 1
<1> SUFFICES ASSUME [Next]_vars PROVE now' = now \/ now' = now + 1
  OBVIOUS
<1>1. ASSUME Client PROVE now' = now
  BY <1>1 DEF Client, SendData, Cancel
<1>2. ASSUME NEW n \in Node, Tick(n) \/ SaveConfig(n) \/ Crash(n) PROVE now' = now
  BY <1>2 DEF Tick, LowLevelDone, IdleTick, HandleIncoming,
              HandleIncomingDataItem, HandleIncomingReceiptItem,
              RoutePendingObjects, AutoWash, SaveConfig, Crash, vars
<1>3. ASSUME NEW l \in Link, \/ Receive(l) \/ LinkUp(l) \/ LinkDown(l)
                             \/ CloseTunnel(l) \/ IdleTunnel(l)
      PROVE  now' = now
  BY <1>3 DEF Receive, ReceiveAck, ReceiveItem, LinkUp, LinkDown,
              CloseTunnel, IdleTunnel
<1>4. ASSUME (\E n, d, f \in Node : AddRoutingClue(n, d, f)) \/ Clock
             \/ UNCHANGED vars
      PROVE  now' = now \/ now' = now + 1
  BY <1>4 DEF AddRoutingClue, Clock, vars
<1> QED BY <1>1, <1>2, <1>3, <1>4 DEF Next

\* Only handleIncomingDataItem() delivers to the client.
LEMMA DeliverySteps ==
    [Next]_vars =>
        \/ delivered' = delivered
        \/ \E n \in Node, outcome \in {"unverified", "undecryptable", "refused",
                                       "delivered"} :
              HandleIncomingDataItem(n, outcome) /\ crashes' = crashes
<1> SUFFICES ASSUME [Next]_vars
             PROVE  \/ delivered' = delivered
                    \/ \E n \in Node, outcome \in {"unverified",
                          "undecryptable", "refused", "delivered"} :
                          HandleIncomingDataItem(n, outcome)
                          /\ crashes' = crashes
  OBVIOUS
<1>1. ASSUME Client PROVE delivered' = delivered
  BY <1>1 DEF Client, SendData, Cancel
<1>2. ASSUME NEW n \in Node, \/ LowLevelDone(n) \/ IdleTick(n)
                             \/ RoutePendingObjects(n) \/ AutoWash(n)
                             \/ SaveConfig(n) \/ Crash(n)
      PROVE  delivered' = delivered
  BY <1>2 DEF LowLevelDone, IdleTick, RoutePendingObjects, AutoWash,
              SaveConfig, Crash, vars, history
<1>3. ASSUME NEW l \in Link, \/ Receive(l) \/ LinkUp(l) \/ LinkDown(l)
                             \/ CloseTunnel(l) \/ IdleTunnel(l)
      PROVE  delivered' = delivered
  BY <1>3 DEF Receive, ReceiveAck, ReceiveItem, LinkUp, LinkDown,
              CloseTunnel, IdleTunnel, history
<1>4. ASSUME (\E n, d, f \in Node : AddRoutingClue(n, d, f)) \/ Clock
             \/ UNCHANGED vars
      PROVE  delivered' = delivered
  BY <1>4 DEF AddRoutingClue, Clock, vars, history
<1>5. ASSUME NEW n \in Node, NEW accepted, HandleIncomingReceiptItem(n, accepted)
      PROVE  delivered' = delivered
  BY <1>5 DEF HandleIncomingReceiptItem
<1>6. ASSUME NEW n \in Node, NEW outcome, HandleIncomingDataItem(n, outcome)
      PROVE  crashes' = crashes
  BY <1>6 DEF HandleIncomingDataItem, faults
<1> QED BY <1>1, <1>2, <1>3, <1>4, <1>5, <1>6
        DEF Next, Tick, HandleIncoming

\* Every step keeps the count.
LEMMA NextCounted ==
    TypeOK /\ Provenance /\ CacheInv /\ Counted /\ [Next]_vars => Counted'
<1> SUFFICES ASSUME TypeOK, Provenance, CacheInv, Counted, [Next]_vars,
                    now' <= StartTime + DestKeep, NEW m \in Msg
             PROVE  \/ delivered'[m] <= crashes'
                    \/ delivered'[m] <= 1 + crashes' /\ Holds(Dest[m], m)'
  BY DEF Counted
<1>1. delivered[m] \in Nat /\ crashes \in Nat
  BY DEF TypeOK
<1>2. now <= StartTime + DestKeep
  <2>1. now' = now \/ now' = now + 1
    BY ClockSteps
  <2>2. now \in Nat /\ StartTime + DestKeep \in Nat
    BY DelaysAssumption DEF TypeOK, StartTime
  <2> QED BY <2>1, <2>2
<1>3. \/ delivered[m] <= crashes
      \/ delivered[m] <= 1 + crashes /\ Holds(Dest[m], m)
  BY <1>2 DEF Counted
<1>4. ASSUME NEW x \in Node, Crash(x)
      PROVE  delivered'[m] = delivered[m] /\ crashes' = crashes + 1
  BY <1>4 DEF Crash, history
<1>5. ASSUME NEW n \in Node, NEW outcome, HandleIncomingDataItem(n, outcome)
      PROVE  /\ crashes' = crashes
             /\ \/ delivered'[m] = delivered[m]
                \/ /\ ~Holds(Dest[m], m) /\ Holds(Dest[m], m)'
                   /\ delivered'[m] = delivered[m] + 1
  <2> DEFINE h == Head(incoming[n])
             k == h.item.id
             new == [NewEntry(n = Dest[k]) EXCEPT !.routes = @ \cup {h.from}]
  <2>1. crashes' = crashes
    BY <1>5 DEF HandleIncomingDataItem, faults
  <2>2. CASE delivered' = delivered
    BY <2>1, <2>2
  <2>3. CASE delivered' # delivered
    <3>1. /\ n = Dest[k] /\ ~Holds(n, k)
          /\ delivered' = [delivered EXCEPT ![k] = @ + 1]
          /\ pending' = [pending EXCEPT ![n][k] = new]
      BY <1>5, <2>3 DEF HandleIncomingDataItem, Dropped
    <3>2. k \in Msg
      BY <1>5, HeadDirected DEF CacheInv, HandleIncomingDataItem
    <3>3. new # None
      <4>1. NewEntry(n = Dest[k]) \in Entry
        BY NewEntryType DEF TypeOK
      <4> DEFINE g == NewEntry(n = Dest[k])
      <4> HIDE DEF g, h
      <4>2. [g EXCEPT !.routes = @ \cup {h.from}].role = g.role
        BY <4>1 DEF Entry, g
      <4>3. g.role # "none"
        BY <4>1 DEF Entry, g
      <4> QED BY <4>2, <4>3 DEF None, g
    <3> HIDE DEF new, k
    <3>4. CASE m = k
      <4>1. delivered'[m] = delivered[m] + 1
        BY <3>1, <3>4 DEF TypeOK
      <4>2. pending'[n][k] = new
        BY <3>1, <3>2 DEF TypeOK, Caches
      <4> QED BY <2>1, <3>1, <3>3, <3>4, <4>1, <4>2 DEF Holds
    <3>5. CASE m # k
      <4>1. delivered'[m] = delivered[m]
        BY <3>1, <3>5 DEF TypeOK
      <4> QED BY <2>1, <4>1
    <3> QED BY <3>4, <3>5
  <2> QED BY <2>2, <2>3
<1>6. CASE crashes' = crashes /\ delivered'[m] = delivered[m]
  BY <1>1, <1>2, <1>3, <1>6, DestinationHolds
<1>7. CASE \E x \in Node : Crash(x)
  BY <1>1, <1>3, <1>4, <1>7
<1>8. CASE \E n \in Node, outcome \in {"unverified", "undecryptable", "refused",
                                       "delivered"} :
              HandleIncomingDataItem(n, outcome)
  BY <1>1, <1>3, <1>5, <1>6, <1>8
<1>9. \/ crashes' = crashes /\ delivered' = delivered
      \/ \E x \in Node : Crash(x)
      \/ \E n \in Node, outcome \in {"unverified", "undecryptable", "refused",
                                     "delivered"} :
            HandleIncomingDataItem(n, outcome)
  BY CrashSteps, DeliverySteps
<1> QED BY <1>6, <1>7, <1>8, <1>9

\* The client of the destination sees each message once, and once more at most
\* for each crash, however often it is re-sent or duplicated on the way.
THEOREM DeliveredOncePerRun == Spec => []DeliveredOnce
<1>1. Init => Counted
  BY DEF Init, Counted
<1>2. TypeOK /\ Counted => DeliveredOnce
  <2> SUFFICES ASSUME TypeOK, Counted, now <= StartTime + DestKeep,
                      NEW m \in Msg
               PROVE  delivered[m] <= 1 + crashes
    BY DEF DeliveredOnce
  <2>1. delivered[m] \in Nat /\ crashes \in Nat
    BY DEF TypeOK
  <2> QED BY <2>1 DEF Counted
<1> QED BY <1>1, <1>2, InitType, InitGenuine, InitCache, NextType, NextGenuine,
           NextCache, NextCounted, PTL DEF Spec
-----------------------------------------------------------------------------
(* No message is forgotten *)

\* The origin has its own message in the cache.
OwnMessage(m) ==
    Holds(Origin[m], m) /\ pending[Origin[m]][m].role = "origin"

\* What NoSilentLoss rests on: the origin drops a message that is DONE without
\* a word, but such a message was reported RECEIVED.
OriginDone ==
    crashes = 0 => \A m \in Msg :
        OwnMessage(m) /\ pending[Origin[m]][m].status = "DONE" =>
            <<Origin[m], m, "RECEIVED">> \in told

\* What happened is not forgotten; only sendData() issues messages.
LEMMA HistoryGrows ==
    [Next]_vars => /\ told \subseteq told' /\ cancelled \subseteq cancelled'
                   /\ issued' = issued \/ \E m \in Msg : SendData(m)
<1> DEFINE Goal == /\ told \subseteq told' /\ cancelled \subseteq cancelled'
                   /\ issued' = issued \/ \E m \in Msg : SendData(m)
<1> SUFFICES ASSUME [Next]_vars PROVE Goal
  OBVIOUS
<1>0. ASSUME UNCHANGED history PROVE Goal
  BY <1>0 DEF history
<1>1. ASSUME NEW m \in Msg, SendData(m) \/ Cancel(m) PROVE Goal
  BY <1>1 DEF SendData, Cancel
<1>2. ASSUME NEW n \in Node, \/ LowLevelDone(n) \/ IdleTick(n)
                             \/ RoutePendingObjects(n) \/ SaveConfig(n)
                             \/ Crash(n)
      PROVE  UNCHANGED history
  BY <1>2 DEF LowLevelDone, IdleTick, RoutePendingObjects, SaveConfig, Crash,
              vars, history
<1>3. ASSUME NEW l \in Link, \/ Receive(l) \/ LinkUp(l) \/ LinkDown(l)
                             \/ CloseTunnel(l) \/ IdleTunnel(l)
      PROVE  UNCHANGED history
  BY <1>3 DEF Receive, ReceiveAck, ReceiveItem, LinkUp, LinkDown,
              CloseTunnel, IdleTunnel
<1>4. ASSUME (\E n, d, f \in Node : AddRoutingClue(n, d, f)) \/ Clock
             \/ UNCHANGED vars
      PROVE  UNCHANGED history
  BY <1>4 DEF AddRoutingClue, Clock, vars, history
<1>5. ASSUME NEW n \in Node, NEW accepted, HandleIncomingReceiptItem(n, accepted)
      PROVE  Goal
  BY <1>5 DEF HandleIncomingReceiptItem, requests
<1>6. ASSUME NEW n \in Node, NEW outcome, HandleIncomingDataItem(n, outcome)
      PROVE  Goal
  BY <1>6 DEF HandleIncomingDataItem, requests
<1>7. ASSUME NEW n \in Node, AutoWash(n) PROVE Goal
  BY <1>7 DEF AutoWash, requests
<1> HIDE DEF Goal
<1> QED BY <1>0, <1>1, <1>2, <1>3, <1>4, <1>5, <1>6, <1>7
        DEF Next, Client, Tick, HandleIncoming

\* Every step keeps both.
LEMMA NextNoLoss ==
    TypeOK /\ CacheInv /\ OriginDone /\ NoSilentLoss /\ [Next]_vars
        => OriginDone' /\ NoSilentLoss'
<1> SUFFICES ASSUME TypeOK, CacheInv, OriginDone, NoSilentLoss, [Next]_vars
             PROVE  OriginDone' /\ NoSilentLoss'
  OBVIOUS
<1>1. crashes \in Nat /\ (crashes' = crashes \/ crashes' = crashes + 1)
  <2>1. ASSUME NEW x \in Node, Crash(x) PROVE crashes' = crashes + 1
    BY <2>1 DEF Crash
  <2> QED BY <2>1, CrashSteps DEF TypeOK
<1>2. told \subseteq told' /\ cancelled \subseteq cancelled'
  BY HistoryGrows
<1>3. CASE crashes' # 0
  <2>1. OriginDone'
    BY <1>3 DEF OriginDone
  <2>2. crashes' > 0
    BY <1>1, <1>3
  <2> QED BY <2>1, <2>2 DEF NoSilentLoss
<1>4. CASE crashes' = 0
  <2>0. crashes = 0 /\ crashes' = crashes /\ ~(crashes > 0)
    BY <1>1, <1>4
  <2>1. ASSUME NEW m \in Msg
        PROVE  LET n == Origin[m] IN
               \/ Unchanged(n, m) \/ Sent(n, m) \/ Withdrawn(n, m)
               \/ Washed(n, m) \/ Changed(n, m) \/ Arrived(n, m)
    BY <2>0, SlotStep, ParticipantsAssumption
  <2>2. OriginDone'
    <3> SUFFICES ASSUME NEW m \in Msg, OwnMessage(m)',
                        pending'[Origin[m]][m].status = "DONE"
                 PROVE  <<Origin[m], m, "RECEIVED">> \in told'
      BY DEF OriginDone
    <3>1. \/ Unchanged(Origin[m], m)
          \/ Changed(Origin[m], m)
      BY <2>1 DEF OwnMessage, Holds, Sent, Withdrawn, Washed, Arrived
    <3>2. OwnMessage(m)
      BY <3>1 DEF OwnMessage, Holds, Unchanged, Changed
    <3>3. \/ pending[Origin[m]][m].status = "DONE"
          \/ <<Origin[m], m, "RECEIVED">> \in told'
      BY <3>1, <3>2 DEF OwnMessage, Unchanged, Changed
    <3> QED BY <1>2, <2>0, <3>2, <3>3 DEF OriginDone
  <2>3. NoSilentLoss'
    <3> SUFFICES ASSUME NEW m \in issued', m \notin cancelled',
                        <<Origin[m], m, "RECEIVED">> \notin told',
                        <<Origin[m], m, "FAILED">> \notin told'
                 PROVE  OwnMessage(m)'
      BY DEF NoSilentLoss, OwnMessage
    <3>1. m \in Msg
      BY NextType DEF TypeOK
    <3>2. CASE m \in issued
      <4>1. OwnMessage(m)
        BY <1>2, <2>0, <3>2 DEF NoSilentLoss, OwnMessage
      <4>2. pending[Origin[m]][m].status # "DONE"
        BY <1>2, <2>0, <3>1, <4>1 DEF OriginDone
      <4>3. \/ Unchanged(Origin[m], m)
            \/ Changed(Origin[m], m)
        BY <2>1, <3>1, <3>2, <4>1, <4>2
        DEF OwnMessage, Sent, Withdrawn, Washed, Arrived
      <4> QED BY <4>1, <4>3 DEF OwnMessage, Holds, Unchanged, Changed
    <3>3. CASE m \notin issued
      <4>1. SendData(m)
        <5>1. \/ issued' = issued
              \/ \E k \in Msg : SendData(k)
          BY HistoryGrows
        <5> QED BY <3>3, <5>1 DEF SendData
      <4> DEFINE new == [role |-> "origin", status |-> "PENDING",
                         allowTunnels |-> FALSE, receipt |-> FALSE,
                         routes |-> {}, received |-> now, lastSent |-> 0,
                         transaction |-> 0]
      <4>2. pending' = [pending EXCEPT ![Origin[m]][m] = new]
        BY <4>1 DEF SendData
      <4>3. pending'[Origin[m]][m] = new
        BY <3>1, <4>2, ParticipantsAssumption DEF TypeOK, Caches
      <4>4. new # None /\ new.role = "origin"
        BY DEF None
      <4> QED BY <4>3, <4>4 DEF OwnMessage, Holds
    <3> QED BY <3>2, <3>3
  <2> QED BY <2>2, <2>3
<1> QED BY <1>3, <1>4

\* A message that sendData() accepted is in the cache of its origin, as the
\* origin's own, until the client cancels it or is told RECEIVED or FAILED.
THEOREM NoMessageForgotten == Spec => []NoSilentLoss
<1>1. Init => OriginDone /\ NoSilentLoss
  BY ParticipantsAssumption
  DEF Init, OriginDone, OwnMessage, Holds, NoSilentLoss
<1> QED BY <1>1, InitType, InitGenuine, InitCache, NextType, NextGenuine,
           NextCache, NextNoLoss, PTL DEF Spec

-----------------------------------------------------------------------------
(* The client hears one verdict *)

\* What b hears from its friend a comes from the side of the origin of m.
Outward(m, a, b) == \A S \in SUBSET Node : Bridge(S, a, b) => Origin[m] \in S

\* Data of m may come to n from peer p: over friends, away from the origin, or by
\* a tunnel to the destination.
FromOrigin(m, p, n) ==
    \/ p[1] = "friend" /\ p[2] \in Friends[n] /\ Outward(m, p[2], n)
    \/ p[1] = "in" /\ n = Dest[m]

LinksOutward ==
    \A l \in Link, m \in Msg : net[l][Data(m)] > 0 => FromOrigin(m, Sender(l), l[3])

QueuesOutward ==
    \A n \in Node : \A k \in DOMAIN incoming[n] :
        LET q == incoming[n][k] IN q.item.type = "data" => FromOrigin(q.item.id, q.from, n)

\* A relay has its data from the side of the origin, and the origin only has its
\* own entry.
EntryOutward(n, m, e) ==
    e # None => /\ e.role = "relay" => \A p \in e.routes : FromOrigin(m, p, n)
                /\ n = Origin[m] => e.role = "origin"

CachesOutward == \A n \in Node, m \in Msg : EntryOutward(n, m, pending[n][m])

OutwardInv == LinksOutward /\ QueuesOutward /\ CachesOutward

\* In a network without cycles an item that goes on to another friend than the one
\* it came from still goes away from the origin.
LEMMA OnwardIsOutward ==
    ASSUME NoCycles, NEW m \in Msg, NEW n \in Node, NEW p \in Friends[n],
           NEW f \in Friends[n], p # f, Outward(m, p, n)
    PROVE  Outward(m, n, f)
<1> SUFFICES ASSUME NEW S \in SUBSET Node, Bridge(S, n, f) PROVE Origin[m] \in S
  BY DEF Outward
<1>1. p \in Node /\ n \in Friends[p] /\ p # n
  BY ParticipantsAssumption
<1>2. PICK T \in SUBSET Node : Bridge(T, p, n)
  BY <1>1 DEF NoCycles
<1>3. p \in S
  BY <1>1 DEF Bridge
<1>4. Bridge(T \cap S, p, n)
  <2>1. p \in T \cap S /\ n \notin T \cap S
    BY <1>2, <1>3 DEF Bridge
  <2>2. ASSUME NEW x \in T \cap S, NEW y \in Node \ (T \cap S), y \in Friends[x]
        PROVE  x = p /\ y = n
    <3>1. CASE y \notin T
      BY <1>2, <2>2, <3>1 DEF Bridge
    <3>2. CASE y \notin S
      <4>1. x = n
        BY <2>2, <3>2 DEF Bridge
      <4> QED BY <1>2, <4>1 DEF Bridge
    <3> QED BY <3>1, <3>2
  <2> QED BY <2>1, <2>2 DEF Bridge
<1>5. Origin[m] \in T \cap S
  BY <1>4 DEF Outward
<1> QED BY <1>5

\* Nothing comes back to the origin.
LEMMA NotBackToOrigin ==
    ASSUME NoCycles, NEW m \in Msg, NEW n \in Node, NEW p, FromOrigin(m, p, n)
    PROVE  n # Origin[m]
<1>1. CASE p[1] = "friend" /\ p[2] \in Friends[n] /\ Outward(m, p[2], n)
  <2>1. p[2] \in Node /\ n \in Friends[p[2]]
    BY <1>1, ParticipantsAssumption
  <2>2. PICK S \in SUBSET Node : Bridge(S, p[2], n)
    BY <2>1 DEF NoCycles
  <2> QED BY <1>1, <2>2 DEF Outward, Bridge
<1>2. CASE p[1] = "in" /\ n = Dest[m]
  BY <1>2, ParticipantsAssumption
<1> QED BY <1>1, <1>2 DEF FromOrigin

\* What the peer at the other end of link l hears on it, and from whom.
LEMMA SenderOf ==
    ASSUME NEW k \in {"friend", "out", "in"}, NEW a, NEW b
    PROVE  /\ Sender(<<k, a, b>>) = <<IF k = "out" THEN "in" ELSE IF k = "in" THEN "out"
                                      ELSE "friend", a>>
           /\ <<k, a, b>>[2] = a /\ <<k, a, b>>[3] = b /\ <<k, a, b>>[1] = k
BY DEF Sender, Reverse

\* Data goes out over friends that did not bring it, or into a tunnel that leads
\* to the destination.
LEMMA HopsOutward ==
    ASSUME TypeOK, Provenance, CacheInv, OutwardInv, NoCycles,
           NEW n \in Node, NEW m \in Msg, Holds(n, m), NEW hops \in Hops(n, m),
           NEW p \in hops, To(n, p) \in Link
    PROVE  FromOrigin(m, Sender(To(n, p)), To(n, p)[3])
<1> DEFINE e == pending[n][m]
<1>0. e \in Entry /\ e # None
  BY HeldEntry DEF Holds
<1>1. /\ e.status = "PENDING"
      /\ hops \in TunnelHops(n, Dest[m], e) \cup
                  UNION {FriendHops(n, e, F) : F \in Favoured(n, Dest[m])}
  BY DEF Hops
<1>2. CASE hops \in TunnelHops(n, Dest[m], e)
  <2>1. p = <<"out", Dest[m]>>
    BY <1>2 DEF TunnelHops
  <2>2. To(n, p) = <<"out", n, Dest[m]>>
    BY <2>1 DEF To
  <2> QED BY <2>2, SenderOf DEF FromOrigin
<1>3. CASE \E F \in Favoured(n, Dest[m]) : hops \in FriendHops(n, e, F)
  <2>1. PICK f : /\ p = <<"friend", f>> /\ <<"friend", n, f>> \in up
                 /\ <<"friend", f>> \notin e.routes
    BY <1>3 DEF FriendHops
  <2>2. f \in Friends[n] /\ n \in Friends[f] /\ f \in Node
    <3>1. <<"friend", n, f>> \in Link
      BY <2>1 DEF TypeOK
    <3> QED BY <3>1, ParticipantsAssumption DEF Link
  <2>3. To(n, p) = <<"friend", n, f>>
    BY <2>1 DEF To
  <2>4. Sender(To(n, p)) = <<"friend", n>> /\ To(n, p)[3] = f
    BY <2>3, SenderOf
  <2>5. Outward(m, n, f)
    <3>1. EntryShape(n, m, e) /\ EntryGenuine(n, m, e) /\ EntryOutward(n, m, e)
      BY DEF CacheInv, Shapes, Provenance, CachesGenuine, OutwardInv, CachesOutward
    <3>2. e.role \in {"origin", "relay"}
      BY <1>0, <1>1, <3>1 DEF EntryShape, Known, Entry
    <3>3. CASE e.role = "origin"
      BY <1>0, <3>1, <3>3 DEF EntryGenuine, Outward, Bridge
    <3>4. CASE e.role = "relay"
      <4>1. PICK q \in e.routes : FromOrigin(m, q, n)
        BY <1>0, <1>1, <3>1, <3>4 DEF EntryShape, EntryOutward
      <4>2. n # Dest[m]
        BY <1>0, <3>1, <3>4 DEF EntryShape
      <4>3. q[1] = "friend" /\ q[2] \in Friends[n] /\ Outward(m, q[2], n)
        BY <4>1, <4>2 DEF FromOrigin
      <4>4. q[2] # f
        <5>1. q \in Peer
          BY <1>0, <4>1 DEF Entry
        <5>2. q = <<q[1], q[2]>>
          BY <5>1 DEF Peer
        <5> QED BY <2>1, <4>1, <4>3, <5>2
      <4> QED BY <2>2, <4>3, <4>4, OnwardIsOutward
    <3> QED BY <3>2, <3>3, <3>4
  <2> QED BY <2>2, <2>4, <2>5 DEF FromOrigin
<1> QED BY <1>1, <1>2, <1>3

\* What does not touch a part of the state keeps what is said of it.
LEMMA OutwardStays ==
    /\ LinksOutward /\ net' = net => LinksOutward'
    /\ QueuesOutward /\ incoming' = incoming => QueuesOutward'
    /\ CachesOutward /\ pending' = pending => CachesOutward'
BY DEF LinksOutward, QueuesOutward, CachesOutward

\* Items that are lost do not come from anywhere.
LEMMA LostOutward ==
    ASSUME LinksOutward, NEW links, net' = Lost(links)
    PROVE  LinksOutward'
<1> SUFFICES ASSUME NEW l \in Link, NEW m \in Msg, net'[l][Data(m)] > 0
             PROVE  FromOrigin(m, Sender(l), l[3])
  BY DEF LinksOutward
<1>1. net[l][Data(m)] > 0
  BY ItemTypes DEF Lost, NoItems
<1> QED BY <1>1 DEF LinksOutward

\* One entry changes.
LEMMA PutOutward ==
    ASSUME TypeOK, CachesOutward, NEW n \in Node, NEW m \in Msg, NEW e,
           pending' = [pending EXCEPT ![n][m] = e], EntryOutward(n, m, e)
    PROVE  CachesOutward'
<1> SUFFICES ASSUME NEW j \in Node, NEW k \in Msg
             PROVE  EntryOutward(j, k, pending'[j][k])
  BY DEF CachesOutward
<1>1. CASE j = n /\ k = m
  BY <1>1 DEF TypeOK, Caches
<1>2. CASE ~(j = n /\ k = m)
  <2>1. pending'[j][k] = pending[j][k]
    BY <1>2 DEF TypeOK, Caches
  <2> QED BY <2>1 DEF CachesOutward
<1> QED BY <1>1, <1>2

\* The first item of a queue, and the others.
LEMMA HeadOutward ==
    ASSUME TypeOK, QueuesOutward, NEW n \in Node, incoming[n] # <<>>
    PROVE  LET h == Head(incoming[n]) IN
           h.item.type = "data" => FromOrigin(h.item.id, h.from, n)
<1>1. incoming[n] \in Seq(QueuedItem)
  BY DEF TypeOK, Queues
<1>2. Head(incoming[n]) = incoming[n][1] /\ 1 \in DOMAIN incoming[n]
  <2>1. Len(incoming[n]) \in Nat /\ Len(incoming[n]) # 0
        /\ DOMAIN incoming[n] = 1 .. Len(incoming[n])
    BY <1>1, LenProperties, EmptySeq
  <2> QED BY <1>1, <2>1
<1> QED BY <1>2 DEF QueuesOutward

\* What stays in a queue came from where it came from.
LEMMA TailOutward ==
    ASSUME TypeOK, QueuesOutward, NEW n \in Node, incoming[n] # <<>>,
           incoming' = [incoming EXCEPT ![n] = Tail(@)]
    PROVE  QueuesOutward'
<1>1. incoming[n] \in Seq(QueuedItem)
  BY DEF TypeOK, Queues
<1> SUFFICES ASSUME NEW j \in Node, NEW k \in DOMAIN incoming'[j],
                    incoming'[j][k].item.type = "data"
             PROVE  FromOrigin(incoming'[j][k].item.id, incoming'[j][k].from, j)
  BY DEF QueuesOutward
<1>2. CASE j = n
  <2>1. incoming'[j] = Tail(incoming[n])
    BY <1>2 DEF TypeOK, Queues
  <2>2. Tail(incoming[n]) \in Seq(QueuedItem)
    BY <1>1, HeadTailProperties
  <2>3. Len(Tail(incoming[n])) = Len(incoming[n]) - 1
    BY <1>1, HeadTailProperties
  <2>4. k \in 1 .. Len(Tail(incoming[n]))
    BY <2>1, <2>2, LenProperties
  <2>5. Tail(incoming[n])[k] = incoming[n][k + 1]
    BY <1>1, <2>3, <2>4, HeadTailProperties
  <2>6. k + 1 \in DOMAIN incoming[n]
    <3>1. Len(incoming[n]) \in Nat /\ DOMAIN incoming[n] = 1 .. Len(incoming[n])
      BY <1>1, LenProperties
    <3> QED BY <2>3, <2>4, <3>1
  <2> QED BY <1>2, <2>1, <2>5, <2>6 DEF QueuesOutward
<1>3. CASE j # n
  <2>1. incoming'[j] = incoming[j]
    BY <1>3 DEF TypeOK, Queues
  <2> QED BY <2>1 DEF QueuesOutward
<1> QED BY <1>2, <1>3

\* handleIncomingDataItem(): the new route leads towards the origin, and no data
\* comes to the origin itself.
LEMMA DataOutward ==
    ASSUME TypeOK, CacheInv, OutwardInv, NoCycles,
           NEW n \in Node, NEW outcome, HandleIncomingDataItem(n, outcome)
    PROVE  OutwardInv'
<1> DEFINE h == Head(incoming[n])
           m == h.item.id
           info == IF Holds(n, m) THEN pending[n][m] ELSE NewEntry(n = Dest[m])
           new == [info EXCEPT !.routes = @ \cup {h.from}]
<1>1. /\ incoming[n] # <<>> /\ h.item.type = "data" /\ net' = net
      /\ incoming' = [incoming EXCEPT ![n] = Tail(@)]
      /\ pending' = pending \/ pending' = [pending EXCEPT ![n][m] = new]
  BY DEF HandleIncomingDataItem
<1>2. m \in Msg /\ h.from \in Peer
  BY <1>1, HeadDirected DEF CacheInv, QueuedItem
<1>3. FromOrigin(m, h.from, n)
  BY <1>1, HeadOutward DEF OutwardInv
<1>4. n # Origin[m]
  BY <1>2, <1>3, NotBackToOrigin
<1>5. info \in Entry
  BY <1>2, HeldEntry, NewEntryType DEF TypeOK
<1>6. Holds(n, m) => EntryOutward(n, m, info)
  BY <1>2 DEF OutwardInv, CachesOutward
<1>7. ~Holds(n, m) => info.routes = {}
  <2> HIDE DEF m
  <2> QED BY DEF NewEntry
<1>8. EntryOutward(n, m, new)
  <2> HIDE DEF info, h, m
  <2>1. new.role = info.role /\ new.routes = info.routes \cup {h.from} /\ info # None
    BY <1>5 DEF Entry, None
  <2> QED BY <1>3, <1>4, <1>6, <1>7, <2>1 DEF EntryOutward
<1>9. CachesOutward'
  <2> HIDE DEF new, m
  <2> QED BY <1>1, <1>2, <1>8, PutOutward, OutwardStays DEF OutwardInv
<1> QED BY <1>1, <1>9, TailOutward, OutwardStays DEF OutwardInv

\* handleIncomingReceiptItem(): routes and roles stay.
LEMMA ReceiptOutward ==
    ASSUME TypeOK, CacheInv, OutwardInv,
           NEW n \in Node, NEW accepted, HandleIncomingReceiptItem(n, accepted)
    PROVE  OutwardInv'
<1> DEFINE m == Head(incoming[n]).item.id
           e == pending[n][m]
           new == WithReceipt(e)
<1>1. /\ incoming[n] # <<>> /\ net' = net
      /\ incoming' = [incoming EXCEPT ![n] = Tail(@)]
      /\ \/ pending' = pending
         \/ Holds(n, m) /\ pending' = [pending EXCEPT ![n][m] = new]
  BY DEF HandleIncomingReceiptItem
<1>2. m \in Msg
  BY <1>1, HeadDirected DEF CacheInv
<1>3. ASSUME Holds(n, m) PROVE EntryOutward(n, m, new)
  <2>1. e \in Entry /\ EntryOutward(n, m, e) /\ e # None
    BY <1>2, <1>3, HeldEntry DEF OutwardInv, CachesOutward, Holds
  <2> HIDE DEF e, m
  <2>2. new.role = e.role /\ new.routes = e.routes
    BY <2>1 DEF WithReceipt, Entry
  <2> QED BY <2>1, <2>2 DEF EntryOutward
<1>4. CachesOutward'
  <2> HIDE DEF new, m
  <2> QED BY <1>1, <1>2, <1>3, PutOutward, OutwardStays DEF OutwardInv
<1> QED BY <1>1, <1>4, TailOutward, OutwardStays DEF OutwardInv

\* handleLowLevelTransactionAckItem()
LEMMA AckOutward ==
    ASSUME TypeOK, OutwardInv, NEW l \in Link, NEW m \in Msg, ReceiveAck(l, m)
    PROVE  OutwardInv'
<1> DEFINE n == l[3]
           e == pending[n][m]
           new == [e EXCEPT !.status = "SENT", !.lastSent = now]
<1>1. /\ net' = [net EXCEPT ![l][Ack(m)] = @ - 1] /\ incoming' = incoming
      /\ \/ pending' = pending
         \/ Holds(n, m) /\ pending' = [pending EXCEPT ![n][m] = new]
  BY DEF ReceiveAck, AwaitsAck
<1>2. LinksOutward'
  <2>1. \A k \in Link, j \in Msg : net'[k][Data(j)] = net[k][Data(j)]
    <3>1. \A j \in Msg : Data(j) # Ack(m)
      BY DEF Data, Ack
    <3>2. \A j \in Msg : Data(j) \in Item
      BY ItemTypes
    <3> QED BY <1>1, <3>1, <3>2 DEF TypeOK, Channels
  <2> QED BY <2>1 DEF OutwardInv, LinksOutward
<1>3. n \in Node
  BY ReverseLink
<1>4. ASSUME Holds(n, m) PROVE EntryOutward(n, m, new)
  <2>1. e \in Entry /\ EntryOutward(n, m, e) /\ e # None
    BY <1>3, <1>4, HeldEntry DEF OutwardInv, CachesOutward, Holds
  <2> HIDE DEF e, n
  <2>2. new.role = e.role /\ new.routes = e.routes
    BY <2>1 DEF Entry
  <2> QED BY <2>1, <2>2 DEF EntryOutward
<1>5. CachesOutward'
  <2> HIDE DEF new, n
  <2> QED BY <1>1, <1>3, <1>4, PutOutward, OutwardStays DEF OutwardInv
<1> QED BY <1>1, <1>2, <1>5, OutwardStays DEF OutwardInv

\* handleLowLevelTransactionChunkItem(): the item moves from the link to the queue.
LEMMA ItemOutward ==
    ASSUME TypeOK, OutwardInv, NEW l \in Link, NEW item \in Item,
           ReceiveItem(l, item)
    PROVE  OutwardInv'
<1>1. pending' = pending
  BY DEF ReceiveItem
<1>2. item.type = "data" => FromOrigin(item.id, Sender(l), l[3])
  <2>1. item.type = "data" => item = Data(item.id) /\ item.id \in Msg
    BY DEF Item, Data
  <2>2. net[l][item] > 0
    BY DEF ReceiveItem
  <2> QED BY <2>1, <2>2 DEF OutwardInv, LinksOutward
<1>3. LinksOutward'
  <2> SUFFICES ASSUME NEW k \in Link, NEW m \in Msg, net'[k][Data(m)] > 0
               PROVE  FromOrigin(m, Sender(k), k[3])
    BY DEF LinksOutward
  <2>1. Data(m) # Ack(item.id) /\ Data(m) \in Item
    BY ItemTypes DEF Data, Ack
  <2>2. net[k][Data(m)] \in Nat /\ net'[k][Data(m)] \in {net[k][Data(m)], net[k][Data(m)] - 1}
    <3>1. Reverse(l) \in Link /\ Ack(item.id) \in Item
      BY ReverseLink, ItemTypes DEF Item
    <3> QED BY <2>1, <3>1 DEF ReceiveItem, TypeOK, Channels
  <2>3. net[k][Data(m)] > 0
    BY <2>2
  <2> QED BY <2>3 DEF OutwardInv, LinksOutward
<1>4. QueuesOutward'
  <2> DEFINE n == l[3]
             q == incoming[n]
             new == [item |-> item, from |-> Sender(l)]
  <2>1. n \in Node /\ Sender(l) \in Peer
    BY ReverseLink DEF Sender
  <2>2. q \in Seq(QueuedItem) /\ new \in QueuedItem
    BY <2>1 DEF TypeOK, Queues, QueuedItem
  <2>3. incoming' = [incoming EXCEPT ![n] = Append(q, new)]
    BY DEF ReceiveItem
  <2> DEFINE Good(x) == x.item.type = "data" => FromOrigin(x.item.id, x.from, n)
  <2>4. ASSUME NEW k \in DOMAIN Append(q, new) PROVE Good(Append(q, new)[k])
    <3>1. /\ k \in 1 .. Len(q) => Append(q, new)[k] = q[k]
          /\ k \notin 1 .. Len(q) => Append(q, new)[k] = new
      BY <2>2, AppendProperties
    <3>2. k \in 1 .. Len(q) => k \in DOMAIN q
      BY <2>2, LenProperties
    <3>3. \A j \in DOMAIN q : Good(q[j])
      BY <2>1 DEF OutwardInv, QueuesOutward
    <3>4. Good(new)
      BY <1>2
    <3> HIDE DEF q, new, n, Good
    <3> QED BY <3>1, <3>2, <3>3, <3>4
  <2> SUFFICES ASSUME NEW j \in Node, NEW k \in DOMAIN incoming'[j],
                      incoming'[j][k].item.type = "data"
               PROVE  FromOrigin(incoming'[j][k].item.id, incoming'[j][k].from, j)
    BY DEF QueuesOutward
  <2> HIDE DEF q, new
  <2>5. CASE j = n
    <3>1. incoming'[j] = Append(q, new)
      BY <2>1, <2>3, <2>5 DEF TypeOK, Queues
    <3> QED BY <2>4, <2>5, <3>1
  <2>6. CASE j # n
    <3>1. incoming'[j] = incoming[j]
      BY <2>3, <2>6 DEF TypeOK, Queues
    <3> QED BY <3>1 DEF OutwardInv, QueuesOutward
  <2> QED BY <2>5, <2>6
<1> QED BY <1>1, <1>3, <1>4, OutwardStays DEF OutwardInv

\* routePendingObjects()
LEMMA RoundOutward ==
    ASSUME TypeOK, Provenance, CacheInv, OutwardInv, NoCycles,
           NEW n \in Node, RoutePendingObjects(n)
    PROVE  OutwardInv'
<1>1. PICK hops :
        LET held == {m \in Msg : Holds(n, m)}
            answered(m) == Answered(n, pending[n][m], hops[m])
            sent(p) == {Data(m) : m \in {k \in held : p \in hops[k]}} \cup
                       {Receipt(m) : m \in {k \in held : p \in answered(k)}}
        IN
        /\ \A m \in Msg : hops[m] \in Hops(n, m)
        /\ pending' = [pending EXCEPT ![n] = [m \in Msg |->
             IF m \in held
             THEN Struck(Routed(pending[n][m], hops[m]), answered(m))
             ELSE None]]
        /\ net' = Sending(n, [p \in Peer |-> sent(p)])
  BY DEF RoutePendingObjects
<1> DEFINE answered(m) == Answered(n, pending[n][m], hops[m])
           new(m) == Struck(Routed(pending[n][m], hops[m]), answered(m))
           sent(p) == {Data(m) : m \in {k \in {j \in Msg : Holds(n, j)} :
                                          p \in hops[k]}} \cup
                      {Receipt(m) : m \in {k \in {j \in Msg : Holds(n, j)} :
                                             p \in answered(k)}}
<1>2. LinksOutward'
  <2> SUFFICES ASSUME NEW l \in Link, NEW m \in Msg, net'[l][Data(m)] > 0
               PROVE  FromOrigin(m, Sender(l), l[3])
    BY DEF LinksOutward
  <2> DEFINE p == <<l[1], l[3]>>
  <2>1. p \in Peer /\ Data(m) \in Item
    BY ItemTypes DEF Link, Peer
  <2>2. net'[l][Data(m)] = IF l[2] = n /\ l \in Carrying /\ Data(m) \in sent(p)
                           THEN net[l][Data(m)] + 1 ELSE net[l][Data(m)]
    <3> HIDE DEF sent, p
    <3>1. net' = Sending(n, [q \in Peer |-> sent(q)])
      BY <1>1 DEF sent
    <3> QED BY <2>1, <3>1 DEF Sending, p
  <2>3. CASE l[2] = n /\ Data(m) \in sent(p)
    <3>1. PICK k \in Msg : Holds(n, k) /\ p \in hops[k] /\ Data(m) = Data(k)
      BY <2>3 DEF Data, Receipt
    <3>2. k = m
      BY <3>1 DEF Data
    <3>3. To(n, p) = l
      BY <2>3 DEF To, Link
    <3>4. hops[m] \in Hops(n, m)
      BY <1>1
    <3> HIDE DEF p
    <3> QED BY <3>1, <3>2, <3>3, <3>4, HopsOutward
  <2>4. CASE ~(l[2] = n /\ Data(m) \in sent(p))
    <3> HIDE DEF sent, p
    <3> QED BY <2>2, <2>4 DEF OutwardInv, LinksOutward
  <2> QED BY <2>3, <2>4
<1>3. CachesOutward'
  <2> SUFFICES ASSUME NEW j \in Node, NEW k \in Msg
               PROVE  EntryOutward(j, k, pending'[j][k])
    BY DEF CachesOutward
  <2>0. EntryOutward(j, k, pending[j][k])
    BY DEF OutwardInv, CachesOutward
  <2>1. CASE j = n /\ Holds(n, k)
    <3> DEFINE e == pending[n][k]
    <3>1. pending'[j][k] = new(k)
      BY <1>1, <2>1 DEF TypeOK, Caches
    <3>2. e \in Entry /\ e # None
      BY <2>1, HeldEntry DEF Holds
    <3> DEFINE g == Routed(e, hops[k])
    <3>3. g \in Entry /\ g.role = e.role /\ g.routes = e.routes
      BY <3>2, RoutedKeeps DEF TypeOK
    <3>4. new(k).role = g.role /\ new(k).routes \subseteq g.routes
      <4> HIDE DEF g, answered
      <4>1. \A a : Struck(g, a).role = g.role /\ Struck(g, a).routes \subseteq g.routes
        BY <3>3 DEF Struck, Entry
      <4> QED BY <4>1 DEF g
    <3> HIDE DEF new, g
    <3> QED BY <2>0, <2>1, <3>1, <3>2, <3>3, <3>4 DEF EntryOutward
  <2>2. CASE j = n /\ ~Holds(n, k)
    <3>1. pending'[j][k] = None
      BY <1>1, <2>2 DEF TypeOK, Caches
    <3> QED BY <3>1 DEF EntryOutward
  <2>3. CASE j # n
    <3>1. pending'[j][k] = pending[j][k]
      BY <1>1, <2>3 DEF TypeOK, Caches
    <3> QED BY <2>0, <3>1
  <2> QED BY <2>1, <2>2, <2>3
<1>4. incoming' = incoming
  BY DEF RoutePendingObjects
<1> QED BY <1>2, <1>3, <1>4, OutwardStays DEF OutwardInv

\* Every step but a crash keeps the direction of data.
LEMMA NextOutward ==
    ASSUME TypeOK, Provenance, CacheInv, OutwardInv, NoCycles, [Next]_vars,
           crashes' = crashes
    PROVE  OutwardInv'
<1>1. ASSUME NEW m \in Msg, SendData(m) PROVE OutwardInv'
  <2> DEFINE n == Origin[m]
             new == [role |-> "origin", status |-> "PENDING",
                     allowTunnels |-> FALSE, receipt |-> FALSE,
                     routes |-> {}, received |-> now, lastSent |-> 0,
                     transaction |-> 0]
  <2>1. UNCHANGED <<incoming, net>> /\ pending' = [pending EXCEPT ![n][m] = new]
    BY <1>1 DEF SendData
  <2>2. n \in Node /\ EntryOutward(n, m, new)
    BY ParticipantsAssumption DEF EntryOutward
  <2> HIDE DEF n, new
  <2> QED BY <2>1, <2>2, PutOutward, OutwardStays DEF OutwardInv
<1>2. ASSUME NEW m \in Msg, Cancel(m) PROVE OutwardInv'
  <2>1. /\ UNCHANGED <<incoming, net>> /\ Origin[m] \in Node
        /\ pending' = [pending EXCEPT ![Origin[m]][m] = None]
    BY <1>2, ParticipantsAssumption DEF Cancel
  <2>2. EntryOutward(Origin[m], m, None)
    BY DEF EntryOutward
  <2> QED BY <2>1, <2>2, PutOutward, OutwardStays DEF OutwardInv
<1>3. ASSUME UNCHANGED <<incoming, pending, net>> PROVE OutwardInv'
  BY <1>3, OutwardStays DEF OutwardInv
<1>4. ASSUME NEW n \in Node, LowLevelDone(n) \/ IdleTick(n) \/ SaveConfig(n)
      PROVE  UNCHANGED <<incoming, pending, net>>
  BY <1>4 DEF LowLevelDone, IdleTick, SaveConfig, vars
<1>5. ASSUME (\E n, d, f \in Node : AddRoutingClue(n, d, f)) \/ Clock \/ UNCHANGED vars
      PROVE  UNCHANGED <<incoming, pending, net>>
  BY <1>5 DEF AddRoutingClue, Clock, vars
<1>6. ASSUME NEW l \in Link,
             LinkUp(l) \/ LinkDown(l) \/ CloseTunnel(l) \/ IdleTunnel(l)
      PROVE  OutwardInv'
  <2>1. UNCHANGED <<pending, incoming>>
    BY <1>6 DEF LinkUp, LinkDown, CloseTunnel, IdleTunnel
  <2>2. net' = net \/ \E links : net' = Lost(links)
    BY <1>6 DEF LinkUp, LinkDown, CloseTunnel, IdleTunnel
  <2> QED BY <2>1, <2>2, LostOutward, OutwardStays DEF OutwardInv
<1>7. ASSUME NEW n \in Node, AutoWash(n) PROVE OutwardInv'
  <2>1. /\ UNCHANGED <<incoming, net>>
        /\ \A j \in Node, k \in Msg : pending'[j][k] \in {pending[j][k], None}
    BY <1>7 DEF AutoWash, TypeOK, Caches
  <2>2. CachesOutward'
    BY <2>1 DEF OutwardInv, CachesOutward, EntryOutward
  <2> QED BY <2>1, <2>2, OutwardStays DEF OutwardInv
<1>8. ASSUME NEW x \in Node, Crash(x) PROVE FALSE
  BY <1>8 DEF Crash, TypeOK
<1> QED
  BY <1>1, <1>2, <1>3, <1>4, <1>5, <1>6, <1>7, <1>8, AckOutward, ItemOutward,
     DataOutward, ReceiptOutward, RoundOutward
  DEF Next, Client, Tick, HandleIncoming, Receive

\* The client of the origin of m.
Told(m, v) == <<Origin[m], m, v>> \in told

\* A message that was reported is DONE or gone at its origin.
Reported(m) ==
    LET n == Origin[m] IN
    /\ Told(m, "RECEIVED") => m \in issued /\ (Holds(n, m) => pending[n][m].status = "DONE")
    /\ Told(m, "FAILED") => m \in issued /\ ~Holds(n, m)
    /\ ~(Told(m, "RECEIVED") /\ Told(m, "FAILED"))

VerdictInv == crashes = 0 => OutwardInv /\ \A m \in Msg : Reported(m)

\* When clients are told: a receipt makes the entry DONE, and what expires before
\* is removed.
LEMMA VerdictStep ==
    ASSUME TypeOK, CacheInv, [Next]_vars, NEW n \in Node, NEW m \in Msg, NEW v,
           <<n, m, v>> \in told' \ told
    PROVE  /\ Holds(n, m)
           /\ \/ v = "RECEIVED" /\ pending'[n][m] # None /\ pending'[n][m].status = "DONE"
              \/ v = "FAILED" /\ pending'[n][m] = None /\ pending[n][m].status # "DONE"
<1> DEFINE Goal ==
      /\ Holds(n, m)
      /\ \/ v = "RECEIVED" /\ pending'[n][m] # None /\ pending'[n][m].status = "DONE"
         \/ v = "FAILED" /\ pending'[n][m] = None /\ pending[n][m].status # "DONE"
<1>1. ASSUME NEW x \in Node, NEW accepted, HandleIncomingReceiptItem(x, accepted)
      PROVE  Goal
  <2> DEFINE k == Head(incoming[x]).item.id
             e == pending[x][k]
             new == WithReceipt(e)
  <2>1. /\ incoming[x] # <<>> /\ Holds(x, k) /\ e.role = "origin"
        /\ pending' = [pending EXCEPT ![x][k] = new]
        /\ told' = told \cup {<<x, k, "RECEIVED">>}
    BY <1>1 DEF HandleIncomingReceiptItem
  <2>2. k \in Msg
    BY <2>1, HeadDirected DEF CacheInv
  <2>3. e \in Entry
    BY <2>1, <2>2, HeldEntry
  <2>4. new \in Entry /\ new.status = "DONE"
    <3> HIDE DEF e
    <3> QED BY <2>1, <2>3 DEF WithReceipt, Entry
  <2>5. new # None
    <3> HIDE DEF new
    <3> QED BY <2>4 DEF Entry, None
  <2> HIDE DEF k
  <2>6. n = x /\ m = k /\ v = "RECEIVED"
    BY <2>1
  <2>7. pending'[n][m] = new
    BY <2>1, <2>6 DEF TypeOK, Caches
  <2> HIDE DEF new, e
  <2> QED BY <2>1, <2>4, <2>5, <2>6, <2>7
<1>2. ASSUME NEW x \in Node, AutoWash(x) PROVE Goal
  <2>1. n = x /\ v = "FAILED" /\ Holds(n, m) /\ Expired(pending[n][m])
        /\ pending[n][m].status # "DONE"
    BY <1>2 DEF AutoWash, FailureNotices
  <2>2. pending'[n][m] = None
    BY <1>2, <2>1 DEF AutoWash, TypeOK, Caches
  <2> QED BY <2>1, <2>2
<1>3. ASSUME told' = told PROVE FALSE
  BY <1>3
<1>4. ASSUME NEW x \in Node, NEW outcome, HandleIncomingDataItem(x, outcome)
      PROVE  told' = told
  BY <1>4 DEF HandleIncomingDataItem
<1>5. ASSUME NEW x \in Node, \/ LowLevelDone(x) \/ IdleTick(x)
                             \/ RoutePendingObjects(x) \/ SaveConfig(x)
                             \/ Crash(x)
      PROVE  told' = told
  BY <1>5 DEF LowLevelDone, IdleTick, RoutePendingObjects, SaveConfig, Crash, vars,
              history
<1>6. ASSUME NEW l \in Link, \/ Receive(l) \/ LinkUp(l) \/ LinkDown(l)
                             \/ CloseTunnel(l) \/ IdleTunnel(l)
      PROVE  told' = told
  BY <1>6 DEF Receive, ReceiveAck, ReceiveItem, LinkUp, LinkDown, CloseTunnel,
              IdleTunnel, history
<1>7. ASSUME \/ \E k \in Msg : SendData(k) \/ Cancel(k)
             \/ \E x, d, f \in Node : AddRoutingClue(x, d, f)
             \/ Clock \/ UNCHANGED vars
      PROVE  told' = told
  BY <1>7 DEF SendData, Cancel, AddRoutingClue, Clock, vars, history
<1> HIDE DEF Goal
<1>8. Goal
  BY <1>1, <1>2, <1>3, <1>4, <1>5, <1>6, <1>7 DEF Next, Client, Tick, HandleIncoming
<1> QED BY <1>8 DEF Goal

\* What was reported stays settled.
LEMMA NextReported ==
    ASSUME TypeOK, Provenance, CacheInv, CacheInv', [Next]_vars, crashes' = crashes,
           CachesOutward', NEW m \in Msg, Reported(m)
    PROVE  Reported(m)'
<1> DEFINE n == Origin[m]
<1>0. n \in Node
  BY ParticipantsAssumption
<1>1. \/ Unchanged(n, m) \/ Sent(n, m) \/ Withdrawn(n, m)
      \/ Washed(n, m) \/ Changed(n, m) \/ Arrived(n, m)
  BY <1>0, SlotStep
<1>2. ~Arrived(n, m)
  BY <1>0 DEF Arrived, CachesOutward, EntryOutward
<1>3. m \in issued => m \in issued'
  <2>1. issued' = issued \/ \E k \in Msg : SendData(k)
    BY HistoryGrows
  <2> QED BY <2>1 DEF SendData
<1>4. Holds(n, m) => m \in issued
  BY <1>0 DEF Holds, Provenance, CachesGenuine, EntryGenuine
<1>5. ASSUME Changed(n, m), pending[n][m].status = "DONE"
      PROVE  pending'[n][m].status = "DONE"
  <2>1. pending'[n][m].status \in Known
    BY <1>0, <1>5, NextKnown DEF KnownStaysKnown, Changed, Holds, Known
  <2>2. EntryShape(n, m, pending'[n][m]) /\ EntryOutward(n, m, pending'[n][m])
    BY <1>0 DEF CacheInv, Shapes, CachesOutward
  <2> QED BY <1>5, <2>1, <2>2 DEF EntryShape, EntryOutward, Changed, Known
<1>6. ASSUME Told(m, "RECEIVED")'
      PROVE  /\ m \in issued' /\ (Holds(n, m)' => pending'[n][m].status = "DONE")
             /\ ~Told(m, "FAILED")'
  <2>1. CASE Told(m, "RECEIVED")
    <3>1. Holds(n, m)' => pending'[n][m].status = "DONE"
      BY <1>1, <1>2, <1>5, <2>1
      DEF Reported, Unchanged, Sent, Withdrawn, Washed, Changed, Holds
    <3>2. ~Told(m, "FAILED")'
      <4> SUFFICES ASSUME Told(m, "FAILED")' PROVE FALSE
        OBVIOUS
      <4>1. <<n, m, "FAILED">> \in told' \ told
        BY <2>1 DEF Reported, Told
      <4>2. Holds(n, m) /\ pending[n][m].status # "DONE"
        BY <1>0, <4>1, VerdictStep
      <4> QED BY <2>1, <4>2 DEF Reported
    <3> QED BY <1>3, <2>1, <3>1, <3>2 DEF Reported
  <2>2. CASE ~Told(m, "RECEIVED")
    <3>1. <<n, m, "RECEIVED">> \in told' \ told
      BY <1>6, <2>2 DEF Told
    <3>2. Holds(n, m) /\ pending'[n][m] # None /\ pending'[n][m].status = "DONE"
      BY <1>0, <3>1, VerdictStep
    <3>3. ~Told(m, "FAILED")'
      <4> SUFFICES ASSUME Told(m, "FAILED")' PROVE FALSE
        OBVIOUS
      <4>1. CASE Told(m, "FAILED")
        BY <3>2, <4>1 DEF Reported
      <4>2. CASE <<n, m, "FAILED">> \in told' \ told
        BY <1>0, <3>2, <4>2, VerdictStep
      <4> QED BY <4>1, <4>2 DEF Told
    <3> QED BY <1>3, <1>4, <3>2, <3>3
  <2> QED BY <2>1, <2>2
<1>7. ASSUME Told(m, "FAILED")'
      PROVE  m \in issued' /\ ~Holds(n, m)'
  <2>1. CASE Told(m, "FAILED")
    <3>1. ~Holds(n, m)'
      BY <1>1, <1>2, <2>1
      DEF Reported, Unchanged, Sent, Withdrawn, Washed, Changed, Holds
    <3> QED BY <1>3, <2>1, <3>1 DEF Reported
  <2>2. CASE ~Told(m, "FAILED")
    <3>1. <<n, m, "FAILED">> \in told' \ told
      BY <1>7, <2>2 DEF Told
    <3>2. Holds(n, m) /\ pending'[n][m] = None
      BY <1>0, <3>1, VerdictStep
    <3> QED BY <1>3, <1>4, <3>2 DEF Holds
  <2> QED BY <2>1, <2>2
<1> QED BY <1>6, <1>7 DEF Reported

\* The invariant of the one verdict holds after every step, and at the beginning.
LEMMA NextVerdict ==
    ASSUME TypeOK, Provenance, CacheInv, CacheInv', VerdictInv, NoCycles, [Next]_vars
    PROVE  VerdictInv'
<1> SUFFICES ASSUME crashes' = 0 PROVE OutwardInv' /\ \A m \in Msg : Reported(m)'
  BY DEF VerdictInv
<1>1. crashes = 0 /\ crashes' = crashes
  <2>1. ASSUME NEW x \in Node, Crash(x) PROVE crashes' = crashes + 1
    BY <2>1 DEF Crash
  <2> QED BY <2>1, CrashSteps DEF TypeOK
<1>2. OutwardInv /\ \A m \in Msg : Reported(m)
  BY <1>1 DEF VerdictInv
<1>3. OutwardInv'
  BY <1>1, <1>2, NextOutward
<1>4. ASSUME NEW m \in Msg PROVE Reported(m)'
  BY <1>1, <1>2, <1>3, NextReported DEF OutwardInv
<1> QED BY <1>3, <1>4

\* Nothing was sent yet, and no client was told of anything.
LEMMA InitVerdict == Init => VerdictInv
<1> SUFFICES ASSUME Init PROVE OutwardInv /\ \A m \in Msg : Reported(m)
  BY DEF VerdictInv
<1>1. LinksOutward /\ QueuesOutward
  BY ItemTypes DEF Init, LinksOutward, QueuesOutward, NoItems
<1>2. CachesOutward
  BY DEF Init, CachesOutward, EntryOutward
<1>3. \A m \in Msg : Reported(m)
  BY DEF Init, Reported, Told
<1> QED BY <1>1, <1>2, <1>3 DEF OutwardInv

\* Where friends form no cycle and no node has crashed, no client is told RECEIVED
\* and FAILED of the same message: what was reported as received expires without a
\* word, and what was reported as failed never comes back into the cache of the
\* origin (handleIncomingReceiptItem(), autoWash()).
THEOREM NoSecondVerdict ==
    ASSUME NoCycles
    PROVE  Spec => [](crashes = 0 => OneVerdict)
<1>1. VerdictInv => (crashes = 0 => OneVerdict)
  BY DEF VerdictInv, Reported, Told, OneVerdict
<1>2. TypeOK /\ Provenance /\ CacheInv /\ CacheInv' /\ VerdictInv /\ [Next]_vars
         => VerdictInv'
  BY NextVerdict
<1> QED BY <1>1, <1>2, InitType, InitGenuine, InitCache, InitVerdict, NextType,
           NextGenuine, NextCache, PTL DEF Spec
=============================================================================
