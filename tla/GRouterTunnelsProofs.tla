------------------------ MODULE GRouterTunnelsProofs ------------------------
(***************************************************************************)
(* Proofs about GRouterTunnels, for any number of messages, hashes and     *)
(* tunnels and any delays: the two views of the open tunnels agree between *)
(* clean-ups, and a message that counts on a tunnel has one.               *)
(***************************************************************************)
EXTENDS GRouterTunnels, TLAPS

Slot == Entry \cup {None}

\* What the global router knows is open, or closed and about to be reported to it
\* by the loop at the end of the turtle router's autoWash().
KnownOrLeaving ==
    /\ \A h \in Hash : known[h] \subseteq tunnels[h] \cup leaving[h]
    /\ turn # "removal" => \A h \in Hash : leaving[h] = {}

\* The inductive invariant: that the views agree after a clean-up follows from
\* what is left to report in the middle of one.
IInv == TypeOK /\ KnownOrLeaving /\ ReadyHasTunnel

\* Changing the tunnel state or the age of an entry leaves an entry.
LEMMA EntryUpdates ==
    ASSUME NEW e \in Entry
    PROVE  /\ e # None
           /\ \A t \in {"UNMANAGED", "PENDING", "READY"} :
                 /\ [e EXCEPT !.tunnel = t] \in Entry
                 /\ [e EXCEPT !.tunnel = t].tunnel = t
           /\ \A a \in 0 .. Unmanaged + 1 :
                 /\ [e EXCEPT !.age = a] \in Entry
                 /\ [e EXCEPT !.age = a].tunnel = e.tunnel
<1> DEFINE Ages == 0 .. Unmanaged + 1
<1>1. Entry = [status : {"PENDING", "ONGOING", "SENT"}, allowTunnels : BOOLEAN,
               tunnel : {"UNMANAGED", "PENDING", "READY"}, age : Ages]
  BY DEF Entry
<1> HIDE DEF Ages
<1>2. e # None
  BY <1>1 DEF None
<1>3. \A t \in {"UNMANAGED", "PENDING", "READY"} :
         [e EXCEPT !.tunnel = t] \in Entry /\ [e EXCEPT !.tunnel = t].tunnel = t
  BY <1>1
<1>4. \A a \in Ages :
         /\ [e EXCEPT !.age = a] \in Entry
         /\ [e EXCEPT !.age = a].tunnel = e.tunnel
  BY <1>1
<1> QED BY <1>2, <1>3, <1>4 DEF Ages

\* Time leaves ages within their bounds.
LEMMA OlderBounded ==
    ASSUME NEW last \in Nat, NEW age \in 0 .. last, NEW elapsed \in {0, 1}
    PROVE  Older(age, elapsed, last) \in 0 .. last
BY DEF Older

\* routePendingObjects() and autoWash() leave an entry or none, and do not
\* change the state of its tunnel.
LEMMA RoutingKeepsTunnel ==
    ASSUME TypeOK, NEW m \in Msg, NEW f \in Routings(m)
    PROVE  /\ f \in Slot
           /\ f # None => m \in Held /\ f.tunnel = entry[m].tunnel
<1> DEFINE e == entry[m]
<1>1. CASE m \in Held
  <2>1. e \in Entry
    BY <1>1 DEF TypeOK, Held
  <2>2. f \in {e, [e EXCEPT !.status = "ONGOING"],
               [e EXCEPT !.status = "PENDING"], [e EXCEPT !.status = "SENT"],
               [e EXCEPT !.allowTunnels = TRUE],
               [e EXCEPT !.allowTunnels = FALSE], None}
    BY <2>1 DEF Routings, Entry
  <2> HIDE DEF e
  <2>3. f # None => f \in Entry /\ f.tunnel = e.tunnel
    BY <2>1, <2>2 DEF Entry
  <2> QED BY <1>1, <2>3 DEF Slot, e
<1>2. CASE m \notin Held
  <2>1. e = None /\ m \notin Waiting
    BY <1>2 DEF Held, Waiting
  <2>2. f = None
    BY <2>1 DEF Routings, None
  <2> QED BY <2>2 DEF Slot
<1> QED BY <1>1, <1>2

\* The initial states satisfy the invariant.
LEMMA InitIInv == Init => IInv
<1> SUFFICES ASSUME Init PROVE IInv
  OBVIOUS
<1>1. TypeOK
  BY TunnelDelaysAssumption DEF Init, TypeOK
<1>2. KnownOrLeaving
  BY DEF Init, KnownOrLeaving
<1>3. ReadyHasTunnel
  BY DEF Init, ReadyHasTunnel, Held
<1> QED BY <1>1, <1>2, <1>3 DEF IInv

\* The steps of other threads preserve the invariant.
LEMMA OtherThreads ==
    ASSUME IInv, NEW m \in Msg, SendData(m) \/ Cancel(m)
    PROVE  IInv'
<1> DEFINE fresh == [status |-> "PENDING", allowTunnels |-> FALSE,
                     tunnel |-> "UNMANAGED", age |-> Unmanaged + 1]
<1>1. fresh \in Entry /\ fresh.tunnel = "UNMANAGED"
  BY TunnelDelaysAssumption DEF Entry
<1>2. \E s \in {fresh, None} : entry' = [entry EXCEPT ![m] = s]
  BY DEF SendData, Cancel
<1> HIDE DEF fresh
<1>3. PICK s \in {fresh, None} : entry' = [entry EXCEPT ![m] = s]
  BY <1>2
<1>4. /\ UNCHANGED <<turn, known, sinceOk, monitored, toRemove, tunnels,
                   leaving, responses>>
      /\ issued' \subseteq Msg
  BY DEF SendData, Cancel, turtle, IInv, TypeOK
<1>5. entry' \in [Msg -> Slot]
  BY <1>1, <1>3 DEF IInv, TypeOK, Slot
<1>6. TypeOK'
  BY <1>4, <1>5 DEF IInv, TypeOK, Slot
<1>7. KnownOrLeaving'
  BY <1>4 DEF IInv, KnownOrLeaving
<1>8. ReadyHasTunnel'
  <2> SUFFICES ASSUME NEW n \in Msg, entry'[n] # None,
                      entry'[n].tunnel = "READY"
               PROVE  known[HashOf[n]] # {}
    BY <1>4 DEF ReadyHasTunnel, Held
  <2>1. n # m
    BY <1>1, <1>3 DEF IInv, TypeOK
  <2>2. entry'[n] = entry[n]
    BY <1>3, <2>1 DEF IInv, TypeOK
  <2> QED BY <2>2 DEF IInv, ReadyHasTunnel, Held
<1> QED BY <1>6, <1>7, <1>8 DEF IInv

\* So does a turn of the global router: the virtual peers that autoWash() would
\* drop are none, as both routers know the same ones.
LEMMA RouteIInv == ASSUME IInv, Route PROVE IInv'
<1>1. /\ turn' = "tunnels"
      /\ turn = "route"
      /\ UNCHANGED <<issued, sinceOk, monitored, toRemove, tunnels, leaving,
                     responses>>
      /\ known' = [h \in Hash |-> known[h] \cap tunnels[h]]
  BY DEF Route, turtle
<1>2. known' = known
  BY <1>1 DEF IInv, TypeOK, KnownOrLeaving
<1>3. \A m \in Msg : entry'[m] \in Routings(m)
  BY DEF Route
<1>4. \E S : entry' \in [Msg -> S]
  BY DEF Route
<1>5. \A m \in Msg : entry'[m] \in Slot /\ (entry'[m] # None =>
         m \in Held /\ entry'[m].tunnel = entry[m].tunnel)
  BY <1>3, RoutingKeepsTunnel DEF IInv
<1>6. entry' \in [Msg -> Slot]
  BY <1>4, <1>5
<1>7. TypeOK'
  BY <1>1, <1>2, <1>6 DEF IInv, TypeOK, Slot
<1>8. KnownOrLeaving'
  BY <1>1, <1>2 DEF IInv, KnownOrLeaving
<1>9. ReadyHasTunnel'
  BY <1>2, <1>5 DEF IInv, ReadyHasTunnel, Held
<1> QED BY <1>7, <1>8, <1>9 DEF IInv

\* handleTunnels() makes no message READY.
LEMMA HandleTunnelsIInv == ASSUME IInv, HandleTunnels PROVE IInv'
<1> USE DEF IInv
<1>1. /\ turn = "tunnels" /\ turn' = "turtle"
      /\ UNCHANGED <<issued, known, sinceOk, tunnels, leaving, responses>>
      /\ monitored' \subseteq Hash /\ toRemove' \subseteq Hash
  <2>1. \A M \in SUBSET Msg : HashesOf(M) \subseteq Hash
    BY HashesAssumption DEF HashesOf
  <2>2. Asking \in SUBSET Msg /\ GivingUp \cup (Held \ Waiting) \in SUBSET Msg
    BY DEF Asking, GivingUp, Held, Waiting
  <2> QED BY <2>1, <2>2 DEF HandleTunnels, StopMonitoringTunnels, MonitorTunnels, TypeOK
<1>2. entry' = [m \in Msg |->
         CASE m \in Asking ->
                [entry[m] EXCEPT !.tunnel = "PENDING", !.age = 0]
           [] m \in GivingUp \cup (Held \ Waiting) ->
                [entry[m] EXCEPT !.tunnel = "UNMANAGED"]
           [] OTHER -> entry[m]]
  BY DEF HandleTunnels
<1>3. \A m \in Msg : entry'[m] \in Slot /\ (entry'[m] # None =>
         m \in Held /\ entry'[m].tunnel \in {"PENDING", "UNMANAGED", entry[m].tunnel})
  <2> TAKE m \in Msg
  <2>1. CASE m \in Held
    <3>1. entry[m] \in Entry
      BY <2>1 DEF Held, TypeOK
    <3>2. 0 \in 0 .. Unmanaged + 1
      BY TunnelDelaysAssumption
    <3>3. /\ [entry[m] EXCEPT !.tunnel = "PENDING", !.age = 0] \in Entry
          /\ [entry[m] EXCEPT !.tunnel = "PENDING", !.age = 0].tunnel = "PENDING"
          /\ [entry[m] EXCEPT !.tunnel = "UNMANAGED"] \in Entry
          /\ [entry[m] EXCEPT !.tunnel = "UNMANAGED"].tunnel = "UNMANAGED"
      <4> DEFINE e == entry[m]
      <4>1. e \in Entry
        BY <3>1
      <4> HIDE DEF e
      <4>2. \A a \in 0 .. Unmanaged + 1 :
              /\ [e EXCEPT !.tunnel = "PENDING", !.age = a] \in Entry
              /\ [e EXCEPT !.tunnel = "PENDING", !.age = a].tunnel = "PENDING"
        <5> DEFINE Ages == 0 .. Unmanaged + 1
        <5>1. Entry = [status : {"PENDING", "ONGOING", "SENT"},
                       allowTunnels : BOOLEAN,
                       tunnel : {"UNMANAGED", "PENDING", "READY"}, age : Ages]
          BY DEF Entry
        <5> HIDE DEF Ages
        <5>2. \A a \in Ages :
              /\ [e EXCEPT !.tunnel = "PENDING", !.age = a] \in Entry
              /\ [e EXCEPT !.tunnel = "PENDING", !.age = a].tunnel = "PENDING"
          BY <4>1, <5>1
        <5> QED BY <5>2 DEF Ages
      <4>3. \A t \in {"UNMANAGED", "PENDING", "READY"} :
              /\ [e EXCEPT !.tunnel = t] \in Entry
              /\ [e EXCEPT !.tunnel = t].tunnel = t
        BY <4>1, EntryUpdates
      <4> QED BY <3>2, <4>2, <4>3 DEF e
    <3>4. entry'[m] \in {[entry[m] EXCEPT !.tunnel = "PENDING", !.age = 0],
                         [entry[m] EXCEPT !.tunnel = "UNMANAGED"], entry[m]}
      <4>1. CASE m \in Asking
        BY <1>2, <4>1
      <4>2. CASE m \notin Asking /\ m \in GivingUp \cup (Held \ Waiting)
        BY <1>2, <4>2
      <4>3. CASE m \notin Asking /\ m \notin GivingUp \cup (Held \ Waiting)
        BY <1>2, <4>3
      <4> QED BY <4>1, <4>2, <4>3
    <3> QED BY <2>1, <3>1, <3>3, <3>4 DEF Slot
  <2>2. CASE m \notin Held
    <3>1. m \notin Asking /\ m \notin GivingUp \cup (Held \ Waiting)
      BY <2>2 DEF Asking, GivingUp, Waiting
    <3>2. entry'[m] = entry[m]
      BY <1>2, <3>1
    <3> QED BY <2>2, <3>2 DEF Held, Slot
  <2> QED BY <2>1, <2>2
<1>4. entry' \in [Msg -> Slot]
  BY <1>2, <1>3
<1>5. TypeOK'
  BY <1>1, <1>4 DEF TypeOK, Slot
<1>6. KnownOrLeaving'
  BY <1>1 DEF KnownOrLeaving
<1>7. ReadyHasTunnel'
  BY <1>1, <1>3 DEF ReadyHasTunnel, Held
<1> QED BY <1>5, <1>6, <1>7

\* A tunnel that is found becomes known to both routers, or to the turtle router
\* alone, and only messages with its hash count on it.
LEMMA TunnelFoundIInv ==
    ASSUME IInv, NEW h \in Hash, NEW v \in Vpid, TunnelFound(h, v)
    PROVE  IInv'
<1> USE DEF IInv
<1>1. /\ turn' = turn
      /\ UNCHANGED <<issued, monitored, toRemove, leaving>>
      /\ tunnels' = [tunnels EXCEPT ![h] = @ \cup {v}]
      /\ AddVirtualPeer(h, v)
      /\ responses' \in [Hash -> SUBSET Vpid]
  <2>1. responses \in [Hash -> SUBSET Vpid]
    BY DEF TypeOK
  <2> QED BY <2>1 DEF TunnelFound
<1>2. CASE HeldFor(h) = {}
  <2>1. UNCHANGED <<entry, known, sinceOk>>
    BY <1>1, <1>2 DEF AddVirtualPeer
  <2>2. TypeOK'
    BY <1>1, <2>1 DEF TypeOK
  <2>3. KnownOrLeaving'
    BY <1>1, <2>1 DEF KnownOrLeaving, TypeOK
  <2>4. ReadyHasTunnel'
    BY <2>1 DEF ReadyHasTunnel, Held
  <2> QED BY <2>2, <2>3, <2>4
<1>3. CASE HeldFor(h) # {}
  <2>1. /\ entry' = [m \in Msg |->
              IF m \in HeldFor(h) THEN [entry[m] EXCEPT !.tunnel = "READY"]
                                  ELSE entry[m]]
        /\ known' = [known EXCEPT ![h] = @ \cup {v}]
        /\ sinceOk' = [sinceOk EXCEPT ![h] = 0]
    BY <1>1, <1>3 DEF AddVirtualPeer
  <2>2. \A m \in HeldFor(h) :
           entry'[m] \in Entry /\ m \in Msg /\ HashOf[m] = h
    <3> TAKE m \in HeldFor(h)
    <3>1. m \in Msg /\ HashOf[m] = h /\ entry[m] \in Entry
      BY DEF HeldFor, Held, TypeOK
    <3>2. [entry[m] EXCEPT !.tunnel = "READY"] \in Entry
      BY <3>1, EntryUpdates
    <3> QED BY <2>1, <3>1, <3>2
  <2>3. entry' \in [Msg -> Slot]
    BY <2>1, <2>2 DEF TypeOK, Slot
  <2>4. TypeOK'
    BY <1>1, <2>1, <2>3, TunnelDelaysAssumption DEF TypeOK, Slot
  <2>5. KnownOrLeaving'
    BY <1>1, <2>1 DEF KnownOrLeaving, TypeOK
  <2>6. ReadyHasTunnel'
    <3> SUFFICES ASSUME NEW m \in Msg, entry'[m] # None,
                        entry'[m].tunnel = "READY"
                 PROVE  known'[HashOf[m]] # {}
      BY DEF ReadyHasTunnel, Held
    <3>1. CASE m \in HeldFor(h)
      BY <2>1, <2>2, <3>1 DEF TypeOK
    <3>2. CASE m \notin HeldFor(h)
      <4>1. entry'[m] = entry[m]
        BY <2>1, <3>2
      <4>2. known[HashOf[m]] # {} /\ HashOf[m] \in Hash
        BY <4>1, HashesAssumption DEF ReadyHasTunnel, Held
      <4> QED BY <2>1, <4>2 DEF TypeOK
    <3> QED BY <3>1, <3>2
  <2> QED BY <2>4, <2>5, <2>6
<1> QED BY <1>2, <1>3

\* The thread stays in the last loop of autoWash() while a tunnel is to be
\* reported.
LEMMA NextTurnLeft ==
    ASSUME NEW left
    PROVE  /\ NextTurn(left) \in {"removal", "route"}
           /\ NextTurn(left) # "removal" => \A h \in Hash : left[h] = {}
BY DEF NextTurn

\* The end of p3turtle::tick() closes tunnels, which the global router takes for
\* open until it is told; ages of entries grow.
LEMMA TurtleTickIInv ==
    ASSUME IInv, NEW washing \in BOOLEAN, NEW elapsed \in {0, 1},
           TurtleTick(washing, elapsed)
    PROVE  IInv'
<1> USE DEF IInv
<1>1. PICK closed \in [Hash -> SUBSET Vpid] :
        /\ turn = "turtle" /\ turn' = NextTurn(closed)
        /\ monitored' \subseteq Hash /\ toRemove' \subseteq Hash
        /\ tunnels' = [h \in Hash |-> tunnels[h] \ closed[h]]
        /\ leaving' = closed
        /\ sinceOk' = [h \in Hash |-> Older(sinceOk[h], elapsed, IdleTime)]
        /\ entry' = [m \in Msg |->
             IF m \in Held
             THEN [entry[m] EXCEPT !.age = Older(@, elapsed, Unmanaged + 1)]
             ELSE None]
        /\ UNCHANGED <<issued, known, responses>>
  <2> DEFINE shut(idle) == [h \in Hash |-> IF h \in Forgotten(washing)
                                           THEN tunnels[h] ELSE idle[h]]
  <2>1. PICK idle \in [Hash -> SUBSET Vpid] :
          /\ turn = "turtle" /\ turn' = NextTurn(shut(idle))
          /\ monitored' = monitored \ Forgotten(washing)
          /\ toRemove' = IF washing THEN {} ELSE toRemove
          /\ tunnels' = [h \in Hash |-> tunnels[h] \ shut(idle)[h]]
          /\ leaving' = shut(idle)
          /\ sinceOk' = [h \in Hash |-> Older(sinceOk[h], elapsed, IdleTime)]
          /\ entry' = [m \in Msg |->
               IF m \in Held
               THEN [entry[m] EXCEPT !.age = Older(@, elapsed, Unmanaged + 1)]
               ELSE None]
          /\ UNCHANGED <<issued, known, responses>>
    BY DEF TurtleTick, OpenAfter
  <2>2. shut(idle) \in [Hash -> SUBSET Vpid]
    BY DEF TypeOK
  <2>3. monitored' \subseteq Hash /\ toRemove' \subseteq Hash
    BY <2>1 DEF TypeOK
  <2> HIDE DEF shut
  <2> QED BY <2>1, <2>2, <2>3
<1>2. \A m \in Held : entry'[m] \in Entry /\ entry'[m].tunnel = entry[m].tunnel
  <2> TAKE m \in Held
  <2> DEFINE a == Older(entry[m].age, elapsed, Unmanaged + 1)
  <2>1. m \in Msg /\ entry[m] \in Entry
    BY DEF Held, TypeOK
  <2>2. entry[m].age \in 0 .. Unmanaged + 1 /\ Unmanaged + 1 \in Nat
    BY <2>1, TunnelDelaysAssumption DEF Entry
  <2>3. a \in 0 .. Unmanaged + 1
    BY <2>2, OlderBounded
  <2>4. entry'[m] = [entry[m] EXCEPT !.age = a]
    BY <1>1, <2>1
  <2> HIDE DEF a
  <2>5. \A b \in 0 .. Unmanaged + 1 :
           /\ [entry[m] EXCEPT !.age = b] \in Entry
           /\ [entry[m] EXCEPT !.age = b].tunnel = entry[m].tunnel
    BY <2>1, EntryUpdates
  <2> QED BY <2>3, <2>4, <2>5
<1>3. \A m \in Msg \ Held : entry'[m] = None
  BY <1>1
<1>4. entry' \in [Msg -> Slot]
  <2>1. \A m \in Msg : entry'[m] \in Slot
    BY <1>2, <1>3 DEF Slot
  <2> QED BY <1>1, <2>1
<1>5. \A h \in Hash : Older(sinceOk[h], elapsed, IdleTime) \in 0 .. IdleTime
  <2>1. IdleTime \in Nat
    BY TunnelDelaysAssumption
  <2> QED BY <2>1, OlderBounded DEF TypeOK
<1>6. TypeOK'
  BY <1>1, <1>4, <1>5, NextTurnLeft DEF TypeOK, Slot
<1>7. KnownOrLeaving'
  BY <1>1, NextTurnLeft DEF KnownOrLeaving
<1>8. ReadyHasTunnel'
  BY <1>1, <1>2, <1>3 DEF ReadyHasTunnel, Held
<1> QED BY <1>6, <1>7, <1>8

\* Each call of removeVirtualPeer() takes one closed tunnel off the list, and
\* messages whose last tunnel goes do not count on it any more.
LEMMA RemoveVirtualPeerIInv ==
    ASSUME IInv, NEW h \in Hash, NEW v \in Vpid, RemoveVirtualPeer(h, v)
    PROVE  IInv'
<1> USE DEF IInv
<1>1. /\ turn' = NextTurn(leaving')
      /\ leaving' = [leaving EXCEPT ![h] = @ \ {v}]
      /\ known' = [known EXCEPT ![h] = @ \ {v}]
      /\ entry' = [m \in Msg |->
                     IF m \in Held THEN AfterRemoval(m, h, v) ELSE None]
      /\ UNCHANGED <<issued, sinceOk, monitored, toRemove, tunnels, responses>>
  BY DEF RemoveVirtualPeer, PeersAfter
<1>2. \A m \in Held :
        /\ entry'[m] \in Entry
        /\ entry'[m].tunnel = "READY" =>
             /\ known[HashOf[m]] # {}
             /\ ~(HashOf[m] = h /\ known[h] = {v})
  <2> TAKE m \in Held
  <2>1. m \in Msg /\ entry[m] \in Entry /\ entry'[m] = AfterRemoval(m, h, v)
    BY <1>1 DEF Held, TypeOK
  <2>2. /\ [entry[m] EXCEPT !.tunnel = "PENDING"] \in Entry
        /\ [entry[m] EXCEPT !.tunnel = "PENDING"].tunnel = "PENDING"
    BY <2>1, EntryUpdates
  <2>3. CASE HashOf[m] = h /\ known[h] = {v}
    BY <2>1, <2>2, <2>3 DEF AfterRemoval
  <2>4. CASE ~(HashOf[m] = h /\ known[h] = {v})
    BY <2>1, <2>4 DEF AfterRemoval, ReadyHasTunnel
  <2> QED BY <2>3, <2>4
<1>3. \A m \in Msg \ Held : entry'[m] = None
  BY <1>1
<1>4. entry' \in [Msg -> Slot]
  <2>1. \A m \in Msg : entry'[m] \in Slot
    BY <1>2, <1>3 DEF Slot
  <2> QED BY <1>1, <2>1
<1>5. TypeOK'
  BY <1>1, <1>4, NextTurnLeft DEF TypeOK, Slot
<1>6. KnownOrLeaving'
  <2>1. \A g \in Hash : known'[g] \subseteq tunnels'[g] \cup leaving'[g]
    BY <1>1 DEF KnownOrLeaving, TypeOK
  <2>2. turn' # "removal" => \A g \in Hash : leaving'[g] = {}
    BY <1>1, NextTurnLeft
  <2> QED BY <2>1, <2>2 DEF KnownOrLeaving
<1>7. ReadyHasTunnel'
  <2> SUFFICES ASSUME NEW m \in Msg, entry'[m] # None,
                      entry'[m].tunnel = "READY"
               PROVE  known'[HashOf[m]] # {}
    BY DEF ReadyHasTunnel, Held
  <2>1. m \in Held /\ HashOf[m] \in Hash
    BY <1>3, HashesAssumption
  <2>2. known[HashOf[m]] # {} /\ ~(HashOf[m] = h /\ known[h] = {v})
    BY <1>2, <2>1
  <2> QED BY <1>1, <2>1, <2>2 DEF TypeOK
<1> QED BY <1>5, <1>6, <1>7

\* Every step preserves the invariant.
LEMMA NextIInv == IInv /\ [Next]_vars => IInv'
<1> SUFFICES ASSUME IInv, [Next]_vars PROVE IInv'
  OBVIOUS
<1>1. ASSUME NEW m \in Msg, SendData(m) \/ Cancel(m) PROVE IInv'
  BY <1>1, OtherThreads
<1>2. CASE Route
  BY <1>2, RouteIInv
<1>3. CASE HandleTunnels
  BY <1>3, HandleTunnelsIInv
<1>4. ASSUME NEW h \in Hash, NEW v \in Vpid, TunnelFound(h, v) PROVE IInv'
  BY <1>4, TunnelFoundIInv
<1>5. ASSUME NEW washing \in BOOLEAN, NEW elapsed \in {0, 1},
             TurtleTick(washing, elapsed)
      PROVE  IInv'
  BY <1>5, TurtleTickIInv
<1>6. ASSUME NEW h \in Hash, NEW v \in Vpid, RemoveVirtualPeer(h, v)
      PROVE  IInv'
  BY <1>6, RemoveVirtualPeerIInv
<1>7. CASE UNCHANGED vars
  BY <1>7 DEF vars, IInv, TypeOK, KnownOrLeaving, ReadyHasTunnel, Held
<1> QED BY <1>1, <1>2, <1>3, <1>4, <1>5, <1>6, <1>7 DEF Next

\* Whenever the call-backs of a clean-up are done, the global router only knows
\* tunnels that the turtle router has open (p3turtle::autoWash()).
THEOREM TunnelViewsAgree == Spec => []KnownTunnelsExist
<1>1. IInv => KnownTunnelsExist
  BY DEF IInv, KnownOrLeaving, KnownTunnelsExist
<1> QED BY <1>1, InitIInv, NextIInv, PTL DEF Spec

\* Every variable of the two routers keeps its type, as ages of requests stop at
\* their bound and removals leave what was there (handleTunnels(), autoWash()).
THEOREM TunnelTypes == Spec => []TypeOK
<1>1. IInv => TypeOK
  BY DEF IInv
<1> QED BY <1>1, InitIInv, NextIInv, PTL DEF Spec

\* At all times a message in state READY has a tunnel to go through.
THEOREM ReadyMessages == Spec => []ReadyHasTunnel
<1>1. IInv => ReadyHasTunnel
  BY DEF IInv
<1> QED BY <1>1, InitIInv, NextIInv, PTL DEF Spec
=============================================================================
