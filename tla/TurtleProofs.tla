---------------------------- MODULE TurtleProofs ----------------------------
(***************************************************************************)
(* Tunnels follow their routes, in every network of friends:               *)
(*   NoLoops    no request and no tunnel comes through a node twice;       *)
(*   RoutesStay what is sent into a tunnel is never lost on the way because *)
(*              a node holds the tunnel under other peers;                 *)
(*   OwnData    services only get what the other end of the tunnel sent;   *)
(*   TurtleTypes, TablesAgree                                              *)
(*              the tables of a node agree on the tunnels that end there;  *)
(*   PeersImplemented                                                      *)
(*              the network keeps what it promises to services.            *)
(*                                                                         *)
(* One invariant carries the first three: as long as the caches keep their *)
(* entries, the route of a request is written down in the caches of the    *)
(* nodes it passed (Traced), an answer goes back along it, and the peers   *)
(* of a tunnel at a node are the neighbours of the node in its route.      *)
(* TableInv, in the second part, adds what the tables say of each other,   *)
(* and PeersInv, in the third, what services owe each other.               *)
(***************************************************************************)
EXTENDS Turtle, TLAPS

\* The neighbours of the k-th node of a route; its ends are their own.
Prior(s, k) == IF k = 1 THEN s[1] ELSE s[k - 1]
Behind(s, k) == IF k = Len(s) THEN s[k] ELSE s[k + 1]

Simple(s) == s \in Seq(Node) /\ IsInjective(s)

\* The caches of the nodes on a route know where request r came from.
Traced(s, r) == \A k \in 1 .. Len(s) : origin[s[k]][r] = Prior(s, k)

GoodOpen(i) == /\ Simple(i.route) /\ Len(i.route) >= 1
               /\ i.from = i.route[Len(i.route)]
               /\ i.to \in Node /\ i.req \in Request /\ i.hash \in Hash
               /\ Traced(i.route, i.req)

GoodOk(i) == /\ Simple(i.id) /\ i.req \in Request
             /\ Traced(i.id, i.req)
             /\ \E k \in 1 .. Len(i.id) - 1 : i.to = i.id[k] /\ i.from = i.id[k + 1]

GoodItem(i) ==
    /\ Simple(i.id)
    /\ \E k \in 1 .. Len(i.id) - 1 :
          \/ /\ i.type = "request" /\ i.from = i.id[k] /\ i.to = i.id[k + 1]
             /\ i.by = i.id[1]
          \/ /\ i.type = "data" /\ i.from = i.id[k + 1] /\ i.to = i.id[k]
             /\ i.by = i.id[Len(i.id)]

Good(i) == /\ i.type = "open" => GoodOpen(i)
           /\ i.type = "ok" => GoodOk(i)
           /\ i.type \in Kinds => GoodItem(i)

Placed(n, u) == /\ u \in Tunnel /\ Simple(u.id) /\ Len(u.id) >= 2
                /\ \E k \in 1 .. Len(u.id) : /\ u.id[k] = n
                                             /\ u.src = Prior(u.id, k)
                                             /\ u.dst = Behind(u.id, k)

Caches == /\ origin \in [Node -> [Request -> Node \cup {None}]]
          /\ digs \in 0 .. MaxDigs
          /\ \A n \in Node : \A r \in Request : r > digs => origin[n][r] = None

GoodNet == \A i \in net : Good(i)

GoodTunnels == /\ tunnels = [n \in Node |-> tunnels[n]]
               /\ \A n \in Node : \A u \in tunnels[n] : Placed(n, u)

Routed == Caches /\ GoodNet /\ GoodTunnels /\ foreign = {}

RouteInv == stale \in Nat /\ (stale = 0 => Routed)

-----------------------------------------------------------------------------
(* Routes *)

\* A node that is not on a route can be put at its end.
LEMMA AppendSimple ==
    ASSUME NEW s, Simple(s), NEW n \in Node, \A k \in 1 .. Len(s) : s[k] # n
    PROVE  /\ Simple(Append(s, n)) /\ Len(Append(s, n)) = Len(s) + 1
           /\ \A k \in 1 .. Len(s) : Append(s, n)[k] = s[k]
           /\ Append(s, n)[Len(s) + 1] = n
<1>1. s \in Seq(Node) /\ \A a, b \in 1 .. Len(s) : s[a] = s[b] => a = b
  BY DEF Simple, IsInjective
<1>2. /\ Append(s, n) \in Seq(Node) /\ Len(Append(s, n)) = Len(s) + 1
      /\ \A k \in 1 .. Len(s) : Append(s, n)[k] = s[k]
      /\ Append(s, n)[Len(s) + 1] = n
  BY <1>1
<1>3. ASSUME NEW a \in 1 .. Len(s) + 1, NEW b \in 1 .. Len(s) + 1,
             Append(s, n)[a] = Append(s, n)[b]
      PROVE  a = b
  BY <1>1, <1>2, <1>3
<1>4. IsInjective(Append(s, n))
  BY <1>2, <1>3 DEF IsInjective
<1> QED BY <1>2, <1>4 DEF Simple

\* The positions of a simple route.
LEMMA Positions ==
    ASSUME NEW s, Simple(s)
    PROVE  /\ Len(s) \in Nat /\ \A k \in 1 .. Len(s) : s[k] \in Node
           /\ \A a, b \in 1 .. Len(s) : s[a] = s[b] => a = b
  BY DEF Simple, IsInjective

\* Entries that are there stay in the caches.
LEMMA TracedStays ==
    ASSUME Caches, NEW s, Simple(s), NEW r \in Request, Traced(s, r),
           \A n \in Node : \A q \in Request : origin[n][q] # None => origin'[n][q] = origin[n][q]
    PROVE  Traced(s, r)'
<1>1. \A k \in 1 .. Len(s) : Prior(s, k) \in Node /\ s[k] \in Node
  BY Positions DEF Prior
<1> QED BY <1>1, NodeAssumption DEF Traced, Prior

\* Items and tunnels of the state before stay good.
LEMMA ItemsStay ==
    ASSUME Caches, NEW i, Good(i),
           \A n \in Node : \A q \in Request : origin[n][q] # None => origin'[n][q] = origin[n][q]
    PROVE  Good(i)'
  BY TracedStays DEF Good, GoodOpen, GoodOk, GoodItem

\* The tunnels of one node change.
LEMMA TunnelsChange ==
    ASSUME GoodTunnels, NEW n \in Node, NEW U, tunnels' = [tunnels EXCEPT ![n] = U],
           \A u \in U : Placed(n, u)
    PROVE  GoodTunnels'
<1>1. \A m \in Node : tunnels'[m] = IF m = n THEN U ELSE tunnels[m]
  BY DEF GoodTunnels
<1>2. tunnels' = [m \in Node |-> tunnels'[m]]
  BY DEF GoodTunnels
<1> QED BY <1>1, <1>2 DEF GoodTunnels

-----------------------------------------------------------------------------
(* Requests and answers *)

\* A request that is forwarded to some friends.
LEMMA ForwardedGood ==
    ASSUME NEW n \in Node, NEW m, NEW r \in Request, NEW h \in Hash, NEW s,
           NEW items \in Forwarded(n, m, r, h, s), NEW i \in items
    PROVE  /\ i.type = "open" /\ i.from = n /\ i.to \in Node /\ i.req = r
           /\ i.hash = h /\ i.route = Append(s, n)
<1>1. PICK M \in SUBSET (Friends[n] \ {m}) :
           items = {Open(n, p, r, h, Perturbed(s, n)) : p \in M}
  BY DEF Forwarded
<1>2. PICK p \in M : i = Open(n, p, r, h, Perturbed(s, n))
  BY <1>1
<1>3. p \in Node
  BY <1>1, <1>2, GraphAssumption
<1> QED BY <1>2, <1>3 DEF Open, Perturbed

\* A new request, noted for the first time at the node that digs.
LEMMA DiggRouted ==
    ASSUME Routed, NEW h \in Hash, DiggTunnel(h)
    PROVE  Routed'
<1> DEFINE n == Client[h]
<1>0. PICK r, e : r = digs + 1 /\ e = <<>>
  OBVIOUS
<1>1. /\ n \in Node /\ r \in Request /\ digs' = r /\ r \in 0 .. MaxDigs
      /\ UNCHANGED <<tunnels, foreign>>
      /\ origin' = [origin EXCEPT ![n][r] = n]
  BY <1>0, HashAssumption DEF DiggTunnel, Routed, Caches, Request, table, service, Noted
<1> HIDE DEF n
<1>2. PICK items \in Forwarded(n, n, r, h, e) : net' = net \cup items
  BY <1>0 DEF DiggTunnel, n
<1>3. origin[n][r] = None
  <2>1. r > digs
    BY <1>0 DEF Routed, Caches
  <2> QED BY <1>1, <2>1 DEF Routed, Caches
<1>4. Caches'
  BY <1>0, <1>1 DEF Routed, Caches, Request
<1>5. \A m \in Node : \A q \in Request : origin[m][q] # None => origin'[m][q] = origin[m][q]
  BY <1>1, <1>3 DEF Routed, Caches
<1>6. ASSUME NEW i \in items
      PROVE  Good(i)'
  <2>1. /\ i.type = "open" /\ i.from = n /\ i.to \in Node /\ i.req = r
        /\ i.hash = h /\ i.route = Append(e, n)
    BY <1>1, <1>2, <1>6, ForwardedGood
  <2>2. Append(e, n) = <<n>> /\ Len(<<n>>) = 1 /\ <<n>>[1] = n /\ Simple(<<n>>)
    BY <1>0, <1>1 DEF Simple, IsInjective
  <2>3. origin'[n][r] = n
    BY <1>1 DEF Routed, Caches
  <2>4. Traced(i.route, i.req)'
    BY <2>1, <2>2, <2>3 DEF Traced, Prior
  <2> QED BY <1>1, <2>1, <2>2, <2>4 DEF Good, GoodOpen, Kinds
<1>7. GoodNet'
  BY <1>2, <1>5, <1>6, ItemsStay DEF Routed, GoodNet
<1> QED BY <1>1, <1>4, <1>7 DEF Routed, GoodTunnels

\* The request of another node: forwarded, or answered at the end of a tunnel.
LEMMA RequestRouted ==
    ASSUME Routed, NEW i \in net, HandleTunnelRequest(i)
    PROVE  Routed'
<1> DEFINE n == i.to
           t == Append(i.route, n)
<1>1. i.type = "open" /\ GoodOpen(i) /\ n \in Node /\ UNCHANGED <<digs, foreign>>
  BY DEF HandleTunnelRequest, Routed, GoodNet, Good, GoodOpen, client, service
<1>2. CASE Bouncing(n, i.req)
  BY <1>1, <1>2 DEF HandleTunnelRequest, cache, table, Routed, Caches, GoodNet, Good, GoodOpen,
     GoodOk, GoodItem, GoodTunnels, Placed, Simple, Traced
<1>3. CASE ~Bouncing(n, i.req)
  <2>1. origin' = [origin EXCEPT ![n][i.req] = i.from] /\ origin[n][i.req] = None
    BY <1>3 DEF HandleTunnelRequest, Noted, Bouncing
  <2>2. /\ Simple(i.route) /\ Len(i.route) >= 1 /\ i.from = i.route[Len(i.route)]
        /\ i.req \in Request /\ Traced(i.route, i.req) /\ i.from \in Node /\ i.hash \in Hash
    BY <1>1, Positions DEF GoodOpen
  <2>3. Caches'
    <3>1. i.req <= digs
      <4>1. origin[i.route[1]][i.req] = i.route[1] /\ i.route[1] \in Node
        BY <2>2, Positions DEF Traced, Prior
      <4> QED BY <2>2, <4>1, NodeAssumption DEF Routed, Caches, Request
    <3> QED BY <1>1, <2>1, <2>2, <3>1 DEF Routed, Caches, Request
  <2>4. \A m \in Node : \A q \in Request : origin[m][q] # None => origin'[m][q] = origin[m][q]
    BY <1>1, <2>1, <2>2 DEF Routed, Caches
  <2>5. \A k \in 1 .. Len(i.route) : i.route[k] # n
    <3>1. \A k \in 1 .. Len(i.route) : Prior(i.route, k) \in Node
      BY <2>2, Positions DEF Prior
    <3> QED BY <2>1, <2>2, <3>1, NodeAssumption DEF Traced
  <2>6. /\ Simple(t) /\ Len(t) = Len(i.route) + 1 /\ t[Len(i.route) + 1] = n
        /\ \A k \in 1 .. Len(i.route) : t[k] = i.route[k]
    BY <1>1, <2>2, <2>5, AppendSimple
  <2>7. Traced(t, i.req)'
    <3>1. Traced(i.route, i.req)'
      BY <2>2, <2>4, TracedStays DEF Routed
    <3>2. origin'[n][i.req] = i.from
      BY <1>1, <2>1, <2>2 DEF Routed, Caches
    <3>3. Len(i.route) \in Nat
      BY <2>2, Positions
    <3>4. ASSUME NEW k \in 1 .. Len(t)
          PROVE  origin'[t[k]][i.req] = Prior(t, k)
      <4>1. CASE k = Len(i.route) + 1
        BY <2>2, <2>6, <3>2, <3>3, <4>1 DEF Prior
      <4>2. CASE k \in 1 .. Len(i.route)
        BY <2>6, <3>1, <3>3, <4>2 DEF Prior, Traced
      <4> QED BY <2>6, <3>3, <4>1, <4>2
    <3> QED BY <3>4 DEF Traced
  <2> HIDE DEF t
  <2>8. \A j \in net \ {i} : Good(j)'
    BY <2>4, ItemsStay DEF Routed, GoodNet
  <2>9. CASE /\ EndTunnel(n, i.from, t, i.hash)
             /\ net' = (net \ {i}) \cup {Ok(n, i.from, i.req, t)}
    <3>1. Good(Ok(n, i.from, i.req, t))'
      <4>1. Len(i.route) \in 1 .. Len(t) - 1
        BY <2>2, <2>6, Positions
      <4>2. i.from = t[Len(i.route)] /\ n = t[Len(i.route) + 1]
        BY <2>2, <2>6, Positions
      <4> QED BY <2>2, <2>6, <2>7, <4>1, <4>2 DEF Good, GoodOk, Ok, Kinds
    <3>2. GoodNet'
      BY <2>8, <2>9, <3>1 DEF GoodNet
    <3>3. Placed(n, [id |-> t, src |-> i.from, dst |-> n, hash |-> i.hash, used |-> TRUE])
      <4>1. Len(t) \in 1 .. Len(t) /\ Len(t) >= 2 /\ Len(t) # 1
        BY <2>2, <2>6, Positions
      <4>2. t[Len(t)] = n /\ i.from = Prior(t, Len(t)) /\ n = Behind(t, Len(t))
        BY <2>2, <2>6, <4>1, Positions DEF Prior, Behind
      <4> QED BY <1>1, <2>2, <2>6, <4>1, <4>2 DEF Placed, Tunnel, Simple
    <3>4. GoodTunnels'
      BY <1>1, <2>9, <3>3, TunnelsChange DEF EndTunnel, Routed, GoodTunnels
    <3> QED BY <1>1, <2>3, <3>2, <3>4 DEF Routed
  <2>10. ASSUME NEW items \in Forwarded(n, i.from, i.req, i.hash, i.route),
                net' = (net \ {i}) \cup items, UNCHANGED table
         PROVE  Routed'
    <3>1. ASSUME NEW j \in items
          PROVE  Good(j)'
      <4>1. j.type = "open" /\ j.from = n /\ j.to \in Node /\ j.req = i.req /\ j.route = t /\ j.hash = i.hash
        BY <1>1, <2>2, <2>10, ForwardedGood DEF t
      <4>2. Len(t) >= 1 /\ t[Len(t)] = n
        BY <2>2, <2>6, Positions
      <4> QED BY <2>2, <2>6, <2>7, <4>1, <4>2 DEF Good, GoodOpen, Kinds
    <3>2. GoodNet'
      BY <2>8, <2>10, <3>1 DEF GoodNet
    <3>3. GoodTunnels'
      BY <2>10 DEF table, Routed, GoodTunnels
    <3> QED BY <1>1, <2>3, <3>2, <3>3 DEF Routed
  <2> QED BY <1>3, <2>9, <2>10 DEF HandleTunnelRequest, t
<1> QED BY <1>2, <1>3

\* An answer, one step further back along its route.
LEMMA ResultRouted ==
    ASSUME Routed, NEW i \in net, HandleTunnelResult(i)
    PROVE  Routed'
<1> DEFINE n == i.to
<1>0. PICK m, H : /\ m = origin[n][i.req]
                  /\ H = IF m = n THEN WantedBy(n, i.req) ELSE {}
  OBVIOUS
<1>1. /\ i.type = "ok" /\ GoodOk(i) /\ UNCHANGED <<origin, digs, foreign>>
      /\ Caches' /\ \A j \in net : Good(j)'
  <2>1. i.type = "ok" /\ UNCHANGED <<origin, digs, foreign>>
    BY DEF HandleTunnelResult, service
  <2>2. \A j \in net : Good(j)'
    BY <2>1, ItemsStay DEF Routed, GoodNet
  <2> QED BY <2>1, <2>2 DEF Routed, Caches, GoodNet, Good
<1>2. PICK k \in 1 .. Len(i.id) - 1 : n = i.id[k] /\ i.from = i.id[k + 1]
  BY <1>1 DEF GoodOk
<1>3. /\ Simple(i.id) /\ Len(i.id) \in Nat /\ i.req \in Request
      /\ \A j \in 1 .. Len(i.id) : i.id[j] \in Node
      /\ \A a, b \in 1 .. Len(i.id) : i.id[a] = i.id[b] => a = b
  BY <1>1, Positions DEF GoodOk
<1>4. k \in 1 .. Len(i.id) /\ k + 1 \in 1 .. Len(i.id) /\ Len(i.id) >= 2 /\ n \in Node
  BY <1>2, <1>3
<1>5. m = Prior(i.id, k)
  BY <1>0, <1>1, <1>2, <1>4 DEF GoodOk, Traced
<1>6. CASE m = None \/ i.id \in responses[n][i.req]
  <2>1. net' = net \ {i} /\ UNCHANGED tunnels
    BY <1>0, <1>6 DEF HandleTunnelResult, table
  <2> QED BY <1>1, <2>1 DEF Routed, GoodNet, GoodTunnels
<1>7. CASE ~(m = None \/ i.id \in responses[n][i.req])
  <2>1. /\ tunnels' = [tunnels EXCEPT ![n] = Stored(n, m, i, H)]
        /\ net' = (net \ {i}) \cup Backwards(n, m, i.req, i.id)
    BY <1>0, <1>7 DEF HandleTunnelResult
  <2>2. \A j \in Backwards(n, m, i.req, i.id) : Good(j)'
    <3>1. CASE m = n
      BY <3>1 DEF Backwards
    <3>2. CASE m # n
      <4>1. k # 1
        BY <1>2, <1>5, <3>2 DEF Prior
      <4>2. m = i.id[k - 1] /\ k - 1 \in 1 .. Len(i.id) - 1 /\ n = i.id[(k - 1) + 1]
        BY <1>2, <1>3, <1>5, <4>1 DEF Prior
      <4>3. Traced(i.id, i.req)'
        BY <1>1 DEF GoodOk, Traced
      <4>4. GoodOk(Ok(n, m, i.req, i.id))'
        BY <1>3, <4>2, <4>3 DEF GoodOk, Ok
      <4> QED BY <3>2, <4>4 DEF Backwards, Good, Ok, Kinds
    <3> QED BY <3>1, <3>2
  <2>3. GoodNet'
    BY <1>1, <2>1, <2>2 DEF GoodNet
  <2>4. \A u \in Stored(n, m, i, H) : Placed(n, u)
    <3> DEFINE old == {u \in tunnels[n] : u.id = i.id}
               first == [id |-> i.id, src |-> m, dst |-> i.from, hash |-> None, used |-> TRUE]
               new == IF old # {} THEN CHOOSE u \in old : TRUE ELSE first
    <3>1. Placed(n, first)
      <4>1. i.from = Behind(i.id, k)
        BY <1>2, <1>3, <1>4 DEF Behind
      <4>2. m \in Node /\ i.from \in Node
        BY <1>2, <1>3, <1>4, <1>5 DEF Prior
      <4> QED BY <1>2, <1>3, <1>4, <1>5, <4>1, <4>2 DEF Placed, Tunnel, Simple
    <3>2. Placed(n, new)
      <4>1. \A u \in old : Placed(n, u)
        BY <1>4 DEF Routed, GoodTunnels
      <4> QED BY <3>1, <4>1
    <3>3. \A h \in Hash \cup {None} : Placed(n, [new EXCEPT !.hash = h])
      <4> HIDE DEF new
      <4> QED BY <3>2 DEF Placed, Tunnel
    <3>4. ASSUME NEW u \in Stored(n, m, i, H)
          PROVE  u \in tunnels[n] \/ \E h \in Hash \cup {None} : u = [new EXCEPT !.hash = h]
      <4>1. \/ u \in tunnels[n]
            \/ u = [new EXCEPT !.hash = IF H = {} THEN @ ELSE CHOOSE h \in H : TRUE]
        BY DEF Stored
      <4>2. H \subseteq Hash
        BY <1>0 DEF WantedBy
      <4>3. new.hash \in Hash \cup {None}
        BY <3>2 DEF Placed, Tunnel
      <4> HIDE DEF new
      <4>4. CASE H = {}
        BY <4>1, <4>3, <4>4
      <4>5. CASE H # {}
        <5>1. (CHOOSE h \in H : TRUE) \in Hash
          BY <4>2, <4>5
        <5> QED BY <4>1, <4>5, <5>1
      <4> QED BY <4>4, <4>5
    <3> HIDE DEF old, first, new
    <3> QED BY <1>4, <3>3, <3>4 DEF Routed, GoodTunnels
  <2>5. GoodTunnels'
    BY <1>4, <2>1, <2>4, TunnelsChange DEF Routed
  <2> QED BY <1>1, <2>3, <2>5 DEF Routed
<1> QED BY <1>6, <1>7

-----------------------------------------------------------------------------
(* Traffic *)

\* Where node n is on the route of a tunnel it holds.
LEMMA TunnelAtPlaced ==
    ASSUME GoodTunnels, NEW n \in Node, NEW t, Held(n, t)
    PROVE  /\ TunnelAt(n, t) \in tunnels[n] /\ TunnelAt(n, t).id = t
           /\ TunnelAt(n, t) \in Tunnel
           /\ Simple(t) /\ Len(t) \in Nat /\ Len(t) >= 2
           /\ \E k \in 1 .. Len(t) : /\ t[k] = n
                                     /\ TunnelAt(n, t).src = Prior(t, k)
                                     /\ TunnelAt(n, t).dst = Behind(t, k)
<1>1. TunnelAt(n, t) \in tunnels[n] /\ TunnelAt(n, t).id = t
  BY DEF Held, TunnelAt
<1>2. Placed(n, TunnelAt(n, t))
  BY <1>1 DEF GoodTunnels
<1> QED BY <1>1, <1>2, Positions DEF Placed

\* A stamp leaves the peers of a tunnel alone.
LEMMA StampedGood ==
    ASSUME GoodTunnels, NEW n \in Node, NEW u \in tunnels[n], NEW kind, Stamped(n, u, kind)
    PROVE  GoodTunnels'
<1>1. Placed(n, u)
  BY DEF GoodTunnels
<1>2. PICK b \in BOOLEAN : b = (u.used \/ Stamps(kind))
  BY DEF Stamps
<1>3. tunnels' = [tunnels EXCEPT ![n] = (tunnels[n] \ {u}) \cup {[u EXCEPT !.used = b]}]
  BY <1>2 DEF Stamped
<1>4. Placed(n, [u EXCEPT !.used = b])
  BY <1>1 DEF Placed, Tunnel
<1> QED BY <1>3, <1>4, TunnelsChange DEF GoodTunnels

\* What an end of a tunnel sends starts on its way to the other end.
LEMMA SendRouted ==
    ASSUME Routed, NEW n \in Node, NEW t, SendTurtleData(n, t)
    PROVE  Routed'
<1>0. PICK u : u = TunnelAt(n, t)
  OBVIOUS
<1>1. /\ u \in tunnels[n] /\ u.id = t /\ Simple(t) /\ Len(t) \in Nat /\ Len(t) >= 2
      /\ \E k \in 1 .. Len(t) : t[k] = n /\ u.src = Prior(t, k) /\ u.dst = Behind(t, k)
  BY <1>0, TunnelAtPlaced DEF SendTurtleData, Routed
<1>2. PICK k \in 1 .. Len(t) : t[k] = n /\ u.src = Prior(t, k) /\ u.dst = Behind(t, k)
  BY <1>1
<1>3. \A a, b \in 1 .. Len(t) : t[a] = t[b] => a = b
  BY <1>1, Positions
<1>4. /\ UNCHANGED <<origin, digs, foreign>>
      /\ Caches' /\ \A j \in net : Good(j)'
  <2>1. UNCHANGED <<origin, digs, foreign>>
    BY DEF SendTurtleData, cache, client
  <2> QED BY <2>1, ItemsStay DEF Routed, Caches, GoodNet
<1>5. CASE /\ u.src = n
           /\ net' = net \cup {Item(n, u.dst, t, "request", n)}
           /\ Stamped(n, u, "request")
  <2>1. k = 1
    BY <1>1, <1>2, <1>3, <1>5 DEF Prior
  <2>2. 1 \in 1 .. Len(t) - 1 /\ n = t[1] /\ u.dst = t[1 + 1]
    BY <1>1, <1>2, <2>1 DEF Behind
  <2>3. Good(Item(n, u.dst, t, "request", n))
    BY <1>1, <2>2 DEF Good, GoodItem, Item, Kinds
  <2>4. GoodTunnels'
    BY <1>1, <1>5, StampedGood DEF Routed
  <2>5. GoodNet'
    <3>1. PICK j : j = Item(n, u.dst, t, "request", n)
      OBVIOUS
    <3>2. Good(j)'
      BY <1>4, <2>3, <3>1, ItemsStay DEF Routed
    <3> QED BY <1>4, <1>5, <3>1, <3>2 DEF GoodNet
  <2> QED BY <1>4, <2>4, <2>5 DEF Routed
<1>6. CASE /\ u.src # n /\ u.dst = n
           /\ net' = net \cup {Item(n, u.src, t, "data", n)}
           /\ Stamped(n, u, "data")
  <2>1. k = Len(t)
    BY <1>1, <1>2, <1>3, <1>6 DEF Behind
  <2>2. Len(t) - 1 \in 1 .. Len(t) - 1 /\ n = t[(Len(t) - 1) + 1] /\ u.src = t[Len(t) - 1]
    BY <1>1, <1>2, <2>1 DEF Prior
  <2>3. Good(Item(n, u.src, t, "data", n))
    BY <1>1, <1>2, <2>1, <2>2 DEF Good, GoodItem, Item, Kinds
  <2>4. GoodTunnels'
    BY <1>1, <1>6, StampedGood DEF Routed
  <2>5. GoodNet'
    <3>1. PICK j : j = Item(n, u.src, t, "data", n)
      OBVIOUS
    <3>2. Good(j)'
      BY <1>4, <2>3, <3>1, ItemsStay DEF Routed
    <3> QED BY <1>4, <1>6, <3>1, <3>2 DEF GoodNet
  <2> QED BY <1>4, <2>4, <2>5 DEF Routed
<1> QED BY <1>0, <1>5, <1>6 DEF SendTurtleData

\* An item on its way and the tunnel where it arrives: a request comes from the
\* node before, data from the node behind.
Oncoming(i, u, k) ==
    /\ i.id[k] = i.to /\ u.src = Prior(i.id, k) /\ u.dst = Behind(i.id, k)
    /\ \/ /\ i.type = "request" /\ k > 1 /\ i.from = i.id[k - 1] /\ i.by = i.id[1]
       \/ /\ i.type = "data" /\ k < Len(i.id) /\ i.from = i.id[k + 1]
          /\ i.by = i.id[Len(i.id)]

\* Every item of a held tunnel arrives so.
LEMMA ItemsOncoming ==
    ASSUME Routed, NEW i \in net, i.type \in Kinds, Held(i.to, i.id)
    PROVE  /\ i.to \in Node /\ TunnelAt(i.to, i.id) \in tunnels[i.to]
           /\ Simple(i.id) /\ Len(i.id) \in Nat
           /\ \E k \in 1 .. Len(i.id) : Oncoming(i, TunnelAt(i.to, i.id), k)
<1> DEFINE u == TunnelAt(i.to, i.id)
<1>1. GoodItem(i)
  BY DEF Routed, GoodNet, Good
<1>2. PICK k \in 1 .. Len(i.id) - 1 :
          \/ /\ i.type = "request" /\ i.from = i.id[k] /\ i.to = i.id[k + 1]
             /\ i.by = i.id[1]
          \/ /\ i.type = "data" /\ i.from = i.id[k + 1] /\ i.to = i.id[k]
             /\ i.by = i.id[Len(i.id)]
  BY <1>1 DEF GoodItem
<1>3. /\ Simple(i.id) /\ Len(i.id) \in Nat
      /\ \A j \in 1 .. Len(i.id) : i.id[j] \in Node
      /\ \A a, b \in 1 .. Len(i.id) : i.id[a] = i.id[b] => a = b
  BY <1>1, Positions DEF GoodItem
<1>4. i.to \in Node
  BY <1>2, <1>3
<1>5. /\ u \in tunnels[i.to]
      /\ \E j \in 1 .. Len(i.id) : /\ i.id[j] = i.to /\ u.src = Prior(i.id, j)
                                   /\ u.dst = Behind(i.id, j)
  BY <1>4, TunnelAtPlaced DEF Routed
<1> HIDE DEF u
<1>6. PICK j \in 1 .. Len(i.id) : /\ i.id[j] = i.to /\ u.src = Prior(i.id, j)
                                 /\ u.dst = Behind(i.id, j)
  BY <1>5
<1>7. Oncoming(i, u, j)
  <2>1. CASE i.type = "request"
    <3>1. i.id[k + 1] = i.id[j] /\ k + 1 \in 1 .. Len(i.id) /\ i.from = i.id[k] /\ i.by = i.id[1]
      BY <1>2, <1>3, <1>6, <2>1
    <3>2. j = k + 1 /\ j - 1 = k /\ j > 1
      BY <1>2, <1>3, <1>6, <3>1
    <3> QED BY <1>6, <2>1, <3>1, <3>2 DEF Oncoming
  <2>2. CASE i.type = "data"
    <3>1. /\ i.id[k] = i.id[j] /\ k \in 1 .. Len(i.id) /\ i.from = i.id[k + 1]
          /\ i.by = i.id[Len(i.id)]
      BY <1>2, <1>3, <1>6, <2>2
    <3>2. j = k /\ j < Len(i.id)
      BY <1>2, <1>3, <1>6, <3>1
    <3> QED BY <1>6, <2>2, <3>1, <3>2 DEF Oncoming
  <2> QED BY <2>1, <2>2 DEF Kinds
<1> QED BY <1>3, <1>4, <1>5, <1>7 DEF u

\* An item goes on along its route, or is received from the other end.
LEMMA ItemRouted ==
    ASSUME Routed, NEW i \in net, RouteGenericTunnelItem(i)
    PROVE  Routed'
<1>0. PICK u, m : /\ u = TunnelAt(i.to, i.id)
                  /\ m = NextHop(i.to, u, i.from)
  OBVIOUS
<1>1. /\ i.type \in Kinds /\ UNCHANGED <<origin, digs>>
      /\ Caches' /\ \A j \in net : Good(j)'
  <2>1. i.type \in Kinds /\ UNCHANGED <<origin, digs>>
    BY DEF RouteGenericTunnelItem, cache, client
  <2> QED BY <2>1, ItemsStay DEF Routed, Caches, GoodNet
<1>2. CASE ~Held(i.to, i.id)
  <2>1. net' = net \ {i} /\ UNCHANGED <<tunnels, foreign>>
    BY <1>2 DEF RouteGenericTunnelItem, service
  <2> QED BY <1>1, <2>1 DEF Routed, GoodNet, GoodTunnels
<1>3. CASE Held(i.to, i.id)
  <2>1. /\ i.to \in Node /\ u \in tunnels[i.to] /\ Simple(i.id) /\ Len(i.id) \in Nat
        /\ \E k \in 1 .. Len(i.id) : Oncoming(i, u, k)
    BY <1>0, <1>1, <1>3, ItemsOncoming
  <2>2. PICK k \in 1 .. Len(i.id) : Oncoming(i, u, k)
    BY <2>1
  <2>3. /\ \A j \in 1 .. Len(i.id) : i.id[j] \in Node
        /\ \A a, b \in 1 .. Len(i.id) : i.id[a] = i.id[b] => a = b
    BY <2>1, Positions
  <2>4. GoodTunnels'
    BY <1>0, <1>3, <2>1, StampedGood DEF RouteGenericTunnelItem, Routed
  <2>5. CASE i.type = "request"
    <3>1. /\ k > 1 /\ i.from = i.id[k - 1] /\ i.by = i.id[1] /\ i.id[k] = i.to
          /\ u.src = i.from /\ u.dst = Behind(i.id, k)
      BY <2>1, <2>2, <2>5 DEF Oncoming, Prior
    <3>2. i.from # u.dst /\ i.from # i.to
      BY <2>1, <2>2, <2>3, <3>1 DEF Behind
    <3>3. m = u.dst
      BY <1>0, <3>1, <3>2 DEF NextHop
    <3>4. CASE m # i.to
      <4>1. k < Len(i.id) /\ m = i.id[k + 1]
        BY <2>1, <2>2, <3>1, <3>3, <3>4 DEF Behind
      <4>2. net' = (net \ {i}) \cup {Item(i.to, m, i.id, i.type, i.by)} /\ UNCHANGED foreign
        BY <1>0, <1>3, <3>1, <3>4 DEF RouteGenericTunnelItem, service
      <4>3. Good(Item(i.to, m, i.id, i.type, i.by))
        BY <2>1, <2>2, <2>5, <3>1, <4>1 DEF Good, GoodItem, Item, Kinds
      <4>4. Good(Item(i.to, m, i.id, i.type, i.by))'
        BY <1>1, <4>3, ItemsStay DEF Routed
      <4> QED BY <1>1, <2>4, <4>2, <4>4 DEF Routed, GoodNet
    <3>5. CASE m = i.to
      <4>1. k = Len(i.id)
        BY <2>1, <2>2, <2>3, <3>1, <3>3, <3>5 DEF Behind
      <4>2. net' = net \ {i} /\ Receive(i.to, u, i, "server")
        BY <1>0, <1>3, <3>1, <3>2, <3>5 DEF RouteGenericTunnelItem
      <4>3. Last(i.id) = i.to /\ Head(i.id) = i.by
        BY <2>1, <3>1, <4>1 DEF Last, Simple
      <4>4. UNCHANGED foreign
        BY <2>5, <4>2, <4>3 DEF Receive, FromOtherEnd, service
      <4> QED BY <1>1, <2>4, <4>2, <4>4 DEF Routed, GoodNet
    <3> QED BY <3>4, <3>5
  <2>6. CASE i.type = "data"
    <3>1. /\ k < Len(i.id) /\ i.from = i.id[k + 1] /\ i.by = i.id[Len(i.id)]
          /\ i.id[k] = i.to /\ u.dst = i.from /\ u.src = Prior(i.id, k)
      BY <2>1, <2>2, <2>6 DEF Oncoming, Behind
    <3>2. i.from # u.src /\ i.from # i.to
      BY <2>1, <2>2, <2>3, <3>1 DEF Prior
    <3>3. m = u.src
      BY <1>0, <3>1, <3>2 DEF NextHop
    <3>4. CASE m # i.to
      <4>1. k - 1 \in 1 .. Len(i.id) - 1 /\ m = i.id[k - 1] /\ i.to = i.id[(k - 1) + 1]
        BY <2>1, <2>2, <3>1, <3>3, <3>4 DEF Prior
      <4>2. net' = (net \ {i}) \cup {Item(i.to, m, i.id, i.type, i.by)} /\ UNCHANGED foreign
        BY <1>0, <1>3, <3>1, <3>4 DEF RouteGenericTunnelItem, service
      <4>3. Good(Item(i.to, m, i.id, i.type, i.by))
        BY <2>1, <2>6, <3>1, <4>1 DEF Good, GoodItem, Item, Kinds
      <4>4. Good(Item(i.to, m, i.id, i.type, i.by))'
        BY <1>1, <4>3, ItemsStay DEF Routed
      <4> QED BY <1>1, <2>4, <4>2, <4>4 DEF Routed, GoodNet
    <3>5. CASE m = i.to
      <4>1. k = 1
        BY <2>1, <2>2, <2>3, <3>1, <3>3, <3>5 DEF Prior
      <4>2. net' = net \ {i} /\ Receive(i.to, u, i, "client")
        BY <1>0, <1>3, <3>1, <3>2, <3>5 DEF RouteGenericTunnelItem
      <4>3. Head(i.id) = i.to /\ Last(i.id) = i.by
        BY <2>1, <3>1, <4>1 DEF Last, Simple
      <4>4. UNCHANGED foreign
        BY <2>6, <4>2, <4>3 DEF Receive, FromOtherEnd, service
      <4> QED BY <1>1, <2>4, <4>2, <4>4 DEF Routed, GoodNet
    <3> QED BY <3>4, <3>5
  <2> QED BY <1>1, <2>5, <2>6 DEF Kinds
<1> QED BY <1>2, <1>3

-----------------------------------------------------------------------------
(* The rest, and the theorems *)

\* Steps that only take away tunnels or items, or touch neither.
LEMMA OtherRouted ==
    ASSUME Routed,
           \/ \E h \in Hash : MonitorTunnels(h) \/ StopMonitoringTunnels(h) \/ RemoveHash(h)
           \/ \E i \in net : Lose(i)
           \/ \E n \in Node : Idle(n) \/ CloseTunnels(n)
           \/ UNCHANGED vars
    PROVE  Routed'
<1>1. /\ UNCHANGED <<origin, digs, foreign>> /\ net' \subseteq net
  BY DEF MonitorTunnels, StopMonitoringTunnels, RemoveHash, Lose, Idle, CloseTunnels, vars,
         cache, client, service
<1>2. Caches' /\ GoodNet'
  BY <1>1, ItemsStay DEF Routed, Caches, GoodNet
<1>3. GoodTunnels'
  <2>1. CASE UNCHANGED tunnels
    BY <2>1 DEF Routed, GoodTunnels
  <2>2. ASSUME NEW n \in Node, NEW U, Close(n, U)
        PROVE  GoodTunnels'
    BY <2>2, TunnelsChange DEF Close, Routed, GoodTunnels
  <2>3. ASSUME NEW n \in Node, Idle(n)
        PROVE  GoodTunnels'
    <3>1. \A u \in tunnels[n] : Placed(n, [u EXCEPT !.used = FALSE])
      BY DEF Routed, GoodTunnels, Placed, Tunnel
    <3>2. PICK U : U = {[u EXCEPT !.used = FALSE] : u \in tunnels[n]}
      OBVIOUS
    <3>3. \A v \in U : Placed(n, v)
      BY <3>1, <3>2
    <3>4. tunnels' = [tunnels EXCEPT ![n] = U]
      BY <2>3, <3>2 DEF Idle
    <3> QED BY <3>3, <3>4, TunnelsChange DEF Routed
  <2>4. ASSUME NEW h \in Hash, RemoveHash(h)
        PROVE  GoodTunnels'
    BY <2>1, <2>2, <2>4, HashAssumption DEF RemoveHash, table
  <2>5. ASSUME NEW n \in Node, CloseTunnels(n)
        PROVE  GoodTunnels'
    BY <2>2, <2>5 DEF CloseTunnels
  <2>6. ASSUME \/ \E h \in Hash : MonitorTunnels(h) \/ StopMonitoringTunnels(h)
               \/ \E i \in net : Lose(i)
               \/ UNCHANGED vars
        PROVE  UNCHANGED tunnels
    BY <2>6 DEF MonitorTunnels, StopMonitoringTunnels, Lose, vars, table
  <2> QED BY <2>1, <2>3, <2>4, <2>5, <2>6
<1> QED BY <1>1, <1>2, <1>3 DEF Routed

\* Every step preserves the invariant: once a cache entry has gone too early,
\* nothing is claimed any more.
LEMMA NextRouted == RouteInv /\ [Next]_vars => RouteInv'
<1> SUFFICES ASSUME RouteInv, [Next]_vars
             PROVE  RouteInv'
  OBVIOUS
<1>1. CASE \E n \in Node : \E r \in Request : ExpireRequest(n, r)
  BY <1>1 DEF ExpireRequest, RouteInv
<1>2. CASE ~(\E n \in Node : \E r \in Request : ExpireRequest(n, r))
  <2>1. UNCHANGED stale
    BY <1>2 DEF Next, vars, MonitorTunnels, StopMonitoringTunnels, DiggTunnel, RemoveHash,
       HandleTunnelRequest, HandleTunnelResult, RouteGenericTunnelItem, Lose, SendTurtleData,
       Idle, CloseTunnels
  <2>2. Routed => Routed'
    BY <1>2, DiggRouted, RequestRouted, ResultRouted, ItemRouted, SendRouted, OtherRouted
       DEF Next
  <2> QED BY <2>1, <2>2 DEF RouteInv
<1> QED BY <1>1, <1>2

\* There is nothing at first.
LEMMA InitRouted == Init => RouteInv
  BY HashAssumption
     DEF Init, RouteInv, Routed, Caches, GoodNet, GoodTunnels, Request, None

\* In every network of friends, no request and no tunnel comes through a node
\* twice, as long as requests stay in the caches until they have passed.
THEOREM NoLoops == Spec => []LoopFree
<1>1. RouteInv => LoopFree
  BY DEF RouteInv, Routed, GoodNet, GoodTunnels, Good, GoodOpen, Placed, Simple, LoopFree
<1> QED BY <1>1, InitRouted, NextRouted, PTL DEF Spec

\* What is sent into a tunnel reaches no node that expects the items of this tunnel
\* from other peers.
THEOREM RoutesStay == Spec => []RouteStable
<1>1. RouteInv => RouteStable
  <2> SUFFICES ASSUME RouteInv, stale = 0, NEW i \in net, i.type \in Kinds, Held(i.to, i.id)
               PROVE  i.from \in {TunnelAt(i.to, i.id).src, TunnelAt(i.to, i.id).dst}
    BY DEF RouteStable
  <2>1. PICK k \in 1 .. Len(i.id) : Oncoming(i, TunnelAt(i.to, i.id), k)
    BY ItemsOncoming DEF RouteInv
  <2>2. Len(i.id) \in Nat
    BY ItemsOncoming DEF RouteInv
  <2> QED BY <2>1, <2>2 DEF Oncoming, Prior, Behind
<1> QED BY <1>1, InitRouted, NextRouted, PTL DEF Spec

\* A service only gets what the other end of the tunnel sent, and knows which end
\* that is.
THEOREM OwnData == Spec => []DataFromOtherEnd
<1>1. RouteInv => DataFromOtherEnd
  BY DEF RouteInv, Routed, DataFromOtherEnd
<1> QED BY <1>1, InitRouted, NextRouted, PTL DEF Spec

-----------------------------------------------------------------------------
(* Tables: their types, and how they agree *)

\* The peers of a tunnel at node n: friends, or the node itself at an end.
Near(n) == Friends[n] \cup {n}

\* Only the first request can leave the caches too early (MaxStale).
Entries ==
    /\ origin \in [Node -> [Request -> Node \cup {None}]]
    /\ responses \in [Node -> [Request -> SUBSET Seq(Node)]]
    /\ digs \in 0 .. MaxDigs /\ stale \in 0 .. MaxStale
    /\ stale > 0 => digs = 1
    /\ \A n \in Node : \A r \in Request :
          /\ origin[n][r] \in Near(n) \cup {None}
          /\ r > digs => origin[n][r] = None

\* Items go to friends, and know where their request began.
Sent(i) ==
    /\ i.from \in Node /\ i.to \in Friends[i.from]
    /\ \/ /\ i.type = "open" /\ i.req \in 1 .. digs /\ i.hash \in Hash
          /\ i.route \in Seq(Node) /\ i.route # <<>> /\ i.route[1] = Client[i.hash]
          /\ \A n \in Node : origin[n][i.req] = n => i.route[1] = n
       \/ /\ i.type = "ok" /\ i.req \in 1 .. digs
          /\ i.id \in Seq(Node) /\ i.id # <<>>
          /\ \A n \in Node : origin[n][i.req] = n => i.id[1] = n
       \/ i.type \in Kinds /\ i.id \in Seq(Node)

\* A tunnel of node n, and its peers.
Fit(n, u) ==
    /\ u \in Tunnel /\ u.id # <<>>
    /\ u.src \in Near(n) /\ u.dst \in Near(n) /\ (u.dst = n => u.src # n)
    /\ u.src = n => u.id[1] = n
    /\ u.src # n /\ u.id[1] = n => \A r \in Request : origin[n][r] # n

\* No node holds two tunnels of the same id.
Tables ==
    /\ tunnels \in [Node -> SUBSET Tunnel]
    /\ vpeers \in [Node -> SUBSET Seq(Node)]
    /\ outgoing \in [Node -> SUBSET Seq(Node)]
    /\ sources = vpeers
    /\ \A n \in Node : \A u \in tunnels[n] : Fit(n, u)
    /\ \A n \in Node : \A u, v \in tunnels[n] : u.id = v.id => u = v

Wanted ==
    /\ hashes \in [Hash -> [tunnels : SUBSET Seq(Node), last : {-1} \cup Nat]]
    /\ \A h \in Hash : hashes[h] = Unmonitored \/ hashes[h].last \in 0 .. digs
    /\ toRemove \subseteq Hash

\* The tunnels that clients and providers were told of.
Beginning(n, u) ==
    /\ u.src = n /\ u.hash \in Hash /\ Client[u.hash] = n
    /\ hashes[u.hash] # Unmonitored /\ u.id \in hashes[u.hash].tunnels

Ending(n, u) ==
    /\ u.src # n /\ u.dst = n /\ u.hash \in Hash /\ u.id \in outgoing[n]
    /\ u.id[1] # n

\* ... are in the tables, and the list of a hash names tunnels of this hash.
Registered ==
    /\ \A n \in Node : \A t \in vpeers[n] :
          \E u \in tunnels[n] : u.id = t /\ (Beginning(n, u) \/ Ending(n, u))
    /\ \A h \in Hash : \A t \in hashes[h].tunnels :
          /\ t \in vpeers[Client[h]]
          /\ \E u \in tunnels[Client[h]] :
                u.id = t /\ u.src = Client[h] /\ u.hash = h

TableInv ==
    /\ Entries /\ (\A i \in net : Sent(i)) /\ Tables /\ Wanted /\ Registered

\* The cache entries of requests that are under way change only by being taken
\* away or by the request coming from a friend: items keep their properties.
LEMMA SentStays ==
    ASSUME Entries, NEW i, Sent(i), digs' \in Nat, digs <= digs',
           \A n \in Node : \A r \in 1 .. digs : origin'[n][r] = n => origin[n][r] = n
    PROVE  Sent(i)'
<1>1. digs \in Nat
  BY HashAssumption DEF Entries
<1>2. \A r \in 1 .. digs : r \in 1 .. digs'
  BY <1>1
<1> QED BY <1>1, <1>2 DEF Sent

\* Steps that leave the tables as they are.
LEMMA TablesKept ==
    ASSUME TableInv, UNCHANGED table,
           \A n \in Node : \A u \in tunnels[n] : Fit(n, u)',
           \A h \in Hash : /\ hashes'[h].tunnels = hashes[h].tunnels
                           /\ hashes[h] # Unmonitored => hashes'[h] # Unmonitored
    PROVE  Tables' /\ Registered'
<1>1. UNCHANGED <<tunnels, vpeers, outgoing, sources>>
  BY DEF table
<1>2. Tables'
  BY <1>1 DEF TableInv, Tables
<1>3. \A n \in Node : \A u : Beginning(n, u) => Beginning(n, u)'
  BY DEF Beginning
<1>4. \A n \in Node : \A u : Ending(n, u) => Ending(n, u)'
  BY <1>1 DEF Ending
<1>5. \A n \in Node : \A t \in vpeers'[n] :
          \E u \in tunnels'[n] : u.id = t /\ (Beginning(n, u)' \/ Ending(n, u)')
  BY <1>1, <1>3, <1>4 DEF TableInv, Registered
<1>6. \A h \in Hash : \A t \in hashes'[h].tunnels :
          /\ t \in vpeers'[Client[h]]
          /\ \E u \in tunnels'[Client[h]] : u.id = t /\ u.src = Client[h] /\ u.hash = h
  BY <1>1 DEF TableInv, Registered
<1> QED BY <1>2, <1>5, <1>6 DEF Registered

\* Tunnels fit as before when no node becomes the origin of a request.
LEMMA FitStays ==
    ASSUME TableInv, \A n \in Node : \A r \in Request : origin'[n][r] = n => origin[n][r] = n
    PROVE  \A n \in Node : \A u \in tunnels[n] : Fit(n, u)'
  BY DEF TableInv, Tables, Fit

\* While the caches keep their entries, the first node of a tunnel has no peer
\* before it.
LEMMA FirstBegins ==
    ASSUME RouteInv, stale = 0, NEW n \in Node, NEW u \in tunnels[n], u.id[1] = n
    PROVE  u.src = n
<1>1. Placed(n, u)
  BY DEF RouteInv, Routed, GoodTunnels
<1>2. PICK k \in 1 .. Len(u.id) : u.id[k] = n /\ u.src = Prior(u.id, k)
  BY <1>1 DEF Placed
<1>3. Simple(u.id) /\ Len(u.id) \in Nat /\ 1 \in 1 .. Len(u.id)
  BY <1>1, Positions DEF Placed
<1>4. k = 1
  BY <1>2, <1>3, Positions
<1> QED BY <1>2, <1>4 DEF Prior

\* There is nothing at first.
LEMMA InitTable == Init => TableInv
<1> SUFFICES ASSUME Init PROVE TableInv
  OBVIOUS
<1>1. Entries
  BY HashAssumption, NodeAssumption DEF Init, Entries, Request
<1>2. Tables
  BY DEF Init, Tables
<1>3. Wanted
  BY DEF Init, Wanted, Unmonitored
<1>4. Registered
  BY DEF Init, Registered, Unmonitored
<1>5. \A i \in net : Sent(i)
  BY DEF Init
<1> QED BY <1>1, <1>2, <1>3, <1>4, <1>5 DEF TableInv

\* Services want a hash, or no longer.
LEMMA MonitorTable ==
    ASSUME TableInv, NEW h \in Hash, MonitorTunnels(h) \/ StopMonitoringTunnels(h)
    PROVE  TableInv'
<1>1. UNCHANGED <<origin, responses, digs, net, stale, table>> /\ toRemove' \subseteq toRemove \cup {h}
  BY DEF MonitorTunnels, StopMonitoringTunnels, cache
<1>2. \A g \in Hash : \/ hashes'[g] = hashes[g]
                      \/ /\ hashes[g] = Unmonitored
                         /\ hashes'[g] = [tunnels |-> {}, last |-> 0]
  BY DEF MonitorTunnels, StopMonitoringTunnels, TableInv, Wanted
<1>3. Unmonitored.tunnels = {} /\ [tunnels |-> {}, last |-> 0] # Unmonitored
  BY DEF Unmonitored
<1>4. Entries' /\ \A i \in net' : Sent(i)'
  BY <1>1 DEF TableInv, Entries, Sent
<1>5. Wanted'
  <2>1. digs \in Nat
    BY HashAssumption DEF TableInv, Entries
  <2>2. hashes' = [g \in Hash |-> hashes'[g]]
    BY DEF MonitorTunnels, StopMonitoringTunnels, TableInv, Wanted
  <2> QED BY <1>1, <1>2, <2>1, <2>2 DEF TableInv, Wanted
<1>6. \A n \in Node : \A u \in tunnels[n] : Fit(n, u)'
  BY <1>1, FitStays
<1>7. Tables' /\ Registered'
  BY <1>1, <1>2, <1>3, <1>6, TablesKept
<1> QED BY <1>4, <1>5, <1>7 DEF TableInv

\* A request is new when it is dug, and its tunnels begin where it began.
LEMMA DiggTable ==
    ASSUME TableInv, RouteInv, NEW h \in Hash, DiggTunnel(h)
    PROVE  TableInv'
<1> DEFINE n == Client[h]
<1>0. PICK r : r = digs + 1
  OBVIOUS
<1>1. /\ n \in Node /\ r \in Request /\ r \in 1 .. MaxDigs /\ digs' = r /\ stale = 0 /\ stale' = 0
      /\ digs \in Nat /\ MaxDigs \in Nat
      /\ UNCHANGED <<table, toRemove>>
      /\ origin' = [origin EXCEPT ![n][r] = n]
      /\ responses' = [responses EXCEPT ![n][r] = {}]
      /\ hashes' = [hashes EXCEPT ![h].last = r] /\ hashes[h] # Unmonitored
  <2>1. digs \in 0 .. MaxDigs /\ MaxDigs \in Nat /\ n \in Node
    BY HashAssumption DEF TableInv, Entries
  <2>2. digs < MaxDigs /\ digs' = digs + 1
    BY DEF DiggTunnel
  <2> QED BY <1>0, <2>1, <2>2 DEF DiggTunnel, Noted, Request
<1>2. PICK items \in Forwarded(n, n, r, h, <<>>) : net' = net \cup items
  BY <1>0 DEF DiggTunnel
<1> HIDE DEF n
<1>3. \A m \in Node : \A q \in Request :
         origin'[m][q] = IF m = n /\ q = r THEN n ELSE origin[m][q]
  BY <1>1 DEF TableInv, Entries
<1>4. Entries'
  <2>1. origin' \in [Node -> [Request -> Node \cup {None}]]
        /\ responses' \in [Node -> [Request -> SUBSET Seq(Node)]]
    BY <1>1 DEF TableInv, Entries
  <2>2. \A m \in Node : \A q \in Request :
           origin'[m][q] \in Near(m) \cup {None} /\ (q > r => origin'[m][q] = None)
    BY <1>0, <1>1, <1>3 DEF TableInv, Entries, Near, Request
  <2> QED BY <1>1, <2>1, <2>2 DEF TableInv, Entries
<1>5. ASSUME NEW i \in items PROVE Sent(i)'
  <2>1. PICK M \in SUBSET (Friends[n] \ {n}) :
             items = {Open(n, p, r, h, Perturbed(<<>>, n)) : p \in M}
    BY <1>2 DEF Forwarded
  <2>2. PICK p \in M : i = Open(n, p, r, h, Perturbed(<<>>, n))
    BY <1>5, <2>1
  <2>3. Perturbed(<<>>, n) \in Seq(Node) /\ Perturbed(<<>>, n) # <<>> /\ Perturbed(<<>>, n)[1] = n
    BY <1>1 DEF Perturbed
  <2>4. \A m \in Node : origin'[m][r] = m => m = n
    <3>1. \A m \in Node : origin[m][r] = None
      BY <1>0, <1>1 DEF TableInv, Entries
    <3> QED BY <1>1, <1>3, <3>1, NodeAssumption
  <2>5. r \in 1 .. digs'
    BY <1>1
  <2> QED BY <1>1, <2>1, <2>2, <2>3, <2>4, <2>5 DEF Sent, Open, n
<1>6. \A i \in net : Sent(i)'
  <2>1. \A m \in Node : \A q \in 1 .. digs : origin'[m][q] = m => origin[m][q] = m
    BY <1>0, <1>1, <1>3 DEF Request
  <2>2. digs' \in Nat /\ digs <= digs'
    BY <1>0, <1>1
  <2> QED BY <2>1, <2>2, SentStays DEF TableInv
<1>7. Wanted'
  <2>1. \A g \in Hash : hashes'[g] = IF g = h THEN [hashes[h] EXCEPT !.last = r] ELSE hashes[g]
    BY <1>1 DEF TableInv, Wanted
  <2>2. r \in Nat /\ r \in 0 .. r /\ \A q \in 0 .. digs : q \in 0 .. r
    BY <1>0, <1>1
  <2>3. hashes' = [g \in Hash |-> hashes'[g]]
    BY <1>1 DEF TableInv, Wanted
  <2>4. \A g \in Hash : hashes'[g] \in [tunnels : SUBSET Seq(Node), last : {-1} \cup Nat]
    BY <2>1, <2>2 DEF TableInv, Wanted
  <2>5. \A g \in Hash : hashes'[g] = Unmonitored \/ hashes'[g].last \in 0 .. r
    BY <2>1, <2>2 DEF TableInv, Wanted
  <2> QED BY <1>1, <2>3, <2>4, <2>5 DEF TableInv, Wanted
<1>8. \A m \in Node : \A u \in tunnels[m] : Fit(m, u)'
  <2>1. \A m \in Node : \A u \in tunnels[m] : ~(u.src # m /\ u.id[1] = m)
    BY <1>1, FirstBegins
  <2> QED BY <2>1 DEF TableInv, Tables, Fit
<1>9. Tables' /\ Registered'
  <2>1. \A g \in Hash : /\ hashes'[g].tunnels = hashes[g].tunnels
                        /\ hashes[g] # Unmonitored => hashes'[g] # Unmonitored
    <3>1. \A g \in Hash : hashes'[g] = IF g = h THEN [hashes[h] EXCEPT !.last = r] ELSE hashes[g]
      BY <1>1 DEF TableInv, Wanted
    <3>2. [hashes[h] EXCEPT !.last = r].tunnels = hashes[h].tunnels
          /\ [hashes[h] EXCEPT !.last = r].last = r
      BY DEF TableInv, Wanted
    <3>3. r # -1 /\ Unmonitored.last = -1
      BY <1>1 DEF Unmonitored
    <3> QED BY <3>1, <3>2, <3>3
  <2> QED BY <1>1, <1>8, <2>1, TablesKept
<1>10. \A i \in net' : Sent(i)'
  BY <1>2, <1>5, <1>6
<1> QED BY <1>4, <1>7, <1>9, <1>10 DEF TableInv

\* The provider that ends a tunnel is not where the request began, so that no
\* tunnel that begins at it is replaced.
LEMMA EndTable ==
    ASSUME TableInv, NEW n \in Node, NEW m \in Friends[n], NEW t \in Seq(Node), t # <<>>,
           t[1] # n, NEW h \in Hash, EndTunnel(n, m, t, h), UNCHANGED hashes,
           \A p \in Node : \A u \in tunnels[p] : Fit(p, u)'
    PROVE  Tables' /\ Registered'
<1> DEFINE new == [id |-> t, src |-> m, dst |-> n, hash |-> h, used |-> TRUE]
           kept == {u \in tunnels[n] : u.id # t}
<1>1. /\ tunnels' = [tunnels EXCEPT ![n] = kept \cup {new}]
      /\ vpeers' = [vpeers EXCEPT ![n] = vpeers[n] \cup {t}]
      /\ outgoing' = [outgoing EXCEPT ![n] = outgoing[n] \cup {t}]
      /\ sources' = [sources EXCEPT ![n] = sources[n] \cup {t}]
  BY DEF EndTunnel
<1>2. m \in Node /\ m # n
  BY GraphAssumption
<1>3. new \in Tunnel
  BY <1>2 DEF Tunnel
<1>4. /\ new.id = t /\ new.src = m /\ new.dst = n /\ new.hash = h
  OBVIOUS
<1> HIDE DEF new
<1>5. Fit(n, new)'
  BY <1>2, <1>3, <1>4 DEF Fit, Near
<1>6. \A p \in Node : tunnels'[p] = IF p = n THEN kept \cup {new} ELSE tunnels[p]
  BY <1>1 DEF TableInv, Tables
<1>7. \A p \in Node : /\ vpeers'[p] = IF p = n THEN vpeers[n] \cup {t} ELSE vpeers[p]
                      /\ outgoing'[p] = IF p = n THEN outgoing[n] \cup {t} ELSE outgoing[p]
  BY <1>1 DEF TableInv, Tables
<1>8. Tables'
  <2>1. tunnels' \in [Node -> SUBSET Tunnel]
    BY <1>1, <1>3 DEF TableInv, Tables
  <2>2. vpeers' \in [Node -> SUBSET Seq(Node)] /\ outgoing' \in [Node -> SUBSET Seq(Node)]
        /\ sources' = vpeers'
    BY <1>1 DEF TableInv, Tables
  <2>3. \A p \in Node : \A u \in tunnels'[p] : Fit(p, u)'
    BY <1>5, <1>6
  <2>4. \A p \in Node : \A u, v \in tunnels'[p] : u.id = v.id => u = v
    <3>1. \A u, v \in kept \cup {new} : u.id = v.id => u = v
      BY <1>4 DEF TableInv, Tables
    <3>2. \A p \in Node : \A u, v \in tunnels[p] : u.id = v.id => u = v
      BY DEF TableInv, Tables
    <3> HIDE DEF kept
    <3> QED BY <1>6, <3>1, <3>2
  <2> QED BY <2>1, <2>2, <2>3, <2>4 DEF Tables
<1>9. \A p \in Node : \A u : Beginning(p, u) => Beginning(p, u)'
  BY DEF Beginning
<1>10. \A p \in Node : \A u : Ending(p, u) => Ending(p, u)'
  BY <1>7 DEF Ending
<1>11. Ending(n, new)'
  BY <1>2, <1>4, <1>7 DEF Ending
<1>12. ASSUME NEW p \in Node, NEW s \in vpeers'[p]
       PROVE  \E u \in tunnels'[p] : u.id = s /\ (Beginning(p, u)' \/ Ending(p, u)')
  <2>1. CASE p = n /\ s = t
    BY <1>4, <1>6, <1>11, <2>1
  <2>2. CASE ~(p = n /\ s = t)
    <3>1. s \in vpeers[p]
      BY <1>7, <1>12, <2>2
    <3>2. PICK u \in tunnels[p] : u.id = s /\ (Beginning(p, u) \/ Ending(p, u))
      BY <3>1 DEF TableInv, Registered
    <3>3. u \in tunnels'[p]
      BY <1>6, <2>2, <3>2
    <3> QED BY <1>9, <1>10, <3>2, <3>3
  <2> QED BY <2>1, <2>2
<1>13. ASSUME NEW g \in Hash, NEW s \in hashes[g].tunnels
       PROVE  /\ s \in vpeers'[Client[g]]
              /\ \E u \in tunnels'[Client[g]] : u.id = s /\ u.src = Client[g] /\ u.hash = g
  <2>1. Client[g] \in Node /\ s \in vpeers[Client[g]]
    BY HashAssumption DEF TableInv, Registered
  <2>2. PICK u \in tunnels[Client[g]] : u.id = s /\ u.src = Client[g] /\ u.hash = g
    BY DEF TableInv, Registered
  <2>3. s[1] = Client[g]
    BY <2>1, <2>2 DEF TableInv, Tables, Fit
  <2>4. u \in tunnels'[Client[g]]
    BY <1>6, <2>1, <2>2, <2>3
  <2> QED BY <1>7, <2>1, <2>2, <2>4
<1> QED BY <1>8, <1>12, <1>13 DEF Registered

\* The request of another node: forwarded, or answered at the end of a tunnel.
LEMMA RequestTable ==
    ASSUME TableInv, NEW i \in net, HandleTunnelRequest(i)
    PROVE  TableInv'
<1> DEFINE n == i.to
           t == Append(i.route, n)
<1>1. /\ i.type = "open" /\ UNCHANGED <<hashes, toRemove, digs, stale>>
  BY DEF HandleTunnelRequest, client
<1>2. /\ i.from \in Node /\ n \in Friends[i.from] /\ i.req \in 1 .. digs /\ i.hash \in Hash
      /\ i.route \in Seq(Node) /\ i.route # <<>> /\ i.route[1] = Client[i.hash]
      /\ \A p \in Node : origin[p][i.req] = p => i.route[1] = p
  BY <1>1 DEF TableInv, Sent, Kinds
<1>3. n \in Node /\ i.from \in Friends[n] /\ i.from # n
  BY <1>2, GraphAssumption
<1>4. digs \in Nat /\ MaxDigs \in Nat /\ digs \in 0 .. MaxDigs
  BY HashAssumption DEF TableInv, Entries
<1>5. i.req \in Request
  BY <1>2, <1>4 DEF Request
<1>6. Wanted'
  BY <1>1 DEF TableInv, Wanted
<1>7. CASE Bouncing(n, i.req)
  <2>1. net' = net \ {i} /\ UNCHANGED <<origin, responses, table>>
    BY <1>7 DEF HandleTunnelRequest, cache
  <2>2. Entries' /\ \A j \in net' : Sent(j)'
    BY <1>1, <2>1 DEF TableInv, Entries, Sent
  <2>3. Tables' /\ Registered'
    BY <1>1, <2>1, FitStays, TablesKept
  <2> QED BY <1>6, <2>2, <2>3 DEF TableInv
<1>8. CASE ~Bouncing(n, i.req)
  <2>1. /\ origin' = [origin EXCEPT ![n][i.req] = i.from]
        /\ responses' = [responses EXCEPT ![n][i.req] = {}]
    BY <1>8 DEF HandleTunnelRequest, Noted
  <2>2. \A p \in Node : \A q \in Request :
           origin'[p][q] = IF p = n /\ q = i.req THEN i.from ELSE origin[p][q]
    BY <1>3, <1>5, <2>1 DEF TableInv, Entries
  <2>3. Entries'
    <3>1. origin' \in [Node -> [Request -> Node \cup {None}]]
          /\ responses' \in [Node -> [Request -> SUBSET Seq(Node)]]
      BY <1>2, <2>1 DEF TableInv, Entries
    <3>2. ~(i.req > digs)
      BY <1>2, <1>4
    <3>3. \A p \in Node : \A q \in Request :
             origin'[p][q] \in Near(p) \cup {None} /\ (q > digs => origin'[p][q] = None)
      BY <1>3, <2>2, <3>2 DEF TableInv, Entries, Near
    <3> QED BY <1>1, <3>1, <3>3 DEF TableInv, Entries
  <2>4. \A p \in Node : \A q \in Request : origin'[p][q] = p => origin[p][q] = p
    BY <1>3, <2>2
  <2>5. \A j \in net : Sent(j)'
    <3>1. \A p \in Node : \A q \in 1 .. digs : origin'[p][q] = p => origin[p][q] = p
      BY <1>4, <2>4 DEF Request
    <3>2. digs' \in Nat /\ digs <= digs'
      BY <1>1, <1>4
    <3> QED BY <3>1, <3>2, SentStays DEF TableInv
  <2>6. \A p \in Node : \A u \in tunnels[p] : Fit(p, u)'
    BY <2>4, FitStays
  <2>7. t \in Seq(Node) /\ t # <<>> /\ t[1] = i.route[1]
    BY <1>2, <1>3
  <2>8. \A p \in Node : origin'[p][i.req] = p => i.route[1] = p
    BY <1>2, <1>5, <2>4
  <2> HIDE DEF t
  <2>9. CASE /\ n \in Provider[i.hash] /\ EndTunnel(n, i.from, t, i.hash)
             /\ net' = (net \ {i}) \cup {Ok(n, i.from, i.req, t)}
    <3>1. t[1] # n
      BY <1>2, <2>7, <2>9, HashAssumption
    <3>2. Tables' /\ Registered'
      BY <1>1, <1>2, <1>3, <2>6, <2>7, <2>9, <3>1, EndTable
    <3>3. Sent(Ok(n, i.from, i.req, t))'
      BY <1>1, <1>2, <1>3, <2>7, <2>8 DEF Sent, Ok
    <3>4. \A j \in net' : Sent(j)'
      BY <2>5, <2>9, <3>3
    <3> QED BY <1>6, <2>3, <3>2, <3>4 DEF TableInv
  <2>10. ASSUME NEW items \in Forwarded(n, i.from, i.req, i.hash, i.route),
                net' = (net \ {i}) \cup items, UNCHANGED table
         PROVE  TableInv'
    <3>1. ASSUME NEW j \in items PROVE Sent(j)'
      <4>1. PICK M \in SUBSET (Friends[n] \ {i.from}) :
                 items = {Open(n, p, i.req, i.hash, t) : p \in M}
        BY <2>10 DEF Forwarded, Perturbed, t
      <4>2. PICK p \in M : j = Open(n, p, i.req, i.hash, t)
        BY <3>1, <4>1
      <4>3. /\ j.type = "open" /\ j.from = n /\ j.to \in Friends[n] /\ j.req = i.req
            /\ j.hash = i.hash /\ j.route = t
        BY <4>1, <4>2 DEF Open
      <4> QED BY <1>1, <1>2, <1>3, <2>7, <2>8, <4>3 DEF Sent
    <3>2. \A j \in net' : Sent(j)'
      BY <2>5, <2>10, <3>1
    <3>3. Tables' /\ Registered'
      BY <1>1, <2>6, <2>10, TablesKept
    <3> QED BY <1>6, <2>3, <3>2, <3>3 DEF TableInv
  <2> QED BY <1>8, <2>9, <2>10 DEF HandleTunnelRequest, t
<1> QED BY <1>7, <1>8

\* A client has one hash.
LEMMA OneHash ==
    ASSUME NEW n \in Node, NEW r, NEW H, H = WantedBy(n, r)
    PROVE  /\ H \subseteq Hash
           /\ \A h \in H : Client[h] = n /\ hashes[h] # Unmonitored /\ H = {h}
  BY HashAssumption DEF WantedBy

\* An answer i arrives at node n, whose request came from m; H is the hash of n
\* that it is for, if any.
Passing(n, m, i, H) ==
    /\ H \subseteq Hash /\ \A h \in H : H = {h}
    /\ i.id \in Seq(Node) /\ i.id # <<>> /\ i.from \in Friends[n] /\ m \in Near(n)
    /\ m = n => i.id[1] = n
    /\ m # n /\ i.id[1] = n => \A r \in Request : origin[n][r] # n

\* Tunnel new takes the place of the one that is there already, if any, and gets
\* the hash if there is one.
StoredAs(n, m, i, H, new) ==
    /\ Stored(n, m, i, H) = {u \in tunnels[n] : u.id # i.id} \cup {new}
    /\ Fit(n, new) /\ new.id = i.id
    /\ \A u \in tunnels[n] : u.id = i.id => new.src = u.src /\ new.dst = u.dst
    /\ (\A u \in tunnels[n] : u.id # i.id) => new.src = m
    /\ \A h \in H : new.hash = h
    /\ H = {} => \A u \in tunnels[n] : u.id = i.id => new = u

\* What a node stores when an answer passes.
LEMMA StoredTable ==
    ASSUME TableInv, NEW n \in Node, NEW i, NEW m, NEW H, Passing(n, m, i, H)
    PROVE  \E new \in Tunnel : StoredAs(n, m, i, H, new)
<1> DEFINE old == {u \in tunnels[n] : u.id = i.id}
           first == [id |-> i.id, src |-> m, dst |-> i.from, hash |-> None, used |-> TRUE]
           base == IF old # {} THEN CHOOSE u \in old : TRUE ELSE first
           new == [base EXCEPT !.hash = IF H = {} THEN base.hash ELSE CHOOSE h \in H : TRUE]
<1>0. /\ H \subseteq Hash /\ \A h \in H : H = {h}
      /\ i.id \in Seq(Node) /\ i.id # <<>> /\ i.from \in Friends[n] /\ m \in Near(n)
      /\ m = n => i.id[1] = n
      /\ m # n /\ i.id[1] = n => \A r \in Request : origin[n][r] # n
  BY DEF Passing
<1>1. i.from \in Node /\ i.from # n /\ m \in Node
  BY <1>0, GraphAssumption DEF Near
<1>2. first \in Tunnel /\ first.id = i.id /\ first.src = m /\ first.dst = i.from
  BY <1>0, <1>1 DEF Tunnel
<1> HIDE DEF first
<1>3. Fit(n, first)
  BY <1>0, <1>1, <1>2 DEF Fit, Near
<1>4. \A u \in old : Fit(n, u) /\ u.id = i.id /\ old = {u}
  BY DEF TableInv, Tables
<1>5. Stored(n, m, i, H) = {u \in tunnels[n] : u.id # i.id} \cup {new}
  <2>1. Stored(n, m, i, H) = (tunnels[n] \ old) \cup {new}
    BY DEF Stored, first
  <2>2. tunnels[n] \ old = {u \in tunnels[n] : u.id # i.id}
    OBVIOUS
  <2> QED BY <2>1, <2>2
<1>6. /\ base \in Tunnel /\ Fit(n, base) /\ base.id = i.id
      /\ old # {} => base \in old
      /\ old = {} => base = first
  <2>1. CASE old # {}
    <3>1. base \in old
      BY <2>1
    <3> HIDE DEF base
    <3> QED BY <1>4, <2>1, <3>1 DEF Fit
  <2>2. CASE old = {}
    BY <1>2, <1>3, <2>2
  <2> QED BY <2>1, <2>2
<1> HIDE DEF base
<1>7. PICK b : b = IF H = {} THEN base.hash ELSE CHOOSE h \in H : TRUE
  OBVIOUS
<1>8. b \in Hash \cup {None} /\ (\A h \in H : b = h) /\ (H = {} => b = base.hash)
  <2>1. CASE H = {}
    BY <1>6, <1>7, <2>1 DEF Tunnel
  <2>2. CASE H # {}
    <3>1. b \in H
      BY <1>7, <2>2
    <3> QED BY <1>0, <2>2, <3>1
  <2> QED BY <2>1, <2>2
<1>9. new = [base EXCEPT !.hash = b]
  BY <1>7
<1> HIDE DEF new
<1>10. /\ new \in Tunnel /\ new.id = base.id /\ new.src = base.src /\ new.dst = base.dst
       /\ new.hash = b /\ (b = base.hash => new = base)
  BY <1>6, <1>8, <1>9 DEF Tunnel
<1>11. Fit(n, new)
  BY <1>6, <1>10 DEF Fit
<1>12. \A u \in tunnels[n] : u.id = i.id => u = base
  BY <1>4, <1>6
<1>13. (\A u \in tunnels[n] : u.id # i.id) => new.src = m
  BY <1>2, <1>6, <1>10
<1> HIDE DEF old
<1>14. StoredAs(n, m, i, H, new)
  BY <1>5, <1>6, <1>8, <1>10, <1>11, <1>12, <1>13 DEF StoredAs
<1> QED BY <1>10, <1>14

\* An answer goes back, and a client that wants its hash uses the tunnel.
LEMMA ResultTable ==
    ASSUME TableInv, RouteInv, NEW i \in net, HandleTunnelResult(i)
    PROVE  TableInv'
<1> DEFINE n == i.to
<1>0. PICK m, H : /\ m = origin[n][i.req]
                  /\ H = IF m = n THEN WantedBy(n, i.req) ELSE {}
  OBVIOUS
<1>1. /\ i.type = "ok" /\ UNCHANGED <<origin, toRemove, digs, stale>>
  BY DEF HandleTunnelResult
<1>2. /\ i.from \in Node /\ n \in Friends[i.from] /\ i.req \in 1 .. digs
      /\ i.id \in Seq(Node) /\ i.id # <<>>
      /\ \A p \in Node : origin[p][i.req] = p => i.id[1] = p
  BY <1>1 DEF TableInv, Sent, Kinds
<1>3. n \in Node /\ i.from \in Friends[n] /\ i.from # n
  BY <1>2, GraphAssumption
<1>4. digs \in Nat /\ MaxDigs \in Nat /\ digs \in 0 .. MaxDigs
  BY HashAssumption DEF TableInv, Entries
<1>5. i.req \in Request
  BY <1>2, <1>4 DEF Request
<1>6. \A j \in net : Sent(j)'
  BY <1>1 DEF TableInv, Sent
<1>7. CASE m = None \/ i.id \in responses[n][i.req]
  <2>1. net' = net \ {i} /\ UNCHANGED <<responses, table, hashes>>
    BY <1>0, <1>7 DEF HandleTunnelResult
  <2>2. Entries' /\ Wanted'
    BY <1>1, <2>1 DEF TableInv, Entries, Wanted
  <2>3. Tables' /\ Registered'
    BY <1>1, <2>1, FitStays, TablesKept
  <2> QED BY <1>6, <2>1, <2>2, <2>3 DEF TableInv
<1>8. CASE ~(m = None \/ i.id \in responses[n][i.req])
  <2> DEFINE begins == IF H # {} THEN {i.id} ELSE {}
             kept == {u \in tunnels[n] : u.id # i.id}
  <2>1. /\ responses' = [responses EXCEPT ![n][i.req] = responses[n][i.req] \cup {i.id}]
        /\ tunnels' = [tunnels EXCEPT ![n] = Stored(n, m, i, H)]
        /\ hashes' = [h \in Hash |-> IF h \in H
                        THEN [hashes[h] EXCEPT !.tunnels = hashes[h].tunnels \cup {i.id}]
                        ELSE hashes[h]]
        /\ vpeers' = [vpeers EXCEPT ![n] = vpeers[n] \cup begins]
        /\ sources' = [sources EXCEPT ![n] = sources[n] \cup begins]
        /\ net' = (net \ {i}) \cup Backwards(n, m, i.req, i.id)
        /\ UNCHANGED outgoing
    BY <1>0, <1>8 DEF HandleTunnelResult
  <2>2. m \in Near(n)
    BY <1>0, <1>3, <1>5, <1>8 DEF TableInv, Entries
  <2>3. m = n => i.id[1] = n
    BY <1>0, <1>2, <1>3
  <2>4. m # n /\ i.id[1] = n => \A r \in Request : origin[n][r] # n
    <3> SUFFICES ASSUME m # n, i.id[1] = n, NEW r \in Request, origin[n][r] = n PROVE FALSE
      OBVIOUS
    <3>1. CASE stale = 0
      <4>1. Simple(i.id) /\ Traced(i.id, i.req)
            /\ \E k \in 1 .. Len(i.id) - 1 : n = i.id[k]
        BY <1>1, <3>1 DEF RouteInv, Routed, GoodNet, Good, GoodOk
      <4>2. PICK k \in 1 .. Len(i.id) - 1 : n = i.id[k]
        BY <4>1
      <4>3. k = 1 /\ 1 \in 1 .. Len(i.id)
        BY <3>1, <4>1, <4>2, Positions
      <4>4. origin[i.id[1]][i.req] = Prior(i.id, 1)
        BY <4>1, <4>3 DEF Traced
      <4> QED BY <1>0, <4>4 DEF Prior
    <3>2. CASE stale # 0
      <4>1. digs = 1
        BY <3>2, HashAssumption DEF TableInv, Entries
      <4>2. r <= digs
        BY <1>3, <1>4, NodeAssumption DEF TableInv, Entries, Request
      <4>3. r = i.req
        BY <1>2, <4>1, <4>2 DEF Request
      <4> QED BY <1>0, <4>3
    <3> QED BY <3>1, <3>2
  <2>5. /\ H \subseteq Hash
        /\ \A h \in H : Client[h] = n /\ hashes[h] # Unmonitored /\ H = {h} /\ m = n
    BY <1>0, <1>3, OneHash
  <2>6. PICK new \in Tunnel :
           /\ Stored(n, m, i, H) = kept \cup {new}
           /\ Fit(n, new) /\ new.id = i.id
           /\ \A u \in tunnels[n] : u.id = i.id => new.src = u.src /\ new.dst = u.dst
           /\ (\A u \in tunnels[n] : u.id # i.id) => new.src = m
           /\ \A h \in H : new.hash = h
           /\ H = {} => \A u \in tunnels[n] : u.id = i.id => new = u
    <3>1. Passing(n, m, i, H)
      BY <1>2, <1>3, <2>2, <2>3, <2>4, <2>5 DEF Passing
    <3>2. \E new \in Tunnel : StoredAs(n, m, i, H, new)
      BY <1>3, <3>1, StoredTable
    <3> QED BY <3>2 DEF StoredAs
  <2>7. H # {} => new.src = n
    <3> SUFFICES ASSUME H # {} PROVE new.src = n
      OBVIOUS
    <3>1. m = n /\ i.id[1] = n /\ origin[n][i.req] = n
      BY <1>0, <2>3, <2>5
    <3>2. \A u \in tunnels[n] : u.id = i.id => u.src = n
      BY <1>3, <1>5, <3>1 DEF TableInv, Tables, Fit
    <3> QED BY <2>6, <3>1, <3>2
  <2>8. \A p \in Node : tunnels'[p] = IF p = n THEN kept \cup {new} ELSE tunnels[p]
    BY <2>1, <2>6 DEF TableInv, Tables
  <2>9. \A p \in Node : vpeers'[p] = IF p = n THEN vpeers[n] \cup begins ELSE vpeers[p]
    BY <2>1 DEF TableInv, Tables
  <2>10. \A h \in Hash :
            /\ hashes'[h] = IF h \in H
                 THEN [hashes[h] EXCEPT !.tunnels = hashes[h].tunnels \cup {i.id}]
                 ELSE hashes[h]
            /\ hashes'[h].tunnels = IF h \in H THEN hashes[h].tunnels \cup {i.id}
                                    ELSE hashes[h].tunnels
            /\ hashes'[h].last = hashes[h].last
            /\ hashes[h] # Unmonitored => hashes'[h] # Unmonitored
    BY <2>1 DEF TableInv, Wanted, Unmonitored
  <2>11. Entries'
    <3>1. responses' \in [Node -> [Request -> SUBSET Seq(Node)]]
      <4>1. responses[n][i.req] \cup {i.id} \in SUBSET Seq(Node)
        BY <1>2, <1>3, <1>5 DEF TableInv, Entries
      <4> QED BY <1>3, <1>5, <2>1, <4>1 DEF TableInv, Entries
    <3> QED BY <1>1, <3>1 DEF TableInv, Entries
  <2>12. \A j \in net' : Sent(j)'
    <3>1. m # n => Sent(Ok(n, m, i.req, i.id))'
      <4>1. m # n => m \in Friends[n]
        BY <2>2 DEF Near
      <4> HIDE DEF n
      <4> QED BY <1>1, <1>2, <1>3, <4>1 DEF Sent, Ok
    <3> QED BY <1>6, <2>1, <3>1 DEF Backwards
  <2>13. Wanted'
    <3>1. \A h \in Hash : hashes'[h] \in [tunnels : SUBSET Seq(Node), last : {-1} \cup Nat]
      <4> SUFFICES ASSUME NEW h \in Hash
                   PROVE  hashes'[h] \in [tunnels : SUBSET Seq(Node), last : {-1} \cup Nat]
        OBVIOUS
      <4>1. /\ hashes[h] \in [tunnels : SUBSET Seq(Node), last : {-1} \cup Nat]
            /\ hashes[h].tunnels \cup {i.id} \in SUBSET Seq(Node)
        BY <1>2 DEF TableInv, Wanted
      <4>2. PICK T : T = hashes[h].tunnels \cup {i.id}
        OBVIOUS
      <4>3. hashes'[h] = hashes[h] \/ hashes'[h] = [hashes[h] EXCEPT !.tunnels = T]
        BY <2>10, <4>2
      <4> QED BY <4>1, <4>2, <4>3
    <3>2. \A h \in Hash : hashes'[h] = Unmonitored \/ hashes'[h].last \in 0 .. digs
      BY <2>5, <2>10 DEF TableInv, Wanted
    <3>3. hashes' = [h \in Hash |-> hashes'[h]]
      BY <2>1
    <3> QED BY <1>1, <3>1, <3>2, <3>3 DEF TableInv, Wanted
  <2>14. Tables'
    <3>1. tunnels' \in [Node -> SUBSET Tunnel]
      BY <2>1, <2>6 DEF TableInv, Tables
    <3>2. vpeers' \in [Node -> SUBSET Seq(Node)] /\ outgoing' \in [Node -> SUBSET Seq(Node)]
          /\ sources' = vpeers'
      BY <1>2, <2>1 DEF TableInv, Tables
    <3>3. \A p \in Node : \A u \in tunnels[p] : Fit(p, u)'
      BY <1>1, FitStays
    <3>4. Fit(n, new)'
      BY <1>1, <2>6 DEF Fit
    <3>5. \A p \in Node : \A u \in tunnels'[p] : Fit(p, u)'
      BY <2>8, <3>3, <3>4
    <3>6. ASSUME NEW p \in Node, NEW u \in tunnels'[p], NEW v \in tunnels'[p], u.id = v.id
          PROVE  u = v
      <4>1. CASE p = n
        <5>1. \A a, b \in tunnels[n] : a.id = b.id => a = b
          BY <1>3 DEF TableInv, Tables
        <5>2. u \in kept \cup {new} /\ v \in kept \cup {new}
          BY <1>3, <2>8, <4>1
        <5> QED BY <2>6, <3>6, <5>1, <5>2
      <4>2. CASE p # n
        BY <2>8, <3>6, <4>2 DEF TableInv, Tables
      <4> QED BY <4>1, <4>2
    <3> QED BY <3>1, <3>2, <3>5, <3>6 DEF Tables
  <2>15. \A p \in Node : \A u : Beginning(p, u) => Beginning(p, u)'
    BY <2>10 DEF Beginning
  <2>16. \A p \in Node : \A u : Ending(p, u) => Ending(p, u)'
    BY <2>1 DEF Ending
  <2>17. H # {} => Beginning(n, new)'
    BY <2>5, <2>6, <2>7, <2>10 DEF Beginning
  <2>18. ASSUME NEW p \in Node, NEW s \in vpeers'[p]
         PROVE  \E u \in tunnels'[p] : u.id = s /\ (Beginning(p, u)' \/ Ending(p, u)')
    <3>1. CASE p = n /\ s = i.id /\ H # {}
      BY <2>6, <2>8, <2>17, <3>1
    <3>2. CASE ~(p = n /\ s = i.id /\ H # {})
      <4>1. s \in vpeers[p]
        BY <2>9, <2>18, <3>2
      <4>2. PICK u \in tunnels[p] : u.id = s /\ (Beginning(p, u) \/ Ending(p, u))
        BY <4>1 DEF TableInv, Registered
      <4>3. u \in tunnels'[p]
        BY <2>6, <2>8, <3>2, <4>2
      <4> QED BY <2>15, <2>16, <4>2, <4>3
    <3> QED BY <3>1, <3>2
  <2>19. ASSUME NEW g \in Hash, NEW s \in hashes'[g].tunnels
         PROVE  /\ s \in vpeers'[Client[g]]
                /\ \E u \in tunnels'[Client[g]] : u.id = s /\ u.src = Client[g] /\ u.hash = g
    <3>1. CASE g \in H /\ s = i.id
      <4>1. Client[g] = n /\ s \in vpeers'[n]
        BY <1>3, <2>5, <2>9, <3>1
      <4>2. new \in tunnels'[n] /\ new.id = s /\ new.src = n /\ new.hash = g
        BY <1>3, <2>6, <2>7, <2>8, <3>1
      <4> QED BY <4>1, <4>2
    <3>2. CASE ~(g \in H /\ s = i.id)
      <4>1. s \in hashes[g].tunnels /\ Client[g] \in Node
        BY <2>10, <2>19, <3>2, HashAssumption
      <4>2. s \in vpeers[Client[g]]
        BY <4>1 DEF TableInv, Registered
      <4>3. PICK u \in tunnels[Client[g]] : u.id = s /\ u.src = Client[g] /\ u.hash = g
        BY <4>1 DEF TableInv, Registered
      <4>4. Client[g] = n /\ s = i.id => H = {}
        BY <2>5, <3>2, HashAssumption
      <4>5. u \in tunnels'[Client[g]]
        BY <2>6, <2>8, <4>1, <4>3, <4>4
      <4> QED BY <2>9, <4>1, <4>2, <4>3, <4>5
    <3> QED BY <3>1, <3>2
  <2> QED BY <2>11, <2>12, <2>13, <2>14, <2>18, <2>19 DEF TableInv, Registered
<1> QED BY <1>7, <1>8

\* Tunnels that differ in their stamp only.
Alike(u, v) == v \in Tunnel /\ u.id = v.id /\ u.src = v.src /\ u.dst = v.dst /\ u.hash = v.hash

\* Stamps leave the tables in agreement.
LEMMA StampTable ==
    ASSUME TableInv, NEW n \in Node, NEW T, tunnels' = [tunnels EXCEPT ![n] = T],
           UNCHANGED <<origin, vpeers, outgoing, sources, hashes>>,
           \A v \in T : \E u \in tunnels[n] : Alike(u, v),
           \A u \in tunnels[n] : \E v \in T : Alike(u, v),
           \A v, w \in T : v.id = w.id => v = w
    PROVE  Tables' /\ Registered'
<1>1. \A p \in Node : tunnels'[p] = IF p = n THEN T ELSE tunnels[p]
  BY DEF TableInv, Tables
<1>2. T \subseteq Tunnel
  BY DEF Alike
<1>3. Tables'
  <2>1. tunnels' \in [Node -> SUBSET Tunnel]
    BY <1>2 DEF TableInv, Tables
  <2>2. \A p \in Node : \A u \in tunnels[p] : Fit(p, u)'
    BY FitStays
  <2>3. \A v \in T : Fit(n, v)'
    BY <2>2 DEF Fit, Alike
  <2>4. \A p \in Node : \A u \in tunnels'[p] : Fit(p, u)'
    BY <1>1, <2>2, <2>3
  <2>5. \A p \in Node : \A u, v \in tunnels'[p] : u.id = v.id => u = v
    BY <1>1 DEF TableInv, Tables
  <2> QED BY <2>1, <2>4, <2>5 DEF TableInv, Tables
<1>4. ASSUME NEW p \in Node, NEW u \in tunnels[p]
      PROVE  \E v \in tunnels'[p] : Alike(u, v)
  <2>1. CASE p = n
    BY <1>1, <2>1
  <2>2. CASE p # n
    BY <1>1, <2>2 DEF Alike, TableInv, Tables
  <2> QED BY <2>1, <2>2
<1>5. ASSUME NEW p \in Node, NEW s \in vpeers[p]
      PROVE  \E v \in tunnels'[p] : v.id = s /\ (Beginning(p, v)' \/ Ending(p, v)')
  <2>1. PICK u \in tunnels[p] : u.id = s /\ (Beginning(p, u) \/ Ending(p, u))
    BY DEF TableInv, Registered
  <2>2. PICK v \in tunnels'[p] : Alike(u, v)
    BY <1>4
  <2>3. v.id = s /\ (Beginning(p, v)' \/ Ending(p, v)')
    BY <2>1, <2>2 DEF Alike, Beginning, Ending
  <2> QED BY <2>3
<1>6. ASSUME NEW g \in Hash, NEW s \in hashes[g].tunnels
      PROVE  /\ s \in vpeers[Client[g]]
             /\ \E v \in tunnels'[Client[g]] : v.id = s /\ v.src = Client[g] /\ v.hash = g
  <2>1. s \in vpeers[Client[g]] /\ Client[g] \in Node
    BY HashAssumption DEF TableInv, Registered
  <2>2. PICK u \in tunnels[Client[g]] : u.id = s /\ u.src = Client[g] /\ u.hash = g
    BY DEF TableInv, Registered
  <2>3. PICK v \in tunnels'[Client[g]] : Alike(u, v)
    BY <1>4, <2>1
  <2> QED BY <2>1, <2>2, <2>3 DEF Alike
<1> QED BY <1>3, <1>5, <1>6 DEF Registered

\* A stamp on one tunnel.
LEMMA StampedTable ==
    ASSUME TableInv, NEW n \in Node, NEW u \in tunnels[n], NEW kind, Stamped(n, u, kind),
           UNCHANGED <<origin, vpeers, outgoing, sources, hashes>>
    PROVE  Tables' /\ Registered'
<1>1. PICK b \in BOOLEAN : b = (u.used \/ Stamps(kind))
  BY DEF Stamps
<1> DEFINE v == [u EXCEPT !.used = b]
           T == (tunnels[n] \ {u}) \cup {v}
<1>2. tunnels' = [tunnels EXCEPT ![n] = T]
  BY <1>1 DEF Stamped
<1>3. \A w \in tunnels[n] : w \in Tunnel /\ Alike(w, w)
  BY DEF TableInv, Tables, Alike
<1>4. Alike(u, v)
  BY <1>3 DEF Alike, Tunnel
<1> HIDE DEF v
<1>5. \A x, y \in tunnels[n] : x.id = y.id => x = y
  BY DEF TableInv, Tables
<1>6. \A x \in T : \E w \in tunnels[n] : Alike(w, x)
  BY <1>3, <1>4
<1>7. \A w \in tunnels[n] : \E x \in T : Alike(w, x)
  BY <1>3, <1>4
<1>8. \A x, y \in T : x.id = y.id => x = y
  BY <1>4, <1>5 DEF Alike
<1> HIDE DEF T
<1> QED BY <1>2, <1>6, <1>7, <1>8, StampTable

\* The peers of a tunnel that are not the node itself are friends.
LEMMA PeersAreFriends ==
    ASSUME TableInv, NEW n \in Node, NEW t, Held(n, t)
    PROVE  /\ TunnelAt(n, t) \in tunnels[n] /\ TunnelAt(n, t).id = t /\ t \in Seq(Node)
           /\ TunnelAt(n, t).src # n => TunnelAt(n, t).src \in Friends[n]
           /\ TunnelAt(n, t).dst # n => TunnelAt(n, t).dst \in Friends[n]
           /\ TunnelAt(n, t).dst = n => TunnelAt(n, t).src # n
<1>1. TunnelAt(n, t) \in tunnels[n] /\ TunnelAt(n, t).id = t
  BY DEF Held, TunnelAt
<1>2. Fit(n, TunnelAt(n, t))
  BY <1>1 DEF TableInv, Tables
<1> QED BY <1>1, <1>2 DEF Fit, Near, Tunnel

\* An end sends into its tunnel, or a node passes an item on.
LEMMA TrafficTable ==
    ASSUME TableInv,
           \/ \E n \in Node : \E t \in vpeers[n] : SendTurtleData(n, t)
           \/ \E i \in net : RouteGenericTunnelItem(i)
    PROVE  TableInv'
<1>1. UNCHANGED <<origin, responses, vpeers, outgoing, sources, hashes, toRemove, digs, stale>>
  BY DEF SendTurtleData, RouteGenericTunnelItem, cache, client
<1>2. Entries' /\ Wanted' /\ \A i \in net : Sent(i)'
  BY <1>1 DEF TableInv, Entries, Wanted, Sent
<1>3. ASSUME NEW n \in Node, NEW m \in Friends[n], NEW t \in Seq(Node), NEW kind \in Kinds, NEW by
      PROVE  Sent(Item(n, m, t, kind, by))'
  BY DEF Sent, Item, Kinds
<1>4. ASSUME NEW n \in Node, NEW t \in vpeers[n], SendTurtleData(n, t)
      PROVE  TableInv'
  <2> DEFINE u == TunnelAt(n, t)
  <2>1. /\ u \in tunnels[n] /\ u.id = t /\ t \in Seq(Node)
        /\ u.src # n => u.src \in Friends[n]
        /\ u.dst # n => u.dst \in Friends[n]
        /\ u.dst = n => u.src # n
    BY <1>4, PeersAreFriends DEF SendTurtleData
  <2>2. \/ /\ u.src = n /\ net' = net \cup {Item(n, u.dst, t, "request", n)}
           /\ Stamped(n, u, "request")
        \/ /\ u.src # n /\ net' = net \cup {Item(n, u.src, t, "data", n)}
           /\ Stamped(n, u, "data")
    BY <1>4 DEF SendTurtleData
  <2> HIDE DEF u
  <2>3. "request" \in Kinds /\ "data" \in Kinds
    BY DEF Kinds
  <2>4. \A i \in net' : Sent(i)'
    BY <1>2, <1>3, <2>1, <2>2, <2>3
  <2>5. Tables' /\ Registered'
    BY <1>1, <2>1, <2>2, StampedTable
  <2> QED BY <1>2, <2>4, <2>5 DEF TableInv
<1>5. ASSUME NEW i \in net, RouteGenericTunnelItem(i)
      PROVE  TableInv'
  <2> DEFINE n == i.to
             u == TunnelAt(n, i.id)
             m == NextHop(n, u, i.from)
  <2>1. n \in Node /\ i.type \in Kinds
    BY <1>5, GraphAssumption DEF RouteGenericTunnelItem, TableInv, Sent
  <2>2. CASE Held(n, i.id)
    <3>1. /\ u \in tunnels[n] /\ u.id = i.id /\ i.id \in Seq(Node)
          /\ u.src # n => u.src \in Friends[n]
          /\ u.dst # n => u.dst \in Friends[n]
      BY <2>1, <2>2, PeersAreFriends
    <3>2. /\ Stamped(n, u, i.type)
          /\ \/ net' = net \ {i}
             \/ m # n /\ net' = (net \ {i}) \cup {Item(n, m, i.id, i.type, i.by)}
      BY <1>5, <2>2 DEF RouteGenericTunnelItem
    <3>3. m \in {u.src, u.dst, n}
      BY DEF NextHop
    <3> HIDE DEF u, m, n
    <3>4. m # n => m \in Friends[n]
      BY <3>1, <3>3
    <3>5. \A j \in net' : Sent(j)'
      <4>1. PICK x : x = Item(n, m, i.id, i.type, i.by)
        OBVIOUS
      <4>2. m # n => Sent(x)'
        BY <2>1, <3>1, <3>4, <4>1 DEF Sent, Item, Kinds
      <4>3. net' \subseteq net \/ (m # n /\ net' \subseteq net \cup {x})
        BY <3>2, <4>1
      <4> QED BY <1>2, <4>2, <4>3
    <3>6. Tables' /\ Registered'
      BY <1>1, <2>1, <3>1, <3>2, StampedTable
    <3> QED BY <1>2, <3>5, <3>6 DEF TableInv
  <2>3. CASE ~Held(n, i.id)
    <3>1. net' = net \ {i} /\ UNCHANGED tunnels
      BY <1>5, <2>3 DEF RouteGenericTunnelItem
    <3>2. Tables' /\ Registered'
      <4>1. UNCHANGED table
        BY <1>1, <3>1 DEF table
      <4> QED BY <1>1, <4>1, FitStays, TablesKept
    <3> QED BY <1>2, <3>1, <3>2 DEF TableInv
  <2> QED BY <2>2, <2>3
<1> QED BY <1>4, <1>5

\* Time passes.
LEMMA IdleTable ==
    ASSUME TableInv, NEW n \in Node, Idle(n)
    PROVE  TableInv'
<1>1. UNCHANGED <<origin, responses, vpeers, outgoing, sources, hashes, toRemove, digs, stale, net>>
  BY DEF Idle, cache, client
<1>2. Entries' /\ Wanted' /\ \A i \in net' : Sent(i)'
  BY <1>1 DEF TableInv, Entries, Wanted, Sent
<1> DEFINE Unused(u) == [u EXCEPT !.used = FALSE]
           T == {Unused(u) : u \in tunnels[n]}
<1>3. tunnels' = [tunnels EXCEPT ![n] = T]
  BY DEF Idle
<1>4. \A u \in tunnels[n] : Alike(u, Unused(u))
  <2>1. \A u \in tunnels[n] : u \in Tunnel
    BY DEF TableInv, Tables
  <2> QED BY <2>1 DEF Alike, Tunnel
<1> HIDE DEF Unused
<1>5. \A v \in T : \E u \in tunnels[n] : v = Unused(u) /\ Alike(u, v)
  BY <1>4
<1>6. \A u \in tunnels[n] : \E v \in T : Alike(u, v)
  BY <1>4
<1>7. ASSUME NEW v \in T, NEW w \in T, v.id = w.id PROVE v = w
  <2>1. PICK x \in tunnels[n] : v = Unused(x) /\ Alike(x, v)
    BY <1>5
  <2>2. PICK y \in tunnels[n] : w = Unused(y) /\ Alike(y, w)
    BY <1>5
  <2>3. x = y
    BY <1>7, <2>1, <2>2 DEF Alike, TableInv, Tables
  <2> QED BY <2>1, <2>2, <2>3
<1> HIDE DEF T
<1>8. Tables' /\ Registered'
  BY <1>1, <1>3, <1>5, <1>6, <1>7, StampTable
<1> QED BY <1>2, <1>8 DEF TableInv

\* Tunnels U of node n are closed, and taken out of the list of their hash.
LEMMA CloseTable ==
    ASSUME TableInv, NEW n \in Node, NEW U \in SUBSET tunnels[n], Close(n, U), UNCHANGED origin,
           \A g \in Hash : hashes'[g].tunnels \subseteq hashes[g].tunnels,
           \A p \in Node : \A u \in tunnels[p] :
              Beginning(p, u) /\ ~(p = n /\ u \in U) => Beginning(p, u)',
           \A g \in Hash : \A u \in U :
              Client[g] = n /\ u.src = n /\ u.hash = g => u.id \notin hashes'[g].tunnels
    PROVE  Tables' /\ Registered'
<1> DEFINE begin == {u.id : u \in {v \in U : Begins(n, v)}}
           end   == {u.id : u \in {v \in U : Ends(n, v)}}
           told  == {u.id : u \in {v \in U : /\ Begins(n, v) /\ v.hash # None
                                             /\ hashes[v.hash] # Unmonitored}}
<1>1. /\ tunnels' = [tunnels EXCEPT ![n] = tunnels[n] \ U]
      /\ vpeers' = [vpeers EXCEPT ![n] = vpeers[n] \ (begin \cup end)]
      /\ outgoing' = [outgoing EXCEPT ![n] = outgoing[n] \ end]
      /\ sources' = [sources EXCEPT ![n] = sources[n] \ (told \cup end)]
  BY DEF Close
<1>2. \A u, v \in tunnels[n] : u.id = v.id => u = v
  BY DEF TableInv, Tables
<1>3. \A u \in tunnels[n] : u.id \in begin => u \in U /\ Begins(n, u)
  BY <1>2
<1>4. \A u \in tunnels[n] : u.id \in end => u \in U /\ Ends(n, u)
  BY <1>2
<1>5. \A u \in U : /\ Begins(n, u) => u.id \in begin
                   /\ Ends(n, u) => u.id \in end
                   /\ Begins(n, u) /\ u.hash # None /\ hashes[u.hash] # Unmonitored => u.id \in told
  OBVIOUS
<1>6. told \subseteq begin
  OBVIOUS
<1> HIDE DEF begin, end, told
<1>7. \A s \in vpeers[n] : \E u \in tunnels[n] : u.id = s /\ (Beginning(n, u) \/ Ending(n, u))
  BY DEF TableInv, Registered
\* What begins here and could be sent to had been told.
<1>8. vpeers[n] \ (begin \cup end) = vpeers[n] \ (told \cup end)
  <2> SUFFICES ASSUME NEW s \in vpeers[n], s \in begin, s \notin told PROVE FALSE
    BY <1>6
  <2>1. PICK u \in tunnels[n] : u.id = s /\ (Beginning(n, u) \/ Ending(n, u))
    BY <1>7
  <2>2. u \in U /\ Begins(n, u)
    BY <1>3, <2>1
  <2>3. u.src = n
    BY <2>2 DEF Begins
  <2>4. u.hash \in Hash /\ hashes[u.hash] # Unmonitored
    BY <2>1, <2>3 DEF Beginning, Ending
  <2> QED BY <1>5, <2>1, <2>2, <2>4, NodeAssumption
<1>9. \A p \in Node : /\ tunnels'[p] = IF p = n THEN tunnels[n] \ U ELSE tunnels[p]
                      /\ vpeers'[p] = IF p = n THEN vpeers[n] \ (begin \cup end) ELSE vpeers[p]
                      /\ outgoing'[p] = IF p = n THEN outgoing[n] \ end ELSE outgoing[p]
  BY <1>1 DEF TableInv, Tables
<1>10. Tables'
  <2>1. /\ tunnels' \in [Node -> SUBSET Tunnel] /\ vpeers' \in [Node -> SUBSET Seq(Node)]
        /\ outgoing' \in [Node -> SUBSET Seq(Node)]
    BY <1>1 DEF TableInv, Tables
  <2>2. sources' = vpeers'
    BY <1>1, <1>8 DEF TableInv, Tables
  <2>3. \A p \in Node : \A u \in tunnels'[p] : Fit(p, u)'
    BY <1>9, FitStays
  <2>4. \A p \in Node : \A u, v \in tunnels'[p] : u.id = v.id => u = v
    <3>1. \A p \in Node : tunnels'[p] \subseteq tunnels[p]
      BY <1>9
    <3> QED BY <3>1 DEF TableInv, Tables
  <2> QED BY <2>1, <2>2, <2>3, <2>4 DEF Tables
<1>11. ASSUME NEW p \in Node, NEW s \in vpeers'[p]
       PROVE  \E u \in tunnels'[p] : u.id = s /\ (Beginning(p, u)' \/ Ending(p, u)')
  <2>1. s \in vpeers[p]
    BY <1>9, <1>11
  <2>2. PICK u \in tunnels[p] : u.id = s /\ (Beginning(p, u) \/ Ending(p, u))
    BY <2>1 DEF TableInv, Registered
  <2>3. ~(p = n /\ u \in U)
    <3> SUFFICES ASSUME p = n, u \in U PROVE FALSE
      OBVIOUS
    <3>1. s \notin begin /\ s \notin end
      BY <1>9, <1>11
    <3>2. Begins(n, u) \/ Ends(n, u)
      BY <2>2 DEF Beginning, Ending, Begins, Ends
    <3> QED BY <1>5, <2>2, <3>1, <3>2
  <2>4. u \in tunnels'[p]
    BY <1>9, <2>3
  <2>5. Ending(p, u) => Ending(p, u)'
    <3>1. p = n => u.id \notin end
      BY <1>4, <2>3
    <3> QED BY <1>9, <3>1 DEF Ending
  <2> QED BY <2>2, <2>3, <2>4, <2>5
<1>12. ASSUME NEW g \in Hash, NEW s \in hashes'[g].tunnels
       PROVE  /\ s \in vpeers'[Client[g]]
              /\ \E u \in tunnels'[Client[g]] : u.id = s /\ u.src = Client[g] /\ u.hash = g
  <2>1. s \in hashes[g].tunnels /\ Client[g] \in Node
    BY HashAssumption
  <2>2. s \in vpeers[Client[g]]
    BY <2>1 DEF TableInv, Registered
  <2>3. PICK u \in tunnels[Client[g]] : u.id = s /\ u.src = Client[g] /\ u.hash = g
    BY <2>1 DEF TableInv, Registered
  <2>4. ~(Client[g] = n /\ u \in U)
    BY <2>3, <1>12
  <2>5. u \in tunnels'[Client[g]]
    BY <1>9, <2>1, <2>4
  <2>6. s \in vpeers'[Client[g]]
    BY <1>3, <1>4, <1>9, <2>1, <2>2, <2>3, <2>4
  <2> QED BY <2>3, <2>5, <2>6
<1> QED BY <1>10, <1>11, <1>12 DEF Registered

\* A hash goes with all tunnels that begin for it.
LEMMA RemoveTable ==
    ASSUME TableInv, NEW h \in Hash, RemoveHash(h)
    PROVE  TableInv'
<1> DEFINE n == Client[h]
           U == {u \in tunnels[n] : u.id \in hashes[h].tunnels}
<1>1. /\ UNCHANGED <<origin, responses, digs, net, stale>> /\ toRemove' \subseteq toRemove
      /\ hashes' = [hashes EXCEPT ![h] = Unmonitored] /\ n \in Node
  BY HashAssumption DEF RemoveHash, cache
<1>2. \A g \in Hash : hashes'[g] = IF g = h THEN Unmonitored ELSE hashes[g]
  BY <1>1 DEF TableInv, Wanted
<1>3. Unmonitored.tunnels = {}
      /\ Unmonitored \in [tunnels : SUBSET Seq(Node), last : {-1} \cup Nat]
  BY DEF Unmonitored
<1>4. Entries' /\ \A i \in net' : Sent(i)'
  BY <1>1 DEF TableInv, Entries, Sent
<1>5. Wanted'
  BY <1>1, <1>3 DEF TableInv, Wanted
<1>6. CASE hashes[h] = Unmonitored
  <2>1. UNCHANGED table
    BY <1>6 DEF RemoveHash
  <2>2. \A g \in Hash : hashes'[g] = hashes[g]
    BY <1>2, <1>6
  <2>3. Tables' /\ Registered'
    BY <1>1, <2>1, <2>2, FitStays, TablesKept
  <2> QED BY <1>4, <1>5, <2>3 DEF TableInv
<1>7. CASE hashes[h] # Unmonitored
  <2>1. Close(n, U) /\ U \in SUBSET tunnels[n]
    BY <1>7 DEF RemoveHash
  <2>2. \A p \in Node : \A u \in tunnels[p] :
           Beginning(p, u) /\ ~(p = n /\ u \in U) => Beginning(p, u)'
    <3> SUFFICES ASSUME NEW p \in Node, NEW u \in tunnels[p], Beginning(p, u),
                        ~(p = n /\ u \in U)
                 PROVE  Beginning(p, u)'
      OBVIOUS
    <3>1. u.hash # h
      BY DEF Beginning
    <3> QED BY <1>2, <3>1 DEF Beginning
  <2>3. \A g \in Hash : hashes'[g].tunnels \subseteq hashes[g].tunnels
    BY <1>2, <1>3
  <2>4. \A g \in Hash : \A u \in U :
           Client[g] = n /\ u.src = n /\ u.hash = g => u.id \notin hashes'[g].tunnels
    <3>1. \A g \in Hash : Client[g] = n => g = h
      BY HashAssumption
    <3> QED BY <1>2, <1>3, <3>1
  <2> HIDE DEF U, n
  <2>5. Tables' /\ Registered'
    BY <1>1, <2>1, <2>2, <2>3, <2>4, CloseTable
  <2> QED BY <1>4, <1>5, <2>5 DEF TableInv
<1> QED BY <1>6, <1>7

\* Idle tunnels go, and their client is not told of them any more.
LEMMA CloseTunnelsTable ==
    ASSUME TableInv, NEW n \in Node, CloseTunnels(n)
    PROVE  TableInv'
<1> DEFINE U == {u \in tunnels[n] : ~u.used}
           Gone(h) == {u.id : u \in {v \in U : Begins(n, v) /\ v.hash = h}}
<1>1. /\ UNCHANGED <<origin, responses, toRemove, digs, net, stale>>
      /\ Close(n, U) /\ U \in SUBSET tunnels[n]
      /\ hashes' = [h \in Hash |-> WithoutTunnels(hashes[h], Gone(h))]
  BY DEF CloseTunnels, cache
<1>2. \A h \in Hash : \A u \in tunnels[n] :
         u.id \in Gone(h) <=> u \in U /\ u.src = n /\ u.hash = h
  BY DEF TableInv, Tables, Begins
<1> HIDE DEF U, Gone
<1>3. \A h \in Hash :
         /\ hashes'[h] = [hashes[h] EXCEPT !.tunnels = hashes[h].tunnels \ Gone(h)]
         /\ hashes'[h].tunnels = hashes[h].tunnels \ Gone(h)
         /\ hashes'[h].last = hashes[h].last
         /\ hashes'[h] \in [tunnels : SUBSET Seq(Node), last : {-1} \cup Nat]
  BY <1>1 DEF WithoutTunnels, TableInv, Wanted
<1>4. \A h \in Hash : hashes[h] = Unmonitored => hashes'[h] = Unmonitored
  BY <1>3 DEF Unmonitored
<1>5. \A h \in Hash : hashes[h] # Unmonitored => hashes'[h] # Unmonitored
  <2>1. Unmonitored.last = -1
    BY DEF Unmonitored
  <2>2. digs \in Nat
    BY HashAssumption DEF TableInv, Entries
  <2>3. \A h \in Hash : hashes[h] # Unmonitored => hashes[h].last # -1
    BY <2>2 DEF TableInv, Wanted
  <2> QED BY <1>3, <2>1, <2>3
<1>6. Entries' /\ \A i \in net' : Sent(i)'
  BY <1>1 DEF TableInv, Entries, Sent
<1>7. Wanted'
  <2>1. hashes' = [h \in Hash |-> hashes'[h]]
    BY <1>1
  <2>2. \A h \in Hash : hashes'[h] = Unmonitored \/ hashes'[h].last \in 0 .. digs'
    BY <1>1, <1>3, <1>4 DEF TableInv, Wanted
  <2> QED BY <1>1, <1>3, <2>1, <2>2 DEF TableInv, Wanted
<1>8. \A g \in Hash : hashes'[g].tunnels \subseteq hashes[g].tunnels
  BY <1>3
<1>9. \A p \in Node : \A u \in tunnels[p] :
         Beginning(p, u) /\ ~(p = n /\ u \in U) => Beginning(p, u)'
  <2> SUFFICES ASSUME NEW p \in Node, NEW u \in tunnels[p], Beginning(p, u), ~(p = n /\ u \in U)
               PROVE  Beginning(p, u)'
    OBVIOUS
  <2>1. /\ u.src = p /\ u.hash \in Hash /\ Client[u.hash] = p
        /\ hashes[u.hash] # Unmonitored /\ u.id \in hashes[u.hash].tunnels
    BY DEF Beginning
  <2>2. u.id \notin Gone(u.hash)
    <3>1. CASE p = n
      BY <1>2, <2>1, <3>1
    <3>2. CASE p # n
      BY <1>1, <2>1, <3>2 DEF Gone, Begins, TableInv, Tables, Registered, Fit
    <3> QED BY <3>1, <3>2
  <2> QED BY <1>3, <1>5, <2>1, <2>2 DEF Beginning
<1>10. \A g \in Hash : \A u \in U :
          Client[g] = n /\ u.src = n /\ u.hash = g => u.id \notin hashes'[g].tunnels
  BY <1>1, <1>2, <1>3
<1>11. Tables' /\ Registered'
  BY <1>1, <1>8, <1>9, <1>10, CloseTable
<1> QED BY <1>6, <1>7, <1>11 DEF TableInv

\* Items are lost, and requests leave the caches early.
LEMMA LossTable ==
    ASSUME TableInv,
           \/ \E i \in net : Lose(i)
           \/ \E n \in Node : \E r \in Request : ExpireRequest(n, r)
           \/ UNCHANGED vars
    PROVE  TableInv'
<1>1. CASE (\E i \in net : Lose(i)) \/ UNCHANGED vars
  <2>1. UNCHANGED <<origin, responses, hashes, toRemove, digs, stale, table>> /\ net' \subseteq net
    BY <1>1 DEF Lose, vars, cache, client, table
  <2>2. Entries' /\ Wanted' /\ \A i \in net' : Sent(i)'
    BY <2>1 DEF TableInv, Entries, Wanted, Sent
  <2>3. Tables' /\ Registered'
    BY <2>1, FitStays, TablesKept
  <2> QED BY <2>2, <2>3 DEF TableInv
<1>2. ASSUME NEW n \in Node, NEW r \in Request, ExpireRequest(n, r)
      PROVE  TableInv'
  <2>1. /\ origin' = [origin EXCEPT ![n][r] = None]
        /\ responses' = [responses EXCEPT ![n][r] = {}]
        /\ digs = 1 /\ stale < MaxStale /\ stale' = stale + 1
        /\ UNCHANGED <<hashes, toRemove, digs, table, net>>
    BY <1>2 DEF ExpireRequest, client
  <2>2. \A p \in Node : \A q \in Request :
           origin'[p][q] = IF p = n /\ q = r THEN None ELSE origin[p][q]
    BY <2>1 DEF TableInv, Entries
  <2>3. \A p \in Node : \A q \in Request : origin'[p][q] = p => origin[p][q] = p
    BY <2>2, NodeAssumption
  <2>4. Entries'
    <3>1. origin' \in [Node -> [Request -> Node \cup {None}]]
          /\ responses' \in [Node -> [Request -> SUBSET Seq(Node)]]
      BY <2>1 DEF TableInv, Entries
    <3>2. stale' \in 0 .. MaxStale
      BY <2>1, HashAssumption DEF TableInv, Entries
    <3>3. \A p \in Node : \A q \in Request :
             origin'[p][q] \in Near(p) \cup {None} /\ (q > digs => origin'[p][q] = None)
      BY <2>2 DEF TableInv, Entries
    <3> QED BY <2>1, <3>1, <3>2, <3>3 DEF TableInv, Entries
  <2>5. Wanted'
    BY <2>1 DEF TableInv, Wanted
  <2>6. \A i \in net' : Sent(i)'
    <3>1. digs' \in Nat /\ digs <= digs'
      BY <2>1
    <3>2. \A p \in Node : \A q \in 1 .. digs : origin'[p][q] = p => origin[p][q] = p
      <4>1. \A q \in 1 .. digs : q \in Request
        BY <2>1, HashAssumption DEF TableInv, Entries, Request
      <4> QED BY <2>3, <4>1
    <3> QED BY <2>1, <3>1, <3>2, SentStays DEF TableInv
  <2>7. Tables' /\ Registered'
    BY <2>1, <2>3, FitStays, TablesKept
  <2> QED BY <2>4, <2>5, <2>6, <2>7 DEF TableInv
<1> QED BY <1>1, <1>2

\* Every step preserves types and agreement.
LEMMA NextTable == RouteInv /\ TableInv /\ [Next]_vars => RouteInv' /\ TableInv'
<1> SUFFICES ASSUME RouteInv, TableInv, [Next]_vars PROVE TableInv'
  BY NextRouted
<1> QED BY MonitorTable, DiggTable, RemoveTable, RequestTable, ResultTable, TrafficTable,
           IdleTable, CloseTunnelsTable, LossTable DEF Next

\* Every variable keeps its type, in every network of friends; items only ever go
\* from friend to friend.
THEOREM TurtleTypes == Spec => []TypeOK
<1>1. TableInv => TypeOK
  <2> SUFFICES ASSUME TableInv PROVE TypeOK
    OBVIOUS
  <2>1. \A i \in net : i.from \in Node /\ i.to \in Friends[i.from]
    BY DEF TableInv, Sent
  <2>2. \A h \in Hash : hashes[h] # Unmonitored => hashes[h].last \in 0 .. digs
    BY DEF TableInv, Wanted
  <2> QED BY <2>1, <2>2 DEF TableInv, Entries, Tables, Wanted, TypeOK
<1> QED BY <1>1, InitTable, InitRouted, NextTable, PTL DEF Spec

\* What a hash lists, what services were told about and what can be sent to is a
\* tunnel of that hash at this node, even when requests leave the caches too
\* early and tunnels run in loops (locked_closeTunnel(), handleTunnelResult()).
THEOREM TablesAgree == Spec => []EndsRegistered
<1>1. TableInv => EndsRegistered
  <2> SUFFICES ASSUME TableInv PROVE EndsRegistered
    OBVIOUS
  <2>1. \A h \in Hash : \A t \in hashes[h].tunnels : t \in vpeers[Client[h]]
    BY DEF TableInv, Registered
  <2>2. ASSUME NEW n \in Node, NEW t \in vpeers[n]
        PROVE  Held(n, t) /\ TunnelAt(n, t).hash # None
    <3>1. PICK u \in tunnels[n] : u.id = t /\ (Beginning(n, u) \/ Ending(n, u))
      BY DEF TableInv, Registered
    <3>2. Held(n, t) /\ TunnelAt(n, t) \in tunnels[n] /\ TunnelAt(n, t).id = t
      BY <3>1 DEF Held, TunnelAt
    <3>3. TunnelAt(n, t) = u
      BY <3>1, <3>2 DEF TableInv, Tables
    <3>4. u.hash \in Hash
      BY <3>1 DEF Beginning, Ending
    <3> QED BY <3>2, <3>3, <3>4, NodeAssumption
  <2>3. sources = vpeers
    BY DEF TableInv, Tables
  <2> QED BY <2>1, <2>2, <2>3 DEF EndsRegistered
<1> QED BY <1>1, InitTable, InitRouted, NextTable, PTL DEF Spec
-----------------------------------------------------------------------------
(* The router implements what VirtualPeers promises to services *)

\* Answers come from somebody who has the file, and go to a client of it.
Joined == \A i \in net : i.type = "ok" => Peers!Joins(i.id)

\* A service that takes requests was told of the tunnel.
Serving == \A n \in Node : \A t \in outgoing[n] : t \in vpeers[n] /\ t[1] # n /\ t[Len(t)] = n

\* In every tunnel there is at most one item on its way, or an answer owed.
OneItem == /\ \A i, j \in net : i.type \in Kinds /\ j.type \in Kinds /\ i.id = j.id => i = j
           /\ \A i \in net : i.type \in Kinds => i.id \notin asked

PeersInv == Joined /\ Serving /\ OneItem

\* The ends of a tunnel.
LEMMA JoinsEnds ==
    ASSUME NEW t \in Seq(Node), t # <<>>
    PROVE  /\ Head(t) = t[1] /\ Peers!Last(t) = t[Len(t)]
           /\ Peers!Joins(t) <=> \E h \in Hash : t[1] = Client[h] /\ t[Len(t)] \in Provider[h]
<1>1. Head(t) = t[1] /\ Peers!Last(t) = t[Len(t)]
  BY DEF Peers!Last
<1> QED BY <1>1 DEF Peers!Joins

\* A request that a provider answers: its tunnel joins the two.
LEMMA AnswerJoins ==
    ASSUME TableInv, NEW i \in net, HandleTunnelRequest(i), i.to \in Provider[i.hash]
    PROVE  LET t == Append(i.route, i.to)
           IN  /\ Peers!Joins(t) /\ t \in Seq(Node) /\ t # <<>> /\ i.to \in Node
               /\ t[1] # i.to /\ t[Len(t)] = i.to
<1> DEFINE n == i.to
           t == Append(i.route, n)
<1>1. /\ i.from \in Node /\ n \in Friends[i.from] /\ i.hash \in Hash
      /\ i.route \in Seq(Node) /\ i.route # <<>> /\ i.route[1] = Client[i.hash]
  BY DEF HandleTunnelRequest, TableInv, Sent, Kinds
<1>2. n \in Node
  BY <1>1, GraphAssumption
<1>3. t \in Seq(Node) /\ t # <<>> /\ t[1] = i.route[1] /\ t[Len(t)] = n
  BY <1>1, <1>2
<1> HIDE DEF t
<1>4. Peers!Joins(t)
  BY <1>1, <1>3, JoinsEnds
<1>5. t[1] # n
  BY <1>1, <1>3, HashAssumption
<1> QED BY <1>2, <1>3, <1>4, <1>5 DEF t

\* An answer that ends at node n: n is where its request began.
LEMMA ResultEnds ==
    ASSUME TableInv, NEW i \in net, HandleTunnelResult(i)
    PROVE  /\ i.type = "ok" /\ i.id \in Seq(Node) /\ i.id # <<>>
           /\ i.to \in Node /\ i.req \in Request
           /\ origin[i.to][i.req] = i.to => i.id[1] = i.to
<1>1. /\ i.type = "ok" /\ i.from \in Node /\ i.to \in Friends[i.from] /\ i.req \in 1 .. digs
      /\ i.id \in Seq(Node) /\ i.id # <<>>
      /\ \A n \in Node : origin[n][i.req] = n => i.id[1] = n
  BY DEF HandleTunnelResult, TableInv, Sent, Kinds
<1>2. i.to \in Node
  BY <1>1, GraphAssumption
<1>3. i.req \in Request
  BY <1>1, HashAssumption DEF TableInv, Entries, Request
<1> QED BY <1>1, <1>2, <1>3

\* Every step that is not traffic leaves the items of tunnels alone.
LEMMA NoTraffic ==
    ASSUME \/ \E h \in Hash : \/ MonitorTunnels(h) \/ StopMonitoringTunnels(h)
                              \/ DiggTunnel(h) \/ RemoveHash(h)
           \/ \E i \in net : HandleTunnelRequest(i) \/ HandleTunnelResult(i)
           \/ \E n \in Node : \/ \E r \in Request : ExpireRequest(n, r)
                              \/ Idle(n) \/ CloseTunnels(n)
           \/ UNCHANGED vars
    PROVE  UNCHANGED asked /\ \A j : j.type \in Kinds => (j \in net' <=> j \in net)
<1>1. UNCHANGED asked
  BY DEF MonitorTunnels, StopMonitoringTunnels, DiggTunnel, RemoveHash, HandleTunnelRequest,
         HandleTunnelResult, ExpireRequest, Idle, CloseTunnels, service, vars
<1>2. CASE UNCHANGED net
  BY <1>1, <1>2
<1>3. ASSUME NEW n, NEW m, NEW r, NEW h, NEW s, NEW items \in Forwarded(n, m, r, h, s), NEW j \in items
      PROVE  j.type \notin Kinds
  BY <1>3 DEF Forwarded, Open, Kinds
<1>4. ASSUME NEW h \in Hash, DiggTunnel(h)
      PROVE  \A j : j.type \in Kinds => (j \in net' <=> j \in net)
  BY <1>3, <1>4 DEF DiggTunnel
<1>5. ASSUME NEW i \in net, HandleTunnelRequest(i)
      PROVE  \A j : j.type \in Kinds => (j \in net' <=> j \in net)
  <2>1. i.type \notin Kinds
    BY <1>5 DEF HandleTunnelRequest, Kinds
  <2>2. \/ net' = net \ {i}
        \/ \E items \in Forwarded(i.to, i.from, i.req, i.hash, i.route) : net' = (net \ {i}) \cup items
        \/ \E t : net' = (net \ {i}) \cup {Ok(i.to, i.from, i.req, t)}
    BY <1>5 DEF HandleTunnelRequest
  <2>3. \A t : Ok(i.to, i.from, i.req, t).type \notin Kinds
    BY DEF Ok, Kinds
  <2> QED BY <1>3, <2>1, <2>2, <2>3
<1>6. ASSUME NEW i \in net, HandleTunnelResult(i)
      PROVE  \A j : j.type \in Kinds => (j \in net' <=> j \in net)
  <2>1. i.type \notin Kinds
    BY <1>6 DEF HandleTunnelResult, Kinds
  <2>2. \/ net' = net \ {i}
        \/ \E m : net' = (net \ {i}) \cup {Ok(i.to, m, i.req, i.id)}
    BY <1>6 DEF HandleTunnelResult, Backwards
  <2>3. \A m : Ok(i.to, m, i.req, i.id).type \notin Kinds
    BY DEF Ok, Kinds
  <2> QED BY <2>1, <2>2, <2>3
<1>7. CASE \/ \E h \in Hash : MonitorTunnels(h) \/ StopMonitoringTunnels(h) \/ RemoveHash(h)
           \/ \E n \in Node : \/ \E r \in Request : ExpireRequest(n, r)
                              \/ Idle(n) \/ CloseTunnels(n)
           \/ UNCHANGED vars
  <2>1. UNCHANGED net
    BY <1>7 DEF MonitorTunnels, StopMonitoringTunnels, RemoveHash, ExpireRequest, Idle,
       CloseTunnels, client, vars
  <2> QED BY <1>2, <2>1
<1> QED BY <1>1, <1>4, <1>5, <1>6, <1>7

\* Traffic replaces the item of a tunnel by its next one, or takes it away.
Moved(i, j) == j.type = i.type /\ j.id = i.id

\* What a node does with an item: it goes on, is received as a request, or is gone.
LEMMA TrafficSteps ==
    ASSUME NEW i \in net, RouteGenericTunnelItem(i)
    PROVE  /\ i.type \in Kinds
           /\ UNCHANGED <<origin, responses, vpeers, outgoing, sources, hashes, toRemove, digs, stale>>
           /\ \/ \E j : Moved(i, j) /\ net' = (net \ {i}) \cup {j} /\ UNCHANGED asked
              \/ net' = net \ {i} /\ UNCHANGED asked
              \/ net' = net \ {i} /\ i.type = "request" /\ asked' = asked \cup {i.id}
<1>1. /\ i.type \in Kinds
      /\ UNCHANGED <<origin, responses, vpeers, outgoing, sources, hashes, toRemove, digs, stale>>
  BY DEF RouteGenericTunnelItem, cache, client
<1>2. PICK u, m : u = TunnelAt(i.to, i.id) /\ m = NextHop(i.to, u, i.from)
  OBVIOUS
<1>3. \/ net' = (net \ {i}) \cup {Item(i.to, m, i.id, i.type, i.by)} /\ UNCHANGED service
      \/ \E d : net' = net \ {i} /\ Receive(i.to, u, i, d)
      \/ net' = net \ {i} /\ UNCHANGED service
  BY <1>2 DEF RouteGenericTunnelItem
<1>4. Moved(i, Item(i.to, m, i.id, i.type, i.by))
  BY DEF Moved, Item
<1>5. ASSUME NEW d, Receive(i.to, u, i, d)
      PROVE  \/ UNCHANGED asked
             \/ i.type = "request" /\ asked' = asked \cup {i.id}
  BY <1>5 DEF Receive, service
<1> QED BY <1>1, <1>3, <1>4, <1>5 DEF service

\* Every step keeps the ends of tunnels right.
LEMMA NextJoined ==
    ASSUME TableInv, Joined, [Next]_vars
    PROVE  Joined'
<1>1. ASSUME NEW h \in Hash, DiggTunnel(h)
      PROVE  \A j \in net' : j.type = "ok" => j \in net
  BY <1>1 DEF DiggTunnel, Forwarded, Open
<1>2. ASSUME NEW i \in net, HandleTunnelRequest(i)
      PROVE  \A j \in net' : j.type = "ok" => j \in net \/ Peers!Joins(j.id)
  <2> DEFINE t == Append(i.route, i.to)
  <2>1. \/ net' = net \ {i}
        \/ \E items \in Forwarded(i.to, i.from, i.req, i.hash, i.route) : net' = (net \ {i}) \cup items
        \/ i.to \in Provider[i.hash] /\ net' = (net \ {i}) \cup {Ok(i.to, i.from, i.req, t)}
    BY <1>2 DEF HandleTunnelRequest
  <2>2. \A items \in Forwarded(i.to, i.from, i.req, i.hash, i.route) : \A j \in items : j.type # "ok"
    BY DEF Forwarded, Open
  <2>3. CASE i.to \in Provider[i.hash] /\ net' = (net \ {i}) \cup {Ok(i.to, i.from, i.req, t)}
    <3>1. Peers!Joins(t)
      BY <1>2, <2>3, AnswerJoins
    <3>2. Ok(i.to, i.from, i.req, t).id = t
      BY DEF Ok
    <3> HIDE DEF t
    <3> QED BY <2>3, <3>1, <3>2
  <2> QED BY <2>1, <2>2, <2>3
<1>3. ASSUME NEW i \in net, HandleTunnelResult(i)
      PROVE  \A j \in net' : j.type = "ok" => j \in net \/ (j.id = i.id /\ i.type = "ok")
  BY <1>3 DEF HandleTunnelResult, Backwards, Ok
<1>4. ASSUME NEW i \in net, RouteGenericTunnelItem(i)
      PROVE  \A j \in net' : j.type = "ok" => j \in net
  BY <1>4, TrafficSteps DEF Moved, Kinds
<1>5. ASSUME NEW n \in Node, NEW t, SendTurtleData(n, t)
      PROVE  \A j \in net' : j.type = "ok" => j \in net
  BY <1>5 DEF SendTurtleData, Item
<1>6. CASE \/ \E h \in Hash : MonitorTunnels(h) \/ StopMonitoringTunnels(h) \/ RemoveHash(h)
           \/ \E i \in net : Lose(i)
           \/ \E n \in Node : \/ \E r \in Request : ExpireRequest(n, r)
                              \/ Idle(n) \/ CloseTunnels(n)
           \/ UNCHANGED vars
  <2>1. net' \subseteq net
    BY <1>6 DEF MonitorTunnels, StopMonitoringTunnels, RemoveHash, Lose, ExpireRequest, Idle,
       CloseTunnels, client, vars
  <2> QED BY <2>1 DEF Joined, Peers!Joins, Peers!Last
\* Whether a tunnel joins two ends does not depend on the state.
<1> DEFINE J(t) == Peers!Joins(t)
<1>7. \A t : J(t)' <=> J(t)
  BY DEF Peers!Joins, Peers!Last
<1>8. ASSUME \A j \in net' : j.type = "ok" => J(j.id)
      PROVE  Joined'
  BY <1>7, <1>8 DEF Joined
<1>9. \A j \in net : j.type = "ok" => J(j.id)
  BY DEF Joined
<1> HIDE DEF J
<1>10. CASE \E i \in net : HandleTunnelResult(i)
  BY <1>3, <1>8, <1>9, <1>10
<1>11. CASE \E i \in net : HandleTunnelRequest(i)
  <2>1. \A t : Peers!Joins(t) => J(t)
    BY DEF J
  <2> QED BY <1>2, <1>8, <1>9, <1>11, <2>1
<1>12. CASE \/ \E h \in Hash : DiggTunnel(h)
            \/ \E i \in net : RouteGenericTunnelItem(i)
            \/ \E n \in Node : \E t \in vpeers[n] : SendTurtleData(n, t)
  BY <1>1, <1>4, <1>5, <1>8, <1>9, <1>12
<1> QED BY <1>6, <1>10, <1>11, <1>12 DEF Next

\* A tunnel that begins at a node is none that its services serve.
LEMMA CloseServing ==
    ASSUME TableInv, Serving, NEW n \in Node, NEW U \in SUBSET tunnels[n], Close(n, U)
    PROVE  Serving' /\ sources' = [sources EXCEPT ![n] = sources'[n]] /\ sources'[n] \subseteq sources[n]
<1> DEFINE begin == {u.id : u \in {v \in U : Begins(n, v)}}
           end   == {u.id : u \in {v \in U : Ends(n, v)}}
           told  == {u.id : u \in {v \in U : /\ Begins(n, v) /\ v.hash # None
                                             /\ hashes[v.hash] # Unmonitored}}
<1>1. /\ vpeers' = [vpeers EXCEPT ![n] = vpeers[n] \ (begin \cup end)]
      /\ outgoing' = [outgoing EXCEPT ![n] = outgoing[n] \ end]
      /\ sources' = [sources EXCEPT ![n] = sources[n] \ (told \cup end)]
  BY DEF Close
<1>2. \A t \in begin : t[1] = n
  BY DEF Begins, TableInv, Tables, Fit
<1> HIDE DEF begin, end, told
<1>3. \A m \in Node :
         /\ vpeers'[m] = IF m = n THEN vpeers[n] \ (begin \cup end) ELSE vpeers[m]
         /\ outgoing'[m] = IF m = n THEN outgoing[n] \ end ELSE outgoing[m]
  BY <1>1 DEF TableInv, Tables
<1>4. Serving'
  BY <1>2, <1>3 DEF Serving
<1>5. sources'[n] = sources[n] \ (told \cup end)
  BY <1>1 DEF TableInv, Tables
<1> QED BY <1>1, <1>4, <1>5

\* Every step keeps services and tables in agreement.
LEMMA NextServing ==
    ASSUME TableInv, Serving, [Next]_vars
    PROVE  Serving'
<1>1. CASE UNCHANGED <<vpeers, outgoing>>
  BY <1>1 DEF Serving
<1>2. ASSUME NEW i \in net, HandleTunnelRequest(i)
      PROVE  Serving'
  <2> DEFINE n == i.to
             t == Append(i.route, n)
  <2>1. CASE Bouncing(n, i.req)
    <3>1. UNCHANGED <<cache, table>>
      BY <1>2, <2>1 DEF HandleTunnelRequest
    <3> QED BY <1>1, <3>1 DEF table
  <2>2. CASE n \in Provider[i.hash] /\ EndTunnel(n, i.from, t, i.hash)
    <3>1. t \in Seq(Node) /\ n \in Node /\ t[1] # n /\ t[Len(t)] = n
      BY <1>2, <2>2, AnswerJoins
    <3> HIDE DEF t
    <3>2. \A p \in Node : /\ vpeers'[p] = IF p = n THEN vpeers[n] \cup {t} ELSE vpeers[p]
                          /\ outgoing'[p] = IF p = n THEN outgoing[n] \cup {t} ELSE outgoing[p]
      BY <2>2, <3>1 DEF EndTunnel, TableInv, Tables
    <3> QED BY <3>1, <3>2 DEF Serving
  <2>3. CASE UNCHANGED table
    BY <1>1, <2>3 DEF table
  <2> QED BY <1>2, <2>1, <2>2, <2>3 DEF HandleTunnelRequest
<1>3. ASSUME NEW i \in net, HandleTunnelResult(i)
      PROVE  Serving'
  <2>1. /\ UNCHANGED outgoing
        /\ UNCHANGED vpeers \/ \E T : vpeers' = [vpeers EXCEPT ![i.to] = vpeers[i.to] \cup T]
    BY <1>3 DEF HandleTunnelResult, table
  <2>2. i.to \in Node
    BY <1>3, ResultEnds
  <2>3. \A p \in Node : vpeers[p] \subseteq vpeers'[p]
    BY <2>1, <2>2 DEF TableInv, Tables
  <2> QED BY <2>1, <2>3 DEF Serving
<1>4. ASSUME NEW h \in Hash, RemoveHash(h)
      PROVE  Serving'
  <2>1. CASE hashes[h] = Unmonitored
    BY <1>1, <1>4, <2>1 DEF RemoveHash, table
  <2>2. CASE hashes[h] # Unmonitored
    <3>1. Client[h] \in Node
      BY HashAssumption
    <3> QED BY <1>4, <2>2, <3>1, CloseServing DEF RemoveHash
  <2> QED BY <2>1, <2>2
<1>5. ASSUME NEW n \in Node, CloseTunnels(n)
      PROVE  Serving'
  BY <1>5, CloseServing DEF CloseTunnels
<1>6. CASE \/ \E h \in Hash : MonitorTunnels(h) \/ StopMonitoringTunnels(h) \/ DiggTunnel(h)
           \/ \E i \in net : RouteGenericTunnelItem(i) \/ Lose(i)
           \/ \E n \in Node : \/ \E t \in vpeers[n] : SendTurtleData(n, t)
                              \/ \E r \in Request : ExpireRequest(n, r)
                              \/ Idle(n)
           \/ UNCHANGED vars
  <2>1. UNCHANGED <<vpeers, outgoing>>
    BY <1>6 DEF MonitorTunnels, StopMonitoringTunnels, DiggTunnel, RouteGenericTunnelItem, Lose,
       SendTurtleData, ExpireRequest, Idle, table, vars
  <2> QED BY <1>1, <2>1
<1> QED BY <1>2, <1>3, <1>4, <1>5, <1>6 DEF Next

\* What an end sends: the client a request, where all is quiet, and who has the file
\* an answer that it owes.
LEMMA SendSteps ==
    ASSUME NEW n \in Node, NEW t \in vpeers[n], SendTurtleData(n, t)
    PROVE  /\ UNCHANGED <<sources, stale>>
           /\ Held(n, t)
           /\ \/ /\ TunnelAt(n, t).src = n /\ Quiet(t) /\ UNCHANGED asked
                 /\ \E i : i.type = "request" /\ i.id = t /\ net' = net \cup {i}
              \/ /\ TunnelAt(n, t).src # n /\ TunnelAt(n, t).dst = n
                 /\ t \in asked /\ asked' = asked \ {t}
                 /\ \E i : i.type = "data" /\ i.id = t /\ net' = net \cup {i}
<1>1. /\ Item(n, TunnelAt(n, t).dst, t, "request", n).type = "request"
      /\ Item(n, TunnelAt(n, t).dst, t, "request", n).id = t
      /\ Item(n, TunnelAt(n, t).src, t, "data", n).type = "data"
      /\ Item(n, TunnelAt(n, t).src, t, "data", n).id = t
  BY DEF Item
<1> QED BY <1>1 DEF SendTurtleData

\* Every step keeps to one item for each tunnel.
LEMMA NextOneItem ==
    ASSUME OneItem, [Next]_vars
    PROVE  OneItem'
<1>1. CASE UNCHANGED asked /\ \A j : j.type \in Kinds => (j \in net' <=> j \in net)
  BY <1>1 DEF OneItem
<1>2. ASSUME NEW i \in net, RouteGenericTunnelItem(i)
      PROVE  OneItem'
  <2>1. i.type \in Kinds
    BY <1>2, TrafficSteps
  <2>2. CASE \E j : Moved(i, j) /\ net' = (net \ {i}) \cup {j} /\ UNCHANGED asked
    BY <2>1, <2>2 DEF OneItem, Moved
  <2>3. CASE net' = net \ {i} /\ (UNCHANGED asked \/ asked' = asked \cup {i.id})
    BY <2>1, <2>3 DEF OneItem
  <2> QED BY <1>2, <2>2, <2>3, TrafficSteps
<1>3. ASSUME NEW i \in net, Lose(i)
      PROVE  OneItem'
  BY <1>3 DEF Lose, OneItem, service
<1>4. ASSUME NEW n \in Node, NEW t \in vpeers[n], SendTurtleData(n, t)
      PROVE  OneItem'
  BY <1>4, SendSteps DEF OneItem, Quiet
<1> QED BY <1>1, <1>2, <1>3, <1>4, NoTraffic DEF Next

\* What is in the tunnels, when the items are the same.
LEMMA CarriedStays ==
    ASSUME \A j : j.type \in Kinds => (j \in net' <=> j \in net)
    PROVE  UNCHANGED <<Carried("request"), Carried("data")>>
  BY DEF Carried, Kinds

\* Services are told of an end of a tunnel.
LEMMA AddImplements ==
    ASSUME TableInv, NEW n \in Node, NEW t \in Seq(Node), t # <<>>, Peers!Joins(t),
           n = t[1] \/ n = t[Len(t)],
           sources' = [sources EXCEPT ![n] = sources[n] \cup {t}],
           UNCHANGED <<asked, Carried("request"), Carried("data")>>
    PROVE  Peers!Next
<1>1. t \in sources'[n]
  BY DEF TableInv, Tables
<1>2. Peers!AddVirtualPeer(n, t)
  BY JoinsEnds DEF Peers!AddVirtualPeer
<1> QED BY <1>1, <1>2 DEF Peers!Next

\* Services are told of ends that are gone.
LEMMA RemoveImplements ==
    ASSUME TableInv, NEW n \in Node, sources' = [sources EXCEPT ![n] = sources'[n]],
           sources'[n] \subseteq sources[n],
           UNCHANGED <<asked, Carried("request"), Carried("data")>>
    PROVE  Peers!Next
<1> DEFINE gone == sources[n] \ sources'[n]
<1>1. gone \in SUBSET sources[n] /\ sources[n] \ gone = sources'[n]
  OBVIOUS
<1> HIDE DEF gone
<1>2. Peers!RemoveVirtualPeers(n, gone)
  BY <1>1 DEF Peers!RemoveVirtualPeers
<1> QED BY <1>1, <1>2 DEF Peers!Next

\* A step that is not traffic tells a service, or nobody.
LEMMA TablesImplement ==
    ASSUME TableInv, Serving, Joined,
           \/ \E h \in Hash : \/ MonitorTunnels(h) \/ StopMonitoringTunnels(h)
                              \/ DiggTunnel(h) \/ RemoveHash(h)
           \/ \E i \in net : HandleTunnelRequest(i) \/ HandleTunnelResult(i)
           \/ \E n \in Node : \/ \E r \in Request : ExpireRequest(n, r)
                              \/ Idle(n) \/ CloseTunnels(n)
           \/ UNCHANGED vars
    PROVE  Peers!Next \/ UNCHANGED Peers!vars
<1>1. UNCHANGED <<asked, Carried("request"), Carried("data")>>
  BY NoTraffic, CarriedStays
<1>2. CASE UNCHANGED sources
  BY <1>1, <1>2 DEF Peers!vars
<1>3. ASSUME NEW i \in net, HandleTunnelRequest(i)
      PROVE  Peers!Next \/ UNCHANGED Peers!vars
  <2> DEFINE n == i.to
             t == Append(i.route, n)
  <2>1. CASE Bouncing(n, i.req)
    <3>1. UNCHANGED <<cache, table>>
      BY <1>3, <2>1 DEF HandleTunnelRequest
    <3> QED BY <1>2, <3>1 DEF table
  <2>2. CASE n \in Provider[i.hash] /\ EndTunnel(n, i.from, t, i.hash)
    <3>1. t \in Seq(Node) /\ t # <<>> /\ n \in Node /\ t[Len(t)] = n /\ Peers!Joins(t)
      BY <1>3, <2>2, AnswerJoins
    <3>2. sources' = [sources EXCEPT ![n] = sources[n] \cup {t}]
      BY <2>2 DEF EndTunnel
    <3> HIDE DEF t
    <3> QED BY <1>1, <3>1, <3>2, AddImplements
  <2>3. CASE UNCHANGED table
    BY <1>2, <2>3 DEF table
  <2> QED BY <1>3, <2>1, <2>2, <2>3 DEF HandleTunnelRequest
<1>4. ASSUME NEW i \in net, HandleTunnelResult(i)
      PROVE  Peers!Next \/ UNCHANGED Peers!vars
  <2>1. PICK H, begins : /\ H = IF origin[i.to][i.req] = i.to THEN WantedBy(i.to, i.req) ELSE {}
                         /\ begins = IF H # {} THEN {i.id} ELSE {}
    OBVIOUS
  <2>2. \/ UNCHANGED table
        \/ sources' = [sources EXCEPT ![i.to] = sources[i.to] \cup begins]
    BY <1>4, <2>1 DEF HandleTunnelResult
  <2>3. /\ i.type = "ok" /\ i.id \in Seq(Node) /\ i.id # <<>> /\ i.to \in Node
        /\ origin[i.to][i.req] = i.to => i.id[1] = i.to
    BY <1>4, ResultEnds
  <2>4. CASE UNCHANGED table
    BY <1>2, <2>4 DEF table
  <2>5. CASE H = {} /\ sources' = [sources EXCEPT ![i.to] = sources[i.to] \cup begins]
    <3>1. sources[i.to] \cup begins = sources[i.to]
      BY <2>1, <2>5
    <3>2. UNCHANGED sources
      BY <2>5, <3>1 DEF TableInv, Tables
    <3> QED BY <1>2, <3>2
  <2>6. CASE H # {} /\ sources' = [sources EXCEPT ![i.to] = sources[i.to] \cup begins]
    <3>1. begins = {i.id} /\ i.id[1] = i.to
      BY <2>1, <2>3, <2>6
    <3>2. Peers!Joins(i.id)
      BY <2>3 DEF Joined
    <3> QED BY <1>1, <2>3, <2>6, <3>1, <3>2, AddImplements
  <2> QED BY <2>2, <2>4, <2>5, <2>6
<1>5. ASSUME NEW n \in Node, NEW U \in SUBSET tunnels[n], Close(n, U)
      PROVE  Peers!Next
  BY <1>1, <1>5, CloseServing, RemoveImplements
<1>6. ASSUME NEW h \in Hash, RemoveHash(h)
      PROVE  Peers!Next \/ UNCHANGED Peers!vars
  <2>1. CASE hashes[h] = Unmonitored
    BY <1>2, <1>6, <2>1 DEF RemoveHash, table
  <2>2. CASE hashes[h] # Unmonitored
    <3>1. Client[h] \in Node
      BY HashAssumption
    <3> QED BY <1>5, <1>6, <2>2, <3>1 DEF RemoveHash
  <2> QED BY <2>1, <2>2
<1>7. ASSUME NEW n \in Node, CloseTunnels(n)
      PROVE  Peers!Next
  BY <1>5, <1>7 DEF CloseTunnels
<1>8. CASE \/ \E h \in Hash : MonitorTunnels(h) \/ StopMonitoringTunnels(h) \/ DiggTunnel(h)
           \/ \E n \in Node : (\E r \in Request : ExpireRequest(n, r)) \/ Idle(n)
           \/ UNCHANGED vars
  <2>1. UNCHANGED sources
    BY <1>8 DEF MonitorTunnels, StopMonitoringTunnels, DiggTunnel, ExpireRequest, Idle, table, vars
  <2> QED BY <1>2, <2>1
<1> QED BY <1>3, <1>4, <1>6, <1>7, <1>8

\* The tunnel of an end that sends: its beginning is the first node of the route.
LEMMA SendEnds ==
    ASSUME RouteInv, TableInv, Serving, stale = 0, NEW n \in Node, NEW t \in vpeers[n], Held(n, t)
    PROVE  /\ t \in Seq(Node) /\ t # <<>>
           /\ TunnelAt(n, t).src = n => n = t[1]
           /\ TunnelAt(n, t).src # n /\ TunnelAt(n, t).dst = n => n = t[Len(t)]
<1>1. /\ Simple(t) /\ Len(t) \in Nat /\ Len(t) >= 2
      /\ \E k \in 1 .. Len(t) : /\ t[k] = n
                                /\ TunnelAt(n, t).src = Prior(t, k)
                                /\ TunnelAt(n, t).dst = Behind(t, k)
  BY TunnelAtPlaced DEF RouteInv, Routed
<1>2. PICK k \in 1 .. Len(t) : /\ t[k] = n
                               /\ TunnelAt(n, t).src = Prior(t, k)
                               /\ TunnelAt(n, t).dst = Behind(t, k)
  BY <1>1
<1>3. \A a, b \in 1 .. Len(t) : t[a] = t[b] => a = b
  BY <1>1, Positions
<1>4. TunnelAt(n, t).src = n => k = 1
  BY <1>1, <1>2, <1>3 DEF Prior
<1>5. TunnelAt(n, t).dst = n => k = Len(t)
  BY <1>1, <1>2, <1>3 DEF Behind
<1>6. t \in Seq(Node) /\ t # <<>>
  BY <1>1 DEF Simple
<1> QED BY <1>2, <1>4, <1>5, <1>6

\* The ends ask and answer.
LEMMA SendImplements ==
    ASSUME RouteInv, TableInv, Serving, stale = 0,
           NEW n \in Node, NEW t \in vpeers[n], SendTurtleData(n, t)
    PROVE  Peers!Next
<1>1. UNCHANGED sources /\ Held(n, t) /\ t \in sources[n]
  BY SendSteps DEF TableInv, Tables
<1>2. /\ t \in Seq(Node) /\ t # <<>> /\ Head(t) = t[1] /\ Peers!Last(t) = t[Len(t)]
      /\ TunnelAt(n, t).src = n => n = t[1]
      /\ TunnelAt(n, t).src # n /\ TunnelAt(n, t).dst = n => n = t[Len(t)]
  BY <1>1, SendEnds, JoinsEnds
<1>3. CASE /\ TunnelAt(n, t).src = n /\ Quiet(t) /\ UNCHANGED asked
           /\ \E i : i.type = "request" /\ i.id = t /\ net' = net \cup {i}
  <2>1. /\ Carried("request")' = Carried("request") \cup {t}
        /\ Carried("data")' = Carried("data")
    BY <1>3 DEF Carried
  <2>2. t \notin Carried("request") \cup asked \cup Carried("data")
    BY <1>3 DEF Quiet, Carried, Kinds
  <2>3. Peers!Ask(t)
    BY <1>1, <1>2, <1>3, <2>1, <2>2 DEF Peers!Ask
  <2> QED BY <1>1, <2>3 DEF Peers!Next
<1>4. CASE /\ TunnelAt(n, t).src # n /\ TunnelAt(n, t).dst = n
           /\ t \in asked /\ asked' = asked \ {t}
           /\ \E i : i.type = "data" /\ i.id = t /\ net' = net \cup {i}
  <2>1. /\ Carried("data")' = Carried("data") \cup {t}
        /\ Carried("request")' = Carried("request")
    BY <1>4 DEF Carried
  <2>2. Peers!Answer(t)
    BY <1>1, <1>2, <1>4, <2>1 DEF Peers!Answer
  <2> QED BY <1>4, <2>2 DEF Peers!Next
<1> QED BY <1>3, <1>4, SendSteps

\* A request is received where the file is.
LEMMA ReceivedByProvider ==
    ASSUME RouteInv, TableInv, Serving, stale = 0,
           NEW i \in net, RouteGenericTunnelItem(i), i.type = "request", asked' # asked
    PROVE  i.id \in Seq(Node) /\ i.id # <<>> /\ i.id \in sources[i.id[Len(i.id)]]
<1> DEFINE u == TunnelAt(i.to, i.id)
<1>1. Held(i.to, i.id) /\ i.type \in Kinds /\ HasService(i.to, u)
  BY DEF RouteGenericTunnelItem, Receive, service
<1>2. /\ i.to \in Node /\ u \in tunnels[i.to] /\ Simple(i.id) /\ Len(i.id) \in Nat
      /\ \E k \in 1 .. Len(i.id) : Oncoming(i, u, k)
  BY <1>1, ItemsOncoming DEF RouteInv
<1>3. u.id = i.id
  BY <1>1 DEF Held, TunnelAt
<1> HIDE DEF u
<1>4. PICK k \in 1 .. Len(i.id) : Oncoming(i, u, k)
  BY <1>2
<1>5. k > 1 /\ i.id[k] = i.to /\ u.src = i.id[k - 1]
  BY <1>2, <1>4 DEF Oncoming, Prior
<1>6. u.src # i.to
  <2>1. k - 1 \in 1 .. Len(i.id) /\ k - 1 # k
    BY <1>2, <1>5
  <2> QED BY <1>2, <1>5, <2>1, Positions
<1>7. i.id \in outgoing[i.to]
  BY <1>1, <1>3, <1>6 DEF HasService
<1>8. i.id \in vpeers[i.to] /\ i.id[Len(i.id)] = i.to
  BY <1>2, <1>7 DEF Serving
<1>9. i.id \in Seq(Node) /\ i.id # <<>>
  BY <1>2, <1>4 DEF Simple
<1> QED BY <1>8, <1>9 DEF TableInv, Tables

\* Items go on unseen, are received, or are gone.
LEMMA RouteImplements ==
    ASSUME RouteInv, TableInv, PeersInv, stale = 0,
           NEW i \in net, RouteGenericTunnelItem(i) \/ Lose(i)
    PROVE  Peers!Next \/ UNCHANGED Peers!vars
<1>1. UNCHANGED sources /\ i.type \in Kinds
  BY TrafficSteps DEF Lose, table
<1>2. CASE \E j : Moved(i, j) /\ net' = (net \ {i}) \cup {j} /\ UNCHANGED asked
  <2>1. UNCHANGED <<Carried("request"), Carried("data")>>
    BY <1>2 DEF Carried, Moved
  <2> QED BY <1>1, <1>2, <2>1 DEF Peers!vars
<1>3. ASSUME net' = net \ {i}
      PROVE  /\ i.type = "request" => /\ Carried("request")' = Carried("request") \ {i.id}
                                      /\ Carried("data")' = Carried("data")
                                      /\ i.id \in Carried("request")
             /\ i.type = "data" => /\ Carried("data")' = Carried("data") \ {i.id}
                                   /\ Carried("request")' = Carried("request")
                                   /\ i.id \in Carried("data")
  BY <1>3 DEF Carried, PeersInv, OneItem, Kinds
<1>4. CASE net' = net \ {i} /\ UNCHANGED asked
  <2>1. CASE i.type = "request"
    <3>1. Peers!LoseRequest(i.id) /\ i.id \in Carried("request")
      BY <1>1, <1>3, <1>4, <2>1 DEF Peers!LoseRequest
    <3> QED BY <3>1 DEF Peers!Next
  <2>2. CASE i.type = "data"
    <3>1. Peers!EndAnswer(i.id) /\ i.id \in Carried("data")
      BY <1>1, <1>3, <1>4, <2>2 DEF Peers!EndAnswer
    <3> QED BY <3>1 DEF Peers!Next
  <2> QED BY <1>1, <2>1, <2>2 DEF Kinds
<1>5. CASE /\ RouteGenericTunnelItem(i) /\ net' = net \ {i} /\ i.type = "request"
           /\ asked' = asked \cup {i.id} /\ asked' # asked
  <2>1. i.id \in Seq(Node) /\ i.id # <<>> /\ i.id \in sources[i.id[Len(i.id)]]
    BY <1>5, ReceivedByProvider DEF PeersInv
  <2>2. i.id \in sources[Peers!Last(i.id)]
    BY <2>1, JoinsEnds
  <2>3. Peers!ReceiveRequest(i.id) /\ i.id \in Carried("request")
    BY <1>1, <1>3, <1>5, <2>2 DEF Peers!ReceiveRequest
  <2> QED BY <2>3 DEF Peers!Next
<1>6. Lose(i) => net' = net \ {i} /\ UNCHANGED asked
  BY DEF Lose, service
<1> QED BY <1>2, <1>4, <1>5, <1>6, TrafficSteps

\* Every step of the router is one of the promised ones, or none.
LEMMA NextImplementsPeers ==
    RouteInv /\ TableInv /\ PeersInv /\ [Next]_vars
        => [stale = 0 => Peers!Next]_(Peers!vars)
<1> SUFFICES ASSUME RouteInv, TableInv, PeersInv, [Next]_vars, stale = 0
             PROVE  Peers!Next \/ UNCHANGED Peers!vars
  OBVIOUS
<1>1. ASSUME NEW i \in net, RouteGenericTunnelItem(i) \/ Lose(i)
      PROVE  Peers!Next \/ UNCHANGED Peers!vars
  BY <1>1, RouteImplements
<1>2. ASSUME NEW n \in Node, NEW t \in vpeers[n], SendTurtleData(n, t)
      PROVE  Peers!Next
  BY <1>2, SendImplements DEF PeersInv
<1>3. CASE ~ \/ \E i \in net : RouteGenericTunnelItem(i) \/ Lose(i)
             \/ \E n \in Node : \E t \in vpeers[n] : SendTurtleData(n, t)
  <2>1. \/ \E h \in Hash : \/ MonitorTunnels(h) \/ StopMonitoringTunnels(h)
                           \/ DiggTunnel(h) \/ RemoveHash(h)
        \/ \E i \in net : HandleTunnelRequest(i) \/ HandleTunnelResult(i)
        \/ \E n \in Node : \/ \E r \in Request : ExpireRequest(n, r)
                           \/ Idle(n) \/ CloseTunnels(n)
        \/ UNCHANGED vars
    BY <1>3 DEF Next
  <2> QED BY <2>1, TablesImplement DEF PeersInv
<1> QED BY <1>1, <1>2, <1>3

\* In every network of friends, and as long as requests stay in the caches until they
\* have passed, the router implements what VirtualPeers promises to its services
\* (addVirtualPeer(), removeVirtualPeer(), receiveTurtleData()).
THEOREM PeersImplemented == Spec => ImplementsVirtualPeers
<1>1. Init => Peers!Init /\ PeersInv
  <2> SUFFICES ASSUME Init PROVE Peers!Init /\ PeersInv
    OBVIOUS
  <2>1. net = {} /\ asked = {} /\ outgoing = [n \in Node |-> {}] /\ sources = [n \in Node |-> {}]
    BY DEF Init
  <2>2. Carried("request") = {} /\ Carried("data") = {}
    BY <2>1 DEF Carried
  <2> QED BY <2>1, <2>2 DEF Peers!Init, PeersInv, Joined, Serving, OneItem
<1>2. TableInv /\ PeersInv /\ [Next]_vars => PeersInv'
  BY NextJoined, NextServing, NextOneItem DEF PeersInv
<1> QED BY <1>1, <1>2, InitRouted, InitTable, NextTable, NextImplementsPeers, PTL
        DEF Spec, ImplementsVirtualPeers
=============================================================================
