------------------------------- MODULE Turtle -------------------------------
(***************************************************************************)
(* Tunnels of the turtle router (libretroshare/src/turtle/p3turtle.cc).    *)
(* A client that wants a file hash floods a request over the friend links. *)
(* A node that has the file answers, and the answer goes back along the    *)
(* nodes that forwarded the request, each of which notes the peers before  *)
(* and behind it in the tunnel.  Items for the tunnel then follow these    *)
(* notes, in both directions, until the tunnel is idle for too long.       *)
(*                                                                         *)
(* Every node mixes a random number of its own into the id of the tunnel,  *)
(* so the id stands for the route; here it is the route (ids of 32 bits    *)
(* that collide by chance are left out).  The id also depends on the hash: *)
(* a client that asks for several hashes counts as several clients.  Whom  *)
(* a request goes to depends on connections, link types, chance and depth  *)
(* (with a random bypass): any subset of the other friends is possible.    *)
(* Items may overtake each other, and one that is lost never arrives.      *)
(* A node does all this in one thread, tick(); services call in from       *)
(* others, under the same mutex.                                           *)
(***************************************************************************)
EXTENDS Integers, Sequences, FiniteSets, SequencesExt

CONSTANTS
    Node, Friends,  \* nodes, and their friend lists
    Hash,           \* file hashes
    Client,         \* Hash -> Node: whose services ask for the hash
    Provider,       \* Hash -> SUBSET Node: who has the file, for some friends
    MaxDigs,        \* bound: requests, and their ids
    MaxStale        \* bound: cache entries gone before the request has passed

ASSUME GraphAssumption ==
    /\ Friends \in [Node -> SUBSET Node]
    /\ \A m, n \in Node : m \in Friends[n] => n \in Friends[m] /\ m # n

ASSUME HashAssumption ==
    /\ Client \in [Hash -> Node] /\ Provider \in [Hash -> SUBSET Node]
    /\ \A h \in Hash : Client[h] \notin Provider[h]
    /\ \A g, h \in Hash : Client[g] = Client[h] => g = h
    /\ MaxDigs \in Nat /\ MaxStale \in Nat

VARIABLES
    origin,     \* _tunnel_requests_origins: where each node has a request from
    responses,  \* ... and the tunnels it has been answered with
    tunnels,    \* _local_tunnels: id, peers on both sides, hash, recently used
    vpeers,     \* _virtual_peers, as tunnel ids
    outgoing,   \* _outgoing_tunnel_client_services
    hashes,     \* _incoming_file_hashes of the client: tunnels and last_request
    toRemove,   \* _hashes_to_remove
    net,        \* items on the way
    sources,    \* virtual peers that the services of a node have been told of
    asked,      \* tunnels on which the service of a provider owes an answer
    digs, stale,
    foreign     \* history: what a service got, but not from the other end

vars == <<origin, responses, tunnels, vpeers, outgoing, hashes, toRemove, net,
          sources, asked, digs, stale, foreign>>

cache == <<origin, responses>>
table == <<tunnels, vpeers, outgoing, sources>>
client == <<hashes, toRemove, digs>>
service == <<asked, foreign>>

None == "none"

ASSUME NodeAssumption == None \notin Node \cup Hash

Unmonitored == [tunnels |-> {}, last |-> -1]
Request == 1 .. MaxDigs

Open(m, n, r, h, route) ==
    [type |-> "open", from |-> m, to |-> n, req |-> r, hash |-> h, route |-> route]
Ok(m, n, r, t) == [type |-> "ok", from |-> m, to |-> n, req |-> r, id |-> t]
Item(m, n, t, kind, by) ==
    [type |-> kind, from |-> m, to |-> n, id |-> t, by |-> by]

\* Requests for data do not stamp a tunnel, data does (shouldStampTunnel()).
Kinds == {"request", "data"}

Held(n, t) == \E u \in tunnels[n] : u.id = t
TunnelAt(n, t) == CHOOSE u \in tunnels[n] : u.id = t

Init == /\ origin = [n \in Node |-> [r \in Request |-> None]]
        /\ responses = [n \in Node |-> [r \in Request |-> {}]]
        /\ tunnels = [n \in Node |-> {}] /\ vpeers = [n \in Node |-> {}]
        /\ outgoing = [n \in Node |-> {}] /\ sources = [n \in Node |-> {}]
        /\ hashes = [h \in Hash |-> Unmonitored] /\ toRemove = {}
        /\ net = {} /\ asked = {} /\ foreign = {}
        /\ digs = 0 /\ stale = 0

-----------------------------------------------------------------------------
(* Services *)

\* monitorTunnels()
MonitorTunnels(h) ==
    /\ toRemove' = toRemove \ {h}
    /\ hashes' = [hashes EXCEPT ![h] =
                    IF @ = Unmonitored THEN [tunnels |-> {}, last |-> 0] ELSE @]
    /\ UNCHANGED <<cache, table, digs, net, stale, service>>

\* stopMonitoringTunnels(): only a mark.
StopMonitoringTunnels(h) ==
    /\ hashes[h] # Unmonitored
    /\ toRemove' = toRemove \cup {h}
    /\ UNCHANGED <<cache, table, hashes, digs, net, stale, service>>

-----------------------------------------------------------------------------
(* Requests *)

\* Mutant: the partial id is not perturbed on the way.
RouteUnperturbed(route, n) == IF route = <<>> THEN <<n>> ELSE route

\* The partial tunnel id, perturbed by node n.
Perturbed(route, n) == Append(route, n)

\* Node n forwards the request to some of its friends, not to where it came from.
Forwarded(n, sender, r, h, route) ==
    {{Open(n, m, r, h, Perturbed(route, n)) : m \in M} :
        M \in SUBSET (Friends[n] \ {sender})}

\* Noted(): the request is new, and came from m.
Noted(n, r, m) == /\ origin' = [origin EXCEPT ![n][r] = m]
                  /\ responses' = [responses EXCEPT ![n][r] = {}]

\* manageTunnels() or forceReDiggTunnels(), diggTunnel(), and
\* handleTunnelRequest() for the node's own request.  Bounds: the flood of the
\* request before is over, and no cache entry went too early.
DiggTunnel(h) ==
    LET n == Client[h]
        r == digs + 1
    IN  /\ hashes[h] # Unmonitored /\ digs < MaxDigs
        /\ stale = 0 /\ \A i \in net : i.type # "open"
        /\ digs' = r
        /\ hashes' = [hashes EXCEPT ![h].last = r]
        /\ Noted(n, r, n)
        /\ \E items \in Forwarded(n, n, r, h, <<>>) : net' = net \cup items
        /\ UNCHANGED <<table, toRemove, stale, service>>

\* Mutant: a node does not recognise its own requests.
BouncingOthers(n, r) == origin[n][r] \notin {None, n}

\* The request is in the cache already.
Bouncing(n, r) == origin[n][r] # None

\* The end of a tunnel, stored in place of an earlier one of the same id.
EndTunnel(n, m, t, h) ==
    /\ tunnels' = [tunnels EXCEPT ![n] =
         {u \in @ : u.id # t} \cup
         {[id |-> t, src |-> m, dst |-> n, hash |-> h, used |-> TRUE]}]
    /\ vpeers' = [vpeers EXCEPT ![n] = @ \cup {t}]
    /\ outgoing' = [outgoing EXCEPT ![n] = @ \cup {t}]
    /\ sources' = [sources EXCEPT ![n] = @ \cup {t}]

\* handleTunnelRequest() for the request of another node.  A service that has the
\* file (performLocalHashSearch()) may not offer it to the friend that asks.
HandleTunnelRequest(i) ==
    LET n == i.to IN
    /\ i \in net /\ i.type = "open"
    /\ IF Bouncing(n, i.req) THEN net' = net \ {i} /\ UNCHANGED <<cache, table>>
       ELSE /\ Noted(n, i.req, i.from)
            /\ \/ /\ n \in Provider[i.hash]
                  /\ LET t == Append(i.route, n)
                     IN  /\ EndTunnel(n, i.from, t, i.hash)
                         /\ net' = (net \ {i}) \cup {Ok(n, i.from, i.req, t)}
               \/ /\ \E items \in Forwarded(n, i.from, i.req, i.hash, i.route) :
                        net' = (net \ {i}) \cup items
                  /\ UNCHANGED table
    /\ UNCHANGED <<client, stale, service>>

\* The hash of node n whose last request is r, if it is still wanted.
WantedBy(n, r) == {h \in Hash : Client[h] = n /\ hashes[h] # Unmonitored /\ hashes[h].last = r}

\* What handleTunnelResult() stores: a tunnel that is there stays as it is, but
\* gets its hash if it begins here.
Stored(n, m, i, H) ==
    LET old == {u \in tunnels[n] : u.id = i.id}
        new == IF old # {} THEN CHOOSE u \in old : TRUE
               ELSE [id |-> i.id, src |-> m, dst |-> i.from, hash |-> None, used |-> TRUE]
    IN  (tunnels[n] \ old) \cup
        {[new EXCEPT !.hash = IF H = {} THEN @ ELSE CHOOSE h \in H : TRUE]}

\* Mutant: the answer also goes on from the node where the request began.
BackwardsAlways(n, m, r, t) == {Ok(n, m, r, t)}

\* The answer goes back to peer m, from where the request came.
Backwards(n, m, r, t) == IF m = n THEN {} ELSE {Ok(n, m, r, t)}

\* handleTunnelResult()
HandleTunnelResult(i) ==
    LET n == i.to
        m == origin[n][i.req]
        H == IF m = n THEN WantedBy(n, i.req) ELSE {}
        begins == IF H # {} THEN {i.id} ELSE {}
    IN
    /\ i \in net /\ i.type = "ok"
    /\ IF m = None \/ i.id \in responses[n][i.req]
       THEN net' = net \ {i} /\ UNCHANGED <<responses, table, hashes>>
       ELSE /\ responses' = [responses EXCEPT ![n][i.req] = @ \cup {i.id}]
            /\ tunnels' = [tunnels EXCEPT ![n] = Stored(n, m, i, H)]
            /\ hashes' = [h \in Hash |-> IF h \in H
                            THEN [hashes[h] EXCEPT !.tunnels = @ \cup {i.id}]
                            ELSE hashes[h]]
            /\ vpeers' = [vpeers EXCEPT ![n] = @ \cup begins]
            /\ sources' = [sources EXCEPT ![n] = @ \cup begins]
            /\ net' = (net \ {i}) \cup Backwards(n, m, i.req, i.id)
            /\ UNCHANGED outgoing
    /\ UNCHANGED <<origin, toRemove, digs, stale, service>>

-----------------------------------------------------------------------------
(* Traffic *)

\* Mutant: every item keeps a tunnel alive.
StampsAll(kind) == TRUE

Stamps(kind) == kind = "data"

Stamped(n, u, kind) ==
    tunnels' = [tunnels EXCEPT ![n] =
                  (@ \ {u}) \cup {[u EXCEPT !.used = @ \/ Stamps(kind)]}]

\* Bound: a client asks for one thing at a time.
Quiet(t) == t \notin asked /\ \A i \in net : i.type \in Kinds => i.id # t

\* sendTurtleData(), towards the other end: from the beginning of the tunnel a
\* request for data, from its end an answer.
SendTurtleData(n, t) ==
    /\ t \in vpeers[n] /\ Held(n, t)
    /\ LET u == TunnelAt(n, t)
       IN  \/ /\ u.src = n /\ Quiet(t)
              /\ net' = net \cup {Item(n, u.dst, t, "request", n)}
              /\ Stamped(n, u, "request")
              /\ UNCHANGED asked
           \/ /\ u.src # n /\ u.dst = n /\ t \in asked
              /\ net' = net \cup {Item(n, u.src, t, "data", n)}
              /\ Stamped(n, u, "data")
              /\ asked' = asked \ {t}
    /\ UNCHANGED <<cache, vpeers, outgoing, sources, client, stale, foreign>>

\* getTunnelServiceInfo(): a service still takes what comes out of tunnel u.
HasService(n, u) ==
    \/ u.src = n /\ u.hash # None /\ hashes[u.hash] # Unmonitored
    \/ u.src # n /\ u.dst = n /\ u.id \in outgoing[n]

\* An item at the end of its tunnel, from the other end and going the right way.
FromOtherEnd(x) ==
    \/ /\ x.direction = "server" /\ x.kind = "request"
       /\ x.at = Last(x.id) /\ x.by = Head(x.id)
    \/ /\ x.direction = "client" /\ x.kind = "data"
       /\ x.at = Head(x.id) /\ x.by = Last(x.id)

\* Mutant: a service takes whatever comes for a request.
ReceiveAny(n, u, i, direction) ==
    IF HasService(n, u) THEN asked' = asked \cup {i.id} /\ UNCHANGED foreign
    ELSE UNCHANGED service

\* handleRecvGenericTunnelItem(), receiveTurtleData()
Receive(n, u, i, direction) ==
    LET x == [at |-> n, id |-> i.id, by |-> i.by, kind |-> i.type,
              direction |-> direction]
    IN  IF HasService(n, u)
        THEN /\ foreign' = IF FromOtherEnd(x) THEN foreign ELSE foreign \cup {x}
             /\ asked' = IF i.type = "request" THEN asked \cup {i.id} ELSE asked
        ELSE UNCHANGED service

\* Mutant: an item for the beginning of the tunnel goes back where it came from.
NextHopBack(n, u, from) ==
    IF from = u.dst /\ u.src # n THEN u.dst
    ELSE IF from = u.src /\ u.dst # n THEN u.dst ELSE n

\* Where an item of tunnel u goes from node n, which may be its end.
NextHop(n, u, from) ==
    IF from = u.dst /\ u.src # n THEN u.src
    ELSE IF from = u.src /\ u.dst # n THEN u.dst ELSE n

\* routeGenericTunnelItem(): items of unknown tunnels and from other peers are
\* dropped.
RouteGenericTunnelItem(i) ==
    LET n == i.to
        u == TunnelAt(n, i.id)
        m == NextHop(n, u, i.from)
    IN
    /\ i \in net /\ i.type \in Kinds
    /\ IF Held(n, i.id) THEN Stamped(n, u, i.type) ELSE UNCHANGED tunnels
    /\ IF Held(n, i.id) /\ i.from \in {u.src, u.dst}
       THEN \/ /\ m # n
               /\ net' = (net \ {i}) \cup {Item(n, m, i.id, i.type, i.by)}
               /\ UNCHANGED service
            \/ /\ m = n
               /\ net' = net \ {i}
               /\ Receive(n, u, i, IF i.from = u.dst THEN "client" ELSE "server")
       ELSE net' = net \ {i} /\ UNCHANGED service
    /\ UNCHANGED <<cache, vpeers, outgoing, sources, client, stale>>

\* An item is lost with a connection.
Lose(i) == /\ i \in net /\ i.type \in Kinds
           /\ net' = net \ {i}
           /\ UNCHANGED <<cache, table, client, stale, service>>

-----------------------------------------------------------------------------
(* autoWash() *)

Begins(n, u) == u.src = n
Ends(n, u) == u.src # n /\ u.dst = n /\ u.id \in outgoing[n]

\* Mutant: the tunnel stays in the list of its hash.
WithoutTunnelsListed(info, ids) == info

\* The tunnel ids are taken out of the list of their hash.
WithoutTunnels(info, ids) == [info EXCEPT !.tunnels = @ \ ids]

\* locked_closeTunnel() for the tunnels U of node n.  The service is told about
\* those that begin here and whose hash is still known, and those that end here.
Close(n, U) ==
    LET begin == {u.id : u \in {v \in U : Begins(n, v)}}
        end   == {u.id : u \in {v \in U : Ends(n, v)}}
        told  == {u.id : u \in {v \in U : /\ Begins(n, v) /\ v.hash # None
                                          /\ hashes[v.hash] # Unmonitored}}
    IN  /\ tunnels' = [tunnels EXCEPT ![n] = @ \ U]
        /\ vpeers' = [vpeers EXCEPT ![n] = @ \ (begin \cup end)]
        /\ outgoing' = [outgoing EXCEPT ![n] = @ \ end]
        /\ sources' = [sources EXCEPT ![n] = @ \ (told \cup end)]

\* A hash marked for removal goes with its tunnels.
RemoveHash(h) ==
    /\ h \in toRemove
    /\ toRemove' = toRemove \ {h}
    /\ hashes' = [hashes EXCEPT ![h] = Unmonitored]
    /\ IF hashes[h] = Unmonitored THEN UNCHANGED table
       ELSE Close(Client[h], {u \in tunnels[Client[h]] : u.id \in hashes[h].tunnels})
    /\ UNCHANGED <<cache, digs, net, stale, service>>

\* TUNNEL_REQUESTS_LIFE_TIME has passed while the request is still going round.
\* (Later it makes no difference: an answer that finds no entry is dropped like
\* one that is lost.)  Bound: this happens to the first request only.
ExpireRequest(n, r) ==
    /\ digs = 1 /\ origin[n][r] # None
    /\ \E i \in net : i.type = "open" /\ i.req = r
    /\ stale < MaxStale /\ stale' = stale + 1
    /\ origin' = [origin EXCEPT ![n][r] = None]
    /\ responses' = [responses EXCEPT ![n][r] = {}]
    /\ UNCHANGED <<table, client, net, service>>

\* MAXIMUM_TUNNEL_IDLE_TIME passes.
Idle(n) == /\ tunnels' = [tunnels EXCEPT ![n] = {[u EXCEPT !.used = FALSE] : u \in @}]
           /\ UNCHANGED <<cache, vpeers, outgoing, sources, client, net, stale, service>>

\* The tunnels that no data has stamped in this time are closed.
CloseTunnels(n) ==
    LET U == {u \in tunnels[n] : ~u.used}
    IN  /\ U # {}
        /\ Close(n, U)
        /\ hashes' = [h \in Hash |->
              WithoutTunnels(hashes[h], {u.id : u \in {v \in U : Begins(n, v) /\ v.hash = h}})]
        /\ UNCHANGED <<cache, toRemove, digs, net, stale, service>>

Next == \/ \E h \in Hash : \/ MonitorTunnels(h) \/ StopMonitoringTunnels(h)
                           \/ DiggTunnel(h) \/ RemoveHash(h)
        \/ \E i \in net : \/ HandleTunnelRequest(i) \/ HandleTunnelResult(i)
                          \/ RouteGenericTunnelItem(i) \/ Lose(i)
        \/ \E n \in Node : \/ \E t \in vpeers[n] : SendTurtleData(n, t)
                           \/ \E r \in Request : ExpireRequest(n, r)
                           \/ Idle(n) \/ CloseTunnels(n)

Spec == Init /\ [][Next]_vars

\* The routers run, so unused tunnels are found sooner or later.  Nothing is
\* assumed about services and about the network.
FairSpec == Spec /\ \A n \in Node : WF_vars(Idle(n)) /\ WF_vars(CloseTunnels(n))

-----------------------------------------------------------------------------
(* Properties *)

Tunnel == [id : Seq(Node), src : Node, dst : Node, hash : Hash \cup {None},
           used : BOOLEAN]

\* Every variable keeps its type.
TypeOK ==
    /\ origin \in [Node -> [Request -> Node \cup {None}]]
    /\ responses \in [Node -> [Request -> SUBSET Seq(Node)]]
    /\ \A n \in Node : /\ tunnels[n] \subseteq Tunnel
                       /\ vpeers[n] \cup outgoing[n] \cup sources[n] \subseteq Seq(Node)
    /\ \A h \in Hash : hashes[h] # Unmonitored => hashes[h].last \in 0 .. digs
    /\ toRemove \subseteq Hash
    /\ \A i \in net : i.from \in Node /\ i.to \in Friends[i.from]
    /\ digs \in 0 .. MaxDigs /\ stale \in 0 .. MaxStale

\* A request never comes through a node twice, and so no tunnel does, as long as
\* requests stay in the caches until they have passed (TUNNEL_REQUESTS_LIFE_TIME).
LoopFree ==
    stale = 0 =>
        /\ \A i \in net : i.type = "open" => IsInjective(i.route)
        /\ \A n \in Node : \A u \in tunnels[n] : IsInjective(u.id)

\* The route of a tunnel is never redefined: what is sent into a tunnel reaches
\* no node that expects the items of this tunnel from other peers, though routes
\* are found, forgotten and found again by several requests.
RouteStable ==
    stale = 0 =>
        \A i \in net : i.type \in Kinds /\ Held(i.to, i.id) =>
            i.from \in {TunnelAt(i.to, i.id).src, TunnelAt(i.to, i.id).dst}

\* A service only gets what the other end of the tunnel sent, and knows which end
\* that is: nobody gets their own items back or those of another tunnel.
DataFromOtherEnd == stale = 0 => foreign = {}

\* The tables agree on the ends of tunnels: what a hash lists, what services were
\* told about and what can be sent to is a tunnel of that hash at this node.
EndsRegistered ==
    /\ \A h \in Hash : hashes[h] # Unmonitored =>
          \A t \in hashes[h].tunnels : t \in vpeers[Client[h]]
    /\ \A n \in Node : \A t \in vpeers[n] :
          Held(n, t) /\ TunnelAt(n, t).hash # None
    /\ sources = vpeers

\* p3turtle.cc, locked_closeTunnel(): a tunnel that is closed somewhere "will
\* eventually disappear" everywhere else, or is completed again, though its client
\* goes on asking for data.
Whole(t) == \A k \in DOMAIN t : Held(t[k], t)
Broken == \E n \in Node : \E u \in tunnels[n] : ~Whole(u.id)
BrokenTunnelsDisappear == Broken ~> ~Broken

\* The network keeps what the router promises to its services: only the two ends of
\* a tunnel that joins a client to somebody with its file are told of it, a request
\* is received once, where the file is, and answered once, and the answer goes to
\* the client, whatever floods, passes and is closed in between.
Carried(kind) == {i.id : i \in {j \in net : j.type = kind}}

Peers == INSTANCE VirtualPeers WITH
            peers <- sources, owed <- asked,
            requests <- Carried("request"), answers <- Carried("data")

ImplementsVirtualPeers == Peers!Init /\ [][stale = 0 => Peers!Next]_(Peers!vars)
=============================================================================
