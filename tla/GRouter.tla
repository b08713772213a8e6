------------------------------ MODULE GRouter ------------------------------
(***************************************************************************)
(* The global router (libretroshare/src/grouter/p3grouter.cc): messages    *)
(* for a distant GXS identity travel from the node that owns the signing   *)
(* key (the origin) over friend links and turtle tunnels, are cached at    *)
(* every node they cross, and a receipt signed by the destination travels  *)
(* back along the incoming routes that each cache remembers.               *)
(*                                                                         *)
(* One thread of a node runs p3GRouter::tick() and, between two ticks, the *)
(* turtle router and the configuration manager.  The parts of tick() take  *)
(* the mutex one after the other, so `phase' says which part runs next and *)
(* the clients' threads (sendData, cancel) and crashes fall in between.    *)
(*                                                                         *)
(* Abstractions.  A message is its propagation id: payload, encryption and *)
(* chunking are left out (an item crosses a link whole; GRouterPipe has    *)
(* the chunks).  A signature check fails only because a key is missing or  *)
(* its owner banned, so it may fail at any time.  Routing probabilities    *)
(* are reduced to the set of friends that routing clues point to.  A link  *)
(* is a bag of items: it does not promise the order that TCP would keep.   *)
(* How tunnels are requested is left open: one may come up at a node that  *)
(* holds a message allowed to use it, and goes down once such a message    *)
(* is sent or gone, as handleTunnels() and p3turtle::autoWash() do.        *)
(***************************************************************************)
EXTENDS Integers, Sequences, FiniteSets

CONSTANTS
    Node,           \* the nodes of the network
    Msg,            \* propagation ids
    Origin, Dest,   \* Msg -> Node: who sends the message, who owns its key
    Friends,        \* Node -> SUBSET Node: the friend lists
    OtherClues,     \* <<n, d, f>>: other services of n give clues for d at f
    AckWait,        \* MAX_TRANSACTION_ACK_WAITING_TIME
    FriendTry,      \* DIRECT_FRIEND_TRY_DELAY
    CacheKeep,      \* GROUTER_ITEM_MAX_CACHE_KEEP_TIME
    ResendDelay,    \* MAX_DELAY_FOR_RESEND
    DestKeep,       \* MAX_DESTINATION_KEEP_TIME = MAX_RECEIPT_KEEP_TIME
    MaxBranching,   \* GROUTER_MAX_BRANCHING_FACTOR
    MaxTime,        \* bound: the clock stops there
    MaxDowns,       \* bound: how many times a link may break
    MaxCrashes      \* bound: how many times a node may crash

ASSUME ParticipantsAssumption ==
    /\ Origin \in [Msg -> Node]
    /\ Dest \in [Msg -> Node]
    /\ \A m \in Msg : Origin[m] # Dest[m]
    /\ Friends \in [Node -> SUBSET Node]
    /\ \A a, b \in Node : b \in Friends[a] => a \in Friends[b] /\ a # b
    /\ OtherClues \subseteq Node \X Node \X Node

\* The order of the delays is the one of groutertypes.h; in particular the
\* re-send delay is longer than the time an item stays in the cache.
ASSUME DelaysAssumption ==
    /\ {AckWait, FriendTry, CacheKeep, ResendDelay, DestKeep} \subseteq Nat
    /\ CacheKeep < ResendDelay /\ ResendDelay < DestKeep
    /\ MaxBranching \in Nat \ {0}
    /\ {MaxTime, MaxDowns, MaxCrashes} \subseteq Nat

VARIABLES
    now,        \* time(NULL), in abstract units
    phase,      \* Node -> part of tick() that runs next
    pending,    \* Node -> Msg -> Entry or None: _pending_messages
    incoming,   \* Node -> items handed up by the low level: _incoming_items
    clues,      \* Node -> destination -> friends the routing matrix favours
    up,         \* <<kind, a, b>>: a sees its connection to b as working
    net,        \* Link -> Item -> number of copies under way
    saved,      \* Node -> what the configuration file holds
    dirty,      \* nodes that asked for a save since the last one
    issued,     \* messages passed to sendData()
    cancelled,  \* messages passed to cancel() while they were pending
    handled,    \* messages whose destination signed a receipt
    delivered,  \* Msg -> number of calls of receiveGRouterData()
    told,       \* <<node, message, status>> passed to notifyDataStatus()
    downs, crashes

vars == <<now, phase, pending, incoming, clues, up, net, saved, dirty,
          issued, cancelled, handled, delivered, told, downs, crashes>>

requests == <<issued, cancelled>>
history == <<issued, cancelled, handled, delivered, told>>
faults == <<downs, crashes>>
-----------------------------------------------------------------------------
None == [role |-> "none"]

\* A peer as a node sees it: a friend, the far end of a tunnel that the node
\* opened ("out") or that was opened to it ("in"), or a virtual peer id of an
\* earlier run, which no tunnel will ever have again.
Peer == {"friend", "out", "in", "dead"} \X Node

\* Tunnels lead to a node that owns a destination key.
Link ==
    {l \in {"friend", "out", "in"} \X Node \X Node :
        \/ l[1] = "friend" /\ l[3] \in Friends[l[2]]
        \/ l[1] = "out" /\ l[2] # l[3] /\ \E m \in Msg : Dest[m] = l[3]
        \/ l[1] = "in" /\ l[2] # l[3] /\ \E m \in Msg : Dest[m] = l[2]}

\* The same connection seen from the other end.
Reverse(l) ==
    <<CASE l[1] = "out" -> "in" [] l[1] = "in" -> "out" [] OTHER -> l[1],
      l[3], l[2]>>

Entry == [role : {"origin", "relay", "destination"},   \* routing_flags
          status : {"PENDING", "ONGOING", "SENT", "RECEIPT_OK", "DONE"},
          allowTunnels : BOOLEAN,                      \* routing_flags
          receipt : BOOLEAN,                           \* receipt_item # NULL
          routes : SUBSET Peer,                        \* incoming_routes
          received : Nat, lastSent : Nat, transaction : Nat]

Item == [type : {"data", "receipt", "ack"}, id : Msg]

Data(m) == [type |-> "data", id |-> m]
Receipt(m) == [type |-> "receipt", id |-> m]
Ack(m) == [type |-> "ack", id |-> m]

Holds(n, m) == pending[n][m] # None

To(n, p) == <<p[1], n, p[2]>>                \* the link from n to its peer p
Sender(l) == <<Reverse(l)[1], l[2]>>         \* the peer that l[3] hears on l

\* The links that carry what is put on them: a tunnel that the other end has
\* closed still looks alive, and swallows what is sent.
Carrying == {l \in up : Reverse(l) \in up}

\* locked_sendTransactionData(): n sends the items sent[p] to each peer p.
Sending(n, sent) ==
    [l \in Link |-> [i \in Item |->
        IF l[2] = n /\ l \in Carrying /\ i \in sent[<<l[1], l[3]>>]
        THEN net[l][i] + 1 ELSE net[l][i]]]

\* IndicateConfigChanged().  Bound: a request to save that no crash can come
\* after makes no difference and is left out.
Dirty(n) == IF crashes < MaxCrashes THEN dirty \cup {n} ELSE dirty

NoItems == [i \in Item |-> 0]
-----------------------------------------------------------------------------
\* Later than any time-out of a transaction that was never started.
StartTime == AckWait + 1

Init ==
    /\ now = StartTime
    /\ phase = [n \in Node |-> "low"]
    /\ pending = [n \in Node |-> [m \in Msg |-> None]]
    /\ incoming = [n \in Node |-> <<>>]
    /\ clues = [n \in Node |-> [d \in Node |-> {}]]
    /\ up = {}
    /\ net = [l \in Link |-> NoItems]
    /\ saved = [n \in Node |-> [pending |-> [m \in Msg |-> None],
                                clues |-> [d \in Node |-> {}]]]
    /\ dirty = {}
    /\ issued = {} /\ cancelled = {} /\ handled = {}
    /\ delivered = [m \in Msg |-> 0]
    /\ told = {}
    /\ downs = 0 /\ crashes = 0
-----------------------------------------------------------------------------
(* Calls from other services, in any thread *)

\* sendData(): the message waits in the cache of the origin, friends only.
\* Bound: it is sent early enough for its fate to be settled by MaxTime.
SendData(m) ==
    LET n == Origin[m] IN
    /\ m \notin issued
    /\ now + CacheKeep < MaxTime
    /\ issued' = issued \cup {m}
    /\ pending' = [pending EXCEPT ![n][m] =
                     [role |-> "origin", status |-> "PENDING",
                      allowTunnels |-> FALSE, receipt |-> FALSE,
                      routes |-> {}, received |-> now, lastSent |-> 0,
                      transaction |-> 0]]
    /\ dirty' = Dirty(n)
    /\ UNCHANGED <<now, phase, incoming, clues, up, net, saved, cancelled,
                   handled, delivered, told, faults>>

\* cancel(): only the client that sent the message knows its id.
Cancel(m) ==
    LET n == Origin[m] IN
    /\ m \in issued /\ Holds(n, m)
    /\ cancelled' = cancelled \cup {m}
    /\ pending' = [pending EXCEPT ![n][m] = None]
    /\ dirty' = Dirty(n)
    /\ UNCHANGED <<now, phase, incoming, clues, up, net, saved, issued,
                   handled, delivered, told, faults>>

\* addRoutingClue(), from a service that saw friend f bring an item signed by
\* the key of d.  Clues are saved, with the next tick.
AddRoutingClue(n, d, f) ==
    /\ <<n, d, f>> \in OtherClues /\ f \in Friends[n] \ clues[n][d]
    /\ clues' = [clues EXCEPT ![n][d] = @ \cup {f}]
    /\ dirty' = Dirty(n)
    /\ UNCHANGED <<now, phase, pending, incoming, up, net, saved, history,
                   faults>>
-----------------------------------------------------------------------------
(* The low level: receiveTurtleData(), handleLowLevelServiceItems() *)

\* An acknowledgement only means something to an entry that waits for one; the
\* mutant takes it for any entry, of a later life of the message too.
AwaitsAckMutant(n, m) == Holds(n, m)

AwaitsAck(n, m) == Holds(n, m) /\ pending[n][m].status = "ONGOING"

\* handleLowLevelTransactionAckItem(): no save is requested.
ReceiveAck(l, m) ==
    LET n == l[3] IN
    /\ phase[n] = "low"
    /\ net[l][Ack(m)] > 0
    /\ net' = [net EXCEPT ![l][Ack(m)] = @ - 1]
    /\ IF AwaitsAck(n, m)
       THEN pending' = [pending EXCEPT ![n][m] =
                          [@ EXCEPT !.status = "SENT", !.lastSent = now]]
       ELSE UNCHANGED pending
    /\ UNCHANGED <<now, phase, incoming, clues, up, saved, dirty, history,
                   faults>>

\* handleLowLevelTransactionChunkItem(), last chunk: the item is acknowledged
\* before anything looks at it, then queued.
ReceiveItem(l, item) ==
    LET n == l[3] IN
    /\ phase[n] = "low"
    /\ item.type # "ack"
    /\ net[l][item] > 0
    /\ net' = [net EXCEPT ![l][item] = @ - 1,
                          ![Reverse(l)][Ack(item.id)] =
                              IF Reverse(l) \in Carrying THEN @ + 1 ELSE @]
    /\ incoming' = [incoming EXCEPT ![n] =
                      Append(@, [item |-> item, from |-> Sender(l)])]
    /\ UNCHANGED <<now, phase, pending, clues, up, saved, dirty, history,
                   faults>>

\* Ticks of a node that has nothing to route change nothing.
Idle(n) == incoming[n] = <<>> /\ \A m \in Msg : ~Holds(n, m)

\* recvItem() returns NULL: nothing more has arrived for this tick.
LowLevelDone(n) ==
    /\ phase[n] = "low" /\ ~Idle(n)
    /\ phase' = [phase EXCEPT ![n] = "incoming"]
    /\ UNCHANGED <<now, pending, incoming, clues, up, net, saved, dirty,
                   history, faults>>

IdleTick(n) == phase[n] = "low" /\ Idle(n) /\ UNCHANGED vars
-----------------------------------------------------------------------------
(* handleIncoming() *)

\* The entry that handleIncomingDataItem() creates for an unknown message.
NewEntry(forUs) ==
    [role |-> IF forUs THEN "destination" ELSE "relay",
     status |-> IF forUs THEN "RECEIPT_OK" ELSE "PENDING",
     allowTunnels |-> FALSE, receipt |-> forUs, routes |-> {},
     received |-> now, lastSent |-> 0, transaction |-> 0]

\* A new item at its destination is forgotten if its signature is not good or
\* the receipt cannot be signed; the mutant lacks that early return.
DroppedMutant(outcome) == FALSE

Dropped(outcome) == outcome = "unverified"

\* handleIncomingDataItem().  For a new item at its destination the outcome is
\* "unverified" (bad signature, or the receipt cannot be signed: dropped),
\* "undecryptable" (stored, but the return comes before the save request),
\* "refused" (acceptDataFromPeer() says no) or "delivered".  A receipt is kept
\* and will be sent in the last three cases.  The mutex is free between the
\* look-up and the store; a cancel() there leaves the same state as one before
\* the look-up.
HandleIncomingDataItem(n, outcome) ==
    LET m == Head(incoming[n]).item.id
        first == n = Dest[m] /\ ~Holds(n, m)
        info == IF Holds(n, m) THEN pending[n][m] ELSE NewEntry(n = Dest[m])
    IN
    /\ phase[n] = "incoming" /\ incoming[n] # <<>>
    /\ Head(incoming[n]).item.type = "data"
    /\ ~first => outcome = "refused"     \* not asked for
    /\ incoming' = [incoming EXCEPT ![n] = Tail(@)]
    /\ IF Dropped(outcome)
       THEN UNCHANGED <<pending, handled, delivered, dirty>>
       ELSE /\ pending' = [pending EXCEPT ![n][m] =
                 [info EXCEPT !.routes = @ \cup {Head(incoming[n]).from}]]
            /\ handled' = IF first /\ outcome # "unverified"
                          THEN handled \cup {m} ELSE handled
            /\ delivered' = IF outcome = "delivered"
                            THEN [delivered EXCEPT ![m] = @ + 1]
                            ELSE delivered
            /\ dirty' = IF outcome = "undecryptable" THEN dirty
                                                     ELSE Dirty(n)
    /\ UNCHANGED <<now, phase, clues, up, net, saved, requests, told, faults>>

\* What a receipt makes of an entry; the mutant forgets that the origin is done.
WithReceiptMutant(e) ==
    IF e.role = "origin" THEN e
    ELSE [e EXCEPT !.status = "RECEIPT_OK", !.receipt = TRUE]

WithReceipt(e) ==
    IF e.role = "origin" THEN [e EXCEPT !.status = "DONE"]
    ELSE [e EXCEPT !.status = "RECEIPT_OK", !.receipt = TRUE]

\* handleIncomingReceiptItem().  The check of the signature decides whether the
\* receipt is accepted: it has to succeed at the origin, while a relay also takes
\* a receipt whose key it does not have.
HandleIncomingReceiptItem(n, accepted) ==
    LET m == Head(incoming[n]).item.id
        p == Head(incoming[n]).from
        atOrigin == pending[n][m].role = "origin"
        taken == Holds(n, m) /\ accepted
    IN
    /\ phase[n] = "incoming" /\ incoming[n] # <<>>
    /\ Head(incoming[n]).item.type = "receipt"
    /\ incoming' = [incoming EXCEPT ![n] = Tail(@)]
    /\ IF taken
       THEN /\ pending' = [pending EXCEPT ![n][m] = WithReceipt(@)]
            /\ told' = IF atOrigin THEN told \cup {<<n, m, "RECEIVED">>}
                                   ELSE told
            /\ clues' = IF p[1] = "friend"
                        THEN [clues EXCEPT ![n][Dest[m]] = @ \cup {p[2]}]
                        ELSE clues
            /\ dirty' = Dirty(n)
       ELSE UNCHANGED <<pending, told, clues, dirty>>
    /\ UNCHANGED <<now, phase, up, net, saved, requests, handled, delivered,
                   faults>>

-----------------------------------------------------------------------------
(* routePendingObjects() *)

\* The friends whose routing probability is not below half of the best one:
\* any of those the clues point to, or everybody when there is no clue or the
\* clues are too old to count.
Favoured(n, d) == {Friends[n]} \cup (SUBSET clues[n][d] \ {{}})

\* locked_collectAvailableFriends(), for one set of favoured friends: those who
\* are connected and did not bring the message, at most MaxBranching of them
\* (fewer if the duplication factor is used up, but never none).
FriendHops(n, e, favoured) ==
    LET candidates == {f \in favoured : /\ <<"friend", n, f>> \in up
                                        /\ <<"friend", f>> \notin e.routes}
    IN  IF candidates = {} THEN {{}}
        ELSE {{"friend"} \X F :
                F \in {G \in SUBSET candidates \ {{}} :
                          Cardinality(G) <= MaxBranching}}

\* locked_collectAvailableTunnels(): a tunnel that is up may still be waiting
\* for its stabilisation delay.
TunnelHops(n, d, e) ==
    IF e.allowTunnels /\ <<"out", n, d>> \in up THEN {{<<"out", d>>}} ELSE {}

\* The sets of peers that a message may be sent to in this round.
Hops(n, m) ==
    LET e == pending[n][m] IN
    IF Holds(n, m) /\ e.status = "PENDING"
    THEN TunnelHops(n, Dest[m], e) \cup
         UNION {FriendHops(n, e, F) : F \in Favoured(n, Dest[m])}
    ELSE {{}}

\* What the round does to the status of an entry whose data goes to hops.
Routed(e, hops) ==
    CASE e.status = "PENDING" /\ hops # {} ->
            [e EXCEPT !.status = "ONGOING", !.transaction = now]
      [] e.status = "PENDING" /\ hops = {} ->
            [e EXCEPT !.allowTunnels = @ \/ e.received + FriendTry < now]
      [] e.status = "ONGOING" /\ now > AckWait + e.transaction ->
            [e EXCEPT !.status = "PENDING"]
      [] e.status = "SENT" /\ e.role = "origin"
                           /\ e.lastSent + ResendDelay < now ->
            [e EXCEPT !.status = "PENDING"]
      [] e.status = "SENT" /\ ~(e.role = "origin"
                                /\ e.lastSent + ResendDelay < now) ->
            [e EXCEPT !.allowTunnels = FALSE]
      [] OTHER -> e

\* The incoming routes on which the receipt goes back now.  An item that has
\* just entered a tunnel is done for this round.
Answered(n, e, hops) ==
    IF e.receipt /\ ~\E d \in Node : <<"out", d>> \in hops
    THEN {p \in e.routes : To(n, p) \in up} ELSE {}

\* A route is struck off when the receipt is sent on it, without waiting for
\* an acknowledgement; the entry is finished when none is left.  The mutant
\* does not notice that it was the last one.
StruckMutant(e, answered) == [e EXCEPT !.routes = @ \ answered]

Struck(e, answered) ==
    [e EXCEPT !.routes = @ \ answered,
              !.status = IF answered # {} /\ e.routes = answered
                         THEN "DONE" ELSE @]

RoutePendingObjects(n) ==
    \E hops \in [Msg -> UNION {Hops(n, m) : m \in Msg}] :
        LET held == {m \in Msg : Holds(n, m)}
            answered(m) == Answered(n, pending[n][m], hops[m])
            sent(p) == {Data(m) : m \in {k \in held : p \in hops[k]}} \cup
                       {Receipt(m) : m \in {k \in held : p \in answered(k)}}
        IN
        /\ phase[n] = "incoming" /\ incoming[n] = <<>>
        /\ \A m \in Msg : hops[m] \in Hops(n, m)
        /\ pending' = [pending EXCEPT ![n] = [m \in Msg |->
             IF m \in held
             THEN Struck(Routed(pending[n][m], hops[m]), answered(m))
             ELSE None]]
        /\ net' = Sending(n, [p \in Peer |-> sent(p)])
        /\ dirty' = IF \E p \in Peer : sent(p) # {} THEN Dirty(n)
                                                    ELSE dirty
        /\ phase' = [phase EXCEPT ![n] = "wash"]
        /\ UNCHANGED <<now, incoming, clues, up, saved, history, faults>>
-----------------------------------------------------------------------------
(* autoWash() *)

\* Mutants: the destination forgets the message with the receipt, or a moment
\* too early; a message that was sent is kept for ever.
ExpiredForgetful(e) ==
    CASE e.status = "DONE" -> TRUE
      [] e.status = "RECEIPT_OK" -> e.received + DestKeep < now
      [] OTHER -> e.received + CacheKeep < now

ExpiredEarly(e) ==
    CASE e.status = "DONE" -> \/ e.role # "destination"
                              \/ e.received + DestKeep <= now
      [] e.status = "RECEIPT_OK" -> e.received + DestKeep <= now
      [] OTHER -> e.received + CacheKeep < now

ExpiredKeepsSent(e) ==
    CASE e.status = "DONE" -> \/ e.role # "destination"
                              \/ e.received + DestKeep < now
      [] e.status = "RECEIPT_OK" -> e.received + DestKeep < now
      [] OTHER -> e.status # "SENT" /\ e.received + CacheKeep < now

\* How long an entry is kept depends on its status and, once it is DONE, on
\* where it is.
Expired(e) ==
    CASE e.status = "DONE" -> \/ e.role # "destination"
                              \/ e.received + DestKeep < now
      [] e.status = "RECEIPT_OK" -> e.received + DestKeep < now
      [] OTHER -> e.received + CacheKeep < now

\* Mutants: the client hears UNKNOWN; it hears nothing about a message that was
\* sent.
FailureNoticesUnknown(n, old) ==
    {<<n, m, "UNKNOWN">> : m \in {k \in old : pending[n][k].status # "DONE"}}

FailureNoticesUnlessSent(n, old) ==
    {<<n, m, "FAILED">> :
        m \in {k \in old : pending[n][k].status \notin {"DONE", "SENT"}}}

\* The local client of any expired entry that is not DONE is told FAILED,
\* whether or not the message was sent from here.
FailureNotices(n, old) ==
    {<<n, m, "FAILED">> : m \in {k \in old : pending[n][k].status # "DONE"}}

AutoWash(n) ==
    LET old == {m \in Msg : Holds(n, m) /\ Expired(pending[n][m])}
    IN
    /\ phase[n] = "wash"
    /\ pending' = [pending EXCEPT ![n] = [m \in Msg |->
                     IF m \in old THEN None ELSE pending[n][m]]]
    /\ told' = told \cup FailureNotices(n, old)
    /\ dirty' = IF old # {} THEN Dirty(n) ELSE dirty
    /\ phase' = [phase EXCEPT ![n] = "low"]
    /\ UNCHANGED <<now, incoming, clues, up, net, saved, requests, handled,
                   delivered, faults>>
-----------------------------------------------------------------------------
(* Configuration, restarts *)

\* saveList(): data_transaction_TS is not serialised.
SaveConfig(n) ==
    /\ phase[n] = "low" /\ n \in dirty
    /\ saved' = [saved EXCEPT ![n] =
         [pending |-> [m \in Msg |->
            IF Holds(n, m) THEN [pending[n][m] EXCEPT !.transaction = 0]
                           ELSE None],
          clues |-> clues[n]]]
    /\ dirty' = dirty \ {n}
    /\ UNCHANGED <<now, phase, pending, incoming, clues, up, net, history,
                   faults>>

\* After a restart of x, tunnels from and to x get new virtual peer ids.
Outdated(n, x, p) ==
    IF p[1] \in {"in", "out"} /\ (n = x \/ p[2] = x) THEN <<"dead", p[2]>>
                                                     ELSE p

\* x crashes and restarts: loadList() brings back what was last saved.
Crash(x) ==
    /\ crashes < MaxCrashes
    /\ crashes' = crashes + 1
    /\ pending' = [n \in Node |-> [m \in Msg |->
         LET e == IF n = x THEN saved[x].pending[m] ELSE pending[n][m]
         IN  IF e = None THEN None
             ELSE [e EXCEPT !.routes = {Outdated(n, x, p) : p \in @}]]]
    /\ incoming' = [n \in Node |->
         IF n = x THEN <<>>
         ELSE [i \in DOMAIN incoming[n] |->
                 [incoming[n][i] EXCEPT !.from = Outdated(n, x, @)]]]
    /\ clues' = [clues EXCEPT ![x] = saved[x].clues]
    /\ dirty' = dirty \ {x}
    /\ phase' = [phase EXCEPT ![x] = "low"]
    /\ up' = {l \in up : x \notin {l[2], l[3]}}
    /\ net' = [l \in Link |-> IF x \in {l[2], l[3]} THEN NoItems ELSE net[l]]
    /\ UNCHANGED <<now, saved, history, downs>>
-----------------------------------------------------------------------------
(* Friend connections and tunnels *)

Lost(links) == [l \in Link |-> IF l \in links THEN NoItems ELSE net[l]]

\* n holds a message for d that waits for a tunnel.
WantsTunnel(n, m) ==
    Holds(n, m) /\ pending[n][m].status = "PENDING" /\ pending[n][m].allowTunnels

LinkUp(l) ==
    /\ l \in Link \ up
    /\ \/ l[1] = "friend"
       \/ l[1] = "out" /\ \E m \in Msg : Dest[m] = l[3] /\ WantsTunnel(l[2], m)
    /\ up' = up \cup {l, Reverse(l)}
    /\ UNCHANGED <<now, phase, pending, incoming, clues, net, saved, dirty,
                   history, faults>>

\* A connection breaks: what is under way is lost.
LinkDown(l) ==
    /\ l \in Carrying
    /\ downs < MaxDowns
    /\ downs' = downs + 1
    /\ up' = up \ {l, Reverse(l)}
    /\ net' = Lost({l, Reverse(l)})
    /\ UNCHANGED <<now, phase, pending, incoming, clues, saved, dirty,
                   history, crashes>>

\* handleTunnels() stops monitoring the tunnels of every message that is not
\* waiting for one, and the turtle router then closes them at this end, as it
\* closes a tunnel that nobody uses any more.
CloseTunnel(l) ==
    /\ l \in up /\ l[1] = "out"
    /\ LET held == {m \in Msg : Dest[m] = l[3] /\ Holds(l[2], m)}
       IN  held = {} \/ \E m \in held : ~WantsTunnel(l[2], m)
    /\ up' = up \ {l}
    /\ net' = Lost({Reverse(l)})
    /\ UNCHANGED <<now, phase, pending, incoming, clues, saved, dirty,
                   history, faults>>

\* The far end of a closed tunnel goes when it has been idle for too long.
IdleTunnel(l) ==
    /\ l \in up /\ l[1] = "in" /\ Reverse(l) \notin up
    /\ up' = up \ {l}
    /\ net' = Lost({Reverse(l)})
    /\ UNCHANGED <<now, phase, pending, incoming, clues, saved, dirty,
                   history, faults>>

Clock ==
    /\ now < MaxTime
    /\ now' = now + 1
    /\ UNCHANGED <<phase, pending, incoming, clues, up, net, saved, dirty,
                   history, faults>>
-----------------------------------------------------------------------------
Client == \E m \in Msg : SendData(m) \/ Cancel(m)

Receive(l) ==
    \/ \E m \in Msg : ReceiveAck(l, m)
    \/ \E item \in Item : ReceiveItem(l, item)

HandleIncoming(n) ==
    \/ \E outcome \in {"unverified", "undecryptable", "refused", "delivered"} :
          HandleIncomingDataItem(n, outcome)
    \/ \E accepted \in BOOLEAN : HandleIncomingReceiptItem(n, accepted)

\* The parts of tick() after handleLowLevelServiceItems().
Tick(n) ==
    \/ LowLevelDone(n) \/ IdleTick(n)
    \/ HandleIncoming(n)
    \/ RoutePendingObjects(n)
    \/ AutoWash(n)

Next ==
    \/ Client
    \/ \E n, d, f \in Node : AddRoutingClue(n, d, f)
    \/ \E n \in Node : Tick(n) \/ SaveConfig(n) \/ Crash(n)
    \/ \E l \in Link : \/ Receive(l) \/ LinkUp(l) \/ LinkDown(l)
                       \/ CloseTunnel(l) \/ IdleTunnel(l)
    \/ Clock

Spec == Init /\ [][Next]_vars

\* The data thread of a running node never stops ticking, and time passes.
FairSpec ==
    /\ Spec
    /\ \A n \in Node : WF_vars(Tick(n))
    /\ WF_vars(Clock)
-----------------------------------------------------------------------------
(* Properties *)

Slot == Entry \cup {None}
QueuedItem == [item : Item, from : Peer]
Caches == [Node -> [Msg -> Slot]]
Queues == [Node -> Seq(QueuedItem)]
Matrices == [Node -> [Node -> SUBSET Node]]
Channels == [Link -> [Item -> Nat]]
Files == [Node -> [pending : [Msg -> Slot], clues : [Node -> SUBSET Node]]]
Phases == [Node -> {"low", "incoming", "wash"}]
Notices == Node \X Msg \X {"RECEIVED", "FAILED"}

\* Every variable has its type; queued items name the peer that sent them.
TypeOK ==
    /\ now \in Nat /\ phase \in Phases
    /\ pending \in Caches /\ incoming \in Queues /\ clues \in Matrices
    /\ up \subseteq Link /\ net \in Channels
    /\ saved \in Files /\ dirty \subseteq Node
    /\ issued \subseteq Msg /\ cancelled \subseteq Msg /\ handled \subseteq Msg
    /\ delivered \in [Msg -> Nat] /\ told \subseteq Notices
    /\ downs \in Nat /\ crashes \in Nat

\* An item under way belongs to a message that was sent, and a receipt to one
\* that its destination handled.
ItemGenuine(i) == i.id \in issued /\ (i.type = "receipt" => i.id \in handled)

\* An entry of n for m, in memory or in the configuration file.
EntryGenuine(n, m, e) ==
    e # None => /\ m \in issued
                /\ e.role = "origin" => n = Origin[m]
                /\ e.receipt => m \in handled

LinksGenuine == \A l \in Link, i \in Item : net[l][i] > 0 => ItemGenuine(i)

QueuesGenuine ==
    \A n \in Node : \A k \in DOMAIN incoming[n] :
        ItemGenuine(incoming[n][k].item)

CachesGenuine == \A n \in Node, m \in Msg : EntryGenuine(n, m, pending[n][m])

FilesGenuine ==
    \A n \in Node, m \in Msg : EntryGenuine(n, m, saved[n].pending[m])

\* Where things come from: every item in a channel or a queue, and every entry,
\* live or saved, descends from a sendData(), and every receipt from a message
\* that its destination handled.
Provenance ==
    LinksGenuine /\ QueuesGenuine /\ CachesGenuine /\ FilesGenuine

\* notifyDataStatus(RECEIVED) is only called at the node that sent the message,
\* and only after the destination signed a receipt for it: no stale, duplicated
\* or misdirected receipt, and no restart, makes the origin believe in a
\* delivery that did not happen.
ReceiptSound ==
    \A n \in Node, m \in Msg :
        <<n, m, "RECEIVED">> \in told => n = Origin[m] /\ m \in handled

\* A message that sendData() accepted is never just forgotten: until the client
\* cancels it or is told RECEIVED or FAILED, it is in the cache of the origin as
\* its own message (as long as no node loses unsaved state in a crash).
NoSilentLoss ==
    \A m \in issued :
        \/ crashes > 0 \/ m \in cancelled
        \/ \E v \in {"RECEIVED", "FAILED"} : <<Origin[m], m, v>> \in told
        \/ Holds(Origin[m], m) /\ pending[Origin[m]][m].role = "origin"

\* The entry kept at the destination makes copies harmless: the client sees the
\* message once, and once more at most for each crash, however often the data
\* is re-sent, duplicated over friends and tunnels, or acknowledged late.  This
\* cannot be promised for copies older than MAX_DESTINATION_KEEP_TIME.
DeliveredOnce ==
    now <= StartTime + DestKeep => \A m \in Msg : delivered[m] <= 1 + crashes

\* An entry that keeps a receipt for delivery still knows an incoming route to
\* deliver it on; otherwise it would occupy the cache for DestKeep for nothing.
ReceiptHasRoute ==
    \A n \in Node, m \in Msg :
        Holds(n, m) /\ pending[n][m].status = "RECEIPT_OK" =>
            pending[n][m].receipt /\ pending[n][m].routes # {}

\* Friend a is the only way from the nodes in S to those outside, and b the first
\* of these.
Bridge(S, a, b) ==
    /\ a \in S /\ b \notin S
    /\ \A x \in S, y \in Node \ S : y \in Friends[x] => x = a /\ y = b

\* No item can go round in the network of friends.
NoCycles == \A a \in Node : \A b \in Friends[a] : \E S \in SUBSET Node : Bridge(S, a, b)

\* The client that sent a message is told one of RECEIVED and FAILED, not both,
\* as long as no node crashes and friends form no cycle: the origin could store a
\* message that comes back to it as one to relay.
OneVerdict ==
    \A m \in Msg : ~ {<<Origin[m], m, "RECEIVED">>,
                      <<Origin[m], m, "FAILED">>} \subseteq told

\* Once a node knows the receipt of a message it never sends the data again: no
\* step but a restart brings the status back to PENDING, ONGOING or SENT.
NoReroute ==
    [][\A n \in Node, m \in Msg :
         /\ Holds(n, m) /\ pending[n][m].status \in {"RECEIPT_OK", "DONE"}
         /\ Holds(n, m)' /\ crashes' = crashes
         => pending'[n][m].status \in {"RECEIPT_OK", "DONE"}]_vars

\* groutertypes.h, MAX_DELAY_FOR_RESEND: "re-send if held for more than 2 days
\* (cache store period) plus security delay": the origin does not give up on a
\* message that was sent before the time to re-send it has come.
ResendBeforeGivingUp ==
    [][\A m \in Msg :
         LET n == Origin[m] IN
         /\ Holds(n, m) /\ pending[n][m].role = "origin"
         /\ pending[n][m].status = "SENT"
         /\ <<n, m, "FAILED">> \in told' \ told
         => pending[n][m].lastSent + ResendDelay < now]_vars

\* Whatever links and tunnels do, the client hears about each message in the
\* end, unless it cancels it or a crash comes in between.
EveryMessageSettled ==
    \A m \in Msg :
        m \in issued ~> \/ m \in cancelled \/ crashes > 0
                        \/ \E v \in {"RECEIVED", "FAILED"} :
                              <<Origin[m], m, v>> \in told

\* The network of routers, crashes and all, behaves towards a client as
\* GRouterService says.
Verdicts == {p \in Msg \X {"RECEIVED", "FAILED"} :
                <<Origin[p[1]], p[1], p[2]>> \in told}

Service == INSTANCE GRouterService WITH verdicts <- Verdicts

ImplementsService == Service!Spec
=============================================================================
