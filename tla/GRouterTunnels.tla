--------------------------- MODULE GRouterTunnels ---------------------------
(***************************************************************************)
(* How one node asks for tunnels: p3GRouter::handleTunnels() decides for   *)
(* each cached message whether it wants a tunnel to its destination, the   *)
(* turtle router digs tunnels for the hashes it monitors, and tells the    *)
(* global router of each virtual peer that appears or goes.                *)
(*                                                                         *)
(* Messages to one service of one identity share a tunnel hash.  One       *)
(* thread runs p3GRouter::tick() and p3turtle::tick() in turn; sendData()  *)
(* and cancel() come from other threads, between the parts of a tick, also *)
(* while the global router hears of closed tunnels: one call for each,     *)
(* after the mutex of the turtle router is released.                       *)
(*                                                                         *)
(* Abstractions.  Whether friends can take a message, whether it is        *)
(* acknowledged, answered or expires, is left open (GRouter has all that). *)
(* Ages replace time stamps, and stop growing where they stop to matter.   *)
(* Tunnels that others open to this node are left out.  So is the re-send  *)
(* of a SENT message, which autoWash() forestalls (see GRouter).           *)
(***************************************************************************)
EXTENDS Integers, FiniteSets

CONSTANTS
    Msg,            \* propagation ids
    Hash,           \* tunnel hashes
    HashOf,         \* Msg -> Hash: makeTunnelHash()
    Vpid,           \* virtual peer ids: the tunnels that can be found
    TunnelWait,     \* MAX_TUNNEL_WAIT_TIME
    Unmanaged,      \* MAX_TUNNEL_UNMANAGED_TIME
    OkWait,         \* TUNNEL_OK_WAIT_TIME
    IdleTime        \* MAXIMUM_TUNNEL_IDLE_TIME of the turtle router

ASSUME HashesAssumption == HashOf \in [Msg -> Hash]

ASSUME TunnelDelaysAssumption ==
    /\ {TunnelWait, Unmanaged, OkWait, IdleTime} \subseteq Nat
    /\ TunnelWait < Unmanaged /\ OkWait < IdleTime

VARIABLES
    turn,       \* the part of the thread's loop that runs next
    entry,      \* Msg -> Entry or None: _pending_messages
    issued,     \* messages passed to sendData()
    known,      \* Hash -> virtual peers of _tunnels[hash]
    sinceOk,    \* Hash -> age of last_tunnel_ok_TS
    monitored,  \* hashes of _incoming_file_hashes
    toRemove,   \* _hashes_to_remove
    tunnels,    \* Hash -> open tunnels: _local_tunnels
    leaving,    \* Hash -> closed tunnels: services_vpids_to_remove
    responses   \* Hash -> tunnels that the last search for it has found

vars == <<turn, entry, issued, known, sinceOk, monitored, toRemove, tunnels,
          leaving, responses>>

turtle == <<monitored, toRemove, tunnels, leaving, responses>>

None == [status |-> "NONE"]

Entry == [status : {"PENDING", "ONGOING", "SENT"},            \* data_status
          allowTunnels : BOOLEAN,                             \* routing_flags
          tunnel : {"UNMANAGED", "PENDING", "READY"},         \* tunnel_status
          age : 0 .. Unmanaged + 1]                \* of last_tunnel_request_TS

Held == {m \in Msg : entry[m] # None}
HeldFor(h) == {m \in Held : HashOf[m] = h}
HashesOf(M) == {HashOf[m] : m \in M}

\* The messages that handleTunnels() keeps a request open for.
Waiting == {m \in Held : entry[m].status = "PENDING" /\ entry[m].allowTunnels}

Init ==
    /\ turn = "route"
    /\ entry = [m \in Msg |-> None]
    /\ issued = {}
    /\ known = [h \in Hash |-> {}]
    /\ sinceOk = [h \in Hash |-> 0]
    /\ monitored = {} /\ toRemove = {}
    /\ tunnels = [h \in Hash |-> {}] /\ leaving = [h \in Hash |-> {}]
    /\ responses = [h \in Hash |-> {}]
-----------------------------------------------------------------------------
(* Other threads *)

SendData(m) ==
    /\ m \notin issued
    /\ issued' = issued \cup {m}
    /\ entry' = [entry EXCEPT ![m] =
                   [status |-> "PENDING", allowTunnels |-> FALSE,
                    tunnel |-> "UNMANAGED", age |-> Unmanaged + 1]]
    /\ UNCHANGED <<turn, known, sinceOk, turtle>>

\* cancel() forgets the message; nobody tells the turtle router.
Cancel(m) ==
    /\ m \in Held
    /\ entry' = [entry EXCEPT ![m] = None]
    /\ UNCHANGED <<turn, issued, known, sinceOk, turtle>>
-----------------------------------------------------------------------------
(* p3GRouter::tick() up to autoWash() *)

\* locked_collectAvailableTunnels(): a tunnel that came up a moment ago is left
\* alone for a while.
Usable(h) == known[h] # {} /\ sinceOk[h] >= OkWait

\* What acknowledgements, routePendingObjects() and autoWash() may make of an
\* entry: a message that may use tunnels and has one is always sent.
Routings(m) ==
    LET e == entry[m] IN
    CASE m \in Waiting /\ Usable(HashOf[m]) -> {[e EXCEPT !.status = "ONGOING"]}
      [] e.status = "PENDING" /\ ~(m \in Waiting /\ Usable(HashOf[m])) ->
            {e, [e EXCEPT !.status = "ONGOING"],
                [e EXCEPT !.allowTunnels = TRUE], None}
      [] e.status = "ONGOING" ->
            {e, [e EXCEPT !.status = "PENDING"], [e EXCEPT !.status = "SENT"],
                None}
      [] e.status = "SENT" -> {[e EXCEPT !.allowTunnels = FALSE], None}
      [] OTHER -> {None}

\* autoWash() also drops virtual peers that the turtle router does not know.
Route ==
    /\ turn = "route"
    /\ turn' = "tunnels"
    /\ entry' \in {f \in [Msg -> UNION {Routings(m) : m \in Msg}] :
                     \A m \in Msg : f[m] \in Routings(m)}
    /\ known' = [h \in Hash |-> known[h] \cap tunnels[h]]
    /\ UNCHANGED <<issued, sinceOk, turtle>>
-----------------------------------------------------------------------------
(* handleTunnels() *)

\* The messages that a tunnel is asked for, and those whose search took too
\* long.  The mutant waits for an answer for ever.
Asking == {m \in Waiting : entry[m].tunnel = "UNMANAGED"
                           /\ entry[m].age > Unmanaged}
GivingUpMutant == {}
GivingUp == {m \in Waiting : entry[m].tunnel = "PENDING"
                             /\ entry[m].age > TunnelWait}

\* stopMonitoringTunnels() only makes a note for the next clean-up.
StopMonitoringTunnels(H) == toRemove \cup H

\* monitorTunnels(), which also takes back what the former did.
MonitorTunnels(H, stopped) ==
    /\ toRemove' = stopped \ H
    /\ monitored' = monitored \cup H

\* Requests are withdrawn for every message that waits no longer, in a first
\* pass over the cache, then made for those that ask.
HandleTunnels ==
    /\ turn = "tunnels"
    /\ turn' = "turtle"
    /\ MonitorTunnels(HashesOf(Asking),
           StopMonitoringTunnels(HashesOf(GivingUp \cup (Held \ Waiting))))
    /\ entry' = [m \in Msg |->
         CASE m \in Asking ->
                [entry[m] EXCEPT !.tunnel = "PENDING", !.age = 0]
           [] m \in GivingUp \cup (Held \ Waiting) ->
                [entry[m] EXCEPT !.tunnel = "UNMANAGED"]
           [] OTHER -> entry[m]]
    /\ UNCHANGED <<issued, known, sinceOk, tunnels, leaving, responses>>
-----------------------------------------------------------------------------
(* p3turtle::tick() and its call-backs *)

\* manageTunnels(): without the aggressive mode, a hash is only searched for
\* while it has no tunnel.
Digging(h) == h \in monitored /\ tunnels[h] = {}

\* addVirtualPeer(): the global router only takes note of a tunnel that it has
\* a message for.  The mutant sets the wrong one of the two states.
AddVirtualPeerMutant(h, v) ==
    IF HeldFor(h) = {}
    THEN UNCHANGED <<entry, known, sinceOk>>
    ELSE /\ entry' = [m \in Msg |->
              IF m \in HeldFor(h) THEN [entry[m] EXCEPT !.status = "READY"]
                                  ELSE entry[m]]
         /\ known' = [known EXCEPT ![h] = @ \cup {v}]
         /\ sinceOk' = [sinceOk EXCEPT ![h] = 0]

AddVirtualPeer(h, v) ==
    IF HeldFor(h) = {}
    THEN UNCHANGED <<entry, known, sinceOk>>
    ELSE /\ entry' = [m \in Msg |->
              IF m \in HeldFor(h) THEN [entry[m] EXCEPT !.tunnel = "READY"]
                                  ELSE entry[m]]
         /\ known' = [known EXCEPT ![h] = @ \cup {v}]
         /\ sinceOk' = [sinceOk EXCEPT ![h] = 0]

\* handleTunnelResult(): the answer to a new search, or one more, at any later
\* time, to the last one.  Each tunnel answers a search once.
TunnelFound(h, v) ==
    /\ turn = "turtle"
    /\ h \in monitored
    /\ \/ Digging(h) /\ responses' = [responses EXCEPT ![h] = {v}]
       \/ /\ ~Digging(h) /\ v \notin responses[h]
          /\ responses' = [responses EXCEPT ![h] = @ \cup {v}]
    /\ \A g \in Hash : v \notin tunnels[g]
    /\ tunnels' = [tunnels EXCEPT ![h] = @ \cup {v}]
    /\ AddVirtualPeer(h, v)
    /\ UNCHANGED <<turn, issued, monitored, toRemove, leaving>>

\* The tunnels that autoWash() may find without traffic for too long: any, but
\* the last one that the global router knows only when it had time to use it.
MayBeIdle(h, V) ==
    /\ V \subseteq tunnels[h]
    /\ known[h] # {} /\ known[h] \subseteq V => sinceOk[h] >= IdleTime

Older(age, elapsed, last) ==
    IF age + elapsed > last THEN last ELSE age + elapsed

\* autoWash(), first part: the hashes that are not monitored any more.
Forgotten(washing) == IF washing THEN toRemove \cap monitored ELSE {}

\* locked_closeTunnel()
OpenAfter(h, closed) == tunnels[h] \ closed

\* While the global router has not heard of all that was closed, the thread is
\* in the last loop of autoWash().
NextTurn(left) == IF \E h \in Hash : left[h] # {} THEN "removal" ELSE "route"

\* The end of p3turtle::tick(), under the mutex.  autoWash(), when it is due,
\* closes the tunnels of the hashes that are not wanted any more and those that
\* are idle.  Time passes with the ticks, and a clean-up is due whenever it
\* does: the unit of time is TUNNEL_CLEANING_LAPS_TIME, the shortest of the
\* periods but OkWait.
TurtleTick(washing, elapsed) ==
    \E idle \in [Hash -> SUBSET Vpid] :
        LET closed == [h \in Hash |-> IF h \in Forgotten(washing)
                                      THEN tunnels[h] ELSE idle[h]]
        IN
        /\ turn = "turtle"
        /\ turn' = NextTurn(closed)
        /\ elapsed = 1 => washing
        /\ \A h \in Hash : IF washing THEN MayBeIdle(h, idle[h])
                                      ELSE idle[h] = {}
        /\ monitored' = monitored \ Forgotten(washing)
        /\ toRemove' = IF washing THEN {} ELSE toRemove
        /\ tunnels' = [h \in Hash |-> OpenAfter(h, closed[h])]
        /\ leaving' = closed
        /\ sinceOk' = [h \in Hash |-> Older(sinceOk[h], elapsed, IdleTime)]
        /\ entry' = [m \in Msg |->
             IF m \in Held
             THEN [entry[m] EXCEPT !.age = Older(@, elapsed, Unmanaged + 1)]
             ELSE None]
        /\ UNCHANGED <<issued, known, responses>>

\* removeVirtualPeer() takes a closed tunnel off the list, and messages left
\* without a tunnel wait again.  The mutants keep the list, the state of the
\* messages.
PeersAfterMutant(h, v) == known[h]

PeersAfter(h, v) == known[h] \ {v}

AfterRemovalMutant(m, h, v) == entry[m]

AfterRemoval(m, h, v) ==
    IF HashOf[m] = h /\ known[h] = {v}
    THEN [entry[m] EXCEPT !.tunnel = "PENDING"] ELSE entry[m]

\* One call of it, off the mutex of the turtle router.
RemoveVirtualPeer(h, v) ==
    /\ turn = "removal" /\ v \in leaving[h]
    /\ leaving' = [leaving EXCEPT ![h] = @ \ {v}]
    /\ turn' = NextTurn(leaving')
    /\ known' = [known EXCEPT ![h] = PeersAfter(h, v)]
    /\ entry' = [m \in Msg |->
                   IF m \in Held THEN AfterRemoval(m, h, v) ELSE None]
    /\ UNCHANGED <<issued, sinceOk, monitored, toRemove, tunnels, responses>>
-----------------------------------------------------------------------------
Next ==
    \/ \E m \in Msg : SendData(m) \/ Cancel(m)
    \/ Route
    \/ HandleTunnels
    \/ \E h \in Hash, v \in Vpid : TunnelFound(h, v)
    \/ \E washing \in BOOLEAN, elapsed \in {0, 1} : TurtleTick(washing, elapsed)
    \/ \E h \in Hash, v \in Vpid : RemoveVirtualPeer(h, v)

Spec == Init /\ [][Next]_vars

\* Within 48 hours a message is answered or too old for the cache.  This is only
\* relied on for messages that do not wait for a tunnel.
Expires(m) == Route /\ m \in Held \ Waiting /\ entry'[m] = None

\* The thread never stops, its clock runs, and a search that is tried again and
\* again, and not withdrawn, finds a tunnel.
FairSpec ==
    /\ Spec
    /\ WF_vars(Route) /\ WF_vars(HandleTunnels)
    /\ WF_vars(\E washing \in BOOLEAN, elapsed \in {0, 1} :
                  TurtleTick(washing, elapsed))
    /\ WF_vars(\E h \in Hash, v \in Vpid : RemoveVirtualPeer(h, v))
    /\ SF_vars(TurtleTick(TRUE, 1))
    /\ \A h \in Hash :
         SF_vars(/\ Digging(h) /\ h \notin toRemove
                 /\ \E v \in Vpid : TunnelFound(h, v))
    /\ \A m \in Msg : SF_vars(Expires(m))
-----------------------------------------------------------------------------
(* Properties *)

TypeOK ==
    /\ turn \in {"route", "tunnels", "turtle", "removal"}
    /\ entry \in [Msg -> Entry \cup {None}]
    /\ issued \subseteq Msg
    /\ known \in [Hash -> SUBSET Vpid]
    /\ tunnels \in [Hash -> SUBSET Vpid] /\ leaving \in [Hash -> SUBSET Vpid]
    /\ responses \in [Hash -> SUBSET Vpid]
    /\ sinceOk \in [Hash -> 0 .. IdleTime]
    /\ monitored \subseteq Hash /\ toRemove \subseteq Hash

\* Once the call-backs of a clean-up are done, the global router takes no tunnel
\* for open that the turtle router has closed, so routePendingObjects() sends
\* nothing into the void: messages that come and are cancelled between the
\* closing and the call-backs do not let the two lists part.
KnownTunnelsExist ==
    turn # "removal" => \A h \in Hash : known[h] \subseteq tunnels[h]

\* A message in state READY has a tunnel to go through: no order of tunnels that
\* come and go, of messages that share them and of clean-ups leaves it waiting
\* for nothing (handleTunnels() would never ask again).
ReadyHasTunnel ==
    \A m \in Held : entry[m].tunnel = "READY" => known[HashOf[m]] # {}

\* A message that may use tunnels does not wait for ever: the requests of other
\* messages with the same hash, withdrawn at the wrong moment, and tunnels that
\* nobody took note of only delay it.
WaitingServed == \A m \in Msg : m \in Waiting ~> m \notin Waiting

\* handleTunnels(): "This function is responsible for asking for tunnels, and
\* removing requests from the turtle router": when it is done, a hash is only
\* monitored, or about to be removed, if a message waits for it.
RequestsRemoved ==
    turn = "turtle" => monitored \ toRemove \subseteq HashesOf(Waiting)
=============================================================================
