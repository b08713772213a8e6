---------------------------- MODULE VirtualPeers ----------------------------
(***************************************************************************)
(* What the turtle router promises to its services (RsTurtleClientService  *)
(* of turtle/turtleclientservice.h), without the network under it: floods, *)
(* caches, routes through friends and the tables of tunnels.               *)
(*                                                                         *)
(* A service that asks for a hash is told of virtual peers, one for each   *)
(* tunnel to somebody who has the file; so is the service that has it.     *)
(* Each can send to the peer it was told of.  What is sent comes out at    *)
(* the other end, once, or is lost; nothing else ever comes out.           *)
(***************************************************************************)
EXTENDS Sequences, SequencesExt

CONSTANTS Node, Hash, Client, Provider

VARIABLES
    peers,      \* the tunnels that the services of a node were told of
    requests,   \* tunnels with a request for data on its way
    owed,       \* tunnels with a request that waits for an answer
    answers     \* tunnels with an answer on its way

vars == <<peers, requests, owed, answers>>

Init == /\ peers = [n \in Node |-> {}]
        /\ requests = {} /\ owed = {} /\ answers = {}

\* A tunnel joins a client of a file hash to somebody who has the file.
Joins(t) == \E h \in Hash : Head(t) = Client[h] /\ Last(t) \in Provider[h]

\* addVirtualPeer() of the service at one end
AddVirtualPeer(n, t) ==
    /\ Joins(t) /\ n \in {Head(t), Last(t)}
    /\ peers' = [peers EXCEPT ![n] = @ \cup {t}]
    /\ UNCHANGED <<requests, owed, answers>>

\* removeVirtualPeer(): at one end only, the other learns of it later if at all.
RemoveVirtualPeers(n, gone) ==
    /\ peers' = [peers EXCEPT ![n] = @ \ gone]
    /\ UNCHANGED <<requests, owed, answers>>

\* The client asks for one thing at a time.
Ask(t) == /\ t \in peers[Head(t)]
          /\ t \notin requests \cup owed \cup answers
          /\ requests' = requests \cup {t}
          /\ UNCHANGED <<peers, owed, answers>>

\* receiveTurtleData() at the end that has the file
ReceiveRequest(t) == /\ t \in requests /\ t \in peers[Last(t)]
                     /\ requests' = requests \ {t}
                     /\ owed' = owed \cup {t}
                     /\ UNCHANGED <<peers, answers>>

\* It answers once.
Answer(t) == /\ t \in owed /\ t \in peers[Last(t)]
             /\ owed' = owed \ {t}
             /\ answers' = answers \cup {t}
             /\ UNCHANGED <<peers, requests>>

LoseRequest(t) == requests' = requests \ {t} /\ UNCHANGED <<peers, owed, answers>>

\* The answer arrives or is lost.
EndAnswer(t) == answers' = answers \ {t} /\ UNCHANGED <<peers, requests, owed>>

\* A new peer is one that is there afterwards.
Next == \/ \E n \in Node : \/ \E t \in peers'[n] : AddVirtualPeer(n, t)
                           \/ \E gone \in SUBSET peers[n] : RemoveVirtualPeers(n, gone)
                           \/ \E t \in peers[n] : Ask(t)
        \/ \E t \in requests : ReceiveRequest(t) \/ LoseRequest(t)
        \/ \E t \in owed : Answer(t)
        \/ \E t \in answers : EndAnswer(t)

Spec == Init /\ [][Next]_vars
=============================================================================
