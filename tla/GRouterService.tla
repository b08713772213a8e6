--------------------------- MODULE GRouterService ---------------------------
(***************************************************************************)
(* What the global router promises its clients (grouterclientservice.h,    *)
(* p3grouter.h): a message that was passed to sendData() may be accepted   *)
(* by its destination; only then may the sender hear RECEIVED.  The        *)
(* router may give up on messages at any time, and the sender may cancel.  *)
(***************************************************************************)
CONSTANTS Msg

VARIABLES
    issued,     \* messages passed to sendData()
    cancelled,  \* messages withdrawn with cancel()
    handled,    \* messages the destination signed a receipt for
    verdicts    \* <<message, status>>: what the sender was notified of

vars == <<issued, cancelled, handled, verdicts>>

Init == issued = {} /\ cancelled = {} /\ handled = {} /\ verdicts = {}

Send(m) ==
    /\ m \notin issued
    /\ issued' = issued \cup {m}
    /\ UNCHANGED <<cancelled, handled, verdicts>>

Cancel(m) ==
    /\ m \in issued
    /\ cancelled' = cancelled \cup {m}
    /\ UNCHANGED <<issued, handled, verdicts>>

Accept(m) ==
    /\ m \in issued
    /\ handled' = handled \cup {m}
    /\ UNCHANGED <<issued, cancelled, verdicts>>

Confirm(m) ==
    /\ m \in handled
    /\ verdicts' = verdicts \cup {<<m, "RECEIVED">>}
    /\ UNCHANGED <<issued, cancelled, handled>>

GiveUp(M) ==
    /\ M \subseteq issued
    /\ verdicts' = verdicts \cup (M \X {"FAILED"})
    /\ UNCHANGED <<issued, cancelled, handled>>

Next ==
    \/ \E m \in Msg : Send(m) \/ Cancel(m) \/ Accept(m) \/ Confirm(m)
    \/ \E M \in SUBSET Msg : GiveUp(M)

Spec == Init /\ [][Next]_vars
=============================================================================
