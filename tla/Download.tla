------------------------------ MODULE Download ------------------------------
(***************************************************************************)
(* What a download promises (the chunk states of retroshare/rstypes.h and  *)
(* the file that ftController delivers), without the tables behind it:     *)
(* which data is asked of whom, slices, parts, feeds, counters, packets    *)
(* and checksums on their way.                                             *)
(*                                                                         *)
(* Data arrives in any order, is right or wrong, and may come again.  A    *)
(* chunk is collected when its last missing unit arrives, and counts as    *)
(* done only if it is right when it is checked.  When all chunks are done  *)
(* the file is verified, one unit after the other, while data goes on      *)
(* arriving: each unit was right at the time when it was read, but the     *)
(* file need not be right at any one time.  Only a verified file is        *)
(* delivered; from then on it does not change.                             *)
(***************************************************************************)
CONSTANTS Unit, Chunk,
          Pieces        \* the units of each chunk

VARIABLES
    content,    \* the partial file
    chunks,     \* missing (wholly or in part), checking or done
    saved,      \* chunks that are done in the saved transfer list
    stage,      \* loading, verifying, failed, verified or delivered
    read        \* while verifying: the units that were read, and were right

vars == <<content, chunks, saved, stage, read>>

Init == /\ content = [u \in Unit |-> "missing"]
        /\ chunks = [c \in Chunk |-> "missing"]
        /\ saved = {} /\ stage = "loading" /\ read = {}

AllDone == \A c \in Chunk : chunks[c] = "done"

\* The only chunk of a file is not checked by itself.
Collected == IF \A c, d \in Chunk : c = d THEN "done" ELSE "checking"

\* Unit u of chunk c arrives.
Receive(c, u) ==
    /\ stage # "delivered"
    /\ \E data \in {"right", "wrong"} : content' = [content EXCEPT ![u] = data]
    /\ \/ UNCHANGED chunks
       \/ /\ chunks[c] = "missing"
          /\ \A x \in Pieces[c] : content'[x] # "missing"
          /\ chunks' = [chunks EXCEPT ![c] = Collected]
    /\ UNCHANGED <<saved, stage, read>>

\* Chunk c is checked.  A wrong checksum makes right data look wrong.
Check(c) ==
    /\ chunks[c] = "checking"
    /\ \/ /\ \A x \in Pieces[c] : content[x] = "right"
          /\ chunks' = [chunks EXCEPT ![c] = "done"]
       \/ chunks' = [chunks EXCEPT ![c] = "missing"]
    /\ UNCHANGED <<content, saved, stage, read>>

\* The file is read, and all of it was right, or every chunk is checked again.
Start == /\ stage = "loading" /\ AllDone
         /\ stage' = "verifying"
         /\ UNCHANGED <<content, chunks, saved, read>>

Read(u) ==
    /\ stage = "verifying" /\ u \notin read
    /\ IF content[u] = "right" THEN read' = read \cup {u} /\ UNCHANGED stage
       ELSE read' = {} /\ stage' = "failed"
    /\ UNCHANGED <<content, chunks, saved>>

Verify == /\ stage = "verifying" /\ read = Unit
          /\ stage' = "verified" /\ read' = {}
          /\ UNCHANGED <<content, chunks, saved>>

Recheck == /\ stage = "failed"
           /\ chunks' = [c \in Chunk |-> "checking"]
           /\ stage' = "loading"
           /\ UNCHANGED <<content, saved, read>>

Deliver == /\ stage = "verified" /\ AllDone
           /\ stage' = "delivered"
           /\ UNCHANGED <<content, chunks, saved, read>>

Save == /\ stage # "delivered"
        /\ saved' = {c \in Chunk : chunks[c] = "done"}
        /\ UNCHANGED <<content, chunks, stage, read>>

\* The program starts again, with the file and the list that it left.
Restart == /\ stage # "delivered"
           /\ chunks' = [c \in Chunk |-> IF c \in saved THEN "done" ELSE "missing"]
           /\ stage' = "loading" /\ read' = {}
           /\ UNCHANGED <<content, saved>>

Next == \/ \E c \in Chunk : Check(c) \/ \E u \in Pieces[c] : Receive(c, u)
        \/ Start \/ (\E u \in Unit : Read(u)) \/ Verify \/ Recheck
        \/ Deliver \/ Save \/ Restart

Spec == Init /\ [][Next]_vars
=============================================================================
