----------------------------- MODULE GRouterPipe -----------------------------
(***************************************************************************)
(* How an item of the global router crosses one link: sliceDataItem() cuts *)
(* it into chunks, and addDataChunk() joins what arrives from one peer, in *)
(* one buffer per peer and without looking at the propagation id.          *)
(*                                                                         *)
(* A friend connection or a tunnel keeps the order of the chunks, but may  *)
(* lose any run of them: those queued while the connection, or a hop of    *)
(* the tunnel, is down.  The buffer is not reset with the connection.      *)
(*                                                                         *)
(* Abstractions.  An item is its size in bytes; each time it is sent is a  *)
(* transmission of its own, numbered in order.  Chunks from sliceDataItem()*)
(* always pass the checks on sizes at the top of addDataChunk().           *)
(***************************************************************************)
EXTENDS Integers, Sequences, FiniteSets

CONSTANTS
    Sizes,              \* sizes of serialised items
    ChunkSize,          \* CHUNK_SIZE
    MaxTransmissions,   \* bound: how many items are sent
    MaxLosses,          \* bound: how many times a run of chunks is lost
    MaxWashes           \* bound: how many times the pipe is found inactive

ASSUME PipeAssumption ==
    /\ Sizes \subseteq Nat \ {0} /\ ChunkSize \in Nat \ {0}
    /\ {MaxTransmissions, MaxLosses, MaxWashes} \subseteq Nat

VARIABLES
    sent,       \* number of transmissions so far
    link,       \* the chunks under way
    buffer,     \* incoming_data_buffer, or NoBuffer
    out,        \* the items handed to _incoming_items: who contributed to each
    hit,        \* transmissions that lost a chunk
    over,       \* transmissions whose last chunk has arrived
    losses, washes

vars == <<sent, link, buffer, out, hit, over, losses, washes>>

Transmission == 1 .. MaxTransmissions

\* The data of a chunk is known by the transmission it belongs to.
Chunk == [of : Transmission, start : Nat, size : Nat \ {0}, total : Sizes]

NoBuffer == [from |-> {}, size |-> 0, total |-> 0]
Buffer == [from : SUBSET Transmission, size : Nat, total : Sizes \cup {0}]

Init ==
    /\ sent = 0 /\ link = <<>> /\ buffer = NoBuffer
    /\ out = {} /\ hit = {} /\ over = {}
    /\ losses = 0 /\ washes = 0
-----------------------------------------------------------------------------
(* The sender: sliceDataItem(), locked_sendToPeers() *)

\* The mutant gives the last chunk the length of the others.
ChunkLengthMutant(rest) == ChunkSize

ChunkLength(rest) == IF rest < ChunkSize THEN rest ELSE ChunkSize

Slice(t, total) ==
    [k \in 1 .. (total + ChunkSize - 1) \div ChunkSize |->
        LET offset == (k - 1) * ChunkSize IN
        [of |-> t, start |-> offset, size |-> ChunkLength(total - offset),
         total |-> total]]

\* All the chunks of an item are queued while the mutex is held.
Send(total) ==
    /\ sent < MaxTransmissions
    /\ sent' = sent + 1
    /\ link' = link \o Slice(sent + 1, total)
    /\ UNCHANGED <<buffer, out, hit, over, losses, washes>>

\* The connection, or a hop of the tunnel, is down for a while.
Lose(i, j) ==
    /\ losses < MaxLosses
    /\ losses' = losses + 1
    /\ link' = SubSeq(link, 1, i - 1) \o SubSeq(link, j + 1, Len(link))
    /\ hit' = hit \cup {link[k].of : k \in i .. j}
    /\ UNCHANGED <<sent, buffer, out, over, washes>>
-----------------------------------------------------------------------------
(* The receiver: addDataChunk() *)

Fits(c) ==
    IF buffer = NoBuffer THEN c.start = 0
    ELSE buffer.size = c.start /\ buffer.total = c.total

\* The buffer after a chunk that does not fit; the mutant drops only the chunk.
ResetMutant == buffer

Reset == NoBuffer

Joined(c) ==
    [from |-> buffer.from \cup {c.of}, size |-> buffer.size + c.size,
     total |-> c.total]

IsLast(c) == c.start + c.size = c.total

\* handleLowLevelTransactionChunkItem().  A chunk that does not fit takes the
\* buffer with it.  What was joined from several transmissions may or may not
\* be an item for the deserialiser.
AddDataChunk ==
    LET c == Head(link) IN
    /\ link # <<>>
    /\ link' = Tail(link)
    /\ over' = IF IsLast(c) THEN over \cup {c.of} ELSE over
    /\ IF ~Fits(c)
       THEN buffer' = Reset /\ UNCHANGED out
       ELSE IF Joined(c).size = c.total
       THEN /\ buffer' = NoBuffer
            /\ \/ out' = out \cup {Joined(c).from}
               \/ Cardinality(Joined(c).from) > 1 /\ UNCHANGED out
       ELSE buffer' = Joined(c) /\ UNCHANGED out
    /\ UNCHANGED <<sent, hit, losses, washes>>

\* autoWash() removes a pipe without activity for MAX_INACTIVE_DATA_PIPE_DELAY,
\* even if the rest of an item is still under way.
WashPipe ==
    /\ washes < MaxWashes
    /\ washes' = washes + 1
    /\ buffer' = NoBuffer
    /\ UNCHANGED <<sent, link, out, hit, over, losses>>
-----------------------------------------------------------------------------
Next ==
    \/ \E total \in Sizes : Send(total)
    \/ \E i, j \in DOMAIN link : i <= j /\ Lose(i, j)
    \/ AddDataChunk
    \/ WashPipe

Spec == Init /\ [][Next]_vars
-----------------------------------------------------------------------------
(* Properties *)

\* Types, and the buffer never holds more than the item it is to become, so
\* that the test for a finished item cannot be jumped over.
TypeOK ==
    /\ sent \in 0 .. MaxTransmissions
    /\ link \in Seq(Chunk)
    /\ buffer \in Buffer /\ (buffer # NoBuffer => buffer.size < buffer.total)
    /\ out \subseteq SUBSET Transmission
    /\ hit \subseteq Transmission /\ over \subseteq Transmission
    /\ losses \in 0 .. MaxLosses /\ washes \in 0 .. MaxWashes

\* A transmission that lost no chunk never becomes part of a mixture: although
\* addDataChunk() does not look at the propagation id, only remains of broken
\* transmissions are ever joined with each other.
IntactNotMixed ==
    \A joined \in out : Cardinality(joined) > 1 => joined \subseteq hit

\* The remains of a broken transmission spoil at most one later transmission
\* (whose first chunk is thrown away with them, and the others for lack of it),
\* so that a message that is sent again after the connection broke gets through
\* at the second attempt at the latest, unless chunks are lost again.
WasteBounded ==
    Cardinality({t \in over \ hit : {t} \notin out}) <= losses + washes
=============================================================================
