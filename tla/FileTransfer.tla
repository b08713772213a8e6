---------------------------- MODULE FileTransfer ----------------------------
(***************************************************************************)
(* The download of one file (libretroshare/src/ft): the chunk map          *)
(* (ChunkMap), the pending requests and the partial file (ftFileCreator),  *)
(* the transfer module with its check of the hash (ftTransferModule), the  *)
(* checksums of chunks (ftDataMultiplex) and the end of the transfer       *)
(* (ftController).                                                         *)
(*                                                                         *)
(* The unit of length is a packet of data.  A chunk is ChunkLen units (the *)
(* last one may be shorter).  A slice is what is asked of a source at      *)
(* once: a part of a chunk, known by its first unit.  A part is what is    *)
(* still to come of a slice; a slice is split into parts when packets are  *)
(* lost.  The data of a unit is right, wrong or missing.                   *)
(***************************************************************************)
EXTENDS Integers, Sequences, FiniteSets, FiniteSetsExt, Functions

CONSTANTS Peer,          \* sources
          FileSize, ChunkLen,
          Avail,         \* chunks that each source has
          MaxSlice,      \* bound: size hints
          MaxPerPeer,    \* MAX_FTCHUNKS_PER_PEER
          CounterMod,    \* values of mChunksPerPeer[].cnt (2^32)
          MaxFlight,     \* bound: packets under way from a source
          MaxFaults      \* bound: lost packets, wrong packets, checksums that are
                         \* wrong or not asked for, restarts, and chunks without
                         \* data for an hour

ASSUME SizesAssumption ==
    /\ {FileSize, ChunkLen, MaxSlice, MaxPerPeer, CounterMod} \subseteq Nat \ {0}
    /\ {MaxFlight, MaxFaults} \subseteq Nat
    /\ MaxPerPeer < CounterMod - 1

Unit  == 0 .. FileSize - 1
Chunk == 0 .. (FileSize - 1) \div ChunkLen
None  == "none"

ChunkOf(u) == u \div ChunkLen
Units(c)   == {u \in Unit : ChunkOf(u) = c}
SizeOfChunk(c) == Cardinality(Units(c))
EndOf(c) == c * ChunkLen + SizeOfChunk(c)

ASSUME AvailAssumption == Avail \in [Peer -> SUBSET Chunk]

VARIABLES
    \* ChunkMap
    map,        \* _map: state of each chunk
    remains,    \* _slices_to_download[]._remains, of active chunks
    slices,     \* _slices_to_download[]._slices: id, size and peers asked
    feed,       \* _active_chunks_feed: the next unit of the chunk a peer fetches
    queue,      \* _chunks_checking_queue
    complete,   \* _file_is_complete
    total,      \* _total_downloaded
    \* ftFileCreator
    parts,      \* mChunks: offset, size, id of the slice, peer
    refs,       \* the shared counters ref_cnt, by slice
    count,      \* mChunksPerPeer
    content,    \* the partial file
    \* ftTransferModule, ftDataMultiplex, ftController
    flag,       \* mFlag, and "moved" when the controller has taken the file
    hashing,    \* _hash_thread: how far it has read the file and what it found
    toAsk,      \* _to_ask: chunks whose checksum is wanted
    checksums,  \* _received: checksums to look at, right or wrong
    saved,      \* chunks that are done in the saved transfer list
    \* network
    net,        \* packets on the way from each source, in order
    silences,   \* chunks without data for an hour
    faults,     \* the other things that MaxFaults bounds
    late        \* history: units that got wrong data after the hash thread read them

chunkVars == <<map, remains, slices, feed, queue, complete, total>>
fileVars  == <<parts, refs, count, content>>
moduleVars == <<flag, hashing, toAsk, checksums, saved>>
netVars   == <<net, faults, silences, late>>
vars == <<chunkVars, fileVars, moduleVars, netVars>>

Slice == [id : Unit, size : 1 .. MaxSlice, peers : SUBSET Peer]
Part  == [off : Unit, size : 1 .. MaxSlice, id : Unit, peer : Peer]
NoFeed == -1

\* The hash thread has read a number of units, all of them right so far or not.
HashThread == [state : {None, "running", "match", "mismatch"},
               read : 0 .. FileSize, good : BOOLEAN]
NoThread  == [state |-> None, read |-> 0, good |-> TRUE]
NewThread == [state |-> "running", read |-> 0, good |-> TRUE]

MayFail == faults + silences < MaxFaults

Init == /\ map = [c \in Chunk |-> "outstanding"]
        /\ remains = [c \in Chunk |-> 0]
        /\ slices = {} /\ feed = [p \in Peer |-> NoFeed] /\ queue = {}
        /\ complete = FALSE /\ total = 0
        /\ parts = {} /\ refs = [u \in Unit |-> 0] /\ count = [p \in Peer |-> 0]
        /\ content = [u \in Unit |-> "missing"]
        /\ flag = "downloading" /\ hashing = NoThread
        /\ toAsk = {} /\ checksums = {} /\ saved = {}
        /\ net = [p \in Peer |-> <<>>]
        /\ faults = 0 /\ silences = 0
        /\ late = {}

-----------------------------------------------------------------------------
(* Asking for data: locked_tickPeerTransfer(), getMissingChunk() *)

\* locked_requestData(): the source will send the units in order.
Request(p, off, size) ==
    /\ Len(net[p]) + size <= MaxFlight
    /\ net' = [net EXCEPT ![p] = @ \o [i \in 1 .. size |-> off + i - 1]]
    /\ UNCHANGED <<faults, silences, late>>

InFlight(p) == {net[p][i] : i \in 1 .. Len(net[p])}

\* A part that was last asked CHUNK_MAX_AGE ago is asked of any source that has it
\* (bound: not of a source whose answer is still on its way).
ReAskPart(p) ==
    /\ flag = "downloading"
    /\ \E q \in parts : /\ ChunkOf(q.off) \in Avail[p]
                        /\ q.off \notin InFlight(p)
                        /\ Request(p, q.off, q.size)
    /\ UNCHANGED <<chunkVars, fileVars, moduleVars>>

\* Mutants: a slice may reach past the end of its chunk; a slice of a shared
\* chunk moves the feed of the peer that takes it.
TakeSliceUnclipped(p, f, off, hint) ==
    /\ slices' = slices \cup {[id |-> off, size |-> hint, peers |-> {p}]}
    /\ feed' = [feed EXCEPT ![f] = IF off + hint = EndOf(ChunkOf(off)) THEN NoFeed
                                   ELSE off + hint]
    /\ parts' = parts \cup {[off |-> off, size |-> hint, id |-> off, peer |-> p]}
    /\ refs' = [refs EXCEPT ![off] = 1]
    /\ count' = [count EXCEPT ![p] = @ + 1]
    /\ Request(p, off, hint)

TakeSliceOwnFeed(p, f, off, hint) ==
    LET end  == EndOf(ChunkOf(off))
        size == Min({hint, end - off})
    IN  /\ slices' = slices \cup {[id |-> off, size |-> size, peers |-> {p}]}
        /\ feed' = [feed EXCEPT ![p] = IF off + size = end THEN NoFeed ELSE off + size]
        /\ parts' = parts \cup {[off |-> off, size |-> size, id |-> off, peer |-> p]}
        /\ refs' = [refs EXCEPT ![off] = 1]
        /\ count' = [count EXCEPT ![p] = @ + 1]
        /\ Request(p, off, size)

\* Chunk::getSlice() and the rest of getDataChunk(): peer p takes a slice of the
\* chunk that feeds peer f (itself, in general).
TakeSlice(p, f, off, hint) ==
    LET end  == EndOf(ChunkOf(off))
        size == Min({hint, end - off})
    IN  /\ slices' = slices \cup {[id |-> off, size |-> size, peers |-> {p}]}
        /\ feed' = [feed EXCEPT ![f] = IF off + size = end THEN NoFeed ELSE off + size]
        /\ parts' = parts \cup {[off |-> off, size |-> size, id |-> off, peer |-> p]}
        /\ refs' = [refs EXCEPT ![off] = 1]
        /\ count' = [count EXCEPT ![p] = @ + 1]
        /\ Request(p, off, size)

\* The size of the last slice that was taken from chunk c.
LastSize(c) == LET own == {s \in slices : ChunkOf(s.id) = c}
               IN  (CHOOSE s \in own : \A t \in own : t.id <= s.id).size

\* Feeds of other peers that p can share; those whose slices suit its speed.
Sharable(p) == {f \in Peer : feed[f] # NoFeed /\ ChunkOf(feed[f]) \in Avail[p]}
Suitable(p, hint) ==
    {f \in Sharable(p) : /\ \E s \in slices : ChunkOf(s.id) = ChunkOf(feed[f])
                         /\ 7 * LastSize(ChunkOf(feed[f])) <= 10 * hint}

\* getAvailableChunk(): the strategies differ in which of these they choose.
Available(p) == {c \in Avail[p] : map[c] = "outstanding"}

\* getDataChunk(), on behalf of getMissingChunk().
GetDataChunk(p) ==
    /\ flag = "downloading" /\ count[p] < MaxPerPeer
    /\ \E hint \in 1 .. MaxSlice :
         \/ /\ feed[p] # NoFeed
            /\ TakeSlice(p, p, feed[p], hint)
            /\ UNCHANGED <<map, remains>>
         \/ /\ feed[p] = NoFeed
            /\ \E f \in IF Suitable(p, hint) # {} THEN Suitable(p, hint)
                        ELSE IF Available(p) = {} THEN Sharable(p) ELSE {} :
                  TakeSlice(p, f, feed[f], hint)
            /\ UNCHANGED <<map, remains>>
         \/ /\ feed[p] = NoFeed /\ Suitable(p, hint) = {}
            /\ \E c \in Available(p) :
                  /\ TakeSlice(p, p, c * ChunkLen, hint)
                  /\ map' = [map EXCEPT ![c] = "active"]
                  /\ remains' = [remains EXCEPT ![c] = SizeOfChunk(c)]
    /\ UNCHANGED <<queue, complete, total, content, moduleVars>>

\* reAskPendingChunk(), when getDataChunk() has nothing for p: at the end of the
\* file a slice is asked a second time, of another source.
ReAskPendingChunk(p) ==
    /\ flag = "downloading" /\ count[p] < MaxPerPeer
    /\ feed[p] = NoFeed /\ Sharable(p) = {}
    /\ \A c \in Chunk : map[c] # "outstanding"
    /\ \E s \in slices :
          /\ p \notin s.peers
          /\ slices' = (slices \ {s}) \cup {[s EXCEPT !.peers = @ \cup {p}]}
          /\ Request(p, s.id, s.size)
    /\ UNCHANGED <<map, remains, feed, queue, complete, total, fileVars, moduleVars>>

-----------------------------------------------------------------------------
(* Data arrives: recvFileData(), addFileData(), locked_notifyReceived() *)

\* _total_downloaded and _file_is_complete, as updateTotalDownloaded() computes
\* them from the states m of the chunks and what remains of the active ones.
TotalOf(m, rem) ==
    SumFunctionOnSet(
        [c \in Chunk |-> SizeOfChunk(c) - (IF m[c] = "active" THEN rem[c] ELSE 0)],
        {c \in Chunk : m[c] # "outstanding"})
AllDone(m) == \A c \in Chunk : m[c] = "done"

\* A chunk is checked, unless it is the whole file.
Received(c) == IF c > 0 \/ FileSize > ChunkLen THEN "checking" ELSE "done"

\* ChunkMap::dataReceived(): the slice is finished, and maybe its chunk.
DataReceived(id) ==
    \E s \in slices :
       LET c == ChunkOf(id)
           left == remains[c] - s.size
       IN  /\ s.id = id
           /\ slices' = slices \ {s}
           /\ remains' = [remains EXCEPT ![c] = left]
           /\ IF left = 0
              THEN /\ map' = [map EXCEPT ![c] = Received(c)]
                   /\ queue' = IF Received(c) = "checking" THEN queue \cup {c} ELSE queue
                   /\ total' = TotalOf(map', remains')
                   /\ complete' = AllDone(map')
              ELSE /\ total' = total + s.size
                   /\ UNCHANGED <<map, queue, complete>>
           /\ UNCHANGED feed

\* Mutant: the counter only goes up.
DecrementedNever(n, k) == n

\* mChunksPerPeer[p].cnt, an unsigned number, after n decrements.
Decremented(n, k) == (n - k) % CounterMod

\* One unit of part q has come; rest are the other parts and r the counters.
PartReceived(q, rest, r) ==
    IF q.size # 1
    THEN /\ parts' = rest \cup {[q EXCEPT !.off = @ + 1, !.size = @ - 1]}
         /\ refs' = r
         /\ UNCHANGED <<count, chunkVars>>
    ELSE /\ parts' = rest
         /\ refs' = [r EXCEPT ![q.id] = @ - 1]
         /\ IF r[q.id] = 1
            THEN /\ DataReceived(q.id)
                 /\ count' = [count EXCEPT ![q.peer] = Decremented(@, 1)]
            ELSE UNCHANGED <<count, chunkVars>>

\* The part that unit u is in the middle of.
Around(u) == {q \in parts : q.off < u /\ q.off + q.size > u}

\* Mutant: the units before the one that came are taken for received.
NotifyReceivedAll(u) ==
    \/ \E q \in parts : q.off = u /\ PartReceived(q, parts \ {q}, refs)
    \/ /\ \A q \in parts : q.off # u
       /\ \E q \in Around(u) :
             PartReceived([q EXCEPT !.off = u, !.size = q.off + q.size - u],
                          parts \ {q}, refs)
    \/ /\ Around(u) = {} /\ \A q \in parts : q.off # u
       /\ UNCHANGED <<parts, refs, count, chunkVars>>

\* Mutant: a split slice is reported as finished with its first finished part.
NotifyReceivedUncounted(u) ==
    \/ \E q \in parts : q.off = u /\ PartReceived(q, parts \ {q}, refs)
    \/ /\ \A q \in parts : q.off # u
       /\ \E q \in Around(u) :
             PartReceived([q EXCEPT !.off = u, !.size = q.off + q.size - u],
                          (parts \ {q}) \cup {[q EXCEPT !.size = u - q.off]}, refs)
    \/ /\ Around(u) = {} /\ \A q \in parts : q.off # u
       /\ UNCHANGED <<parts, refs, count, chunkVars>>

\* locked_notifyReceived(): u begins a part, or splits one, or is ignored.
NotifyReceived(u) ==
    \/ \E q \in parts : q.off = u /\ PartReceived(q, parts \ {q}, refs)
    \/ /\ \A q \in parts : q.off # u
       /\ \E q \in Around(u) :
             PartReceived([q EXCEPT !.off = u, !.size = q.off + q.size - u],
                          (parts \ {q}) \cup {[q EXCEPT !.size = u - q.off]},
                          [refs EXCEPT ![q.id] = @ + 1])
    \/ /\ Around(u) = {} /\ \A q \in parts : q.off # u
       /\ UNCHANGED <<parts, refs, count, chunkVars>>

\* The hash that is under way, or that completed the file, was made without what
\* comes now for unit u.
HasRead(u) == hashing.read > u \/ flag = "complete"

\* The data is written in any case, whatever the transfer module is doing, before
\* the parts are looked up.
RecvFileData(p) ==
    /\ flag # "moved" /\ net[p] # <<>>
    /\ LET u == Head(net[p])
       IN  /\ \/ /\ content' = [content EXCEPT ![u] = "right"]
                 /\ UNCHANGED <<faults, late>>
              \/ /\ MayFail /\ faults' = faults + 1
                 /\ content' = [content EXCEPT ![u] = "wrong"]
                 /\ late' = IF HasRead(u) THEN late \cup {u} ELSE late
           /\ NotifyReceived(u)
    /\ net' = [net EXCEPT ![p] = Tail(@)]
    /\ UNCHANGED <<moduleVars, silences>>

\* A packet is lost with an interrupted connection.
Lose(p) == /\ MayFail /\ faults' = faults + 1
           /\ \E i \in 1 .. Len(net[p]) :
                 net' = [net EXCEPT ![p] = SubSeq(@, 1, i - 1) \o SubSeq(@, i + 1, Len(@))]
           /\ UNCHANGED <<chunkVars, fileVars, moduleVars, silences, late>>

-----------------------------------------------------------------------------
\* removeInactiveChunks(), for a chunk that got no data for an hour: its slices
\* and their parts are forgotten, and the peer's counter goes down with each part.
RemoveInactive(c) ==
    LET ids  == {s.id : s \in {t \in slices : ChunkOf(t.id) = c}}
        gone == {q \in parts : q.id \in ids}
    IN  /\ flag # "moved" /\ map[c] = "active"
        /\ MayFail /\ silences' = silences + 1
        /\ map' = [map EXCEPT ![c] = "outstanding"]
        /\ total' = total - (SizeOfChunk(c) - remains[c])
        /\ remains' = [remains EXCEPT ![c] = 0]
        /\ slices' = {s \in slices : s.id \notin ids}
        /\ feed' = [p \in Peer |-> IF feed[p] # NoFeed /\ ChunkOf(feed[p]) = c
                                   THEN NoFeed ELSE feed[p]]
        /\ parts' = parts \ gone
        /\ refs' = [u \in Unit |-> refs[u] - Cardinality({q \in gone : q.id = u})]
        /\ count' = [p \in Peer |->
                        Decremented(count[p], Cardinality({q \in gone : q.peer = p}))]
        /\ UNCHANGED <<queue, complete, content, moduleVars, net, faults, late>>

(* Checking *)

\* Mutant: the chunks to check are taken from the queue and not asked for.
QueryInactiveForgets ==
    /\ flag = "downloading"
    /\ IF complete THEN flag' = "checking" /\ UNCHANGED queue
       ELSE queue' = {} /\ UNCHANGED flag
    /\ UNCHANGED <<map, remains, slices, feed, complete, total, fileVars, hashing,
                   toAsk, checksums, saved, netVars>>

\* The end of queryInactive(): the file is complete, or checksums are asked.
QueryInactive ==
    /\ flag = "downloading"
    /\ IF complete THEN flag' = "checking" /\ UNCHANGED <<toAsk, queue>>
       ELSE /\ toAsk' = toAsk \cup queue
            /\ queue' = {}
            /\ UNCHANGED flag
    /\ UNCHANGED <<map, remains, slices, feed, complete, total, fileVars, hashing,
                   checksums, saved, netVars>>

\* recvSingleChunkCRC(): a source answers, sooner or later, as requests are
\* repeated every MAX_CHECKING_CHUNK_WAIT_DELAY.  An answer that was not asked for,
\* or is wrong, is taken as well; the last one counts.
RecvSingleChunkCRC(c) ==
    /\ flag # "moved"
    /\ toAsk' = toAsk \ {c}
    /\ \E sum \in {"right", "wrong"} :
          /\ checksums' = {x \in checksums : x[1] # c} \cup {<<c, sum>>}
          /\ \/ c \in toAsk /\ sum = "right" /\ UNCHANGED faults
             \/ MayFail /\ faults' = faults + 1
    /\ UNCHANGED <<chunkVars, fileVars, flag, hashing, saved, net, silences, late>>

\* Mutant: a chunk that is not right still counts as downloaded.
CheckingResultKeepsTotal(c, good) ==
    IF map[c] # "checking" THEN UNCHANGED <<map, complete, total>>
    ELSE /\ map' = [map EXCEPT ![c] = IF good THEN "done" ELSE "outstanding"]
         /\ complete' = AllDone(map')
         /\ UNCHANGED total

\* setChunkCheckingResult()
CheckingResult(c, good) ==
    IF map[c] # "checking" THEN UNCHANGED <<map, complete, total>>
    ELSE IF good
    THEN /\ map' = [map EXCEPT ![c] = "done"]
         /\ complete' = AllDone(map')
         /\ UNCHANGED total
    ELSE /\ map' = [map EXCEPT ![c] = "outstanding"]
         /\ total' = total - SizeOfChunk(c)
         /\ UNCHANGED complete

Right(units) == \A u \in units : content[u] = "right"

\* dispatchReceivedChunkCheckSum(), verifyChunk().  A wrong checksum is that of
\* no data.
VerifyChunk(c, sum) ==
    /\ <<c, sum>> \in checksums /\ flag # "moved"
    /\ checksums' = checksums \ {<<c, sum>>}
    /\ CheckingResult(c, sum = "right" /\ Right(Units(c)))
    /\ UNCHANGED <<remains, slices, feed, queue, fileVars, flag, hashing, toAsk,
                   saved, netVars>>

\* Mutant: chunks that were checked are not hashed again.
ReadUnitTrusting ==
    /\ hashing.state = "running" /\ hashing.read < FileSize
    /\ hashing.read = 0 => complete
    /\ hashing' = [hashing EXCEPT !.read = @ + 1]
    /\ UNCHANGED <<chunkVars, fileVars, flag, toAsk, checksums, saved, netVars>>

\* The hash thread reads the file from its beginning to its end, without a mutex:
\* data arrives and is written in between.  finished() is asked before the first read.
ReadUnit ==
    /\ hashing.state = "running" /\ hashing.read < FileSize
    /\ hashing.read = 0 => complete
    /\ hashing' = [hashing EXCEPT !.read = @ + 1,
                                  !.good = @ /\ content[hashing.read] = "right"]
    /\ UNCHANGED <<chunkVars, fileVars, flag, toAsk, checksums, saved, netVars>>

\* hashReceivedData() returns: the hash is that of what was read, or none.
HashReceivedData ==
    /\ hashing.state = "running"
    /\ hashing.read = FileSize \/ (hashing.read = 0 /\ ~complete)
    /\ hashing' = [hashing EXCEPT !.state = IF hashing.read = FileSize /\ hashing.good
                                            THEN "match" ELSE "mismatch"]
    /\ UNCHANGED <<chunkVars, fileVars, flag, toAsk, checksums, saved, netVars>>

\* ChunkMap::forceCheck(): everything is checked again.
ForceCheck == /\ map' = [c \in Chunk |-> "checking"]
              /\ queue' = queue \cup Chunk
              /\ complete' = FALSE
              /\ total' = TotalOf(map', remains)
              /\ UNCHANGED <<remains, slices, feed>>

\* checkFile(), in each tick while the flag is CHECKING.
CheckFile ==
    /\ flag = "checking"
    /\ \/ /\ hashing.state = None /\ hashing' = NewThread
          /\ UNCHANGED <<flag, chunkVars, late>>
       \/ /\ hashing.state = "match" /\ hashing' = NoThread
          /\ flag' = "complete" /\ UNCHANGED <<chunkVars, late>>
       \/ /\ hashing.state = "mismatch" /\ hashing' = NoThread
          /\ flag' = "downloading" /\ ForceCheck /\ late' = {}
    /\ UNCHANGED <<fileVars, toAsk, checksums, saved, net, faults, silences>>

\* FlagFileComplete() and completeFile(): the file goes to its destination.
CompleteFile ==
    /\ flag = "complete" /\ complete
    /\ flag' = "moved"
    /\ UNCHANGED <<chunkVars, fileVars, hashing, toAsk, checksums, saved, netVars>>

-----------------------------------------------------------------------------
\* Mutant: chunks that wait for their check are saved as done.
SaveTransfersUnchecked ==
    /\ flag # "moved" /\ MayFail
    /\ saved' = {c \in Chunk : map[c] \in {"checking", "done"}}
    /\ UNCHANGED <<chunkVars, fileVars, flag, hashing, toAsk, checksums, netVars>>

\* saveList() of the controller (as long as a restart can make use of it).
SaveTransfers == /\ flag # "moved" /\ MayFail
                 /\ saved' = {c \in Chunk : map[c] = "done"}
                 /\ UNCHANGED <<chunkVars, fileVars, flag, hashing, toAsk, checksums,
                                netVars>>

\* The program is started again and loads the list: setAvailabilityMap().
Restart ==
    /\ flag # "moved" /\ MayFail /\ faults' = faults + 1
    /\ map' = [c \in Chunk |-> IF c \in saved THEN "done" ELSE "outstanding"]
    /\ complete' = (saved = Chunk)
    /\ total' = SumFunctionOnSet([c \in Chunk |-> SizeOfChunk(c)], saved)
    /\ remains' = [c \in Chunk |-> 0]
    /\ slices' = {} /\ feed' = [p \in Peer |-> NoFeed] /\ queue' = {}
    /\ parts' = {} /\ refs' = [u \in Unit |-> 0] /\ count' = [p \in Peer |-> 0]
    /\ flag' = "downloading" /\ hashing' = NoThread
    /\ toAsk' = {} /\ checksums' = {}
    /\ net' = [p \in Peer |-> <<>>]
    /\ late' = {}
    /\ UNCHANGED <<content, saved, silences>>

Asking(p) == ReAskPart(p) \/ GetDataChunk(p) \/ ReAskPendingChunk(p)

Checking == \/ QueryInactive \/ CheckFile \/ ReadUnit \/ HashReceivedData \/ CompleteFile
            \/ \E c \in Chunk : RecvSingleChunkCRC(c) \/ VerifyChunk(c, "right")
                                \/ VerifyChunk(c, "wrong")

\* The file has been delivered: nothing more happens to it.
Done == flag = "moved" /\ UNCHANGED vars

Next == \/ \E p \in Peer : Asking(p) \/ RecvFileData(p) \/ Lose(p)
        \/ \E c \in Chunk : RemoveInactive(c)
        \/ Checking \/ SaveTransfers \/ Restart \/ Done

Spec == Init /\ [][Next]_vars

\* The threads run and sources answer what they are asked: something is done as long
\* as there is anything to do.  (Every such step brings the end closer, so that
\* nothing need be said of each source and thread.)
Work == Checking \/ \E p \in Peer : RecvFileData(p) \/ Asking(p)

FairSpec == Spec /\ WF_vars(Work)

-----------------------------------------------------------------------------
(* Properties *)

\* Every variable keeps its type.
TypeOK ==
    /\ map \in [Chunk -> {"outstanding", "active", "checking", "done"}]
    /\ remains \in [Chunk -> 0 .. ChunkLen]
    /\ slices \subseteq Slice /\ parts \subseteq Part
    /\ feed \in [Peer -> Unit \cup {NoFeed}]
    /\ queue \subseteq Chunk /\ complete \in BOOLEAN /\ total \in 0 .. FileSize
    /\ refs \in [Unit -> 0 .. MaxSlice]
    /\ count \in [Peer -> 0 .. CounterMod - 1]
    /\ content \in [Unit -> {"missing", "right", "wrong"}]
    /\ flag \in {"downloading", "checking", "complete", "moved"}
    /\ hashing \in HashThread
    /\ toAsk \subseteq Chunk /\ saved \subseteq Chunk
    /\ checksums \subseteq Chunk \X {"right", "wrong"}
    /\ net \in [Peer -> Seq(Unit)]
    /\ faults \in 0 .. MaxFaults /\ silences \in 0 .. MaxFaults
    /\ late \subseteq Unit

\* What remains of an active chunk is asked, or is still to be given out by the
\* one feed of the chunk: no byte is dropped between ChunkMap's three tables.
ChunkAccounted ==
    \A c \in Chunk : map[c] = "active" =>
        remains[c] =
            SumFunctionOnSet([s \in slices |-> s.size], {s \in slices : ChunkOf(s.id) = c})
            + SumFunctionOnSet([p \in Peer |-> EndOf(c) - feed[p]],
                               {p \in Peer : feed[p] # NoFeed /\ ChunkOf(feed[p]) = c})

\* A slice that ChunkMap waits for has as many parts in ftFileCreator as its
\* shared counter says, and at least one, which can be asked again: splitting
\* at lost packets and data that comes twice never leave a slice without one.
SlicePending ==
    \A s \in slices : /\ refs[s.id] > 0
                      /\ refs[s.id] = Cardinality({q \in parts : q.id = s.id})

\* A chunk that is being checked has been written completely: parts are finished
\* by their own data, in spite of lost, late and repeated packets.
CheckedIsWritten ==
    \A c \in Chunk : map[c] \in {"checking", "done"} =>
        \A u \in Units(c) : content[u] # "missing"

\* The cached total and the cached completion flag are what updateTotalDownloaded()
\* would compute from the chunks, though most operations adjust them or leave them.
CacheExact == total = TotalOf(map, remains) /\ complete = AllDone(map)

\* The chunks counted for a peer are the slices it has been asked for and that are
\* not finished, as long as no chunk was given up for inactivity.
SlicesOf(p) == {q.id : q \in {r \in parts : r.peer = p}}
CounterExact == silences = 0 => \A p \in Peer : count[p] = Cardinality(SlicesOf(p))

\* A file that is declared complete is right, whatever sources sent and whatever a
\* stale transfer list claimed, but for the units that got wrong data after the hash
\* thread had read them: what it reads later on, or again, has no effect on those.
CompleteIsRight == flag \in {"complete", "moved"} => Right(Unit \ late)

\* The tables of the chunk map, the file creator and the transfer module together
\* keep what Download promises: active chunks are missing ones, and the stages are
\* those of the hash thread and of what is made of its result.
ChunkStates == [c \in Chunk |-> IF map[c] \in {"outstanding", "active"} THEN "missing"
                                ELSE map[c]]
Reading == hashing.state = "running" /\ hashing.good
Stage == IF flag = "moved" THEN "delivered"
         ELSE IF hashing.state = "match" \/ flag = "complete" THEN "verified"
         ELSE IF Reading THEN "verifying"
         ELSE IF hashing.state = None THEN "loading" ELSE "failed"
UnitsRead == IF Reading THEN {u \in Unit : u < hashing.read} ELSE {}

File == INSTANCE Download WITH chunks <- ChunkStates, stage <- Stage, read <- UnitsRead,
                               Pieces <- [c \in Chunk |-> Units(c)]

ImplementsDownload == File!Spec

\* The transfer ends, through losses, wrong data and checksums, inactivity and
\* restarts, unless the counter of a peer has wrapped around.
Completes == <>(flag = "moved" \/ \E p \in Peer : count[p] > MaxPerPeer)

\* ftchunkmap.cc:422: "Also remove the chunk from the chunk feed, to free the
\* associated peer".  The peer is free: its counter is that of its slices.
PeerFreed == \A p \in Peer : count[p] = Cardinality(SlicesOf(p))
=============================================================================
