------------------------- MODULE FileTransferProofs -------------------------
(***************************************************************************)
(* The tables of a download agree with each other, and a file that is      *)
(* declared complete is right, for every file, chunk size, set of sources  *)
(* and number of faults.                                                   *)
(*                                                                         *)
(* CompleteIsRight is not inductive: while the file is read, and until it  *)
(* is declared complete, its rightness rests on what the hash thread has   *)
(* seen so far.  ReadIsRight and MatchIsWhole add that.                    *)
(*                                                                         *)
(* The properties of the tables are not inductive either, and only hold    *)
(* together.  That what remains of a chunk is the sum of its slices and of *)
(* its feed says nothing of where they are: FileInv adds that slices lie   *)
(* one after the other before the feed of their chunk (SlicesFit), that    *)
(* one peer at most is fed from a chunk (FeedsFit), that parts lie one     *)
(* after the other in their slices (PartsFit), and that each unit that is  *)
(* missing of an active chunk is in a part or still to be fed              *)
(* (ContentFits).  So when nothing remains of a chunk nothing of it is     *)
(* missing, and it may be checked.                                         *)
(*                                                                         *)
(* From these follows that the tables together implement Download          *)
(* (DownloadImplemented).                                                  *)
(***************************************************************************)
EXTENDS FileTransfer, SumTheorems, SequenceTheorems, TLAPS

Contents == [Unit -> {"missing", "right", "wrong"}]

\* What the hash thread has read was right, and is still right unless it came late.
ReadIsRight ==
    hashing.good => \A u \in Unit \ late : u < hashing.read => content[u] = "right"

\* The hash that matches is that of the whole file.
MatchIsWhole == hashing.state = "match" => hashing.good /\ hashing.read = FileSize

RightInv == /\ content \in Contents /\ hashing \in HashThread
            /\ ReadIsRight /\ MatchIsWhole /\ CompleteIsRight

\* A thread that does not run, or has just been started, has read nothing.
LEMMA ThreadTypes == NoThread \in HashThread /\ NewThread \in HashThread
<1>1. FileSize \in Nat \ {0}
  BY SizesAssumption
<1>2. 0 \in 0 .. FileSize
  BY <1>1
<1> QED BY <1>2 DEF NoThread, NewThread, HashThread

\* Nothing is declared at the start of a transfer (the constructors of
\* ftFileCreator and ftTransferModule).
LEMMA InitRight == Init => RightInv
<1>1. \A u \in Unit : ~(u < 0)
  BY SizesAssumption DEF Unit
<1> QED BY <1>1, ThreadTypes DEF Init, RightInv, Contents, ReadIsRight, MatchIsWhole,
           CompleteIsRight, NoThread, None

\* A step that touches neither the data nor what is known about it.
LEMMA QuietSteps ==
    ASSUME RightInv, UNCHANGED <<content, hashing, late>>,
           flag' = flag \/ flag' \notin {"complete", "moved"}
    PROVE  RightInv'
  BY DEF RightInv, ReadIsRight, MatchIsWhole, CompleteIsRight, Right

\* Data arrives (ftFileCreator::addFileData()): right data damages nothing, and
\* wrong data is late for a unit that has been read.
LEMMA DataStep ==
    ASSUME RightInv, NEW p \in Peer, RecvFileData(p)
    PROVE  RightInv'
<1> DEFINE u == Head(net[p])
<1> USE DEF RightInv, Contents, ReadIsRight, MatchIsWhole, CompleteIsRight, Right
<1>1. UNCHANGED <<hashing, flag>> /\ flag # "moved"
  BY DEF RecvFileData, moduleVars
<1>2. CASE content' = [content EXCEPT ![u] = "right"] /\ late' = late
  <2>1. content' \in Contents
    BY <1>2
  <2>2. \A v \in Unit : content[v] = "right" => content'[v] = "right"
    BY <1>2
  <2> QED BY <1>1, <1>2, <2>1, <2>2
<1>3. CASE /\ content' = [content EXCEPT ![u] = "wrong"]
           /\ late' = IF HasRead(u) THEN late \cup {u} ELSE late
  <2>1. content' \in Contents
    BY <1>3
  <2>2. \A v \in Unit : v # u => content'[v] = content[v]
    BY <1>3
  <2>3. late \subseteq late' /\ (HasRead(u) => u \in late')
    BY <1>3
  <2>4. ASSUME NEW v \in Unit \ late', hashing.good, v < hashing.read
        PROVE  content'[v] = "right"
    <3>1. CASE v = u
      <4>1. u < hashing.read => HasRead(u)
        BY <3>1, SizesAssumption DEF HasRead, HashThread, Unit
      <4> QED BY <2>3, <2>4, <3>1, <4>1
    <3> QED BY <2>2, <2>3, <2>4, <3>1
  <2>5. ASSUME NEW v \in Unit \ late', flag = "complete"
        PROVE  content'[v] = "right"
    BY <2>2, <2>3, <2>5 DEF HasRead
  <2> QED BY <1>1, <2>1, <2>4, <2>5
<1> QED BY <1>2, <1>3 DEF RecvFileData

\* The hash thread reads a unit (RsDirUtil::getFileHash()).
LEMMA ReadStep ==
    ASSUME RightInv, ReadUnit
    PROVE  RightInv'
<1> DEFINE n == hashing.read
<1>1. /\ UNCHANGED <<content, flag, late>> /\ hashing.state = "running"
      /\ n \in 0 .. FileSize /\ n < FileSize /\ FileSize \in Nat
      /\ hashing \in HashThread
      /\ hashing' = [hashing EXCEPT !.read = @ + 1,
                                    !.good = @ /\ content[hashing.read] = "right"]
  BY SizesAssumption DEF ReadUnit, fileVars, netVars, RightInv, HashThread
<1>2. /\ hashing'.state = "running" /\ hashing'.read = n + 1
      /\ hashing'.good <=> (hashing.good /\ content[n] = "right")
      /\ hashing'.good \in BOOLEAN
  BY <1>1 DEF HashThread
<1>3. hashing' \in HashThread
  <2>1. n + 1 \in 0 .. FileSize
    BY <1>1
  <2> QED BY <1>1, <2>1 DEF HashThread
<1>4. ASSUME NEW v \in Unit \ late, hashing'.good, v < n + 1
      PROVE  content[v] = "right"
  <2>1. v < n \/ v = n
    BY <1>1, <1>4 DEF Unit
  <2> QED BY <1>2, <1>4, <2>1 DEF RightInv, ReadIsRight
<1> HIDE DEF n
<1>5. ReadIsRight'
  BY <1>1, <1>2, <1>4 DEF ReadIsRight
<1> QED BY <1>1, <1>2, <1>3, <1>5 DEF RightInv, MatchIsWhole, CompleteIsRight, Right

\* The result of the hash thread (hashReceivedData()).
LEMMA ResultStep ==
    ASSUME RightInv, HashReceivedData
    PROVE  RightInv'
<1>1. /\ UNCHANGED <<content, flag, late>> /\ hashing \in HashThread
      /\ hashing' = [hashing EXCEPT !.state = IF hashing.read = FileSize /\ hashing.good
                                              THEN "match" ELSE "mismatch"]
  BY DEF HashReceivedData, fileVars, netVars, RightInv
<1>2. /\ hashing' \in HashThread /\ hashing'.read = hashing.read
      /\ hashing'.good = hashing.good
      /\ hashing'.state = "match" => hashing.read = FileSize /\ hashing.good
  BY <1>1 DEF HashThread
<1> QED BY <1>1, <1>2 DEF RightInv, ReadIsRight, MatchIsWhole, CompleteIsRight, Right

\* The check of the hash (ftTransferModule::checkFile()), the end of the transfer
\* (ftController::completeFile()) and a restart.
LEMMA CheckStep ==
    ASSUME RightInv, CheckFile \/ CompleteFile \/ Restart
    PROVE  RightInv'
<1>0. /\ \A u \in Unit : ~(u < 0) /\ u < FileSize
      /\ NoThread.read = 0 /\ NoThread.state = None
      /\ NewThread.read = 0 /\ NewThread.state = "running"
  BY SizesAssumption DEF Unit, NoThread, NewThread
<1> USE DEF RightInv, ReadIsRight, MatchIsWhole, CompleteIsRight, Right
<1>1. CASE CheckFile
  <2>1. UNCHANGED content /\ flag = "checking"
    BY <1>1 DEF CheckFile, fileVars
  <2>2. CASE hashing' = NewThread /\ UNCHANGED <<flag, late>>
    BY <1>0, <2>1, <2>2, ThreadTypes
  <2>3. CASE /\ hashing.state = "match" /\ hashing' = NoThread /\ flag' = "complete"
             /\ UNCHANGED late
    <3>1. Right(Unit \ late)
      BY <1>0, <2>3
    <3> QED BY <1>0, <2>1, <2>3, <3>1, ThreadTypes DEF None
  <2>4. CASE hashing' = NoThread /\ flag' = "downloading"
    BY <1>0, <2>1, <2>4, ThreadTypes DEF None
  <2> QED BY <1>1, <2>2, <2>3, <2>4 DEF CheckFile
<1>2. CASE CompleteFile
  BY <1>2 DEF CompleteFile, fileVars, netVars
<1>3. CASE Restart
  BY <1>0, <1>3, ThreadTypes DEF Restart, None
<1> QED BY <1>1, <1>2, <1>3

\* Every step preserves the invariant.
LEMMA NextRight == RightInv /\ [Next]_vars => RightInv'
<1> SUFFICES ASSUME RightInv, [Next]_vars
             PROVE  RightInv'
  OBVIOUS
<1>1. CASE UNCHANGED vars \/ Done
  BY <1>1, QuietSteps DEF vars, fileVars, moduleVars, netVars, Done
<1>2. ASSUME NEW p \in Peer, Asking(p) \/ Lose(p)
      PROVE  RightInv'
  <2>1. UNCHANGED <<content, hashing, flag, late>>
    <3>1. CASE ReAskPart(p)
      BY <3>1 DEF ReAskPart, Request, fileVars, moduleVars
    <3>2. CASE GetDataChunk(p)
      BY <3>2 DEF GetDataChunk, TakeSlice, Request, moduleVars
    <3>3. CASE ReAskPendingChunk(p)
      BY <3>3 DEF ReAskPendingChunk, Request, fileVars, moduleVars
    <3>4. CASE Lose(p)
      BY <3>4 DEF Lose, fileVars, moduleVars
    <3> QED BY <1>2, <3>1, <3>2, <3>3, <3>4 DEF Asking
  <2> QED BY <2>1, QuietSteps
<1>3. ASSUME NEW p \in Peer, RecvFileData(p)
      PROVE  RightInv'
  BY <1>3, DataStep
<1>4. ASSUME NEW c \in Chunk, RemoveInactive(c)
      PROVE  RightInv'
  BY <1>4, QuietSteps DEF RemoveInactive, moduleVars
<1>5. CASE QueryInactive
  <2>1. UNCHANGED <<content, hashing, late>> /\ (flag' = flag \/ flag' = "checking")
    BY <1>5 DEF QueryInactive, fileVars, netVars
  <2> QED BY <2>1, QuietSteps
<1>6. ASSUME NEW c \in Chunk,
             \/ RecvSingleChunkCRC(c)
             \/ VerifyChunk(c, "right") \/ VerifyChunk(c, "wrong")
      PROVE  RightInv'
  BY <1>6, QuietSteps DEF RecvSingleChunkCRC, VerifyChunk, fileVars, netVars
<1>7. CASE SaveTransfers
  BY <1>7, QuietSteps DEF SaveTransfers, fileVars, netVars
<1>8. CASE ReadUnit \/ HashReceivedData \/ CheckFile \/ CompleteFile \/ Restart
  BY <1>8, ReadStep, ResultStep, CheckStep
<1> QED BY <1>1, <1>2, <1>3, <1>4, <1>5, <1>6, <1>7, <1>8 DEF Next, Checking

\* A file that is declared complete is right, whatever sources sent, whatever was
\* lost or came twice, and whatever a stale transfer list claimed, but for units that
\* got wrong data after the hash thread had read them, in its run or later.
THEOREM FileIsRight == Spec => []CompleteIsRight
<1>1. RightInv => CompleteIsRight
  BY DEF RightInv
<1> QED BY <1>1, InitRight, NextRight, PTL DEF Spec

-----------------------------------------------------------------------------
(* The tables of a download *)

Fed(p, c)  == feed[p] # NoFeed /\ ChunkOf(feed[p]) = c
PartsOf(u) == {q \in parts : q.id = u}

\* Slices lie one after the other in active chunks, before the feed.
SlicesFit ==
    /\ IsFiniteSet(slices)
    /\ \A s \in slices :
          /\ map[ChunkOf(s.id)] = "active"
          /\ s.id + s.size <= EndOf(ChunkOf(s.id))
          /\ \A p \in Peer : Fed(p, ChunkOf(s.id)) => s.id + s.size <= feed[p]
    /\ \A s, t \in slices : s = t \/ s.id + s.size <= t.id \/ t.id + t.size <= s.id

\* Active chunks are fed to one peer at most.
FeedsFit ==
    /\ \A p \in Peer : feed[p] # NoFeed => map[ChunkOf(feed[p])] = "active"
    /\ \A p, r \in Peer, c \in Chunk : Fed(p, c) /\ Fed(r, c) => p = r

\* Parts lie one after the other in their slices, and are counted.
PartsFit ==
    /\ IsFiniteSet(parts)
    /\ \A q \in parts : \E s \in slices :
          s.id = q.id /\ s.id <= q.off /\ q.off + q.size <= s.id + s.size
    /\ \A q, r \in parts : q = r \/ q.off + q.size <= r.off \/ r.off + r.size <= q.off
    /\ \A q, r \in parts : q.id = r.id => q.peer = r.peer
    /\ \A u \in Unit : refs[u] = Cardinality(PartsOf(u))
    /\ \A s \in slices : PartsOf(s.id) # {}

\* What is missing of an active chunk is asked for or is still to be fed.
Written(c) == \A u \in Units(c) : content[u] # "missing"
Expected(u) == \/ \E q \in parts : q.off <= u /\ u < q.off + q.size
               \/ \E p \in Peer : Fed(p, ChunkOf(u)) /\ feed[p] <= u

ContentFits ==
    /\ \A c \in Chunk : map[c] \in {"checking", "done"} \/ c \in saved => Written(c)
    /\ \A u \in Unit : map[ChunkOf(u)] = "active" /\ content[u] = "missing" => Expected(u)

\* The sums, and the end of the transfer.
SumsFit ==
    /\ ChunkAccounted
    /\ \A c \in Chunk : map[c] = "active" => remains[c] <= SizeOfChunk(c)
    /\ CacheExact
    /\ flag # "downloading" => AllDone(map)

FileInv == /\ TypeOK /\ SlicesFit /\ FeedsFit /\ PartsFit /\ ContentFits
           /\ SumsFit /\ CounterExact
-----------------------------------------------------------------------------
(* Units and chunks *)

\* The first unit of a chunk.
Start(c) == c * ChunkLen

\* Division by the chunk size.
LEMMA Division ==
    ASSUME NEW u \in Nat
    PROVE  /\ ChunkOf(u) \in Nat /\ Start(ChunkOf(u)) <= u
           /\ u < Start(ChunkOf(u)) + ChunkLen
<1>1. ChunkLen \in Nat \ {0}
  BY SizesAssumption
<1> QED BY <1>1, SMT DEF ChunkOf, Start

\* A multiple of the chunk size, and what lies between two of them.
LEMMA Multiples ==
    ASSUME NEW b \in Nat, NEW c \in Nat
    PROVE  /\ Start(c) \in Nat /\ (c < b => Start(c) + ChunkLen <= Start(b))
<1>1. ChunkLen \in Nat \ {0}
  BY SizesAssumption
<1>2. \A x, y \in Nat : x * y \in Nat
  BY SMT
<1>3. ASSUME c < b PROVE Start(c) + ChunkLen <= Start(b)
  <2>1. PICK d \in Nat : b = c + 1 + d
    <3>1. b - c - 1 \in Nat
      BY <1>3
    <3> QED BY <3>1
  <2>2. b * ChunkLen = c * ChunkLen + ChunkLen + d * ChunkLen
    BY <1>1, <2>1, SMT
  <2>3. d * ChunkLen \in Nat /\ c * ChunkLen \in Nat
    BY <1>1, <1>2
  <2> QED BY <1>1, <2>2, <2>3 DEF Start
<1> QED BY <1>1, <1>2, <1>3 DEF Start

\* The chunk of a unit is the one between whose limits it lies.
LEMMA ChunkIs ==
    ASSUME NEW u \in Nat, NEW c \in Nat, Start(c) <= u, u < Start(c) + ChunkLen
    PROVE  ChunkOf(u) = c
<1> DEFINE d == ChunkOf(u)
<1>1. /\ d \in Nat /\ Start(d) <= u /\ u < Start(d) + ChunkLen
  BY Division
<1>2. /\ Start(c) \in Nat /\ Start(d) \in Nat
      /\ c < d => Start(c) + ChunkLen <= Start(d)
      /\ d < c => Start(d) + ChunkLen <= Start(c)
  BY <1>1, Multiples
<1>3. ChunkLen \in Nat
  BY SizesAssumption
<1> HIDE DEF d
<1> QED BY <1>1, <1>2, <1>3 DEF d

\* Chunks are intervals of units (ChunkMap: _file_size, _chunk_size).
LEMMA ChunkRange ==
    ASSUME NEW c \in Chunk
    PROVE  /\ Start(c) \in Unit /\ ChunkOf(Start(c)) = c
           /\ SizeOfChunk(c) \in 1 .. ChunkLen /\ EndOf(c) = Start(c) + SizeOfChunk(c)
           /\ EndOf(c) \in Nat /\ EndOf(c) <= FileSize
           /\ Units(c) = Start(c) .. EndOf(c) - 1
<1> DEFINE last == (FileSize - 1) \div ChunkLen
           s    == Start(c)
           e    == IF s + ChunkLen <= FileSize THEN s + ChunkLen ELSE FileSize
<1>1. ChunkLen \in Nat \ {0} /\ FileSize \in Nat \ {0}
  BY SizesAssumption
<1>2. last \in Nat /\ Start(last) <= FileSize - 1 /\ last = ChunkOf(FileSize - 1)
  <2>1. FileSize - 1 \in Nat
    BY <1>1
  <2> QED BY <2>1, Division DEF ChunkOf
<1>3. c \in Nat /\ c <= last
  BY <1>2 DEF Chunk
<1>4. s \in Nat /\ s <= FileSize - 1
  <2>1. s \in Nat /\ Start(last) \in Nat
    BY <1>2, <1>3, Multiples
  <2>2. c < last => s + ChunkLen <= Start(last)
    BY <1>2, <1>3, Multiples
  <2> HIDE DEF last, s
  <2> QED BY <1>1, <1>2, <1>3, <2>1, <2>2 DEF s
<1>5. ChunkOf(s) = c
  <2> HIDE DEF s
  <2>1. Start(c) <= s /\ s < Start(c) + ChunkLen
    BY <1>1, <1>4 DEF s
  <2> QED BY <1>3, <1>4, <2>1, ChunkIs
<1>6. Units(c) = s .. e - 1
  <2>1. ASSUME NEW u \in Unit, ChunkOf(u) = c
        PROVE  u \in s .. e - 1
    <3>1. u \in Nat /\ u < FileSize
      BY <1>1, <2>1 DEF Unit
    <3>2. s <= u /\ u < s + ChunkLen
      BY <2>1, <3>1, Division
    <3> HIDE DEF s
    <3> QED BY <1>1, <1>4, <3>1, <3>2
  <2>2. ASSUME NEW u \in s .. e - 1
        PROVE  u \in Unit /\ ChunkOf(u) = c
    <3> HIDE DEF s
    <3>1. u \in Nat /\ s <= u /\ u < s + ChunkLen /\ u <= FileSize - 1
      BY <1>1, <1>4, <2>2
    <3>2. ChunkOf(u) = c
      BY <1>3, <3>1, ChunkIs DEF s
    <3> QED BY <1>1, <3>1, <3>2 DEF Unit
  <2> HIDE DEF s, e
  <2> QED BY <2>1, <2>2 DEF Units
<1>7. SizeOfChunk(c) = e - s /\ e - s \in 1 .. ChunkLen /\ e <= FileSize
  <2> HIDE DEF s
  <2>1. e \in Nat /\ e - s \in 1 .. ChunkLen /\ e <= FileSize
    BY <1>1, <1>4
  <2> HIDE DEF e
  <2>2. Cardinality(s .. e - 1) = e - s
    <3>1. s \in Int /\ e - 1 \in Int /\ ~(s > e - 1) /\ (e - 1) - s + 1 = e - s
      BY <1>4, <2>1
    <3> QED BY <3>1, FS_Interval
  <2> QED BY <1>6, <2>1, <2>2 DEF SizeOfChunk
<1>8. EndOf(c) = s + SizeOfChunk(c)
  BY DEF EndOf, Start
<1>11. Start(c) = s
  OBVIOUS
<1>9. s \in Unit
  <2> HIDE DEF s
  <2> QED BY <1>1, <1>4 DEF Unit
<1> HIDE DEF s, e
<1>10. EndOf(c) = e /\ e \in Nat
  BY <1>1, <1>4, <1>7, <1>8 DEF e
<1>12. Units(c) = Start(c) .. EndOf(c) - 1
  BY <1>6, <1>10, <1>11
<1>13. SizeOfChunk(c) \in 1 .. ChunkLen /\ EndOf(c) = Start(c) + SizeOfChunk(c)
  BY <1>7, <1>8, <1>11
<1>14. EndOf(c) \in Nat /\ EndOf(c) <= FileSize
  BY <1>7, <1>10
<1>15. Start(c) \in Unit /\ ChunkOf(Start(c)) = c
  BY <1>5, <1>9, <1>11
<1> QED BY <1>12, <1>13, <1>14, <1>15

\* The units of a chunk are those from its start to its end.
LEMMA InChunk ==
    ASSUME NEW c \in Chunk, NEW u \in Int, Start(c) <= u, u < EndOf(c)
    PROVE  u \in Unit /\ ChunkOf(u) = c
<1>1. /\ Units(c) = Start(c) .. EndOf(c) - 1
      /\ Start(c) \in Unit /\ EndOf(c) \in Nat
  BY ChunkRange
<1>2. Start(c) \in Int
  BY <1>1 DEF Unit
<1>3. u \in Start(c) .. EndOf(c) - 1
  BY <1>1, <1>2
<1> QED BY <1>1, <1>3 DEF Units

\* A unit lies in one chunk of the file.
LEMMA UnitIn ==
    ASSUME NEW u \in Unit
    PROVE  /\ u \in Nat /\ ChunkOf(u) \in Chunk
           /\ Start(ChunkOf(u)) <= u /\ u < EndOf(ChunkOf(u))
<1>1. ChunkLen \in Nat \ {0} /\ FileSize \in Nat \ {0}
  BY SizesAssumption
<1>2. u \in Nat /\ u <= FileSize - 1 /\ FileSize - 1 \in Nat
  BY <1>1 DEF Unit
<1> DEFINE c == ChunkOf(u)
           d == ChunkOf(FileSize - 1)
<1>3. /\ c \in Nat /\ Start(c) <= u /\ u < Start(c) + ChunkLen
      /\ d \in Nat /\ Start(d) <= FileSize - 1 /\ FileSize - 1 < Start(d) + ChunkLen
  BY <1>2, Division
<1>4. d < c => Start(d) + ChunkLen <= Start(c)
  BY <1>3, Multiples
<1>5. Start(c) \in Nat /\ Start(d) \in Nat
  BY <1>3, Multiples
<1>6. c \in Chunk
  <2>1. Chunk = 0 .. d
    BY DEF Chunk, ChunkOf
  <2> HIDE DEF c, d
  <2> QED BY <1>1, <1>2, <1>3, <1>4, <1>5, <2>1
<1>7. u \in Units(c)
  BY DEF Units
<1>8. u < EndOf(c)
  <2>1. u \in Start(c) .. EndOf(c) - 1 /\ EndOf(c) \in Nat /\ Start(c) \in Unit
    BY <1>6, <1>7, ChunkRange
  <2> HIDE DEF c
  <2> QED BY <1>2, <2>1
<1> QED BY <1>2, <1>3, <1>6, <1>8
-----------------------------------------------------------------------------
(* Sums of slices and chunks *)

States == {"outstanding", "active", "checking", "done"}

\* The bounds are numbers, and the file has finitely many chunks.
LEMMA Bounds ==
    /\ {FileSize, ChunkLen, MaxSlice, MaxPerPeer, CounterMod} \subseteq Nat \ {0}
    /\ MaxFlight \in Nat /\ MaxFaults \in Nat /\ MaxPerPeer < CounterMod - 1
    /\ Unit \subseteq Nat /\ NoFeed \notin Unit /\ Chunk \subseteq Nat
    /\ IsFiniteSet(Unit) /\ Cardinality(Unit) = FileSize
    /\ IsFiniteSet(Chunk)
<1>1. FileSize \in Nat \ {0} /\ ChunkLen \in Nat \ {0}
  BY SizesAssumption
<1>2. (FileSize - 1) \div ChunkLen \in Nat
  <2>1. FileSize - 1 \in Nat
    BY <1>1
  <2> QED BY <2>1, Division DEF ChunkOf
<1>3. IsFiniteSet(Unit) /\ Cardinality(Unit) = FileSize
  <2>1. 0 \in Int /\ FileSize - 1 \in Int /\ ~(0 > FileSize - 1)
        /\ (FileSize - 1) - 0 + 1 = FileSize
    BY <1>1
  <2> QED BY <2>1, FS_Interval DEF Unit
<1>4. IsFiniteSet(Chunk)
  <2>1. 0 \in Int /\ (FileSize - 1) \div ChunkLen \in Int
    BY <1>2
  <2> QED BY <2>1, FS_Interval DEF Chunk
<1>5. Unit \subseteq Nat /\ NoFeed \notin Unit /\ Chunk \subseteq Nat
  BY <1>1, <1>2 DEF Unit, Chunk, NoFeed
<1> QED BY <1>3, <1>4, <1>5, SizesAssumption

\* The fields of a slice.
LEMMA SliceTypes ==
    ASSUME NEW s \in Slice
    PROVE  /\ s.id \in Unit /\ s.id \in Nat
           /\ s.size \in Nat \ {0} /\ s.size <= MaxSlice
<1>1. s.id \in Unit /\ s.size \in 1 .. MaxSlice
  BY DEF Slice
<1>2. Unit \subseteq Nat /\ MaxSlice \in Nat
  BY Bounds
<1>3. s.size \in Nat \ {0} /\ s.size <= MaxSlice
  BY <1>1, <1>2
<1> QED BY <1>1, <1>2, <1>3

\* What slices of chunk c are waited for.
AskedOf(S, c) == SumFunctionOnSet([s \in S |-> s.size], {s \in S : ChunkOf(s.id) = c})

\* The sum is a number, no slice is larger, and it is zero without slices.
LEMMA AskedBounds ==
    ASSUME NEW S \in SUBSET Slice, IsFiniteSet(S), NEW c
    PROVE  /\ AskedOf(S, c) \in Nat
           /\ \A s \in S : ChunkOf(s.id) = c => s.size <= AskedOf(S, c)
           /\ (\A s \in S : ChunkOf(s.id) # c) => AskedOf(S, c) = 0
<1> DEFINE f == [s \in S |-> s.size]
           T == {s \in S : ChunkOf(s.id) = c}
<1>1. IsFiniteSet(T)
  BY FS_Subset
<1>2. \A s \in T : f[s] = s.size /\ f[s] \in Nat
  BY SliceTypes
<1>3. /\ SumFunctionOnSet(f, T) \in Nat
      /\ \A s \in T : f[s] <= SumFunctionOnSet(f, T)
  <2> HIDE DEF f, T
  <2> QED BY <1>1, <1>2, SumBounds
<1>4. T = {} => SumFunctionOnSet(f, T) = 0
  BY SumOfNone
<1> QED BY <1>2, <1>3, <1>4 DEF AskedOf

\* A slice less.
LEMMA AskedWithout ==
    ASSUME NEW S \in SUBSET Slice, IsFiniteSet(S), NEW c, NEW s \in S
    PROVE  AskedOf(S, c) = AskedOf(S \ {s}, c) + (IF ChunkOf(s.id) = c THEN s.size ELSE 0)
<1> DEFINE f == [x \in S |-> x.size]
           g == [x \in S \ {s} |-> x.size]
           T == {x \in S : ChunkOf(x.id) = c}
           U == {x \in S \ {s} : ChunkOf(x.id) = c}
<1>1. IsFiniteSet(T) /\ IsFiniteSet(U)
  BY FS_Subset
<1>2. \A x \in T : f[x] \in Int
  BY SliceTypes
<1>3. \A x \in U : f[x] = g[x]
  OBVIOUS
<1>4. SumFunctionOnSet(f, U) = SumFunctionOnSet(g, U)
  <2> HIDE DEF f, g, U
  <2> QED BY <1>1, <1>3, SumSame
<1>5. AskedOf(S, c) = SumFunctionOnSet(f, T) /\ AskedOf(S \ {s}, c) = SumFunctionOnSet(g, U)
  BY DEF AskedOf
<1>6. SumFunctionOnSet(g, U) \in Nat
  <2>1. IsFiniteSet(S \ {s}) /\ S \ {s} \in SUBSET Slice
    BY FS_Subset
  <2> QED BY <1>5, <2>1, AskedBounds
<1>7. CASE ChunkOf(s.id) = c
  <2>1. s \in T /\ U = T \ {s} /\ f[s] = s.size
    BY <1>7
  <2>2. SumFunctionOnSet(f, T) = f[s] + SumFunctionOnSet(f, T \ {s})
    <3> HIDE DEF f, T
    <3> QED BY <1>1, <1>2, <2>1, SumTake
  <2>3. SumFunctionOnSet(f, T) = s.size + SumFunctionOnSet(g, U) /\ s.size \in Nat
    BY <1>4, <2>1, <2>2, SliceTypes
  <2> HIDE DEF f, g, T, U
  <2> QED BY <1>5, <1>6, <1>7, <2>3
<1>8. CASE ChunkOf(s.id) # c
  <2>1. U = T
    BY <1>8
  <2> HIDE DEF f, g, T, U
  <2> QED BY <1>4, <1>5, <1>6, <1>8, <2>1
<1> QED BY <1>7, <1>8

\* A slice more.
LEMMA AskedWith ==
    ASSUME NEW S \in SUBSET Slice, IsFiniteSet(S), NEW c, NEW s \in Slice, s \notin S
    PROVE  AskedOf(S \cup {s}, c) = AskedOf(S, c) + (IF ChunkOf(s.id) = c THEN s.size ELSE 0)
<1>1. IsFiniteSet(S \cup {s}) /\ S \cup {s} \in SUBSET Slice /\ (S \cup {s}) \ {s} = S
  BY FS_AddElement
<1> QED BY <1>1, AskedWithout

\* What is still to be fed of chunk c: at most one peer is fed.
ToFeed(fd, c) == SumFunctionOnSet([p \in Peer |-> EndOf(c) - fd[p]],
                                  {p \in Peer : fd[p] # NoFeed /\ ChunkOf(fd[p]) = c})

OneFed(fd, c) == \A p, r \in Peer : /\ fd[p] # NoFeed /\ ChunkOf(fd[p]) = c
                                     /\ fd[r] # NoFeed /\ ChunkOf(fd[r]) = c => p = r

\* It is what follows the feed in the chunk, or zero when nobody is fed.
LEMMA ToFeedIs ==
    ASSUME NEW c \in Chunk, NEW fd \in [Peer -> Unit \cup {NoFeed}], OneFed(fd, c)
    PROVE  /\ \A p \in Peer : fd[p] # NoFeed /\ ChunkOf(fd[p]) = c =>
                 /\ ToFeed(fd, c) = EndOf(c) - fd[p]
                 /\ ToFeed(fd, c) \in Nat \ {0}
           /\ (\A p \in Peer : ~(fd[p] # NoFeed /\ ChunkOf(fd[p]) = c)) => ToFeed(fd, c) = 0
           /\ ToFeed(fd, c) \in Nat
<1> DEFINE f == [p \in Peer |-> EndOf(c) - fd[p]]
           T == {p \in Peer : fd[p] # NoFeed /\ ChunkOf(fd[p]) = c}
<1>1. ASSUME NEW p \in T
      PROVE  SumFunctionOnSet(f, T) = EndOf(c) - fd[p] /\ EndOf(c) - fd[p] \in Nat \ {0}
  <2>1. T = {p}
    BY DEF OneFed
  <2>2. EndOf(c) - fd[p] \in Nat \ {0}
    <3>1. fd[p] \in Unit /\ ChunkOf(fd[p]) = c
      OBVIOUS
    <3>2. fd[p] \in Nat /\ fd[p] < EndOf(c) /\ EndOf(c) \in Nat
      BY <3>1, UnitIn, ChunkRange
    <3> QED BY <3>2
  <2>3. f[p] = EndOf(c) - fd[p]
    OBVIOUS
  <2>4. SumFunctionOnSet(f, {} \cup {p}) = f[p] + SumFunctionOnSet(f, {})
    <3>1. IsFiniteSet({}) /\ p \notin {} /\ \A y \in {} \cup {p} : f[y] \in Int
      BY <2>2, <2>3, FS_EmptySet
    <3> HIDE DEF f
    <3> QED BY <3>1, SumAdd
  <2>5. SumFunctionOnSet(f, {}) = 0 /\ {} \cup {p} = {p}
    BY SumOfNone
  <2> HIDE DEF f, T
  <2> QED BY <2>1, <2>2, <2>3, <2>4, <2>5
<1>2. T = {} => SumFunctionOnSet(f, T) = 0
  BY SumOfNone
<1>3. ToFeed(fd, c) = SumFunctionOnSet(f, T)
  BY DEF ToFeed
<1>4. ToFeed(fd, c) \in Nat
  <2> HIDE DEF f, T
  <2> QED BY <1>1, <1>2, <1>3
<1>5. ASSUME NEW p \in Peer, fd[p] # NoFeed /\ ChunkOf(fd[p]) = c
      PROVE  ToFeed(fd, c) = EndOf(c) - fd[p] /\ ToFeed(fd, c) \in Nat \ {0}
  <2>1. p \in T
    BY <1>5
  <2> HIDE DEF f, T
  <2> QED BY <1>1, <1>3, <2>1
<1>6. (\A p \in Peer : ~(fd[p] # NoFeed /\ ChunkOf(fd[p]) = c)) => ToFeed(fd, c) = 0
  BY <1>2, <1>3
<1> QED BY <1>4, <1>5, <1>6

\* ChunkAccounted in these terms.
LEMMA AccountedIs ==
    ChunkAccounted <=> \A c \in Chunk : map[c] = "active" =>
                           remains[c] = AskedOf(slices, c) + ToFeed(feed, c)
  BY DEF ChunkAccounted, AskedOf, ToFeed

\* What counts as downloaded of chunk c (updateTotalDownloaded()).
Counted(m, rem, c) == IF m[c] = "outstanding" THEN 0
                      ELSE SizeOfChunk(c) - (IF m[c] = "active" THEN rem[c] ELSE 0)

Others(m, rem, c) ==
    SumFunctionOnSet([d \in Chunk |-> SizeOfChunk(d) - (IF m[d] = "active" THEN rem[d] ELSE 0)],
                     {d \in Chunk : m[d] # "outstanding"} \ {c})

\* The total is the share of one chunk and that of the others.
LEMMA TotalSplits ==
    ASSUME NEW m, NEW rem \in [Chunk -> Int], NEW c \in Chunk
    PROVE  /\ TotalOf(m, rem) = Counted(m, rem, c) + Others(m, rem, c)
           /\ Counted(m, rem, c) \in Int /\ Others(m, rem, c) \in Int
<1> DEFINE f == [d \in Chunk |-> SizeOfChunk(d) - (IF m[d] = "active" THEN rem[d] ELSE 0)]
           T == {d \in Chunk : m[d] # "outstanding"}
<1>1. IsFiniteSet(T) /\ IsFiniteSet(T \ {c})
  BY Bounds, FS_Subset
<1>2. \A d \in Chunk : f[d] \in Int
  BY ChunkRange, SizesAssumption
<1>3. TotalOf(m, rem) = SumFunctionOnSet(f, T)
  BY DEF TotalOf
<1>4. Others(m, rem, c) = SumFunctionOnSet(f, T \ {c})
  BY DEF Others
<1>5. SumFunctionOnSet(f, T \ {c}) \in Int
  <2>1. \A d \in T \ {c} : f[d] \in Int
    BY <1>2
  <2> HIDE DEF f, T
  <2> QED BY <1>1, <2>1, SumIsInt
<1>6. CASE c \in T
  <2>1. SumFunctionOnSet(f, T) = f[c] + SumFunctionOnSet(f, T \ {c})
    <3>1. \A d \in T : f[d] \in Int
      BY <1>2
    <3> HIDE DEF f, T
    <3> QED BY <1>1, <1>6, <3>1, SumTake
  <2>2. Counted(m, rem, c) = f[c]
    BY <1>6 DEF Counted
  <2>3. f[c] \in Int
    BY <1>2
  <2> HIDE DEF f, T
  <2> QED BY <1>3, <1>4, <1>5, <2>1, <2>2, <2>3
<1>7. CASE c \notin T
  <2>1. Counted(m, rem, c) = 0 /\ T \ {c} = T
    BY <1>7 DEF Counted
  <2> HIDE DEF f, T
  <2> QED BY <1>3, <1>4, <1>5, <2>1
<1> QED BY <1>6, <1>7

\* A change of one chunk changes the total by what counts of that chunk.
SameBut(c, m, rem, n, left) ==
    /\ c \in Chunk /\ rem \in [Chunk -> Int] /\ left \in [Chunk -> Int]
    /\ \A d \in Chunk : d # c => n[d] = m[d] /\ left[d] = rem[d]

\* A step that changes chunk c only (ChunkMap adjusts _total_downloaded).
LEMMA TotalChange ==
    ASSUME NEW c, NEW m, NEW rem, NEW n, NEW left, SameBut(c, m, rem, n, left)
    PROVE  /\ TotalOf(n, left) = TotalOf(m, rem) - Counted(m, rem, c) + Counted(n, left, c)
           /\ TotalOf(m, rem) \in Int
           /\ Counted(m, rem, c) \in Int /\ Counted(n, left, c) \in Int
<1>0. c \in Chunk /\ rem \in [Chunk -> Int] /\ left \in [Chunk -> Int]
  BY DEF SameBut
<1>1. Others(m, rem, c) = Others(n, left, c)
  <2> DEFINE f == [d \in Chunk |-> SizeOfChunk(d) - (IF m[d] = "active" THEN rem[d] ELSE 0)]
             g == [d \in Chunk |-> SizeOfChunk(d) - (IF n[d] = "active" THEN left[d] ELSE 0)]
             T == {d \in Chunk : m[d] # "outstanding"} \ {c}
             U == {d \in Chunk : n[d] # "outstanding"} \ {c}
  <2>1. T = U /\ \A d \in T : f[d] = g[d]
    BY DEF SameBut
  <2>2. IsFiniteSet(T)
    <3>1. T \in SUBSET Chunk
      OBVIOUS
    <3> QED BY <3>1, Bounds, FS_Subset
  <2>3. SumFunctionOnSet(f, T) = SumFunctionOnSet(g, T)
    <3> HIDE DEF f, g, T, U
    <3> QED BY <2>1, <2>2, SumSame
  <2> QED BY <2>1, <2>3 DEF Others
<1>2. /\ TotalOf(m, rem) = Counted(m, rem, c) + Others(m, rem, c)
      /\ TotalOf(n, left) = Counted(n, left, c) + Others(n, left, c)
      /\ Counted(m, rem, c) \in Int /\ Others(m, rem, c) \in Int
      /\ Counted(n, left, c) \in Int
  BY <1>0, TotalSplits
<1> QED BY <1>1, <1>2

\* Chunks together are as large as the file.
LEMMA SizesAddUp ==
    ASSUME NEW C \in SUBSET Chunk
    PROVE  SumFunctionOnSet([c \in Chunk |-> SizeOfChunk(c)], C) <= FileSize
<1> DEFINE f == [c \in Chunk |-> SizeOfChunk(c)]
           In(D) == {u \in Unit : ChunkOf(u) \in D}
           Good == {D \in SUBSET C : SumFunctionOnSet(f, D) = Cardinality(In(D))}
<1>1. ASSUME NEW D \in SUBSET C, \A t \in SUBSET D : t # D => t \in Good
      PROVE  D \in Good
  <2>1. CASE D = {}
    <3>1. In(D) = {}
      BY <2>1
    <3> QED BY <2>1, <3>1, SumOfNone, FS_EmptySet
  <2>2. CASE D # {}
    <3> DEFINE c == First(D)
               E == D \ {c}
    <3>1. c \in D /\ c \in Chunk /\ E \in Good
      BY <1>1, <2>2, FirstIn
    <3>2. IsFiniteSet(D)
      BY Bounds, FS_Subset
    <3>3. SumFunctionOnSet(f, D) = f[c] + SumFunctionOnSet(f, E)
      BY <2>2, <3>2, SumStep
    <3>4. IsFiniteSet(In(E)) /\ IsFiniteSet(Units(c))
      BY Bounds, FS_Subset DEF Units
    <3>5. In(D) = In(E) \cup Units(c) /\ In(E) \cap Units(c) = {}
      BY <3>1 DEF Units
    <3>6. Cardinality(In(D)) = Cardinality(In(E)) + Cardinality(Units(c))
      <4>1. Cardinality({}) = 0
        BY FS_EmptySet
      <4>2. Cardinality(In(E)) \in Nat /\ Cardinality(Units(c)) \in Nat
        BY <3>4, FS_CardinalityType
      <4> HIDE DEF In, c, E
      <4>3. Cardinality(In(E) \cup Units(c))
               = Cardinality(In(E)) + Cardinality(Units(c)) - Cardinality(In(E) \cap Units(c))
        BY <3>4, FS_Union
      <4>4. Cardinality(In(D)) = Cardinality(In(E) \cup Units(c))
        BY <3>5
      <4>5. Cardinality(In(E) \cap Units(c)) = 0
        BY <3>5, <4>1
      <4> QED BY <4>2, <4>3, <4>4, <4>5
    <3>7. f[c] = Cardinality(Units(c))
      BY <3>1 DEF SizeOfChunk
    <3>8. Cardinality(In(E)) \in Nat /\ Cardinality(Units(c)) \in Nat
      BY <3>4, FS_CardinalityType
    <3>9. SumFunctionOnSet(f, E) = Cardinality(In(E))
      BY <3>1
    <3>10. SumFunctionOnSet(f, D) = Cardinality(In(D))
      <4> HIDE DEF f, In, c, E
      <4> QED BY <3>3, <3>6, <3>7, <3>8, <3>9
    <3> QED BY <3>10
  <2> QED BY <2>1, <2>2
<1>2. C \in Good
  <2>1. IsFiniteSet(C)
    BY Bounds, FS_Subset
  <2> HIDE DEF Good
  <2> QED BY <1>1, <2>1, SubsetInduction
<1>3. Cardinality(In(C)) <= FileSize
  <2>1. In(C) \in SUBSET Unit
    OBVIOUS
  <2> HIDE DEF In
  <2> QED BY <2>1, Bounds, FS_Subset
<1> QED BY <1>2, <1>3

\* The total is never more than the file.
LEMMA TotalBounds ==
    ASSUME NEW m, NEW rem \in [Chunk -> Nat],
           \A c \in Chunk : m[c] = "active" => rem[c] <= SizeOfChunk(c)
    PROVE  TotalOf(m, rem) \in 0 .. FileSize
<1> DEFINE f == [d \in Chunk |-> SizeOfChunk(d) - (IF m[d] = "active" THEN rem[d] ELSE 0)]
           g == [d \in Chunk |-> SizeOfChunk(d)]
           T == {d \in Chunk : m[d] # "outstanding"}
<1>1. IsFiniteSet(T) /\ T \in SUBSET Chunk
  BY Bounds, FS_Subset
<1>2. \A d \in T : f[d] \in Nat /\ g[d] \in Nat /\ f[d] <= g[d]
  <2> SUFFICES ASSUME NEW d \in T PROVE f[d] \in Nat /\ g[d] \in Nat /\ f[d] <= g[d]
    OBVIOUS
  <2>1. SizeOfChunk(d) \in Nat /\ rem[d] \in Nat
    BY ChunkRange, SizesAssumption
  <2> QED BY <2>1
<1>3. SumFunctionOnSet(f, T) \in Nat
  <2> HIDE DEF f, g, T
  <2> QED BY <1>1, <1>2, SumBounds
<1>4. SumFunctionOnSet(f, T) <= SumFunctionOnSet(g, T)
  <2>1. \A d \in T : f[d] \in Int /\ g[d] \in Int /\ f[d] <= g[d]
    BY <1>2
  <2> HIDE DEF f, g, T
  <2> QED BY <1>1, <2>1, SumMonotone
<1>5. SumFunctionOnSet(g, T) <= FileSize
  BY <1>1, SizesAddUp
<1>6. SumFunctionOnSet(g, T) \in Nat
  <2> HIDE DEF f, g, T
  <2> QED BY <1>1, <1>2, SumBounds
<1>7. TotalOf(m, rem) = SumFunctionOnSet(f, T)
  BY DEF TotalOf
<1> HIDE DEF f, g, T
<1> QED BY <1>3, <1>4, <1>5, <1>6, <1>7, Bounds
-----------------------------------------------------------------------------
(* Slices, parts and feeds *)

\* Different chunks do not overlap.
LEMMA ChunksApart ==
    ASSUME NEW c \in Chunk, NEW d \in Chunk, c # d
    PROVE  EndOf(c) <= Start(d) \/ EndOf(d) <= Start(c)
<1>1. c \in Nat /\ d \in Nat /\ ChunkLen \in Nat
  BY Bounds
<1>2. /\ c < d => Start(c) + ChunkLen <= Start(d)
      /\ d < c => Start(d) + ChunkLen <= Start(c)
      /\ Start(c) \in Nat /\ Start(d) \in Nat
  BY <1>1, Multiples
<1>3. /\ EndOf(c) = Start(c) + SizeOfChunk(c) /\ EndOf(d) = Start(d) + SizeOfChunk(d)
      /\ SizeOfChunk(c) \in 1 .. ChunkLen /\ SizeOfChunk(d) \in 1 .. ChunkLen
  BY ChunkRange
<1> QED BY <1>1, <1>2, <1>3

\* A slice lies in one chunk.
LEMMA SliceRange ==
    ASSUME TypeOK, SlicesFit, NEW s \in slices
    PROVE  /\ s \in Slice /\ s.id \in Unit /\ s.id \in Nat
           /\ s.size \in Nat \ {0} /\ s.size <= MaxSlice
           /\ ChunkOf(s.id) \in Chunk /\ Start(ChunkOf(s.id)) <= s.id
           /\ s.id + s.size <= EndOf(ChunkOf(s.id)) /\ s.id < EndOf(ChunkOf(s.id))
           /\ map[ChunkOf(s.id)] = "active"
           /\ \A u \in Int : s.id <= u /\ u < s.id + s.size =>
                 u \in Unit /\ ChunkOf(u) = ChunkOf(s.id)
<1>1. s \in Slice
  BY DEF TypeOK
<1>2. s.id \in Unit /\ s.id \in Nat /\ s.size \in Nat \ {0} /\ s.size <= MaxSlice
  BY <1>1, SliceTypes
<1> DEFINE c == ChunkOf(s.id)
<1>3. c \in Chunk /\ Start(c) <= s.id /\ s.id < EndOf(c)
  BY <1>2, UnitIn
<1>4. s.id + s.size <= EndOf(c) /\ map[c] = "active"
  BY DEF SlicesFit
<1>5. ASSUME NEW u \in Int, s.id <= u, u < s.id + s.size
      PROVE  u \in Unit /\ ChunkOf(u) = c
  <2>1. Start(c) \in Nat /\ EndOf(c) \in Nat
    BY <1>3, ChunkRange, Bounds
  <2>2. Start(c) <= u /\ u < EndOf(c)
    <3> HIDE DEF c
    <3> QED BY <1>2, <1>3, <1>4, <1>5, <2>1
  <2> HIDE DEF c
  <2> QED BY <1>3, <2>2, InChunk
<1> QED BY <1>1, <1>2, <1>3, <1>4, <1>5

\* No two slices have the same first unit.
LEMMA SliceIds ==
    ASSUME TypeOK, SlicesFit, NEW s \in slices, NEW t \in slices, s.id = t.id
    PROVE  s = t
<1>1. s.id \in Nat /\ s.size \in Nat \ {0} /\ t.size \in Nat \ {0}
  BY SliceRange
<1>2. s = t \/ s.id + s.size <= t.id \/ t.id + t.size <= s.id
  BY DEF SlicesFit
<1> QED BY <1>1, <1>2

\* A part lies in a slice.
Within(q, s) == s.id = q.id /\ s.id <= q.off /\ q.off + q.size <= s.id + s.size

\* A part lies in a slice, and in the chunk of the slice.
LEMMA PartRange ==
    ASSUME TypeOK, SlicesFit, PartsFit, NEW q \in parts
    PROVE  /\ q \in Part /\ q.off \in Unit /\ q.off \in Nat /\ q.id \in Unit
           /\ q.size \in Nat \ {0} /\ q.size <= MaxSlice /\ q.peer \in Peer
           /\ \E s \in slices : Within(q, s)
           /\ map[ChunkOf(q.id)] = "active" /\ ChunkOf(q.id) \in Chunk
           /\ \A u \in Int : q.off <= u /\ u < q.off + q.size =>
                 u \in Unit /\ ChunkOf(u) = ChunkOf(q.id)
<1>1. q \in Part
  BY DEF TypeOK
<1>2. q.off \in Unit /\ q.size \in 1 .. MaxSlice /\ q.id \in Unit /\ q.peer \in Peer
  BY <1>1 DEF Part
<1>3. q.off \in Nat /\ q.size \in Nat \ {0} /\ q.size <= MaxSlice
  <2>1. Unit \subseteq Nat
    BY Bounds
  <2>2. MaxSlice \in Nat
    BY Bounds
  <2>3. q.size \in Nat \ {0} /\ q.size <= MaxSlice
    BY <1>2, <2>2
  <2> QED BY <1>2, <2>1, <2>3
<1>4. PICK s \in slices : Within(q, s)
  BY DEF PartsFit, Within
<1>5. /\ s.id \in Nat /\ s.size \in Nat \ {0} /\ map[ChunkOf(s.id)] = "active"
      /\ ChunkOf(s.id) \in Chunk
      /\ \A u \in Int : s.id <= u /\ u < s.id + s.size =>
            u \in Unit /\ ChunkOf(u) = ChunkOf(s.id)
  BY SliceRange
<1>6. ASSUME NEW u \in Int, q.off <= u, u < q.off + q.size
      PROVE  u \in Unit /\ ChunkOf(u) = ChunkOf(q.id)
  <2>1. s.id <= u /\ u < s.id + s.size
    BY <1>3, <1>4, <1>5, <1>6 DEF Within
  <2> QED BY <1>4, <1>5, <2>1 DEF Within
<1>7. map[ChunkOf(q.id)] = "active" /\ ChunkOf(q.id) \in Chunk
  BY <1>4, <1>5 DEF Within
<1> QED BY <1>1, <1>2, <1>3, <1>4, <1>6, <1>7

\* Parts of slice s that do not overlap.
PartsIn(P, s) ==
    /\ P \subseteq Part /\ IsFiniteSet(P)
    /\ \A q \in P : s.id <= q.off /\ q.off + q.size <= s.id + s.size
    /\ \A q, r \in P : q = r \/ q.off + q.size <= r.off \/ r.off + r.size <= q.off

\* A slice has at most as many parts as units.
LEMMA PartsFew ==
    ASSUME NEW s \in Slice, NEW P, PartsIn(P, s)
    PROVE  Cardinality(P) \in 0 .. MaxSlice
<1>0. /\ P \subseteq Part /\ IsFiniteSet(P)
      /\ \A q \in P : s.id <= q.off /\ q.off + q.size <= s.id + s.size
      /\ \A q, r \in P : q = r \/ q.off + q.size <= r.off \/ r.off + r.size <= q.off
  BY DEF PartsIn
<1>1. s.id \in Nat /\ s.size \in Nat \ {0} /\ s.size <= MaxSlice
  BY SliceTypes
<1>2. MaxSlice \in Nat
  BY Bounds
<1>3. ASSUME NEW q \in P
      PROVE  q.off \in Nat /\ q.size \in Nat \ {0}
  <2>1. q.off \in Unit /\ q.size \in 1 .. MaxSlice
    BY <1>0 DEF Part
  <2>2. Unit \subseteq Nat
    BY Bounds
  <2>3. q.size \in Nat \ {0}
    BY <1>2, <2>1
  <2> QED BY <2>1, <2>2, <2>3
<1> DEFINE T == s.id .. s.id + s.size - 1
           f == [q \in P |-> q.off]
<1>4. f \in Injection(P, T)
  <2>1. f \in [P -> T]
    <3> SUFFICES ASSUME NEW q \in P PROVE q.off \in T
      OBVIOUS
    <3> QED BY <1>0, <1>1, <1>3
  <2>2. ASSUME NEW q \in P, NEW r \in P, f[q] = f[r]
        PROVE  q = r
    <3>1. q.off = r.off
      BY <2>2
    <3>2. q.off \in Nat /\ q.size \in Nat \ {0} /\ r.size \in Nat \ {0}
      BY <1>3
    <3> QED BY <1>0, <3>1, <3>2
  <2> HIDE DEF f, T
  <2> QED BY <2>1, <2>2 DEF Injection, IsInjective
<1>5. IsFiniteSet(T) /\ Cardinality(T) = s.size
  <2>1. s.id \in Int /\ s.id + s.size - 1 \in Int /\ ~(s.id > s.id + s.size - 1)
        /\ (s.id + s.size - 1) - s.id + 1 = s.size
    BY <1>1
  <2> QED BY <2>1, FS_Interval
<1>6. Cardinality(P) <= Cardinality(T)
  <2> HIDE DEF f, T
  <2> QED BY <1>4, <1>5, FS_Injection
<1>7. Cardinality(P) \in Nat
  BY <1>0, FS_CardinalityType
<1> HIDE DEF T, f
<1> QED BY <1>1, <1>2, <1>5, <1>6, <1>7

\* The parts of the slice that begins at u.
LEMMA PartsOfBounded ==
    ASSUME TypeOK, SlicesFit, PartsFit, NEW u \in Unit
    PROVE  /\ IsFiniteSet(PartsOf(u))
           /\ Cardinality(PartsOf(u)) \in 0 .. MaxSlice
<1>1. IsFiniteSet(PartsOf(u))
  BY FS_Subset DEF PartsFit, PartsOf
<1>2. CASE PartsOf(u) = {}
  <2>1. MaxSlice \in Nat
    BY Bounds
  <2> QED BY <1>1, <1>2, <2>1, FS_EmptySet
<1>3. CASE PartsOf(u) # {}
  <2>1. PICK s \in slices : s.id = u
    BY <1>3, PartRange DEF PartsOf, Within
  <2>2. ASSUME NEW r \in PartsOf(u)
        PROVE  s.id <= r.off /\ r.off + r.size <= s.id + s.size
    <3>1. PICK t \in slices : Within(r, t)
      BY PartRange DEF PartsOf
    <3>2. t = s
      BY <2>1, <3>1, SliceIds DEF Within, PartsOf
    <3> QED BY <3>1, <3>2 DEF Within
  <2>3. s \in Slice
    BY SliceRange
  <2>4. PartsIn(PartsOf(u), s)
    BY <1>1, <2>2 DEF PartsIn, PartsOf, PartsFit, TypeOK
  <2> QED BY <1>1, <2>3, <2>4, PartsFew
<1> QED BY <1>2, <1>3
-----------------------------------------------------------------------------
(* Taking a slice *)

\* The smaller of two numbers.
LEMMA Smaller ==
    ASSUME NEW a \in Nat, NEW b \in Nat
    PROVE  Min({a, b}) \in {a, b} /\ Min({a, b}) <= a /\ Min({a, b}) <= b
<1>1. \E x \in {a, b} : \A y \in {a, b} : x <= y
  OBVIOUS
<1>2. Min({a, b}) \in {a, b} /\ \A y \in {a, b} : Min({a, b}) <= y
  BY <1>1 DEF Min
<1> QED BY <1>2

\* The chunk c of unit off is active after the step, everything before off has
\* been given out, and nobody but f is fed from it.
Opened(f, off, c) ==
    /\ off \in Unit /\ ChunkOf(off) = c /\ c \in Chunk
    /\ map' \in [Chunk -> States] /\ remains' \in [Chunk -> 0 .. ChunkLen]
    /\ map'[c] = "active" /\ map[c] \in {"outstanding", "active"}
    /\ \A d \in Chunk : d # c => map'[d] = map[d] /\ remains'[d] = remains[d]
    /\ \A s \in slices : ChunkOf(s.id) = c => s.id + s.size <= off
    /\ \A r \in Peer : r # f => ~Fed(r, c)
    /\ feed[f] \in {NoFeed, off}
    /\ remains'[c] = AskedOf(slices, c) + (EndOf(c) - off)
    /\ remains'[c] <= SizeOfChunk(c)
    /\ total = TotalOf(map', remains')
    /\ \A u \in Unit : ChunkOf(u) = c /\ content[u] = "missing" /\ u < off =>
          \E q \in parts : q.off <= u /\ u < q.off + q.size

\* A chunk that feeds f.
LEMMA FeedOpened ==
    ASSUME FileInv, NEW f \in Peer, feed[f] # NoFeed, UNCHANGED <<map, remains>>
    PROVE  Opened(f, feed[f], ChunkOf(feed[f]))
<1> DEFINE off == feed[f]
           c   == ChunkOf(off)
<1>0. TypeOK /\ FeedsFit /\ SlicesFit /\ SumsFit /\ ContentFits
  BY DEF FileInv
<1>1. off \in Unit /\ c \in Chunk
  <2>1. off \in Unit
    BY <1>0 DEF TypeOK
  <2> QED BY <2>1, UnitIn
<1>2. /\ map' \in [Chunk -> States] /\ remains' \in [Chunk -> 0 .. ChunkLen]
      /\ map'[c] = "active" /\ map[c] = "active"
  BY <1>0, <1>1 DEF TypeOK, FeedsFit, States
<1>3. Fed(f, c)
  BY DEF Fed
<1>4. \A r \in Peer : r # f => ~Fed(r, c)
  BY <1>0, <1>1, <1>3 DEF FeedsFit
<1>5. \A s \in slices : ChunkOf(s.id) = c => s.id + s.size <= off
  BY <1>0, <1>3 DEF SlicesFit
<1>6. remains[c] = AskedOf(slices, c) + (EndOf(c) - off)
  <2>1. feed \in [Peer -> Unit \cup {NoFeed}]
    BY <1>0 DEF TypeOK
  <2>2. OneFed(feed, c)
    BY <1>0, <1>1 DEF FeedsFit, Fed, OneFed
  <2>3. ToFeed(feed, c) = EndOf(c) - off
    <3>1. feed[f] # NoFeed /\ ChunkOf(feed[f]) = c
      OBVIOUS
    <3> HIDE DEF c
    <3> QED BY <1>1, <2>1, <2>2, <3>1, ToFeedIs
  <2> QED BY <1>0, <1>1, <1>2, <2>3, AccountedIs DEF SumsFit
<1>7. remains[c] <= SizeOfChunk(c) /\ total = TotalOf(map, remains)
  BY <1>0, <1>1, <1>2 DEF SumsFit, CacheExact
<1>8. ASSUME NEW u \in Unit, ChunkOf(u) = c, content[u] = "missing", u < off
      PROVE  \E q \in parts : q.off <= u /\ u < q.off + q.size
  <2>1. Expected(u)
    BY <1>0, <1>2, <1>8 DEF ContentFits
  <2>2. ASSUME NEW p \in Peer, Fed(p, ChunkOf(u)), feed[p] <= u
        PROVE  FALSE
    <3>1. p = f
      BY <1>4, <1>8, <2>2
    <3>2. off \in Nat /\ u \in Nat
      BY <1>1, Bounds
    <3> QED BY <1>8, <2>2, <3>1, <3>2
  <2> QED BY <2>1, <2>2 DEF Expected
<1> HIDE DEF c, off
<1>9. remains' = remains /\ map' = map /\ feed[f] = off
  BY DEF off
<1>10. ChunkOf(off) = c
  BY DEF c
<1>11. Opened(f, off, c)
  BY <1>1, <1>2, <1>4, <1>5, <1>6, <1>7, <1>8, <1>9, <1>10 DEF Opened
<1> QED BY <1>11 DEF c, off

\* A chunk that becomes active (getAvailableChunk()).
LEMMA ChunkOpened ==
    ASSUME FileInv, NEW p \in Peer, feed[p] = NoFeed, NEW c \in Chunk,
           map[c] = "outstanding", map' = [map EXCEPT ![c] = "active"],
           remains' = [remains EXCEPT ![c] = SizeOfChunk(c)]
    PROVE  Opened(p, Start(c), c)
<1> DEFINE off == Start(c)
<1>0. TypeOK /\ FeedsFit /\ SlicesFit /\ SumsFit /\ ContentFits
  BY DEF FileInv
<1>1. /\ off \in Unit /\ ChunkOf(off) = c /\ SizeOfChunk(c) \in 1 .. ChunkLen
      /\ EndOf(c) = off + SizeOfChunk(c)
  BY ChunkRange
<1>2. /\ map' \in [Chunk -> States] /\ remains' \in [Chunk -> 0 .. ChunkLen]
      /\ map'[c] = "active" /\ remains'[c] = SizeOfChunk(c)
      /\ \A d \in Chunk : d # c => map'[d] = map[d] /\ remains'[d] = remains[d]
  <2>1. map \in [Chunk -> States] /\ remains \in [Chunk -> 0 .. ChunkLen]
    BY <1>0 DEF TypeOK, States
  <2>2. SizeOfChunk(c) \in 0 .. ChunkLen
    BY <1>1
  <2> QED BY <2>1, <2>2 DEF States
<1>3. \A s \in slices : ChunkOf(s.id) # c
  BY <1>0, SliceRange
<1>4. \A r \in Peer : ~Fed(r, c)
  BY <1>0 DEF FeedsFit, Fed
<1>5. AskedOf(slices, c) = 0
  <2>1. slices \in SUBSET Slice /\ IsFiniteSet(slices)
    BY <1>0 DEF TypeOK, SlicesFit
  <2> QED BY <1>3, <2>1, AskedBounds
<1>6. remains'[c] = AskedOf(slices, c) + (EndOf(c) - off)
  <2>1. off \in Nat /\ ChunkLen \in Nat
    BY <1>1, Bounds
  <2> HIDE DEF off
  <2> QED BY <1>1, <1>2, <1>5, <2>1
<1>7. total = TotalOf(map', remains')
  <2>1. SameBut(c, map, remains, map', remains')
    <3>1. remains \in [Chunk -> 0 .. ChunkLen]
      BY <1>0 DEF TypeOK
    <3> QED BY <1>2, <3>1 DEF SameBut
  <2>2. /\ TotalOf(map', remains')
              = TotalOf(map, remains) - Counted(map, remains, c) + Counted(map', remains', c)
        /\ TotalOf(map, remains) \in Int
    BY <2>1, TotalChange
  <2>3. Counted(map, remains, c) = 0
    BY DEF Counted
  <2>4. Counted(map', remains', c) = 0
    <3>1. SizeOfChunk(c) - SizeOfChunk(c) = 0
      BY <1>1
    <3> QED BY <1>2, <3>1 DEF Counted
  <2>5. total = TotalOf(map, remains)
    BY <1>0 DEF SumsFit, CacheExact
  <2> QED BY <2>2, <2>3, <2>4, <2>5
<1>8. ASSUME NEW u \in Unit, ChunkOf(u) = c, u < off
      PROVE  FALSE
  <2>1. u \in Nat /\ off <= u /\ off \in Nat
    BY <1>1, <1>8, UnitIn, Bounds
  <2> HIDE DEF off
  <2> QED BY <1>8, <2>1
<1>9. remains'[c] <= SizeOfChunk(c)
  BY <1>1, <1>2
<1>10. Opened(p, off, c)
  <2> HIDE DEF off
  <2> QED BY <1>1, <1>2, <1>3, <1>4, <1>6, <1>7, <1>8, <1>9 DEF Opened
<1> QED BY <1>10

\* The part that peer p is asked for, and the step of TakeSlice(): the new slice x
\* begins at off.
Whole(p, x) == [off |-> x.id, size |-> x.size, id |-> x.id, peer |-> p]

Given(p, f, c, x) ==
    /\ x \in Slice /\ x.id + x.size <= EndOf(c) /\ x.peers = {p}
    /\ slices' = slices \cup {x} /\ parts' = parts \cup {Whole(p, x)}
    /\ feed' = [feed EXCEPT ![f] = IF x.id + x.size = EndOf(c) THEN NoFeed
                                   ELSE x.id + x.size]
    /\ refs' = [refs EXCEPT ![x.id] = 1] /\ count' = [count EXCEPT ![p] = @ + 1]
    /\ Request(p, x.id, x.size)

\* TakeSlice() gives out such a slice.
LEMMA TakeGives ==
    ASSUME NEW p \in Peer, NEW f, NEW c \in Chunk, NEW off \in Unit, ChunkOf(off) = c,
           NEW hint \in 1 .. MaxSlice, TakeSlice(p, f, off, hint)
    PROVE  \E x \in Slice : x.id = off /\ Given(p, f, c, x)
<1> DEFINE size == Min({hint, EndOf(c) - off})
           x    == [id |-> off, size |-> size, peers |-> {p}]
<1>1. size \in 1 .. MaxSlice /\ off + size <= EndOf(c)
  <2>1. off \in Nat /\ off < EndOf(c) /\ EndOf(c) \in Nat /\ MaxSlice \in Nat
    BY UnitIn, ChunkRange, Bounds
  <2>2. hint \in Nat /\ EndOf(c) - off \in Nat
    BY <2>1
  <2>3. size \in {hint, EndOf(c) - off} /\ size <= hint /\ size <= EndOf(c) - off
    BY <2>2, Smaller
  <2> HIDE DEF size
  <2> QED BY <2>1, <2>2, <2>3
<1>2. /\ slices' = slices \cup {x}
      /\ feed' = [feed EXCEPT ![f] = IF off + size = EndOf(c) THEN NoFeed ELSE off + size]
      /\ parts' = parts \cup {[off |-> off, size |-> size, id |-> off, peer |-> p]}
      /\ refs' = [refs EXCEPT ![off] = 1] /\ count' = [count EXCEPT ![p] = @ + 1]
      /\ Request(p, off, size)
  BY DEF TakeSlice
<1> HIDE DEF size
<1>3. x \in Slice /\ x.id = off /\ x.size = size /\ x.peers = {p}
  BY <1>1 DEF Slice
<1>4. Given(p, f, c, x)
  <2> HIDE DEF x
  <2> QED BY <1>1, <1>2, <1>3 DEF Given, Whole
<1> QED BY <1>3, <1>4

\* What the step does to feeds.
LEMMA FeedMoves ==
    ASSUME FileInv, NEW p \in Peer, NEW f \in Peer, NEW c, NEW x \in Slice,
           Opened(f, x.id, c), Given(p, f, c, x)
    PROVE  /\ feed' \in [Peer -> Unit \cup {NoFeed}]
           /\ \A r \in Peer : r # f => feed'[r] = feed[r]
           /\ \/ feed'[f] = NoFeed /\ x.id + x.size = EndOf(c)
              \/ /\ feed'[f] = x.id + x.size /\ feed'[f] \in Unit
                 /\ feed'[f] # NoFeed /\ ChunkOf(feed'[f]) = c
           /\ \A r \in Peer : Fed(r, c)' => r = f
           /\ \A r \in Peer, d \in Chunk : d # c => (Fed(r, d)' <=> Fed(r, d))
           /\ \A r \in Peer, d \in Chunk : d # c /\ Fed(r, d) => r # f
<1>0. /\ feed \in [Peer -> Unit \cup {NoFeed}] /\ c \in Chunk
      /\ x.id \in Unit /\ ChunkOf(x.id) = c
      /\ \A r \in Peer : r # f => ~Fed(r, c)
      /\ feed[f] \in {NoFeed, x.id}
  BY DEF FileInv, TypeOK, Opened
<1>1. x.id \in Nat /\ x.size \in Nat \ {0} /\ EndOf(c) \in Nat /\ x.id + x.size <= EndOf(c)
  BY <1>0, SliceTypes, ChunkRange DEF Given
<1>2. \/ feed'[f] = NoFeed /\ x.id + x.size = EndOf(c)
      \/ feed'[f] = x.id + x.size /\ x.id + x.size # EndOf(c)
  BY <1>0 DEF Given
<1>3. ASSUME x.id + x.size # EndOf(c)
      PROVE  x.id + x.size \in Unit /\ ChunkOf(x.id + x.size) = c
  <2>1. Start(c) <= x.id /\ Start(c) \in Nat
    BY <1>0, UnitIn, ChunkRange, Bounds
  <2>2. Start(c) <= x.id + x.size /\ x.id + x.size < EndOf(c) /\ x.id + x.size \in Int
    BY <1>1, <1>3, <2>1
  <2> QED BY <1>0, <2>2, InChunk
<1>4. NoFeed \notin Unit
  BY Bounds
<1>5. /\ feed' \in [Peer -> Unit \cup {NoFeed}]
      /\ \A r \in Peer : r # f => feed'[r] = feed[r]
  BY <1>0, <1>3 DEF Given
<1>6. \/ feed'[f] = NoFeed /\ x.id + x.size = EndOf(c)
      \/ /\ feed'[f] = x.id + x.size /\ feed'[f] \in Unit
         /\ feed'[f] # NoFeed /\ ChunkOf(feed'[f]) = c
  BY <1>2, <1>3, <1>4
<1>7. \A r \in Peer : Fed(r, c)' => r = f
  BY <1>0, <1>5 DEF Fed
<1>8. \A r \in Peer, d \in Chunk : d # c => (Fed(r, d)' <=> Fed(r, d))
  BY <1>0, <1>5, <1>6 DEF Fed
<1>9. \A r \in Peer, d \in Chunk : d # c /\ Fed(r, d) => r # f
  BY <1>0 DEF Fed
<1> QED BY <1>5, <1>6, <1>7, <1>8, <1>9

\* The new slice overlaps no other, and is the last before the feed.
LEMMA TakeSlices ==
    ASSUME FileInv, NEW p \in Peer, NEW f \in Peer, NEW c, NEW x \in Slice,
           Opened(f, x.id, c), Given(p, f, c, x)
    PROVE  /\ \A s \in slices : s.id + s.size <= x.id \/ x.id + x.size <= s.id
           /\ x \notin slices /\ \A s \in slices : s.id # x.id
           /\ SlicesFit' /\ FeedsFit'
<1>0. TypeOK /\ SlicesFit /\ FeedsFit
  BY DEF FileInv
<1>1. /\ c \in Chunk /\ x.id \in Unit /\ ChunkOf(x.id) = c
      /\ \A s \in slices : ChunkOf(s.id) = c => s.id + s.size <= x.id
      /\ map'[c] = "active" /\ \A d \in Chunk : d # c => map'[d] = map[d]
      /\ slices' = slices \cup {x} /\ x.id + x.size <= EndOf(c)
  BY DEF Opened, Given
<1>2. x.id \in Nat /\ x.size \in Nat \ {0} /\ EndOf(c) \in Nat
  BY <1>1, SliceTypes, ChunkRange
<1>3. ASSUME NEW s \in slices
      PROVE  s.id + s.size <= x.id \/ x.id + x.size <= s.id
  <2> DEFINE d == ChunkOf(s.id)
  <2>1. /\ d \in Chunk /\ Start(d) <= s.id /\ s.id + s.size <= EndOf(d)
        /\ s.id \in Nat /\ s.size \in Nat
    BY <1>0, SliceRange
  <2>2. Start(c) <= x.id /\ Start(c) \in Nat /\ Start(d) \in Nat /\ EndOf(d) \in Nat
    BY <1>1, <2>1, UnitIn, ChunkRange, Bounds
  <2>3. d = c \/ EndOf(c) <= Start(d) \/ EndOf(d) <= Start(c)
    BY <1>1, <2>1, ChunksApart
  <2>4. d = c => s.id + s.size <= x.id
    BY <1>1
  <2> HIDE DEF d
  <2> QED BY <1>1, <1>2, <2>1, <2>2, <2>3, <2>4
<1>4. \A s \in slices : s.id # x.id
  <2> SUFFICES ASSUME NEW s \in slices, s.id = x.id PROVE FALSE
    OBVIOUS
  <2>1. s.size \in Nat \ {0}
    BY <1>0, SliceRange
  <2> QED BY <1>2, <1>3, <2>1
<1>5. x \notin slices
  BY <1>4
<1>6. IsFiniteSet(slices')
  BY <1>0, <1>1, FS_AddElement DEF SlicesFit
<1>7. ASSUME NEW s \in slices'
      PROVE  /\ map'[ChunkOf(s.id)] = "active"
             /\ s.id + s.size <= EndOf(ChunkOf(s.id))
             /\ \A r \in Peer : Fed(r, ChunkOf(s.id))' => s.id + s.size <= feed'[r]
  <2>1. CASE s = x
    <3>1. \A r \in Peer : Fed(r, c)' => x.id + x.size <= feed'[r]
      <4> SUFFICES ASSUME NEW r \in Peer, Fed(r, c)'
                   PROVE  x.id + x.size <= feed'[r]
        OBVIOUS
      <4>1. r = f
        BY FeedMoves
      <4>2. feed'[f] = x.id + x.size
        BY <4>1, FeedMoves DEF Fed
      <4> QED BY <1>2, <4>1, <4>2
    <3> QED BY <1>1, <2>1, <3>1
  <2>2. CASE s \in slices
    <3> DEFINE d == ChunkOf(s.id)
    <3>1. /\ d \in Chunk /\ s.id + s.size <= EndOf(d) /\ map[d] = "active"
          /\ s.id \in Nat /\ s.size \in Nat
      BY <1>0, <2>2, SliceRange
    <3>2. ASSUME NEW r \in Peer, Fed(r, d)'
          PROVE  s.id + s.size <= feed'[r]
      <4>1. CASE d = c
        <5>1. feed'[r] = x.id + x.size
          BY <3>2, <4>1, FeedMoves DEF Fed
        <5>2. s.id + s.size <= x.id
          BY <1>1, <2>2, <4>1
        <5> HIDE DEF d
        <5> QED BY <1>2, <3>1, <5>1, <5>2
      <4>2. CASE d # c
        <5>1. Fed(r, d) /\ r # f
          BY <3>1, <3>2, <4>2, FeedMoves
        <5>2. feed'[r] = feed[r]
          BY <5>1, FeedMoves
        <5> QED BY <1>0, <2>2, <5>1, <5>2 DEF SlicesFit
      <4> QED BY <4>1, <4>2
    <3>3. map'[d] = "active"
      BY <1>1, <3>1
    <3> QED BY <3>1, <3>2, <3>3
  <2> QED BY <1>1, <2>1, <2>2
<1>8. \A s, t \in slices' : s = t \/ s.id + s.size <= t.id \/ t.id + t.size <= s.id
  BY <1>0, <1>1, <1>3 DEF SlicesFit
<1>9. SlicesFit'
  BY <1>6, <1>7, <1>8 DEF SlicesFit
<1>10. FeedsFit'
  <2>1. ASSUME NEW r \in Peer, feed'[r] # NoFeed
        PROVE  map'[ChunkOf(feed'[r])] = "active"
    <3>1. CASE r = f
      BY <1>1, <2>1, <3>1, FeedMoves
    <3>2. CASE r # f
      <4>1. feed'[r] = feed[r]
        BY <3>2, FeedMoves
      <4>2. map[ChunkOf(feed[r])] = "active" /\ feed[r] \in Unit
        BY <1>0, <2>1, <4>1 DEF FeedsFit, TypeOK
      <4>3. ChunkOf(feed[r]) \in Chunk
        BY <4>2, UnitIn
      <4> QED BY <1>1, <4>1, <4>2, <4>3
    <3> QED BY <3>1, <3>2
  <2>2. ASSUME NEW q \in Peer, NEW r \in Peer, NEW d \in Chunk, Fed(q, d)' /\ Fed(r, d)'
        PROVE  q = r
    <3>1. CASE d = c
      BY <2>2, <3>1, FeedMoves
    <3>2. CASE d # c
      <4>1. Fed(q, d) /\ Fed(r, d)
        BY <2>2, <3>2, FeedMoves
      <4> QED BY <1>0, <4>1 DEF FeedsFit
    <3> QED BY <3>1, <3>2
  <2> QED BY <2>1, <2>2 DEF FeedsFit
<1> QED BY <1>3, <1>4, <1>5, <1>9, <1>10

\* It has one part.
LEMMA TakeParts ==
    ASSUME FileInv, NEW p \in Peer, NEW f \in Peer, NEW c, NEW x \in Slice,
           Opened(f, x.id, c), Given(p, f, c, x)
    PROVE  /\ PartsOf(x.id) = {} /\ refs' \in [Unit -> 0 .. MaxSlice]
           /\ PartsFit'
<1> DEFINE y == Whole(p, x)
<1>0. TypeOK /\ SlicesFit /\ PartsFit
  BY DEF FileInv
<1>1. /\ x.id \in Unit /\ slices' = slices \cup {x} /\ parts' = parts \cup {y}
      /\ refs' = [refs EXCEPT ![x.id] = 1]
  BY DEF Opened, Given
<1>2. x.id \in Nat /\ x.size \in Nat \ {0}
  BY SliceTypes
<1>3. y.off = x.id /\ y.size = x.size /\ y.id = x.id /\ y.peer = p
  BY DEF Whole
<1>4. /\ \A s \in slices : s.id + s.size <= x.id \/ x.id + x.size <= s.id
      /\ x \notin slices /\ \A s \in slices : s.id # x.id
  BY TakeSlices
<1>5. \A q \in parts : q.id # x.id
  BY <1>0, <1>4, PartRange DEF Within
<1>6. PartsOf(x.id) = {}
  BY <1>5 DEF PartsOf
<1> HIDE DEF y
<1>7. /\ PartsOf(x.id)' = {y}
      /\ \A u \in Unit : u # x.id => PartsOf(u)' = PartsOf(u)
  BY <1>1, <1>3, <1>5 DEF PartsOf
<1>8. \A u \in Unit : refs'[u] = Cardinality(PartsOf(u)')
  <2>1. refs \in [Unit -> 0 .. MaxSlice]
    BY <1>0 DEF TypeOK
  <2>2. Cardinality({y}) = 1
    BY FS_Singleton
  <2>3. \A u \in Unit : refs[u] = Cardinality(PartsOf(u))
    BY <1>0 DEF PartsFit
  <2> QED BY <1>1, <1>7, <2>1, <2>2, <2>3
<1>9. refs' \in [Unit -> 0 .. MaxSlice]
  <2>1. refs \in [Unit -> 0 .. MaxSlice] /\ MaxSlice \in Nat \ {0}
    BY <1>0, Bounds DEF TypeOK
  <2> QED BY <1>1, <2>1
<1>10. IsFiniteSet(parts')
  BY <1>0, <1>1, FS_AddElement DEF PartsFit
<1>11. ASSUME NEW q \in parts'
       PROVE  \E s \in slices' : Within(q, s)
  <2>1. CASE q = y
    BY <1>1, <1>2, <1>3, <2>1 DEF Within
  <2>2. CASE q \in parts
    BY <1>0, <1>1, <2>2, PartRange
  <2> QED BY <1>1, <2>1, <2>2
<1>12. ASSUME NEW q \in parts
       PROVE  q.off + q.size <= y.off \/ y.off + y.size <= q.off
  <2>1. PICK s \in slices : Within(q, s)
    BY <1>0, PartRange
  <2>2. q.off \in Nat /\ q.size \in Nat /\ s.id \in Nat /\ s.size \in Nat
    BY <1>0, PartRange, SliceRange
  <2>3. s.id + s.size <= x.id \/ x.id + x.size <= s.id
    BY <1>4
  <2> QED BY <1>2, <1>3, <2>1, <2>2, <2>3 DEF Within
<1>13. \A q, r \in parts' : q = r \/ q.off + q.size <= r.off \/ r.off + r.size <= q.off
  BY <1>0, <1>1, <1>12 DEF PartsFit
<1>14. \A q, r \in parts' : q.id = r.id => q.peer = r.peer
  BY <1>0, <1>1, <1>3, <1>5 DEF PartsFit
<1>15. ASSUME NEW s \in slices'
       PROVE  PartsOf(s.id)' # {}
  <2>1. CASE s = x
    BY <1>7, <2>1
  <2>2. CASE s \in slices
    <3>1. s.id \in Unit /\ s.id # x.id /\ PartsOf(s.id) # {}
      BY <1>0, <1>4, <2>2, SliceRange DEF PartsFit
    <3> QED BY <1>7, <3>1
  <2> QED BY <1>1, <2>1, <2>2
<1>16. PartsFit'
  BY <1>8, <1>10, <1>11, <1>13, <1>14, <1>15 DEF PartsFit, Within
<1> QED BY <1>6, <1>9, <1>16

\* It is expected, and what follows it in the chunk is still to be fed.
LEMMA TakeContents ==
    ASSUME FileInv, NEW p \in Peer, NEW f \in Peer, NEW c, NEW x \in Slice,
           Opened(f, x.id, c), Given(p, f, c, x), UNCHANGED <<content, saved>>
    PROVE  ContentFits'
<1>0. TypeOK /\ ContentFits
  BY DEF FileInv
<1>1. /\ c \in Chunk /\ x.id \in Unit /\ ChunkOf(x.id) = c
      /\ map'[c] = "active" /\ \A d \in Chunk : d # c => map'[d] = map[d]
      /\ parts' = parts \cup {Whole(p, x)}
  BY DEF Opened, Given
<1>2. ASSUME NEW d \in Chunk, map'[d] \in {"checking", "done"} \/ d \in saved'
      PROVE  Written(d)'
  BY <1>0, <1>1, <1>2 DEF ContentFits, Written
<1>3. ASSUME NEW u \in Unit, map'[ChunkOf(u)] = "active", content'[u] = "missing"
      PROVE  Expected(u)'
  <2> DEFINE d == ChunkOf(u)
  <2>1. d \in Chunk /\ u \in Nat /\ u < EndOf(d) /\ x.id \in Nat /\ x.size \in Nat \ {0}
    BY UnitIn, SliceTypes
  <2>2. CASE d # c
    <3>1. Expected(u)
      BY <1>0, <1>1, <1>3, <2>1, <2>2 DEF ContentFits
    <3>2. ASSUME NEW r \in Peer, Fed(r, d), feed[r] <= u
          PROVE  Fed(r, d)' /\ feed'[r] <= u
      <4>1. Fed(r, d)' /\ r # f
        BY <2>1, <2>2, <3>2, FeedMoves
      <4>2. feed'[r] = feed[r]
        BY <4>1, FeedMoves
      <4> QED BY <3>2, <4>1, <4>2
    <3> QED BY <1>1, <3>1, <3>2 DEF Expected
  <2>3. CASE d = c /\ u < x.id
    <3>1. \E q \in parts : q.off <= u /\ u < q.off + q.size
      BY <1>3, <2>3 DEF Opened
    <3> QED BY <1>1, <3>1 DEF Expected
  <2>4. CASE d = c /\ x.id <= u /\ u < x.id + x.size
    <3>1. Whole(p, x).off = x.id /\ Whole(p, x).size = x.size
      BY DEF Whole
    <3> QED BY <1>1, <2>4, <3>1 DEF Expected
  <2>5. CASE d = c /\ x.id + x.size <= u
    <3>1. x.id + x.size # EndOf(c)
      <4>1. EndOf(c) \in Nat /\ u < EndOf(c)
        BY <1>1, <2>1, <2>5, ChunkRange
      <4> HIDE DEF d
      <4> QED BY <2>1, <2>5, <4>1
    <3>2. feed'[f] = x.id + x.size /\ feed'[f] # NoFeed /\ ChunkOf(feed'[f]) = c
      BY <3>1, FeedMoves
    <3>3. Fed(f, d)' /\ feed'[f] <= u
      BY <2>5, <3>2 DEF Fed
    <3> QED BY <3>3 DEF Expected
  <2> HIDE DEF d
  <2> QED BY <2>1, <2>2, <2>3, <2>4, <2>5
<1> QED BY <1>2, <1>3 DEF ContentFits

\* CacheExact after a step.
LEMMA CacheIs ==
    CacheExact' <=> total' = TotalOf(map', remains') /\ complete' = AllDone(map')
  BY DEF CacheExact, TotalOf, AllDone

\* What remains of the chunk is the same: it moves from the feed to the slices.
LEMMA TakeSums ==
    ASSUME FileInv, NEW p \in Peer, NEW f \in Peer, NEW c, NEW x \in Slice,
           Opened(f, x.id, c), Given(p, f, c, x), flag = "downloading",
           UNCHANGED <<flag, total, complete>>
    PROVE  SumsFit'
<1>0. TypeOK /\ SlicesFit /\ FeedsFit /\ SumsFit
  BY DEF FileInv
<1>1. /\ c \in Chunk /\ x.id \in Unit /\ ChunkOf(x.id) = c
      /\ map'[c] = "active" /\ map[c] \in {"outstanding", "active"}
      /\ \A d \in Chunk : d # c => map'[d] = map[d] /\ remains'[d] = remains[d]
      /\ slices' = slices \cup {x} /\ x.id + x.size <= EndOf(c)
      /\ remains'[c] = AskedOf(slices, c) + (EndOf(c) - x.id)
      /\ remains'[c] <= SizeOfChunk(c) /\ total = TotalOf(map', remains')
  BY DEF Opened, Given
<1>2. /\ x.id \in Nat /\ x.size \in Nat \ {0} /\ EndOf(c) \in Nat
      /\ slices \in SUBSET Slice /\ IsFiniteSet(slices) /\ x \notin slices
  BY <1>0, <1>1, SliceTypes, ChunkRange, TakeSlices DEF TypeOK, SlicesFit
<1>3. \A d \in Chunk : /\ AskedOf(slices', d) = AskedOf(slices, d)
                                              + (IF d = c THEN x.size ELSE 0)
                       /\ AskedOf(slices, d) \in Nat
  BY <1>1, <1>2, AskedWith, AskedBounds
<1>4. FeedsFit' /\ feed' \in [Peer -> Unit \cup {NoFeed}]
      /\ feed \in [Peer -> Unit \cup {NoFeed}]
  BY <1>0, TakeSlices, FeedMoves DEF TypeOK
<1>5. \A d \in Chunk : OneFed(feed', d) /\ OneFed(feed, d)
  BY <1>0, <1>4 DEF FeedsFit, OneFed, Fed
<1>6. ToFeed(feed', c) = EndOf(c) - (x.id + x.size)
  <2>1. CASE feed'[f] = NoFeed /\ x.id + x.size = EndOf(c)
    <3>1. \A r \in Peer : ~(feed'[r] # NoFeed /\ ChunkOf(feed'[r]) = c)
      BY <2>1, FeedMoves DEF Fed
    <3>2. ToFeed(feed', c) = 0
      BY <1>1, <1>4, <1>5, <3>1, ToFeedIs
    <3> QED BY <1>2, <2>1, <3>2
  <2>2. CASE /\ feed'[f] = x.id + x.size
             /\ feed'[f] # NoFeed /\ ChunkOf(feed'[f]) = c
    <3>1. ToFeed(feed', c) = EndOf(c) - feed'[f]
      BY <1>1, <1>4, <1>5, <2>2, ToFeedIs
    <3> QED BY <2>2, <3>1
  <2> QED BY <2>1, <2>2, FeedMoves
<1>7. ASSUME NEW d \in Chunk, d # c
      PROVE  ToFeed(feed', d) = ToFeed(feed, d)
  <2>1. CASE \E r \in Peer : Fed(r, d)
    <3>1. PICK r \in Peer : Fed(r, d)
      BY <2>1
    <3>2. Fed(r, d)' /\ feed'[r] = feed[r]
      BY <1>7, <3>1, FeedMoves
    <3>3. ToFeed(feed, d) = EndOf(d) - feed[r] /\ ToFeed(feed', d) = EndOf(d) - feed'[r]
      BY <1>4, <1>5, <3>1, <3>2, ToFeedIs DEF Fed
    <3> QED BY <3>2, <3>3
  <2>2. CASE \A r \in Peer : ~Fed(r, d)
    <3>1. \A r \in Peer : ~Fed(r, d)'
      BY <1>7, <2>2, FeedMoves
    <3>2. /\ \A r \in Peer : ~(feed[r] # NoFeed /\ ChunkOf(feed[r]) = d)
          /\ \A r \in Peer : ~(feed'[r] # NoFeed /\ ChunkOf(feed'[r]) = d)
      BY <2>2, <3>1 DEF Fed
    <3> QED BY <1>4, <1>5, <3>2, ToFeedIs
  <2> QED BY <2>1, <2>2
<1>8. ASSUME NEW d \in Chunk, map'[d] = "active"
      PROVE  remains'[d] = AskedOf(slices', d) + ToFeed(feed', d)
  <2>1. CASE d = c
    <3>1. AskedOf(slices, c) \in Nat /\ AskedOf(slices', c) = AskedOf(slices, c) + x.size
      BY <1>1, <1>3
    <3>2. remains'[c] = AskedOf(slices', c) + ToFeed(feed', c)
      BY <1>1, <1>2, <1>6, <3>1
    <3> QED BY <2>1, <3>2
  <2>2. CASE d # c
    <3>1. map[d] = "active" /\ remains'[d] = remains[d]
      BY <1>1, <1>8, <2>2
    <3>2. remains[d] = AskedOf(slices, d) + ToFeed(feed, d)
      BY <1>0, <3>1, AccountedIs DEF SumsFit
    <3>3. AskedOf(slices', d) = AskedOf(slices, d)
      BY <1>3, <2>2
    <3> QED BY <1>7, <2>2, <3>1, <3>2, <3>3
  <2> QED BY <2>1, <2>2
<1>9. ChunkAccounted'
  BY <1>8 DEF ChunkAccounted, AskedOf, ToFeed
<1>10. \A d \in Chunk : map'[d] = "active" => remains'[d] <= SizeOfChunk(d)
  BY <1>0, <1>1 DEF SumsFit
<1>11. CacheExact'
  <2>1. complete = FALSE /\ AllDone(map') = FALSE
    BY <1>0, <1>1 DEF SumsFit, CacheExact, AllDone
  <2>2. total' = TotalOf(map', remains') /\ complete' = FALSE
    BY <1>1, <2>1
  <2> QED BY <2>1, <2>2, CacheIs, Zenon
<1>12. flag' = "downloading"
  OBVIOUS
<1> QED BY <1>9, <1>10, <1>11, <1>12 DEF SumsFit

\* The parts of TypeOK.
ChunkTypes == /\ map \in [Chunk -> States] /\ remains \in [Chunk -> 0 .. ChunkLen]
              /\ slices \subseteq Slice /\ feed \in [Peer -> Unit \cup {NoFeed}]
              /\ queue \subseteq Chunk /\ complete \in BOOLEAN /\ total \in 0 .. FileSize

FileTypes == /\ parts \subseteq Part /\ refs \in [Unit -> 0 .. MaxSlice]
             /\ count \in [Peer -> 0 .. CounterMod - 1] /\ content \in Contents

ModuleTypes == /\ flag \in {"downloading", "checking", "complete", "moved"}
               /\ hashing \in HashThread
               /\ toAsk \subseteq Chunk /\ saved \subseteq Chunk
               /\ checksums \subseteq Chunk \X {"right", "wrong"}

NetTypes == /\ net \in [Peer -> Seq(Unit)]
            /\ faults \in 0 .. MaxFaults /\ silences \in 0 .. MaxFaults
            /\ late \subseteq Unit

\* TypeOK is the conjunction of its parts, in the first state of a step ...
LEMMA TypesAre == TypeOK <=> ChunkTypes /\ FileTypes /\ ModuleTypes /\ NetTypes
  BY DEF TypeOK, ChunkTypes, FileTypes, ModuleTypes, NetTypes, States, Contents

\* ... and in the second.
LEMMA TypesAfter == TypeOK' <=> (ChunkTypes /\ FileTypes /\ ModuleTypes /\ NetTypes)'
  BY DEF TypeOK, ChunkTypes, FileTypes, ModuleTypes, NetTypes, States, Contents

\* A request: locked_requestData().
LEMMA RequestTypes ==
    ASSUME TypeOK, NEW p \in Peer, NEW off \in Nat, NEW size \in Nat,
           \A u \in Int : off <= u /\ u < off + size => u \in Unit,
           Request(p, off, size)
    PROVE  NetTypes'
<1> DEFINE asked == [i \in 1 .. size |-> off + i - 1]
<1>1. \A i \in 1 .. size : off + i - 1 \in Unit
  <2> SUFFICES ASSUME NEW i \in 1 .. size PROVE off + i - 1 \in Unit
    OBVIOUS
  <2>1. off + i - 1 \in Int /\ off <= off + i - 1 /\ off + i - 1 < off + size
    OBVIOUS
  <2> QED BY <2>1
<1>2. asked \in Seq(Unit)
  BY <1>1
<1>3. net \in [Peer -> Seq(Unit)] /\ net' = [net EXCEPT ![p] = @ \o asked]
  BY DEF TypeOK, Request
<1>4. net[p] \o asked \in Seq(Unit)
  <2> HIDE DEF asked
  <2> QED BY <1>2, <1>3
<1>5. net' \in [Peer -> Seq(Unit)]
  <2> HIDE DEF asked
  <2> QED BY <1>3, <1>4
<1> QED BY <1>5, TypesAre DEF NetTypes, Request

\* A peer is asked for finitely many slices.
LEMMA SlicesOfFinite ==
    ASSUME TypeOK, NEW p
    PROVE  /\ SlicesOf(p) \subseteq Unit /\ IsFiniteSet(SlicesOf(p))
           /\ Cardinality(SlicesOf(p)) \in Nat
<1>1. SlicesOf(p) \in SUBSET Unit
  BY DEF SlicesOf, TypeOK, Part
<1>2. IsFiniteSet(SlicesOf(p))
  BY <1>1, Bounds, FS_Subset
<1> QED BY <1>1, <1>2, FS_CardinalityType

\* The counter of the peer goes up with its slices.
LEMMA TakeCounts ==
    ASSUME FileInv, NEW p \in Peer, NEW f \in Peer, NEW c, NEW x \in Slice,
           Opened(f, x.id, c), Given(p, f, c, x), UNCHANGED silences
    PROVE  CounterExact'
<1>0. TypeOK /\ CounterExact
  BY DEF FileInv
<1>1. /\ parts' = parts \cup {Whole(p, x)} /\ count' = [count EXCEPT ![p] = @ + 1]
      /\ count \in [Peer -> 0 .. CounterMod - 1]
  BY <1>0 DEF Given, TypeOK
<1>2. \A q \in parts : q.id # x.id
  BY TakeParts DEF PartsOf
<1>3. Whole(p, x).id = x.id /\ Whole(p, x).peer = p
  BY DEF Whole
<1>4. /\ SlicesOf(p)' = SlicesOf(p) \cup {x.id} /\ x.id \notin SlicesOf(p)
      /\ \A r \in Peer : r # p => SlicesOf(r)' = SlicesOf(r)
  BY <1>1, <1>2, <1>3 DEF SlicesOf
<1>5. Cardinality(SlicesOf(p)') = Cardinality(SlicesOf(p)) + 1
  BY <1>0, <1>4, SlicesOfFinite, FS_AddElement
<1> SUFFICES ASSUME silences = 0, NEW r \in Peer
             PROVE  count'[r] = Cardinality(SlicesOf(r)')
  BY DEF CounterExact
<1>6. count[r] = Cardinality(SlicesOf(r)) /\ count[p] = Cardinality(SlicesOf(p))
  BY <1>0 DEF CounterExact
<1>7. CASE r = p
  BY <1>1, <1>5, <1>6, <1>7
<1>8. CASE r # p
  BY <1>1, <1>4, <1>6, <1>8
<1> QED BY <1>7, <1>8

\* The types after the step; the counter is below MAX_FTCHUNKS_PER_PEER before it.
LEMMA TakeTypes ==
    ASSUME FileInv, NEW p \in Peer, NEW f \in Peer, NEW c, NEW x \in Slice,
           Opened(f, x.id, c), Given(p, f, c, x), count[p] < MaxPerPeer,
           UNCHANGED <<queue, complete, total, content, moduleVars>>
    PROVE  TypeOK'
<1>0. TypeOK /\ ChunkTypes /\ FileTypes /\ ModuleTypes /\ NetTypes
  BY TypesAre DEF FileInv
<1>1. /\ x.id \in Unit /\ ChunkOf(x.id) = c /\ c \in Chunk /\ x.id + x.size <= EndOf(c)
      /\ map' \in [Chunk -> States] /\ remains' \in [Chunk -> 0 .. ChunkLen]
      /\ slices' = slices \cup {x} /\ parts' = parts \cup {Whole(p, x)}
      /\ count' = [count EXCEPT ![p] = @ + 1] /\ Request(p, x.id, x.size)
  BY DEF Opened, Given
<1>2. x.id \in Nat /\ x.size \in Nat /\ EndOf(c) \in Nat /\ Start(c) <= x.id /\ Start(c) \in Nat
  BY <1>1, SliceTypes, ChunkRange, UnitIn, Bounds
<1>3. ChunkTypes'
  <2>1. feed' \in [Peer -> Unit \cup {NoFeed}]
    BY FeedMoves
  <2> QED BY <1>0, <1>1, <2>1 DEF ChunkTypes
<1>4. FileTypes'
  <2>1. Whole(p, x) \in Part
    BY <1>1 DEF Whole, Part, Slice
  <2>2. refs' \in [Unit -> 0 .. MaxSlice]
    BY TakeParts
  <2>3. count' \in [Peer -> 0 .. CounterMod - 1]
    <3>1. MaxPerPeer < CounterMod - 1 /\ MaxPerPeer \in Nat /\ CounterMod \in Nat
      BY Bounds
    <3>2. count \in [Peer -> 0 .. CounterMod - 1]
      BY <1>0 DEF FileTypes
    <3> QED BY <1>1, <3>1, <3>2
  <2> QED BY <1>0, <1>1, <2>1, <2>2, <2>3 DEF FileTypes
<1>5. ModuleTypes'
  BY <1>0 DEF ModuleTypes, moduleVars
<1>6. NetTypes'
  <2>1. ASSUME NEW u \in Int, x.id <= u, u < x.id + x.size
        PROVE  u \in Unit
    <3>1. Start(c) <= u /\ u < EndOf(c)
      BY <1>1, <1>2, <2>1
    <3> QED BY <1>1, <3>1, InChunk
  <2> QED BY <1>0, <1>1, <1>2, <2>1, RequestTypes
<1> QED BY <1>3, <1>4, <1>5, <1>6, TypesAfter

\* getDataChunk().
LEMMA GetDataChunkKeeps ==
    ASSUME FileInv, NEW p \in Peer, GetDataChunk(p)
    PROVE  FileInv'
<1>0. TypeOK
  BY AvailAssumption DEF FileInv
<1>1. \E f \in Peer, off \in Unit, hint \in 1 .. MaxSlice :
         Opened(f, off, ChunkOf(off)) /\ TakeSlice(p, f, off, hint)
  <2>1. PICK hint \in 1 .. MaxSlice :
         \/ /\ feed[p] # NoFeed
            /\ TakeSlice(p, p, feed[p], hint)
            /\ UNCHANGED <<map, remains>>
         \/ /\ feed[p] = NoFeed
            /\ \E f \in IF Suitable(p, hint) # {} THEN Suitable(p, hint)
                        ELSE IF Available(p) = {} THEN Sharable(p) ELSE {} :
                  TakeSlice(p, f, feed[f], hint)
            /\ UNCHANGED <<map, remains>>
         \/ /\ feed[p] = NoFeed /\ Suitable(p, hint) = {}
            /\ \E c \in Available(p) :
                  /\ TakeSlice(p, p, c * ChunkLen, hint)
                  /\ map' = [map EXCEPT ![c] = "active"]
                  /\ remains' = [remains EXCEPT ![c] = SizeOfChunk(c)]
    BY DEF GetDataChunk
  <2>2. ASSUME NEW f \in Peer, feed[f] # NoFeed, TakeSlice(p, f, feed[f], hint),
               UNCHANGED <<map, remains>>
        PROVE  Opened(f, feed[f], ChunkOf(feed[f])) /\ feed[f] \in Unit
    BY <1>0, <2>2, FeedOpened DEF TypeOK
  <2>3. CASE feed[p] # NoFeed /\ TakeSlice(p, p, feed[p], hint) /\ UNCHANGED <<map, remains>>
    BY <2>2, <2>3
  <2>4. CASE /\ \E f \in IF Suitable(p, hint) # {} THEN Suitable(p, hint)
                         ELSE IF Available(p) = {} THEN Sharable(p) ELSE {} :
                   TakeSlice(p, f, feed[f], hint)
             /\ UNCHANGED <<map, remains>>
    <3>1. PICK f \in Sharable(p) : TakeSlice(p, f, feed[f], hint)
      BY <2>4 DEF Suitable
    <3>2. f \in Peer /\ feed[f] # NoFeed
      BY <3>1 DEF Sharable
    <3> QED BY <2>2, <2>4, <3>1, <3>2
  <2>5. ASSUME NEW c \in Available(p), feed[p] = NoFeed, TakeSlice(p, p, c * ChunkLen, hint),
               map' = [map EXCEPT ![c] = "active"],
               remains' = [remains EXCEPT ![c] = SizeOfChunk(c)]
        PROVE  \E f \in Peer, off \in Unit : /\ Opened(f, off, ChunkOf(off))
                                             /\ TakeSlice(p, f, off, hint)
    <3>1. c \in Chunk /\ map[c] = "outstanding"
      BY AvailAssumption DEF Available
    <3>2. Opened(p, Start(c), c)
      BY <2>5, <3>1, ChunkOpened
    <3>3. Start(c) \in Unit /\ ChunkOf(Start(c)) = c
      BY <3>1, ChunkRange
    <3>4. TakeSlice(p, p, Start(c), hint)
      BY <2>5 DEF Start
    <3> QED BY <3>2, <3>3, <3>4
  <2> QED BY <2>1, <2>3, <2>4, <2>5
<1>2. PICK f \in Peer, off \in Unit, hint \in 1 .. MaxSlice :
         Opened(f, off, ChunkOf(off)) /\ TakeSlice(p, f, off, hint)
  BY <1>1
<1> DEFINE c == ChunkOf(off)
<1>3. PICK x \in Slice : x.id = off /\ Given(p, f, c, x)
  <2>1. c \in Chunk
    BY UnitIn
  <2> QED BY <1>2, <2>1, TakeGives
<1>4. Opened(f, x.id, c)
  BY <1>2, <1>3
<1>5. /\ flag = "downloading" /\ count[p] < MaxPerPeer
      /\ UNCHANGED <<queue, complete, total, content, moduleVars>>
      /\ UNCHANGED <<flag, saved, silences>>
  <2>1. Request(p, x.id, x.size)
    BY <1>3 DEF Given
  <2> QED BY <2>1 DEF GetDataChunk, moduleVars, Request
<1> HIDE DEF c
<1> QED BY <1>3, <1>4, <1>5, TakeSlices, TakeParts, TakeContents, TakeSums, TakeCounts,
           TakeTypes DEF FileInv
-----------------------------------------------------------------------------
(* Data arrives *)

\* Unit u is written; nothing else changes in the partial file.
Writes(u) == /\ u \in Unit /\ content' \in Contents
             /\ \A v \in Unit : /\ v # u => content'[v] = content[v]
                                /\ content'[v] = "missing" => content[v] = "missing" /\ v # u

\* What addFileData() does apart from the parts.
LEMMA DataWrites ==
    ASSUME FileInv, NEW p \in Peer, RecvFileData(p)
    PROVE  /\ Writes(Head(net[p])) /\ ModuleTypes' /\ NetTypes'
           /\ UNCHANGED <<moduleVars, silences>>
<1> DEFINE u == Head(net[p])
<1>0. TypeOK /\ ChunkTypes /\ FileTypes /\ ModuleTypes /\ NetTypes
  BY TypesAre DEF FileInv
<1>1. net[p] \in Seq(Unit) /\ net[p] # <<>>
  BY <1>0 DEF RecvFileData, NetTypes
<1>2. u \in Unit /\ Tail(net[p]) \in Seq(Unit)
  BY <1>1
<1>3. content' = [content EXCEPT ![u] = "right"] \/ content' = [content EXCEPT ![u] = "wrong"]
  BY DEF RecvFileData
<1>4. content \in [Unit -> {"missing", "right", "wrong"}]
  BY <1>0 DEF FileTypes, Contents
<1>5. Writes(u)
  <2> HIDE DEF u
  <2> QED BY <1>2, <1>3, <1>4 DEF Writes, Contents
<1>6. ModuleTypes' /\ UNCHANGED <<moduleVars, silences>>
  BY <1>0 DEF ModuleTypes, moduleVars, RecvFileData
<1>7. NetTypes'
  <2>1. net' \in [Peer -> Seq(Unit)]
    <3>1. net' = [net EXCEPT ![p] = Tail(@)] /\ net \in [Peer -> Seq(Unit)]
      BY <1>0 DEF RecvFileData, NetTypes
    <3> QED BY <1>2, <3>1
  <2>2. UNCHANGED silences
    BY DEF RecvFileData
  <2>3. faults' \in 0 .. MaxFaults
    <3>1. faults' = faults \/ (MayFail /\ faults' = faults + 1)
      BY DEF RecvFileData
    <3>2. /\ faults \in 0 .. MaxFaults /\ silences \in 0 .. MaxFaults
          /\ MaxFaults \in Nat
      BY <1>0, Bounds DEF NetTypes
    <3> QED BY <3>1, <3>2 DEF MayFail
  <2>4. late' \subseteq Unit
    BY <1>0, <1>2 DEF RecvFileData, NetTypes
  <2> QED BY <1>0, <2>1, <2>2, <2>3, <2>4 DEF NetTypes
<1> QED BY <1>5, <1>6, <1>7

\* Part q becomes the parts N, which are all of it but unit u.
Replaced(q, N, u) ==
    /\ q \in parts /\ parts' = (parts \ {q}) \cup N /\ N \subseteq Part /\ IsFiniteSet(N)
    /\ \A n \in N : /\ n.id = q.id /\ n.peer = q.peer
                    /\ q.off <= n.off /\ n.off + n.size <= q.off + q.size
    /\ \A n, m \in N : n = m \/ n.off + n.size <= m.off \/ m.off + m.size <= n.off
    /\ \A v \in Int : q.off <= v /\ v < q.off + q.size /\ v # u =>
          \E n \in N : n.off <= v /\ v < n.off + n.size
    /\ refs' = [refs EXCEPT ![q.id] = @ - 1 + Cardinality(N)]
    /\ N # {} \/ refs[q.id] # 1

\* The parts still fit, they are as many as is counted, and belong to the same
\* slices.
LEMMA ReplacedParts ==
    ASSUME FileInv, NEW q, NEW N, NEW u, Replaced(q, N, u), UNCHANGED slices
    PROVE  /\ PartsFit' /\ parts' \subseteq Part /\ refs' \in [Unit -> 0 .. MaxSlice]
           /\ \A p : SlicesOf(p)' = SlicesOf(p)
<1>0. TypeOK /\ SlicesFit /\ PartsFit
  BY DEF FileInv
<1>1. /\ q \in parts /\ parts' = (parts \ {q}) \cup N /\ N \subseteq Part /\ IsFiniteSet(N)
      /\ \A n \in N : /\ n.id = q.id /\ n.peer = q.peer
                      /\ q.off <= n.off /\ n.off + n.size <= q.off + q.size
      /\ refs' = [refs EXCEPT ![q.id] = @ - 1 + Cardinality(N)]
      /\ N # {} \/ refs[q.id] # 1
  BY DEF Replaced
<1>2. q.off \in Nat /\ q.size \in Nat \ {0} /\ q.id \in Unit
  BY <1>0, <1>1, PartRange
<1>3. \A n \in N : n.off \in Nat /\ n.size \in Nat \ {0}
  <2> SUFFICES ASSUME NEW n \in N PROVE n.off \in Nat /\ n.size \in Nat \ {0}
    OBVIOUS
  <2>1. n.off \in Unit /\ n.size \in 1 .. MaxSlice
    BY <1>1 DEF Part
  <2>2. Unit \subseteq Nat
    BY Bounds
  <2>3. MaxSlice \in Nat
    BY Bounds
  <2>4. n.size \in Nat \ {0}
    BY <2>1, <2>3
  <2> QED BY <2>1, <2>2, <2>4
<1>4. ASSUME NEW r \in parts \ {q}, NEW n \in N
      PROVE  r.off + r.size <= n.off \/ n.off + n.size <= r.off
  <2>1. r = q \/ r.off + r.size <= q.off \/ q.off + q.size <= r.off
    BY <1>0, <1>1 DEF PartsFit
  <2>2. r.off \in Nat /\ r.size \in Nat
    BY <1>0, PartRange
  <2>3. n.off \in Nat /\ n.size \in Nat /\ q.off <= n.off /\ n.off + n.size <= q.off + q.size
    BY <1>1, <1>3
  <2> QED BY <1>2, <2>1, <2>2, <2>3
<1>5. ASSUME NEW n \in N
      PROVE  n \notin parts \ {q}
  <2> SUFFICES ASSUME n \in parts \ {q} PROVE FALSE
    OBVIOUS
  <2>1. n.off + n.size <= n.off
    BY <1>4
  <2> QED BY <1>3, <2>1
<1>6. IsFiniteSet(parts')
  <2>1. IsFiniteSet(parts \ {q})
    BY <1>0, FS_Subset DEF PartsFit
  <2> QED BY <1>1, <2>1, FS_Union
<1>7. ASSUME NEW r \in parts'
      PROVE  \E s \in slices' : Within(r, s)
  <2>1. CASE r \in parts
    BY <1>0, <2>1, PartRange
  <2>2. CASE r \in N
    <3>1. PICK s \in slices : Within(q, s)
      BY <1>0, <1>1, PartRange
    <3>2. s.id \in Nat /\ s.size \in Nat
      BY <1>0, SliceRange
    <3>3. r.id = q.id /\ q.off <= r.off /\ r.off + r.size <= q.off + q.size
      BY <1>1, <2>2
    <3>4. r.off \in Nat /\ r.size \in Nat
      BY <1>3, <2>2
    <3> QED BY <1>2, <3>1, <3>2, <3>3, <3>4 DEF Within
  <2> QED BY <1>1, <2>1, <2>2
<1>8. \A r, t \in parts' : r = t \/ r.off + r.size <= t.off \/ t.off + t.size <= r.off
  BY <1>0, <1>1, <1>4 DEF PartsFit, Replaced
<1>9. \A r, t \in parts' : r.id = t.id => r.peer = t.peer
  BY <1>0, <1>1 DEF PartsFit
<1>10. /\ PartsOf(q.id)' = (PartsOf(q.id) \ {q}) \cup N
       /\ \A v \in Unit : v # q.id => PartsOf(v)' = PartsOf(v)
  BY <1>1 DEF PartsOf
<1>11. /\ Cardinality(PartsOf(q.id)') = Cardinality(PartsOf(q.id)) - 1 + Cardinality(N)
       /\ Cardinality(PartsOf(q.id)) \in Nat /\ Cardinality(N) \in Nat
       /\ IsFiniteSet(PartsOf(q.id))
  <2> DEFINE P == PartsOf(q.id)
  <2>1. IsFiniteSet(P) /\ Cardinality(P) \in Nat
    BY <1>0, <1>2, PartsOfBounded
  <2>2. q \in P /\ (P \ {q}) \cap N = {}
    BY <1>1, <1>5 DEF PartsOf
  <2>3. IsFiniteSet(P \ {q}) /\ Cardinality(P \ {q}) = Cardinality(P) - 1
    <3> HIDE DEF P
    <3> QED BY <2>1, <2>2, FS_RemoveElement
  <2>4. Cardinality(N) \in Nat
    BY <1>1, FS_CardinalityType
  <2>5. Cardinality((P \ {q}) \cup N)
           = Cardinality(P \ {q}) + Cardinality(N) - Cardinality((P \ {q}) \cap N)
    <3> HIDE DEF P
    <3> QED BY <1>1, <2>3, FS_Union
  <2>6. Cardinality((P \ {q}) \cap N) = 0
    BY <2>2, FS_EmptySet
  <2>7. Cardinality(PartsOf(q.id)') = Cardinality((P \ {q}) \cup N)
    BY <1>10
  <2> HIDE DEF P
  <2>8. Cardinality(PartsOf(q.id)') = Cardinality(P) - 1 + Cardinality(N)
    BY <2>1, <2>3, <2>4, <2>5, <2>6, <2>7
  <2> QED BY <2>1, <2>4, <2>8 DEF P
<1>12. \A v \in Unit : refs'[v] = Cardinality(PartsOf(v)')
  <2>1. refs \in [Unit -> 0 .. MaxSlice] /\ \A v \in Unit : refs[v] = Cardinality(PartsOf(v))
    BY <1>0 DEF TypeOK, PartsFit
  <2> QED BY <1>1, <1>2, <1>10, <1>11, <2>1
<1>13. PartsOf(q.id)' # {}
  <2>1. CASE N # {}
    BY <1>10, <2>1
  <2>2. CASE N = {} /\ refs[q.id] # 1
    <3>1. Cardinality(PartsOf(q.id)) # 1
      BY <1>0, <1>2, <2>2 DEF PartsFit
    <3>2. PartsOf(q.id) # {q}
      BY <3>1, FS_Singleton
    <3>3. q \in PartsOf(q.id)
      BY <1>1 DEF PartsOf
    <3> QED BY <1>10, <3>2, <3>3
  <2> QED BY <1>1, <2>1, <2>2
<1>14. \A s \in slices' : PartsOf(s.id)' # {}
  <2> SUFFICES ASSUME NEW s \in slices PROVE PartsOf(s.id)' # {}
    OBVIOUS
  <2>1. s.id \in Unit /\ PartsOf(s.id) # {}
    BY <1>0, SliceRange DEF PartsFit
  <2> QED BY <1>10, <1>13, <2>1
<1>15. PartsFit'
  BY <1>6, <1>7, <1>8, <1>9, <1>12, <1>14 DEF PartsFit, Within
<1>16. parts' \subseteq Part
  BY <1>0, <1>1 DEF TypeOK
<1>17. \A p : SlicesOf(p)' = SlicesOf(p)
  <2>1. \E n \in parts' : n.id = q.id
    BY <1>13 DEF PartsOf
  <2>2. \A r, t \in parts : r.id = t.id => r.peer = t.peer
    BY <1>0 DEF PartsFit
  <2> QED BY <1>1, <1>9, <2>1, <2>2 DEF SlicesOf
<1>18. refs' \in [Unit -> 0 .. MaxSlice]
  <2>1. refs \in [Unit -> 0 .. MaxSlice]
    BY <1>0 DEF TypeOK
  <2>2. DOMAIN refs' = Unit /\ refs' = [v \in Unit |-> refs'[v]]
    BY <1>1, <2>1
  <2>3. ASSUME NEW v \in Unit
        PROVE  refs'[v] \in 0 .. MaxSlice
    <3>1. CASE PartsOf(v)' = {}
      <4>1. MaxSlice \in Nat
        BY Bounds
      <4> QED BY <1>12, <3>1, <4>1, FS_EmptySet
    <3>2. CASE PartsOf(v)' # {}
      <4>1. PICK s \in slices : s.id = v
        BY <1>7, <3>2 DEF PartsOf, Within
      <4>2. ASSUME NEW r \in PartsOf(v)'
            PROVE  s.id <= r.off /\ r.off + r.size <= s.id + s.size
        <5>1. r \in parts' /\ r.id = v
          BY DEF PartsOf
        <5>2. PICK t \in slices : Within(r, t)
          BY <1>7, <5>1
        <5>3. t = s
          BY <1>0, <4>1, <5>1, <5>2, SliceIds DEF Within
        <5> QED BY <5>2, <5>3 DEF Within
      <4>3. s \in Slice
        BY <1>0, SliceRange
      <4>4. IsFiniteSet(PartsOf(v)')
        <5>1. PartsOf(v)' \subseteq parts'
          BY DEF PartsOf
        <5> QED BY <1>6, <5>1, FS_Subset
      <4>5. PartsIn(PartsOf(v)', s)
        BY <1>8, <1>16, <4>2, <4>4 DEF PartsIn, PartsOf
      <4>6. Cardinality(PartsOf(v)') \in 0 .. MaxSlice
        BY <4>3, <4>5, PartsFew
      <4> QED BY <1>12, <4>6
    <3> QED BY <3>1, <3>2
  <2> QED BY <2>2, <2>3
<1> QED BY <1>15, <1>16, <1>17, <1>18

-----------------------------------------------------------------------------
\* A step that leaves ChunkMap's tables alone.
LEMMA ChunksStay ==
    ASSUME FileInv, UNCHANGED <<map, remains, slices, feed, complete, total>>,
           flag' # "downloading" => AllDone(map)
    PROVE  SlicesFit' /\ FeedsFit' /\ SumsFit'
<1>1. SlicesFit'
  BY DEF FileInv, SlicesFit, Fed
<1>2. FeedsFit'
  BY DEF FileInv, FeedsFit, Fed
<1>3. ChunkAccounted'
  BY DEF FileInv, SumsFit, ChunkAccounted
<1>4. CacheExact'
  BY CacheIs DEF FileInv, SumsFit, CacheExact
<1>5. flag' # "downloading" => AllDone(map')
  OBVIOUS
<1>6. \A c \in Chunk : map'[c] = "active" => remains'[c] <= SizeOfChunk(c)
  BY DEF FileInv, SumsFit
<1> QED BY <1>1, <1>2, <1>3, <1>4, <1>5, <1>6 DEF SumsFit, AllDone

\* A step that leaves ftFileCreator's tables alone.
LEMMA PartsStay ==
    ASSUME FileInv, UNCHANGED <<map, slices, feed, fileVars, silences>>,
           \A c \in saved' : Written(c)
    PROVE  PartsFit' /\ ContentFits' /\ CounterExact'
<1>0. UNCHANGED <<parts, refs, count, content>>
  BY DEF fileVars
<1>1. PartsFit'
  BY <1>0 DEF FileInv, PartsFit, PartsOf
<1>2. ContentFits'
  <2>1. \A c : Written(c)' <=> Written(c)
    BY <1>0 DEF Written
  <2>2. \A u : Expected(u)' <=> Expected(u)
    BY <1>0 DEF Expected, Fed
  <2> QED BY <1>0, <2>1, <2>2 DEF FileInv, ContentFits
<1>3. CounterExact'
  BY <1>0 DEF FileInv, CounterExact, SlicesOf
<1> QED BY <1>1, <1>2, <1>3

\* A step that changes the queue, the transfer module or the network only.
LEMMA QuietKeeps ==
    ASSUME FileInv, UNCHANGED <<map, remains, slices, feed, complete, total>>,
           UNCHANGED <<fileVars, silences>>, queue' \subseteq Chunk,
           ModuleTypes', NetTypes', \A c \in saved' : Written(c),
           flag' # "downloading" => AllDone(map)
    PROVE  FileInv'
<1>1. SlicesFit' /\ FeedsFit' /\ SumsFit'
  BY ChunksStay
<1>2. PartsFit' /\ ContentFits' /\ CounterExact'
  BY PartsStay
<1>3. TypeOK
  BY DEF FileInv
<1>4. ChunkTypes'
  BY <1>3, TypesAre DEF ChunkTypes
<1>5. FileTypes'
  BY <1>3, TypesAre DEF FileTypes, fileVars
<1> QED BY <1>1, <1>2, <1>4, <1>5, TypesAfter DEF FileInv

\* What data that came changes in the partial file.
LEMMA WrittenStays ==
    ASSUME TypeOK, NEW u, Writes(u), NEW c, Written(c)
    PROVE  Written(c)'
  BY DEF Writes, Written, Units

\* A unit of the slice q belongs to has come, and the slice is not finished.
LEMMA ReplaceKeeps ==
    ASSUME FileInv, NEW u, Writes(u), NEW q, NEW N, Replaced(q, N, u),
           UNCHANGED <<count, chunkVars>>, UNCHANGED <<moduleVars, silences>>,
           ModuleTypes', NetTypes'
    PROVE  FileInv'
<1>0. /\ TypeOK /\ SlicesFit /\ PartsFit /\ ContentFits /\ CounterExact /\ SumsFit
      /\ UNCHANGED <<map, remains, slices, feed, queue, complete, total, flag, saved>>
  BY DEF FileInv, chunkVars, moduleVars
<1>1. /\ PartsFit' /\ parts' \subseteq Part /\ refs' \in [Unit -> 0 .. MaxSlice]
      /\ \A p : SlicesOf(p)' = SlicesOf(p)
  BY <1>0, ReplacedParts
<1>2. SlicesFit' /\ FeedsFit' /\ SumsFit'
  <2>1. flag' # "downloading" => AllDone(map)
    BY <1>0 DEF SumsFit
  <2> QED BY <1>0, <2>1, ChunksStay
<1>3. CounterExact'
  BY <1>0, <1>1 DEF CounterExact
<1>4. TypeOK'
  <2>1. FileTypes'
    <3>1. content' \in Contents /\ count' \in [Peer -> 0 .. CounterMod - 1]
      BY <1>0, TypesAre DEF Writes, FileTypes
    <3> QED BY <1>1, <3>1 DEF FileTypes
  <2>2. ChunkTypes'
    BY <1>0, TypesAre DEF ChunkTypes
  <2> QED BY <2>1, <2>2, TypesAfter
<1>5. ContentFits'
  <2>1. ASSUME NEW c \in Chunk, map'[c] \in {"checking", "done"} \/ c \in saved'
        PROVE  Written(c)'
    BY <1>0, <2>1, WrittenStays DEF ContentFits
  <2>2. ASSUME NEW v \in Unit, map'[ChunkOf(v)] = "active", content'[v] = "missing"
        PROVE  Expected(v)'
    <3>1. content[v] = "missing" /\ v # u /\ v \in Int
      BY <2>2, Bounds DEF Writes
    <3>2. Expected(v)
      BY <1>0, <2>2, <3>1 DEF ContentFits
    <3>3. ASSUME NEW r \in parts, r.off <= v, v < r.off + r.size
          PROVE  \E n \in parts' : n.off <= v /\ v < n.off + n.size
      <4>1. CASE r # q
        BY <3>3, <4>1 DEF Replaced
      <4>2. CASE r = q
        <5>1. \E n \in N : n.off <= v /\ v < n.off + n.size
          BY <3>1, <3>3, <4>2 DEF Replaced
        <5> QED BY <5>1 DEF Replaced
      <4> QED BY <4>1, <4>2
    <3> QED BY <1>0, <3>2, <3>3 DEF Expected, Fed
  <2> QED BY <2>1, <2>2 DEF ContentFits
<1> QED BY <1>1, <1>2, <1>3, <1>4, <1>5 DEF FileInv

\* The last unit of a slice has come.
Finishes(u, q) ==
    /\ q \in parts /\ q.off = u /\ q.size = 1 /\ refs[q.id] = 1
    /\ parts' = parts \ {q} /\ refs' = [refs EXCEPT ![q.id] = @ - 1]
    /\ DataReceived(q.id)
    /\ count' = [count EXCEPT ![q.peer] = Decremented(@, 1)]

\* There is a part for each slice that is not finished.
LEMMA RefsAre ==
    ASSUME FileInv, NEW q \in parts
    PROVE  /\ refs \in [Unit -> 0 .. MaxSlice] /\ q.id \in Unit
           /\ refs[q.id] \in Nat \ {0}
           /\ \A d \in Int : [refs EXCEPT ![q.id] = @ + d][q.id] = refs[q.id] + d
<1>0. TypeOK /\ SlicesFit /\ PartsFit
  BY DEF FileInv
<1>1. refs \in [Unit -> 0 .. MaxSlice] /\ q.id \in Unit /\ MaxSlice \in Nat
  BY <1>0, PartRange, Bounds DEF TypeOK
<1>2. refs[q.id] # 0
  <2>1. q \in PartsOf(q.id) /\ IsFiniteSet(PartsOf(q.id))
    BY <1>0, <1>1, PartsOfBounded DEF PartsOf
  <2>2. Cardinality(PartsOf(q.id)) # 0
    BY <2>1, FS_EmptySet
  <2> QED BY <1>0, <1>1, <2>2 DEF PartsFit
<1>3. refs[q.id] \in Nat
  BY <1>1
<1> QED BY <1>1, <1>2, <1>3

\* A part may begin at u.
LEMMA BeginsAt ==
    ASSUME FileInv, NEW u, NEW q \in parts, q.off = u, PartReceived(q, parts \ {q}, refs)
    PROVE  \/ (\E N : Replaced(q, N, u)) /\ UNCHANGED <<count, chunkVars>>
           \/ Finishes(u, q)
<1>0. TypeOK /\ SlicesFit /\ PartsFit
  BY DEF FileInv
<1>1. /\ q \in Part /\ q.off \in Nat /\ q.size \in Nat \ {0} /\ q.size <= MaxSlice
      /\ \A v \in Int : q.off <= v /\ v < q.off + q.size => v \in Unit
  BY <1>0, PartRange
<1>2. /\ refs \in [Unit -> 0 .. MaxSlice] /\ q.id \in Unit /\ refs[q.id] \in Nat \ {0}
  BY RefsAre
<1>3. MaxSlice \in Nat
  BY Bounds
<1>4. CASE q.size # 1
  <2> DEFINE n == [q EXCEPT !.off = @ + 1, !.size = @ - 1]
  <2>1. /\ n.off = q.off + 1 /\ n.size = q.size - 1 /\ n.id = q.id /\ n.peer = q.peer
        /\ DOMAIN n = DOMAIN q
    BY <1>1 DEF Part
  <2>2. n \in Part
    <3>1. q.off + 1 \in Unit /\ q.size - 1 \in 1 .. MaxSlice
      BY <1>1, <1>3, <1>4
    <3> QED BY <1>1, <3>1 DEF Part
  <2>3. parts' = (parts \ {q}) \cup {n} /\ refs' = refs /\ UNCHANGED <<count, chunkVars>>
    BY <1>4 DEF PartReceived
  <2>4. IsFiniteSet({n}) /\ Cardinality({n}) = 1
    BY FS_Singleton
  <2>5. refs' = [refs EXCEPT ![q.id] = @ - 1 + 1]
    BY <1>2, <2>3
  <2> HIDE DEF n
  <2>6. \A v \in Int : q.off <= v /\ v < q.off + q.size /\ v # u =>
           n.off <= v /\ v < n.off + n.size
    BY <1>1, <2>1
  <2>7. q.off <= n.off /\ n.off + n.size <= q.off + q.size
    BY <1>1, <2>1
  <2>8. Replaced(q, {n}, u)
    BY <2>1, <2>2, <2>3, <2>4, <2>5, <2>6, <2>7 DEF Replaced
  <2> QED BY <2>3, <2>8
<1>5. CASE q.size = 1 /\ refs[q.id] # 1
  <2>1. /\ parts' = parts \ {q} /\ refs' = [refs EXCEPT ![q.id] = @ - 1]
        /\ UNCHANGED <<count, chunkVars>>
    BY <1>5 DEF PartReceived
  <2>2. IsFiniteSet({}) /\ Cardinality({}) = 0
    BY FS_EmptySet
  <2>3. refs' = [refs EXCEPT ![q.id] = @ - 1 + 0]
    <3>1. refs[q.id] - 1 + 0 = refs[q.id] - 1
      BY <1>2
    <3> QED BY <2>1, <3>1
  <2>4. \A v \in Int : q.off <= v /\ v < q.off + q.size => v = u
    BY <1>1, <1>5
  <2>5. Replaced(q, {}, u)
    BY <1>5, <2>1, <2>2, <2>3, <2>4 DEF Replaced
  <2> QED BY <2>1, <2>5
<1>6. CASE q.size = 1 /\ refs[q.id] = 1
  BY <1>6 DEF PartReceived, Finishes
<1> QED BY <1>4, <1>5, <1>6

\* A part may be split at u.
LEMMA SplitAt ==
    ASSUME FileInv, NEW u \in Unit, NEW q \in Around(u),
           PartReceived([q EXCEPT !.off = u, !.size = q.off + q.size - u],
                        (parts \ {q}) \cup {[q EXCEPT !.size = u - q.off]},
                        [refs EXCEPT ![q.id] = @ + 1])
    PROVE  (\E N : Replaced(q, N, u)) /\ UNCHANGED <<count, chunkVars>>
<1> DEFINE more  == [refs EXCEPT ![q.id] = @ + 1]
           back  == [q EXCEPT !.off = u, !.size = q.off + q.size - u]
           front == [q EXCEPT !.size = u - q.off]
           after == [back EXCEPT !.off = @ + 1, !.size = @ - 1]
<1>0. TypeOK /\ SlicesFit /\ PartsFit
  BY DEF FileInv
<1>1. q \in parts /\ q.off < u /\ q.off + q.size > u
  BY DEF Around
<1>2. /\ q \in Part /\ q.off \in Nat /\ q.size \in Nat \ {0} /\ q.size <= MaxSlice
      /\ \A v \in Int : q.off <= v /\ v < q.off + q.size => v \in Unit
  BY <1>0, <1>1, PartRange
<1>3. /\ refs \in [Unit -> 0 .. MaxSlice] /\ q.id \in Unit /\ refs[q.id] \in Nat \ {0}
  BY <1>1, RefsAre
<1>4. MaxSlice \in Nat /\ u \in Nat
  BY Bounds
<1>5. /\ front.off = q.off /\ front.size = u - q.off
      /\ front.id = q.id /\ front.peer = q.peer
      /\ back.off = u /\ back.size = q.off + q.size - u
      /\ back.id = q.id /\ back.peer = q.peer
      /\ after.off = u + 1 /\ after.size = q.off + q.size - u - 1
      /\ after.id = q.id /\ after.peer = q.peer
  <2>1. /\ front.off = q.off /\ front.size = u - q.off
        /\ front.id = q.id /\ front.peer = q.peer
    BY <1>2 DEF Part
  <2>2. /\ back.off = u /\ back.size = q.off + q.size - u
        /\ back.id = q.id /\ back.peer = q.peer
    BY <1>2 DEF Part
  <2>4. back \in [off : Int, size : Int, id : Unit, peer : Peer]
    <3>1. u \in Int /\ q.off + q.size - u \in Int
      BY <1>2, <1>4
    <3> QED BY <1>2, <3>1 DEF Part
  <2>3. /\ after.off = back.off + 1 /\ after.size = back.size - 1
        /\ after.id = back.id /\ after.peer = back.peer
    <3> HIDE DEF back
    <3> QED BY <2>4
  <2> HIDE DEF front, back, after
  <2> QED BY <1>2, <1>4, <2>1, <2>2, <2>3
<1>6. front \in Part
  <2>1. u - q.off \in 1 .. MaxSlice
    BY <1>1, <1>2, <1>4
  <2> QED BY <1>2, <2>1 DEF Part
<1>7. more[q.id] = refs[q.id] + 1 /\ more[q.id] # 1
  BY <1>3
<1>8. CASE back.size # 1
  <2>1. /\ parts' = ((parts \ {q}) \cup {front}) \cup {after} /\ refs' = more
        /\ UNCHANGED <<count, chunkVars>>
    BY <1>8 DEF PartReceived
  <2>2. after \in Part
    <3>1. q.off + q.size - u - 1 \in 1 .. MaxSlice
      BY <1>1, <1>2, <1>4, <1>5, <1>8
    <3>2. u + 1 \in Unit
      BY <1>1, <1>2, <1>4, <3>1
    <3>3. back \in [off : Int, size : Int, id : Unit, peer : Peer]
      <4>1. u \in Int /\ q.off + q.size - u \in Int
        BY <1>2, <1>4
      <4> QED BY <1>2, <4>1 DEF Part
    <3>4. after \in [off : {u + 1}, size : {q.off + q.size - u - 1}, id : {q.id}, peer : {q.peer}]
      <4> HIDE DEF back
      <4> QED BY <1>5, <3>3
    <3>5. q.id \in Unit /\ q.peer \in Peer
      BY <1>2 DEF Part
    <3> HIDE DEF after, back
    <3> QED BY <3>1, <3>2, <3>4, <3>5 DEF Part
  <2>3. front # after
    <3> HIDE DEF front, back, after
    <3> QED BY <1>2, <1>4, <1>1, <1>5
  <2>4. IsFiniteSet({front, after}) /\ Cardinality({front, after}) = 2
    <3> HIDE DEF front, after
    <3>1. IsFiniteSet({front}) /\ Cardinality({front}) = 1
      BY FS_Singleton
    <3>2. {front, after} = {front} \cup {after} /\ after \notin {front}
      BY <2>3
    <3>3. IsFiniteSet({front} \cup {after}) /\ Cardinality({front} \cup {after}) = 1 + 1
      BY <3>1, <3>2, FS_AddElement
    <3> QED BY <3>2, <3>3
  <2>5. refs' = [refs EXCEPT ![q.id] = @ - 1 + 2]
    <3>1. refs[q.id] - 1 + 2 = refs[q.id] + 1
      BY <1>3
    <3> QED BY <2>1, <3>1
  <2> HIDE DEF front, after, back, more
  <2>6. \A v \in Int : q.off <= v /\ v < q.off + q.size /\ v # u =>
           \E n \in {front, after} : n.off <= v /\ v < n.off + n.size
    BY <1>1, <1>2, <1>4, <1>5
  <2>7. /\ q.off <= front.off /\ front.off + front.size <= q.off + q.size
        /\ q.off <= after.off /\ after.off + after.size <= q.off + q.size
        /\ front.off + front.size <= after.off
    BY <1>1, <1>2, <1>4, <1>5
  <2>8. Replaced(q, {front, after}, u)
    BY <1>1, <1>5, <1>6, <2>1, <2>2, <2>4, <2>5, <2>6, <2>7 DEF Replaced
  <2> QED BY <2>1, <2>8
<1>9. CASE back.size = 1
  <2>1. /\ parts' = (parts \ {q}) \cup {front} /\ refs' = [more EXCEPT ![q.id] = @ - 1]
        /\ UNCHANGED <<count, chunkVars>>
    <3>1. back.id = q.id
      BY <1>5
    <3> HIDE DEF front, back, more
    <3> QED BY <1>7, <1>9, <3>1 DEF PartReceived, front, back, more
  <2>2. IsFiniteSet({front}) /\ Cardinality({front}) = 1
    BY FS_Singleton
  <2>3. refs' = [refs EXCEPT ![q.id] = @ - 1 + 1]
    BY <1>3, <2>1
  <2> HIDE DEF front, after, back, more
  <2>4. \A v \in Int : q.off <= v /\ v < q.off + q.size /\ v # u =>
           front.off <= v /\ v < front.off + front.size
    BY <1>1, <1>2, <1>4, <1>5, <1>9
  <2>5. q.off <= front.off /\ front.off + front.size <= q.off + q.size
    BY <1>1, <1>2, <1>4, <1>5
  <2>6. Replaced(q, {front}, u)
    BY <1>1, <1>5, <1>6, <2>1, <2>2, <2>3, <2>4, <2>5 DEF Replaced
  <2> QED BY <2>1, <2>6
<1> QED BY <1>8, <1>9

-----------------------------------------------------------------------------
\* Slice s of chunk c is finished with its last unit, and maybe its chunk.
Finished(s, c) ==
    /\ s \in slices /\ slices' = slices \ {s} /\ feed' = feed
    /\ c = ChunkOf(s.id) /\ c \in Chunk /\ map[c] = "active"
    /\ remains \in [Chunk -> 0 .. ChunkLen]
    /\ remains' = [remains EXCEPT ![c] = @ - s.size]
    /\ remains'[c] \in Nat /\ remains'[c] <= remains[c]
    /\ \A d \in Chunk : map[d] = "active" =>
          remains'[d] = AskedOf(slices', d) + ToFeed(feed, d)
    /\ \/ /\ remains'[c] = 0
          /\ \A t \in slices' : ChunkOf(t.id) # c
          /\ \A p \in Peer : ~Fed(p, c)
          /\ map' = [map EXCEPT ![c] = Received(c)] /\ queue' \subseteq queue \cup {c}
          /\ total' = TotalOf(map', remains') /\ complete' = AllDone(map')
       \/ UNCHANGED <<map, queue, complete>> /\ total' = total + s.size

\* dataReceived() finds that slice.  When nothing is left of the chunk, no slice and
\* no feed is: what remains is their sum.
LEMMA Finishing ==
    ASSUME FileInv, NEW u, NEW q, Finishes(u, q)
    PROVE  \E s \in slices : s.id = q.id /\ Finished(s, ChunkOf(s.id))
<1>0. TypeOK /\ SlicesFit /\ FeedsFit /\ PartsFit /\ SumsFit
  BY DEF FileInv
<1>1. PICK s \in slices :
         LET c == ChunkOf(q.id)
             left == remains[c] - s.size
         IN  /\ s.id = q.id
             /\ slices' = slices \ {s}
             /\ remains' = [remains EXCEPT ![c] = left]
             /\ IF left = 0
                THEN /\ map' = [map EXCEPT ![c] = Received(c)]
                     /\ queue' = IF Received(c) = "checking" THEN queue \cup {c} ELSE queue
                     /\ total' = TotalOf(map', remains')
                     /\ complete' = AllDone(map')
                ELSE /\ total' = total + s.size
                     /\ UNCHANGED <<map, queue, complete>>
             /\ UNCHANGED feed
  BY DEF Finishes, DataReceived
<1> DEFINE c == ChunkOf(s.id)
<1>2. /\ s.id = q.id /\ slices' = slices \ {s} /\ feed' = feed
      /\ remains' = [remains EXCEPT ![c] = @ - s.size]
      /\ \/ /\ remains[c] - s.size = 0 /\ map' = [map EXCEPT ![c] = Received(c)]
            /\ queue' \subseteq queue \cup {c}
            /\ total' = TotalOf(map', remains') /\ complete' = AllDone(map')
         \/ UNCHANGED <<map, queue, complete>> /\ total' = total + s.size
  BY <1>1
<1>3. /\ s.size \in Nat \ {0} /\ c \in Chunk /\ map[c] = "active"
  BY <1>0, SliceRange
<1>4. /\ remains \in [Chunk -> 0 .. ChunkLen] /\ ChunkLen \in Nat
      /\ feed \in [Peer -> Unit \cup {NoFeed}]
      /\ slices \in SUBSET Slice /\ IsFiniteSet(slices)
  BY <1>0, Bounds DEF TypeOK, SlicesFit
<1>5. slices \ {s} \in SUBSET Slice /\ IsFiniteSet(slices \ {s})
  BY <1>4, FS_Subset
<1>6. \A d \in Chunk : /\ AskedOf(slices, d)
                             = AskedOf(slices \ {s}, d) + (IF c = d THEN s.size ELSE 0)
                       /\ AskedOf(slices \ {s}, d) \in Nat
  BY <1>4, <1>5, AskedWithout, AskedBounds
<1>7. \A d \in Chunk : OneFed(feed, d)
  BY <1>0 DEF FeedsFit, Fed, OneFed
<1>8. \A d \in Chunk : ToFeed(feed, d) \in Nat
  BY <1>4, <1>7, ToFeedIs
<1>9. \A d \in Chunk : map[d] = "active" => remains[d] = AskedOf(slices, d) + ToFeed(feed, d)
  BY <1>0, AccountedIs DEF SumsFit
<1> HIDE DEF c
<1>10. \A d \in Chunk : map[d] = "active" =>
          remains'[d] = AskedOf(slices', d) + ToFeed(feed, d)
  <2> SUFFICES ASSUME NEW d \in Chunk, map[d] = "active"
               PROVE  remains'[d] = AskedOf(slices \ {s}, d) + ToFeed(feed, d)
    BY <1>2
  <2>1. remains'[d] = remains[d] - (IF c = d THEN s.size ELSE 0)
    BY <1>2, <1>3, <1>4
  <2>2. remains[d] = AskedOf(slices, d) + ToFeed(feed, d)
    BY <1>9
  <2>3. /\ AskedOf(slices, d) = AskedOf(slices \ {s}, d) + (IF c = d THEN s.size ELSE 0)
        /\ AskedOf(slices \ {s}, d) \in Nat
    BY <1>6
  <2>4. ToFeed(feed, d) \in Nat
    BY <1>8
  <2> QED BY <1>3, <2>1, <2>2, <2>3, <2>4
<1>11. remains'[c] = remains[c] - s.size
  BY <1>2, <1>3, <1>4
<1>12. remains'[c] \in Nat /\ remains'[c] <= remains[c]
  <2>1. remains'[c] = AskedOf(slices \ {s}, c) + ToFeed(feed, c)
    BY <1>2, <1>3, <1>10
  <2>2. remains'[c] \in Nat
    BY <1>3, <1>6, <1>8, <2>1
  <2>3. remains[c] \in Nat
    BY <1>3, <1>4
  <2> QED BY <1>3, <1>11, <2>2, <2>3
<1>13. ASSUME remains'[c] = 0
       PROVE  /\ \A t \in slices' : ChunkOf(t.id) # c
              /\ \A p \in Peer : ~Fed(p, c)
  <2>1. AskedOf(slices \ {s}, c) = 0 /\ ToFeed(feed, c) = 0
    <3>1. remains'[c] = AskedOf(slices \ {s}, c) + ToFeed(feed, c)
      BY <1>2, <1>3, <1>10
    <3>2. AskedOf(slices \ {s}, c) \in Nat /\ ToFeed(feed, c) \in Nat
      BY <1>3, <1>6, <1>8
    <3> QED BY <1>13, <3>1, <3>2
  <2>2. ASSUME NEW t \in slices', ChunkOf(t.id) = c
        PROVE  FALSE
    <3>1. t \in slices \ {s}
      BY <1>2
    <3>2. t.size <= AskedOf(slices \ {s}, c)
      BY <1>5, <2>2, <3>1, AskedBounds
    <3>3. t.size \in Nat \ {0}
      BY <1>0, <3>1, SliceRange
    <3> QED BY <2>1, <3>2, <3>3
  <2>3. ASSUME NEW p \in Peer, Fed(p, c)
        PROVE  FALSE
    <3>1. feed[p] # NoFeed /\ ChunkOf(feed[p]) = c
      BY <2>3 DEF Fed
    <3>2. ToFeed(feed, c) \in Nat \ {0}
      BY <1>3, <1>4, <1>7, <3>1, ToFeedIs
    <3> QED BY <2>1, <3>2
  <2> QED BY <2>2, <2>3
<1>14. Finished(s, c)
  BY <1>2, <1>3, <1>4, <1>10, <1>11, <1>12, <1>13 DEF Finished, c
<1> QED BY <1>2, <1>14 DEF c

\* The parts that are left.
LEMMA FinishParts ==
    ASSUME FileInv, NEW u, NEW q, Finishes(u, q), NEW s, s.id = q.id, Finished(s, ChunkOf(s.id))
    PROVE  /\ PartsFit' /\ parts' \subseteq Part /\ refs' \in [Unit -> 0 .. MaxSlice]
           /\ q.id \in SlicesOf(q.peer) /\ SlicesOf(q.peer)' = SlicesOf(q.peer) \ {q.id}
           /\ \A p : p # q.peer => SlicesOf(p)' = SlicesOf(p)
<1>0. TypeOK /\ SlicesFit /\ PartsFit
  BY DEF FileInv
<1>1. /\ q \in parts /\ parts' = parts \ {q} /\ refs[q.id] = 1
      /\ refs' = [refs EXCEPT ![q.id] = @ - 1]
      /\ s \in slices /\ slices' = slices \ {s}
  BY DEF Finishes, Finished
<1>2. q.id \in Unit
  BY <1>0, <1>1, PartRange
<1>3. PartsOf(q.id) = {q}
  <2>1. Cardinality(PartsOf(q.id)) = 1 /\ IsFiniteSet(PartsOf(q.id)) /\ q \in PartsOf(q.id)
    BY <1>0, <1>1, <1>2, PartsOfBounded DEF PartsFit, PartsOf
  <2>2. \E x : PartsOf(q.id) = {x}
    BY <2>1, FS_Singleton
  <2> QED BY <2>1, <2>2
<1>4. PartsOf(q.id)' = {} /\ \A v : v # q.id => PartsOf(v)' = PartsOf(v)
  BY <1>1, <1>3 DEF PartsOf
<1>5. \A v \in Unit : refs'[v] = Cardinality(PartsOf(v)') /\ refs'[v] \in 0 .. MaxSlice
  <2>1. refs \in [Unit -> 0 .. MaxSlice] /\ \A v \in Unit : refs[v] = Cardinality(PartsOf(v))
    BY <1>0 DEF TypeOK, PartsFit
  <2>2. Cardinality({}) = 0 /\ MaxSlice \in Nat /\ refs'[q.id] = 0
    BY <1>1, <1>2, <2>1, Bounds, FS_EmptySet
  <2>3. \A v \in Unit : v # q.id => refs'[v] = refs[v]
    BY <1>1, <2>1
  <2> QED BY <1>4, <2>1, <2>2, <2>3
<1>6. refs' \in [Unit -> 0 .. MaxSlice]
  BY <1>0, <1>1, <1>5 DEF TypeOK
<1>7. IsFiniteSet(parts')
  BY <1>0, <1>1, FS_Subset DEF PartsFit
<1>8. ASSUME NEW r \in parts'
      PROVE  \E t \in slices' : Within(r, t)
  <2>1. r \in parts /\ r.id # q.id
    BY <1>1, <1>3 DEF PartsOf
  <2>2. PICK t \in slices : Within(r, t)
    BY <1>0, <2>1, PartRange
  <2> QED BY <1>1, <2>1, <2>2 DEF Within
<1>9. ASSUME NEW t \in slices'
      PROVE  PartsOf(t.id)' # {}
  <2>1. t \in slices /\ t.id # s.id
    BY <1>0, <1>1, SliceIds
  <2> QED BY <1>0, <1>4, <2>1 DEF PartsFit
<1>10. PartsFit'
  <2>1. /\ \A r, t \in parts' : r = t \/ r.off + r.size <= t.off \/ t.off + t.size <= r.off
        /\ \A r, t \in parts' : r.id = t.id => r.peer = t.peer
    BY <1>0, <1>1 DEF PartsFit
  <2> QED BY <1>5, <1>7, <1>8, <1>9, <2>1 DEF PartsFit, Within
<1>11. parts' \subseteq Part
  BY <1>0, <1>1 DEF TypeOK
<1>12. \A r \in parts : r.id = q.id => r = q
  BY <1>3 DEF PartsOf
<1>13. /\ q.id \in SlicesOf(q.peer) /\ SlicesOf(q.peer)' = SlicesOf(q.peer) \ {q.id}
       /\ \A p : p # q.peer => SlicesOf(p)' = SlicesOf(p)
  BY <1>1, <1>12 DEF SlicesOf
<1> QED BY <1>6, <1>10, <1>11, <1>13

\* The slices and feeds that are left.
LEMMA FinishSlices ==
    ASSUME FileInv, NEW s, NEW c, Finished(s, c)
    PROVE  SlicesFit' /\ FeedsFit'
<1>0. TypeOK /\ SlicesFit /\ FeedsFit
  BY DEF FileInv
<1>1. /\ s \in slices /\ slices' = slices \ {s} /\ feed' = feed /\ c \in Chunk
      /\ \A r \in Peer : \A d : Fed(r, d)' <=> Fed(r, d)
  BY DEF Finished, Fed
<1>2. \/ UNCHANGED map
      \/ /\ \A d \in Chunk : d # c => map'[d] = map[d]
         /\ \A t \in slices' : ChunkOf(t.id) # c
         /\ \A p \in Peer : ~Fed(p, c)
  BY <1>0 DEF Finished, TypeOK
<1>3. \A t \in slices' : map'[ChunkOf(t.id)] = "active"
  <2> SUFFICES ASSUME NEW t \in slices' PROVE map'[ChunkOf(t.id)] = "active"
    OBVIOUS
  <2>1. map[ChunkOf(t.id)] = "active" /\ ChunkOf(t.id) \in Chunk
    BY <1>0, <1>1, SliceRange
  <2> QED BY <1>2, <2>1
<1>4. IsFiniteSet(slices')
  BY <1>0, <1>1, FS_Subset DEF SlicesFit
<1>5. SlicesFit'
  BY <1>0, <1>1, <1>3, <1>4 DEF SlicesFit
<1>6. \A p \in Peer : feed'[p] # NoFeed => map'[ChunkOf(feed'[p])] = "active"
  <2> SUFFICES ASSUME NEW p \in Peer, feed[p] # NoFeed PROVE map'[ChunkOf(feed[p])] = "active"
    BY <1>1
  <2>1. feed[p] \in Unit /\ map[ChunkOf(feed[p])] = "active"
    BY <1>0 DEF TypeOK, FeedsFit
  <2>2. ChunkOf(feed[p]) \in Chunk
    BY <2>1, UnitIn
  <2> QED BY <1>2, <2>1, <2>2 DEF Fed
<1>7. FeedsFit'
  BY <1>0, <1>1, <1>6 DEF FeedsFit
<1> QED BY <1>5, <1>7

\* What is written: nothing is missing of a chunk that is finished.
LEMMA FinishContents ==
    ASSUME FileInv, NEW u, NEW q, Finishes(u, q), Writes(u), NEW s, s.id = q.id,
           Finished(s, ChunkOf(s.id)), UNCHANGED saved
    PROVE  ContentFits'
<1> DEFINE c == ChunkOf(s.id)
<1>0. TypeOK /\ SlicesFit /\ PartsFit /\ ContentFits
  BY DEF FileInv
<1>1. /\ q \in parts /\ parts' = parts \ {q} /\ q.off = u /\ q.size = 1 /\ u \in Int
  BY Bounds DEF Finishes, Writes
<1>2. /\ c \in Chunk /\ map[c] = "active" /\ feed' = feed
      /\ \/ UNCHANGED map
         \/ /\ map' = [map EXCEPT ![c] = Received(c)]
            /\ \A t \in slices' : ChunkOf(t.id) # c
            /\ \A p \in Peer : ~Fed(p, c)
  BY DEF Finished
<1>3. map \in [Chunk -> States] /\ Received(c) \in {"checking", "done"}
  BY <1>0 DEF TypeOK, States, Received
<1>4. ASSUME NEW v \in Unit, map[ChunkOf(v)] = "active", content'[v] = "missing"
      PROVE  \/ \E r \in parts' : r.off <= v /\ v < r.off + r.size
             \/ \E p \in Peer : Fed(p, ChunkOf(v)) /\ feed[p] <= v
  <2>1. content[v] = "missing" /\ v # u /\ v \in Int
    BY <1>4, Bounds DEF Writes
  <2>2. Expected(v)
    BY <1>0, <1>4, <2>1 DEF ContentFits
  <2>3. ~(q.off <= v /\ v < q.off + q.size)
    BY <1>1, <2>1
  <2> QED BY <1>1, <2>2, <2>3 DEF Expected
<1>5. CASE UNCHANGED map
  <2>1. ASSUME NEW d \in Chunk, map'[d] \in {"checking", "done"} \/ d \in saved'
        PROVE  Written(d)'
    BY <1>0, <1>5, <2>1, WrittenStays DEF ContentFits
  <2>2. ASSUME NEW v \in Unit, map'[ChunkOf(v)] = "active", content'[v] = "missing"
        PROVE  Expected(v)'
    <3>1. map[ChunkOf(v)] = "active"
      BY <1>5, <2>2
    <3> QED BY <1>2, <1>4, <2>2, <3>1 DEF Expected, Fed
  <2> QED BY <2>1, <2>2 DEF ContentFits
<1>6. CASE /\ map' = [map EXCEPT ![c] = Received(c)]
           /\ \A t \in slices' : ChunkOf(t.id) # c
           /\ \A p \in Peer : ~Fed(p, c)
  <2>1. Written(c)'
    <3> SUFFICES ASSUME NEW v \in Unit, ChunkOf(v) = c, content'[v] = "missing"
                 PROVE  FALSE
      BY DEF Written, Units
    <3>1. PICK r \in parts' : r.off <= v /\ v < r.off + r.size
      BY <1>2, <1>4, <1>6
    <3>2. ChunkOf(r.id) = c
      <4>1. r \in parts /\ v \in Int
        BY <1>1, Bounds
      <4>2. \A w \in Int : r.off <= w /\ w < r.off + r.size => ChunkOf(w) = ChunkOf(r.id)
        BY <1>0, <4>1, PartRange
      <4> QED BY <3>1, <4>1, <4>2
    <3>3. \E t \in slices' : t.id = r.id
      <4>1. PartsFit'
        BY FinishParts
      <4> QED BY <4>1 DEF PartsFit
    <3> QED BY <1>6, <3>2, <3>3
  <2>2. \A d \in Chunk : d # c => map'[d] = map[d]
    BY <1>3, <1>6
  <2>3. ASSUME NEW d \in Chunk, map'[d] \in {"checking", "done"} \/ d \in saved'
        PROVE  Written(d)'
    BY <1>0, <2>1, <2>2, <2>3, WrittenStays DEF ContentFits
  <2>4. ASSUME NEW v \in Unit, map'[ChunkOf(v)] = "active", content'[v] = "missing"
        PROVE  Expected(v)'
    <3>1. map'[c] # "active"
      BY <1>2, <1>3, <1>6
    <3>2. ChunkOf(v) \in Chunk
      BY UnitIn
    <3>3. map[ChunkOf(v)] = "active"
      BY <2>2, <2>4, <3>1, <3>2
    <3> QED BY <1>2, <1>4, <2>4, <3>3 DEF Expected, Fed
  <2> QED BY <2>3, <2>4 DEF ContentFits
<1> QED BY <1>2, <1>5, <1>6

\* The sums: what is left of the chunk, and the total.
LEMMA FinishSums ==
    ASSUME FileInv, NEW s, NEW c, Finished(s, c), UNCHANGED flag
    PROVE  SumsFit'
<1>0. TypeOK /\ SlicesFit /\ SumsFit
  BY DEF FileInv
<1>1. /\ c \in Chunk /\ map[c] = "active" /\ feed' = feed /\ s \in slices
      /\ remains \in [Chunk -> 0 .. ChunkLen]
      /\ remains' = [remains EXCEPT ![c] = @ - s.size]
      /\ remains'[c] \in Nat /\ remains'[c] <= remains[c]
      /\ \A d \in Chunk : map[d] = "active" =>
            remains'[d] = AskedOf(slices', d) + ToFeed(feed, d)
  BY DEF Finished
<1>2. flag = "downloading"
  BY <1>0, <1>1 DEF SumsFit, AllDone
<1>3. \A d \in Chunk : map'[d] = "active" => map[d] = "active"
  BY <1>0, <1>1 DEF Finished, TypeOK, Received
<1>4. ChunkAccounted'
  <2>1. \A d \in Chunk : map'[d] = "active" =>
           remains'[d] = AskedOf(slices', d) + ToFeed(feed', d)
    BY <1>1, <1>3
  <2> QED BY <2>1 DEF ChunkAccounted, AskedOf, ToFeed
<1>5. \A d \in Chunk : map'[d] = "active" => remains'[d] <= SizeOfChunk(d)
  <2> SUFFICES ASSUME NEW d \in Chunk, map[d] = "active"
               PROVE  remains'[d] <= SizeOfChunk(d)
    BY <1>3
  <2>1. remains[d] <= SizeOfChunk(d)
    BY <1>0 DEF SumsFit
  <2>2. remains'[d] <= remains[d] /\ remains'[d] \in Int /\ remains[d] \in Int
    <3>1. ChunkLen \in Nat
      BY Bounds
    <3>2. d # c => remains'[d] = remains[d]
      BY <1>1
    <3>3. remains[d] \in Int
      BY <1>1, <3>1
    <3> QED BY <1>1, <3>2, <3>3
  <2>3. SizeOfChunk(d) \in Int
    BY ChunkRange, Bounds
  <2> QED BY <2>1, <2>2, <2>3
<1>6. CacheExact'
  <2>1. CASE total' = TotalOf(map', remains') /\ complete' = AllDone(map')
    BY <2>1, CacheIs
  <2>2. CASE UNCHANGED <<map, queue, complete>> /\ total' = total + s.size
    <3>1. s.size \in Nat /\ ChunkLen \in Nat
      BY <1>0, <1>1, SliceRange, Bounds
    <3>2. SameBut(c, map, remains, map', remains')
      <4>1. remains' \in [Chunk -> Int]
        BY <1>1, <3>1
      <4> QED BY <1>1, <2>2, <4>1 DEF SameBut
    <3>3. /\ TotalOf(map', remains')
                = TotalOf(map, remains) - Counted(map, remains, c) + Counted(map', remains', c)
          /\ TotalOf(map, remains) \in Int
      BY <3>2, TotalChange
    <3>4. /\ Counted(map, remains, c) = SizeOfChunk(c) - remains[c]
          /\ Counted(map', remains', c) = SizeOfChunk(c) - (remains[c] - s.size)
      BY <1>1, <2>2 DEF Counted
    <3>5. SizeOfChunk(c) \in Int /\ remains[c] \in Int
      BY <1>1, <3>1, ChunkRange, Bounds
    <3>6. total = TotalOf(map, remains) /\ complete = AllDone(map)
      BY <1>0 DEF SumsFit, CacheExact
    <3>7. total' = TotalOf(map', remains')
      BY <2>2, <3>1, <3>3, <3>4, <3>5, <3>6
    <3>8. complete' = AllDone(map')
      BY <2>2, <3>6 DEF AllDone
    <3> QED BY <3>7, <3>8, CacheIs
  <2> QED BY <2>1, <2>2 DEF Finished
<1>7. flag' = "downloading"
  BY <1>2
<1> QED BY <1>4, <1>5, <1>6, <1>7 DEF SumsFit

\* mChunksPerPeer[].cnt is an unsigned number.
LEMMA CounterTypes ==
    ASSUME NEW n \in Int, NEW k \in Int
    PROVE  /\ Decremented(n, k) \in 0 .. CounterMod - 1
           /\ n - k \in 0 .. CounterMod - 1 => Decremented(n, k) = n - k
<1>1. CounterMod \in Nat \ {0}
  BY Bounds
<1>2. \A i \in Int : /\ i % CounterMod \in 0 .. CounterMod - 1
                     /\ i \in 0 .. CounterMod - 1 => i % CounterMod = i
  BY <1>1, SMT
<1>3. n - k \in Int
  OBVIOUS
<1> QED BY <1>2, <1>3 DEF Decremented

\* The counter of the peer that was asked for the slice.
LEMMA FinishCounts ==
    ASSUME FileInv, NEW u, NEW q, Finishes(u, q), NEW s, s.id = q.id,
           Finished(s, ChunkOf(s.id)), UNCHANGED silences
    PROVE  CounterExact' /\ count' \in [Peer -> 0 .. CounterMod - 1]
<1>0. TypeOK /\ SlicesFit /\ PartsFit /\ CounterExact
  BY DEF FileInv
<1>1. /\ count \in [Peer -> 0 .. CounterMod - 1] /\ q.peer \in Peer
      /\ count' = [count EXCEPT ![q.peer] = Decremented(@, 1)]
  BY <1>0, PartRange DEF TypeOK, Finishes
<1>2. CounterMod \in Nat \ {0}
  BY Bounds
<1>3. count[q.peer] \in Int /\ 1 \in Int
  BY <1>1, <1>2
<1>4. count' \in [Peer -> 0 .. CounterMod - 1]
  <2>1. Decremented(count[q.peer], 1) \in 0 .. CounterMod - 1
    BY <1>3, CounterTypes
  <2> QED BY <1>1, <2>1
<1>5. ASSUME silences = 0, NEW p \in Peer
      PROVE  count'[p] = Cardinality(SlicesOf(p)')
  <2>1. count[p] = Cardinality(SlicesOf(p))
    BY <1>0, <1>5 DEF CounterExact
  <2>2. CASE p # q.peer
    <3>1. SlicesOf(p)' = SlicesOf(p)
      BY <2>2, FinishParts
    <3> QED BY <1>1, <2>1, <2>2, <3>1
  <2>3. CASE p = q.peer
    <3>1. q.id \in SlicesOf(p) /\ SlicesOf(p)' = SlicesOf(p) \ {q.id}
      BY <2>3, FinishParts
    <3>2. IsFiniteSet(SlicesOf(p)) /\ Cardinality(SlicesOf(p)) \in Nat
      BY <1>0, SlicesOfFinite
    <3>3. Cardinality(SlicesOf(p)') = Cardinality(SlicesOf(p)) - 1
      BY <3>1, <3>2, FS_RemoveElement
    <3>4. Cardinality(SlicesOf(p)') \in Nat
      <4>1. IsFiniteSet(SlicesOf(p)')
        BY <3>1, <3>2, FS_Subset
      <4> QED BY <4>1, FS_CardinalityType
    <3>5. count[p] - 1 \in 0 .. CounterMod - 1
      <4>1. count[p] \in 0 .. CounterMod - 1
        BY <1>1
      <4> QED BY <1>2, <2>1, <3>3, <3>4, <4>1
    <3>6. Decremented(count[p], 1) = count[p] - 1
      BY <1>3, <2>3, <3>5, CounterTypes
    <3> QED BY <1>1, <2>1, <2>3, <3>3, <3>6
  <2> QED BY <2>2, <2>3
<1>6. CounterExact'
  BY <1>5 DEF CounterExact
<1> QED BY <1>4, <1>6

\* The types of ChunkMap's tables after that.
LEMMA FinishTypes ==
    ASSUME FileInv, NEW s, NEW c, Finished(s, c), UNCHANGED flag
    PROVE  ChunkTypes'
<1>0. TypeOK /\ ChunkTypes
  BY TypesAre DEF FileInv
<1>1. /\ c \in Chunk /\ remains \in [Chunk -> 0 .. ChunkLen] /\ ChunkLen \in Nat
      /\ remains' = [remains EXCEPT ![c] = @ - s.size]
      /\ remains'[c] \in Nat /\ remains'[c] <= remains[c]
  BY Bounds DEF Finished
<1>2. remains' \in [Chunk -> 0 .. ChunkLen]
  <2>1. remains'[c] \in 0 .. ChunkLen
    <3>1. remains[c] \in 0 .. ChunkLen
      BY <1>1
    <3> QED BY <1>1, <3>1
  <2>2. remains[c] - s.size \in 0 .. ChunkLen
    BY <1>1, <2>1
  <2> QED BY <1>1, <2>2
<1>3. map' \in [Chunk -> States]
  BY <1>0 DEF Finished, ChunkTypes, States, Received
<1>4. queue' \subseteq Chunk /\ slices' \subseteq Slice /\ feed' \in [Peer -> Unit \cup {NoFeed}]
  BY <1>0 DEF Finished, ChunkTypes
<1>5. SumsFit'
  BY FinishSums
<1>6. complete' \in BOOLEAN
  BY <1>5 DEF SumsFit, CacheExact, AllDone
<1>7. total' \in 0 .. FileSize
  <2>1. total' = TotalOf(map', remains')
    BY <1>5, CacheIs DEF SumsFit
  <2>2. \A d \in Chunk : map'[d] = "active" => remains'[d] <= SizeOfChunk(d)
    BY <1>5 DEF SumsFit
  <2>3. remains' \in [Chunk -> Nat]
    BY <1>1, <1>2
  <2> QED BY <2>1, <2>2, <2>3, TotalBounds
<1> QED BY <1>2, <1>3, <1>4, <1>6, <1>7 DEF ChunkTypes

\* A slice is finished.
LEMMA FinishKeeps ==
    ASSUME FileInv, NEW u, Writes(u), NEW q, Finishes(u, q), UNCHANGED <<moduleVars, silences>>,
           ModuleTypes', NetTypes'
    PROVE  FileInv'
<1>0. UNCHANGED <<flag, saved, silences>>
  BY DEF moduleVars
<1>1. PICK s \in slices : s.id = q.id /\ Finished(s, ChunkOf(s.id))
  BY Finishing
<1>2. /\ PartsFit' /\ parts' \subseteq Part /\ refs' \in [Unit -> 0 .. MaxSlice]
  BY <1>1, FinishParts
<1>3. SlicesFit' /\ FeedsFit'
  BY <1>1, FinishSlices
<1>4. ContentFits'
  BY <1>0, <1>1, FinishContents
<1>5. SumsFit'
  BY <1>0, <1>1, FinishSums
<1>6. CounterExact' /\ count' \in [Peer -> 0 .. CounterMod - 1]
  BY <1>0, <1>1, FinishCounts
<1>7. FileTypes'
  BY <1>2, <1>6 DEF FileTypes, Writes
<1>8. ChunkTypes'
  BY <1>0, <1>1, FinishTypes
<1> QED BY <1>2, <1>3, <1>4, <1>5, <1>6, <1>7, <1>8, TypesAfter DEF FileInv

\* A unit that belongs to no part is written all the same (late or repeated data).
LEMMA IgnoredKeeps ==
    ASSUME FileInv, NEW u, Writes(u), UNCHANGED <<parts, refs, count, chunkVars>>,
           UNCHANGED <<moduleVars, silences>>, ModuleTypes', NetTypes'
    PROVE  FileInv'
<1>0. /\ UNCHANGED <<map, remains, slices, feed, queue, complete, total, flag, saved>>
      /\ TypeOK /\ ContentFits /\ SumsFit
  BY DEF chunkVars, moduleVars, FileInv
<1>1. SlicesFit' /\ FeedsFit' /\ SumsFit'
  <2>1. flag' # "downloading" => AllDone(map)
    BY <1>0 DEF SumsFit
  <2> QED BY <1>0, <2>1, ChunksStay
<1>2. PartsFit' /\ CounterExact'
  BY <1>0 DEF FileInv, PartsFit, PartsOf, CounterExact, SlicesOf
<1>3. ContentFits'
  <2>1. ASSUME NEW c \in Chunk, map'[c] \in {"checking", "done"} \/ c \in saved'
        PROVE  Written(c)'
    BY <1>0, <2>1, WrittenStays DEF ContentFits
  <2>2. ASSUME NEW v \in Unit, map'[ChunkOf(v)] = "active", content'[v] = "missing"
        PROVE  Expected(v)'
    <3>1. Expected(v)
      BY <1>0, <2>2 DEF ContentFits, Writes
    <3> QED BY <1>0, <3>1 DEF Expected, Fed
  <2> QED BY <2>1, <2>2 DEF ContentFits
<1>4. FileTypes'
  BY <1>0, TypesAre DEF FileTypes, Writes
<1>5. ChunkTypes'
  BY <1>0, TypesAre DEF ChunkTypes
<1> QED BY <1>1, <1>2, <1>3, <1>4, <1>5, TypesAfter DEF FileInv

\* addFileData(), locked_notifyReceived().
LEMMA RecvFileDataKeeps ==
    ASSUME FileInv, NEW p \in Peer, RecvFileData(p)
    PROVE  FileInv'
<1> DEFINE u == Head(net[p])
<1>1. /\ Writes(u) /\ ModuleTypes' /\ NetTypes' /\ UNCHANGED <<moduleVars, silences>>
  BY DataWrites
<1>2. u \in Unit
  BY <1>1 DEF Writes
<1>3. NotifyReceived(u)
  BY DEF RecvFileData
<1> HIDE DEF u
<1>4. ASSUME NEW q \in parts, q.off = u, PartReceived(q, parts \ {q}, refs)
      PROVE  FileInv'
  <2>1. CASE (\E N : Replaced(q, N, u)) /\ UNCHANGED <<count, chunkVars>>
    BY <1>1, <2>1, ReplaceKeeps
  <2>2. CASE Finishes(u, q)
    BY <1>1, <2>2, FinishKeeps
  <2> QED BY <1>4, <2>1, <2>2, BeginsAt
<1>5. ASSUME NEW q \in Around(u),
             PartReceived([q EXCEPT !.off = u, !.size = q.off + q.size - u],
                          (parts \ {q}) \cup {[q EXCEPT !.size = u - q.off]},
                          [refs EXCEPT ![q.id] = @ + 1])
      PROVE  FileInv'
  <2>1. (\E N : Replaced(q, N, u)) /\ UNCHANGED <<count, chunkVars>>
    BY <1>2, <1>5, SplitAt
  <2> QED BY <1>1, <2>1, ReplaceKeeps
<1>6. CASE UNCHANGED <<parts, refs, count, chunkVars>>
  BY <1>1, <1>6, IgnoredKeeps
<1> QED BY <1>3, <1>4, <1>5, <1>6 DEF NotifyReceived

-----------------------------------------------------------------------------
(* Requests, losses, and the steps of the transfer module *)

\* MayFail bounds the faults.
LEMMA FaultBounds ==
    ASSUME NetTypes, MayFail
    PROVE  /\ faults + 1 \in 0 .. MaxFaults /\ silences + 1 \in 0 .. MaxFaults
           /\ silences + 1 # 0
<1>1. /\ faults \in 0 .. MaxFaults /\ silences \in 0 .. MaxFaults
      /\ MaxFaults \in Nat
  BY Bounds DEF NetTypes
<1> QED BY <1>1 DEF MayFail

\* Done and saved chunks are written.
LEMMA DoneIsWritten ==
    ASSUME FileInv
    PROVE  /\ \A c \in saved : Written(c)
           /\ \A c \in Chunk : map[c] \in {"checking", "done"} => Written(c)
  BY DEF FileInv, ContentFits, TypeOK

\* A step of the network only.
LEMMA NetKeeps ==
    ASSUME FileInv, UNCHANGED <<chunkVars, fileVars, moduleVars>>, UNCHANGED silences, NetTypes'
    PROVE  FileInv'
<1>1. /\ UNCHANGED <<map, remains, slices, feed, complete, total>> /\ UNCHANGED <<queue, flag>>
      /\ UNCHANGED saved
  BY DEF chunkVars, moduleVars
<1>2. UNCHANGED <<fileVars, silences>>
  OBVIOUS
<1>3. queue' \subseteq Chunk /\ ModuleTypes'
  BY <1>1, TypesAre DEF FileInv, ChunkTypes, ModuleTypes, moduleVars
<1>4. \A c \in saved' : Written(c)
  BY <1>1, DoneIsWritten
<1>5. flag' # "downloading" => AllDone(map)
  BY <1>1 DEF FileInv, SumsFit
<1> QED BY <1>1, <1>2, <1>3, <1>4, <1>5, QuietKeeps

\* ftFileCreator::getMissingChunk(), for a part that is asked again.
LEMMA ReAskPartKeeps ==
    ASSUME FileInv, NEW p \in Peer, ReAskPart(p)
    PROVE  FileInv'
<1>0. TypeOK /\ SlicesFit /\ PartsFit
  BY DEF FileInv
<1>1. PICK q \in parts : Request(p, q.off, q.size)
  BY DEF ReAskPart
<1>2. /\ q.off \in Nat /\ q.size \in Nat
      /\ \A u \in Int : q.off <= u /\ u < q.off + q.size => u \in Unit
  BY <1>0, PartRange
<1>3. NetTypes'
  BY <1>0, <1>1, <1>2, RequestTypes
<1>4. UNCHANGED silences /\ UNCHANGED <<chunkVars, fileVars, moduleVars>>
  BY <1>1 DEF Request, ReAskPart
<1> QED BY <1>3, <1>4, NetKeeps

\* A packet is lost.
LEMMA LoseKeeps ==
    ASSUME FileInv, NEW p \in Peer, Lose(p)
    PROVE  FileInv'
<1>0. NetTypes
  BY TypesAre DEF FileInv
<1>1. PICK i \in 1 .. Len(net[p]) :
         net' = [net EXCEPT ![p] = SubSeq(@, 1, i - 1) \o SubSeq(@, i + 1, Len(@))]
  BY DEF Lose
<1>2. net[p] \in Seq(Unit)
  BY <1>0 DEF NetTypes
<1> DEFINE s == net[p]
<1>3. SubSeq(s, 1, i - 1) \in Seq(Unit) /\ SubSeq(s, i + 1, Len(s)) \in Seq(Unit)
  <2> HIDE DEF s
  <2>1. s \in Seq(Unit) /\ i \in 1 .. Len(s)
    BY <1>2 DEF s
  <2> QED BY <2>1, SubSeqProperties
<1>4. SubSeq(s, 1, i - 1) \o SubSeq(s, i + 1, Len(s)) \in Seq(Unit)
  BY <1>3
<1>5. net' \in [Peer -> Seq(Unit)]
  BY <1>0, <1>1, <1>4 DEF NetTypes
<1>6. faults' \in 0 .. MaxFaults
  BY <1>0, FaultBounds DEF Lose
<1>7. NetTypes' /\ UNCHANGED silences /\ UNCHANGED <<chunkVars, fileVars, moduleVars>>
  BY <1>0, <1>5, <1>6 DEF NetTypes, Lose
<1> QED BY <1>7, NetKeeps

\* The steps of the transfer module, and of the saved transfer list, that leave
\* the chunks alone.
LEMMA ModuleKeeps ==
    ASSUME FileInv,
           UNCHANGED <<map, remains, slices, feed, complete, total>>, UNCHANGED fileVars,
           \/ QueryInactive \/ ReadUnit \/ HashReceivedData \/ CompleteFile
           \/ SaveTransfers
           \/ CheckFile \/ \E c \in Chunk : RecvSingleChunkCRC(c)
           \/ \E c \in Chunk, sum \in {"right", "wrong"} : VerifyChunk(c, sum)
    PROVE  FileInv'
<1>0. /\ TypeOK /\ ChunkTypes /\ ModuleTypes /\ NetTypes /\ SumsFit
      /\ \A c \in saved : Written(c)
      /\ \A c \in Chunk : map[c] \in {"checking", "done"} => Written(c)
  BY TypesAre, DoneIsWritten DEF FileInv
<1> USE DEF moduleVars, netVars, ModuleTypes, NetTypes, ChunkTypes
<1>1. CASE QueryInactive
  <2>1. queue' \subseteq Chunk /\ ModuleTypes' /\ NetTypes' /\ saved' = saved
        /\ UNCHANGED silences
    BY <1>0, <1>1 DEF QueryInactive
  <2>2. flag' # "downloading" => AllDone(map)
    BY <1>0, <1>1 DEF QueryInactive, SumsFit, CacheExact
  <2> QED BY <1>0, <2>1, <2>2, QuietKeeps
<1>2. CASE ReadUnit \/ HashReceivedData
  <2>1. hashing' \in HashThread
    <3>1. CASE ReadUnit
      <4>1. hashing.read + 1 \in 0 .. FileSize
        BY <1>0, <3>1, Bounds DEF ReadUnit, HashThread
      <4> QED BY <1>0, <3>1, <4>1 DEF ReadUnit, HashThread
    <3>2. CASE HashReceivedData
      BY <1>0, <3>2 DEF HashReceivedData, HashThread
    <3> QED BY <1>2, <3>1, <3>2
  <2>2. queue' \subseteq Chunk /\ ModuleTypes' /\ NetTypes' /\ saved' = saved
        /\ UNCHANGED <<silences, flag>>
    BY <1>0, <1>2, <2>1 DEF ReadUnit, HashReceivedData, chunkVars
  <2> QED BY <1>0, <2>2, QuietKeeps DEF SumsFit
<1>3. CASE CompleteFile
  <2>1. queue' \subseteq Chunk /\ ModuleTypes' /\ NetTypes' /\ saved' = saved
        /\ UNCHANGED silences /\ flag # "downloading"
    BY <1>0, <1>3 DEF CompleteFile, chunkVars
  <2> QED BY <1>0, <2>1, QuietKeeps DEF SumsFit
<1>4. CASE SaveTransfers
  <2>1. queue' \subseteq Chunk /\ ModuleTypes' /\ NetTypes' /\ UNCHANGED <<silences, flag>>
        /\ saved' = {c \in Chunk : map[c] = "done"}
    BY <1>0, <1>4 DEF SaveTransfers, chunkVars
  <2> QED BY <1>0, <2>1, QuietKeeps DEF SumsFit
<1>5. CASE \E c \in Chunk : RecvSingleChunkCRC(c)
  <2>1. PICK c \in Chunk : RecvSingleChunkCRC(c)
    BY <1>5
  <2>2. queue' \subseteq Chunk /\ saved' = saved /\ UNCHANGED <<silences, flag>>
    BY <1>0, <2>1 DEF RecvSingleChunkCRC, chunkVars
  <2>3. ModuleTypes'
    BY <1>0, <2>1 DEF RecvSingleChunkCRC
  <2>4. faults' \in 0 .. MaxFaults
    BY <1>0, <2>1, FaultBounds DEF RecvSingleChunkCRC
  <2>5. NetTypes'
    BY <1>0, <2>1, <2>4 DEF RecvSingleChunkCRC
  <2> QED BY <1>0, <2>2, <2>3, <2>5, QuietKeeps DEF SumsFit
<1>6. CASE CheckFile
  <2>1. ModuleTypes' /\ NetTypes' /\ saved' = saved /\ UNCHANGED silences /\ flag # "downloading"
    BY <1>0, <1>6, ThreadTypes DEF CheckFile
  <2>2. queue' \subseteq Chunk
    BY <1>0, <1>6 DEF CheckFile, ForceCheck, chunkVars
  <2> QED BY <1>0, <2>1, <2>2, QuietKeeps DEF SumsFit
<1>7. CASE \E c \in Chunk, sum \in {"right", "wrong"} : VerifyChunk(c, sum)
  <2>1. queue' \subseteq Chunk /\ ModuleTypes' /\ NetTypes' /\ saved' = saved
        /\ UNCHANGED <<silences, flag>>
    BY <1>0, <1>7 DEF VerifyChunk
  <2> QED BY <1>0, <2>1, QuietKeeps DEF SumsFit
<1> QED BY <1>1, <1>2, <1>3, <1>4, <1>5, <1>6, <1>7

-----------------------------------------------------------------------------
(* Slices that are asked again or given up *)

\* The sums of a chunk depend on its slices and feeds only.
LEMMA AskedSame ==
    ASSUME NEW S \in SUBSET Slice, IsFiniteSet(S), NEW T \in SUBSET Slice, NEW c,
           {s \in S : ChunkOf(s.id) = c} = {s \in T : ChunkOf(s.id) = c}
    PROVE  AskedOf(S, c) = AskedOf(T, c)
<1> DEFINE f == [s \in S |-> s.size]
           g == [s \in T |-> s.size]
           U == {s \in S : ChunkOf(s.id) = c}
           V == {s \in T : ChunkOf(s.id) = c}
<1>1. IsFiniteSet(U)
  BY FS_Subset
<1>2. \A s \in U : f[s] = g[s]
  OBVIOUS
<1>3. SumFunctionOnSet(f, U) = SumFunctionOnSet(g, U)
  <2> HIDE DEF f, g, U, V
  <2> QED BY <1>1, <1>2, SumSame
<1>4. AskedOf(S, c) = SumFunctionOnSet(f, U) /\ AskedOf(T, c) = SumFunctionOnSet(g, V)
  BY DEF AskedOf
<1>5. U = V
  OBVIOUS
<1> QED BY <1>3, <1>4, <1>5

\* The peers that are fed of chunk c are the same, and so are their feeds.
SameFeeds(fd, gd, c) ==
    \A p \in Peer : \/ fd[p] = gd[p]
                    \/ /\ ~(fd[p] # NoFeed /\ ChunkOf(fd[p]) = c)
                       /\ ~(gd[p] # NoFeed /\ ChunkOf(gd[p]) = c)

\* They are as much as before.
LEMMA FeedSame ==
    ASSUME NEW c \in Chunk, NEW fd \in [Peer -> Unit \cup {NoFeed}], OneFed(fd, c),
           NEW gd \in [Peer -> Unit \cup {NoFeed}], OneFed(gd, c), SameFeeds(fd, gd, c)
    PROVE  ToFeed(fd, c) = ToFeed(gd, c)
<1>1. CASE \E p \in Peer : fd[p] # NoFeed /\ ChunkOf(fd[p]) = c
  <2>1. PICK p \in Peer : fd[p] # NoFeed /\ ChunkOf(fd[p]) = c
    BY <1>1
  <2>2. gd[p] = fd[p]
    BY <2>1 DEF SameFeeds
  <2>3. ToFeed(fd, c) = EndOf(c) - fd[p]
    BY <2>1, ToFeedIs
  <2>4. ToFeed(gd, c) = EndOf(c) - gd[p]
    BY <2>1, <2>2, ToFeedIs
  <2> QED BY <2>2, <2>3, <2>4
<1>2. CASE \A p \in Peer : ~(fd[p] # NoFeed /\ ChunkOf(fd[p]) = c)
  <2>1. \A p \in Peer : ~(gd[p] # NoFeed /\ ChunkOf(gd[p]) = c)
    BY <1>2 DEF SameFeeds
  <2>2. ToFeed(fd, c) = 0
    BY <1>2, ToFeedIs
  <2>3. ToFeed(gd, c) = 0
    BY <2>1, ToFeedIs
  <2> QED BY <2>2, <2>3
<1> QED BY <1>1, <1>2

\* Slice s is asked of one more peer and becomes t.
LEMMA SwapKeeps ==
    ASSUME FileInv, NEW s \in slices, NEW t \in Slice, t.id = s.id, t.size = s.size,
           slices' = (slices \ {s}) \cup {t},
           UNCHANGED <<map, remains, feed, queue, complete, total>>, UNCHANGED fileVars,
           UNCHANGED moduleVars, UNCHANGED silences, NetTypes'
    PROVE  FileInv'
<1>0. /\ TypeOK /\ SlicesFit /\ FeedsFit /\ PartsFit /\ SumsFit /\ ContentFits /\ ChunkTypes
      /\ UNCHANGED <<parts, refs, count, content>> /\ UNCHANGED <<flag, saved>>
  BY TypesAre DEF FileInv, fileVars, moduleVars
<1>1. \A r \in Peer : \A d : Fed(r, d)' <=> Fed(r, d)
  BY DEF Fed
<1>2. IsFiniteSet(slices \ {s}) /\ slices \ {s} \in SUBSET Slice /\ slices \in SUBSET Slice
      /\ IsFiniteSet(slices)
  BY <1>0, FS_Subset DEF SlicesFit, TypeOK
<1>3. t \notin slices \ {s}
  <2> SUFFICES ASSUME t \in slices \ {s} PROVE FALSE
    OBVIOUS
  <2>1. t = s
    BY <1>0, SliceIds
  <2> QED BY <2>1
<1>4. SlicesFit'
  <2>1. IsFiniteSet(slices')
    BY <1>2, FS_AddElement
  <2>2. ASSUME NEW x \in slices'
        PROVE  \E y \in slices : y.id = x.id /\ y.size = x.size
    BY <2>2
  <2>3. ASSUME NEW x \in slices'
        PROVE  /\ map'[ChunkOf(x.id)] = "active"
               /\ x.id + x.size <= EndOf(ChunkOf(x.id))
               /\ \A p \in Peer : Fed(p, ChunkOf(x.id))' => x.id + x.size <= feed'[p]
    <3>1. PICK y \in slices : y.id = x.id /\ y.size = x.size
      BY <2>2
    <3> QED BY <1>0, <1>1, <3>1 DEF SlicesFit
  <2>4. ASSUME NEW x \in slices \ {s}
        PROVE  x.id + x.size <= t.id \/ t.id + t.size <= x.id
    BY <1>0 DEF SlicesFit
  <2>5. \A x, y \in slices' : x = y \/ x.id + x.size <= y.id \/ y.id + y.size <= x.id
    BY <1>0, <2>4 DEF SlicesFit
  <2> QED BY <2>1, <2>3, <2>5 DEF SlicesFit
<1>5. FeedsFit'
  BY <1>0, <1>1 DEF FeedsFit
<1>6. PartsFit'
  <2>1. ASSUME NEW q \in parts
        PROVE  \E x \in slices' : x.id = q.id /\ x.id <= q.off /\ q.off + q.size <= x.id + x.size
    <3>1. PICK x \in slices : x.id = q.id /\ x.id <= q.off /\ q.off + q.size <= x.id + x.size
      BY <1>0 DEF PartsFit
    <3>2. CASE x = s
      BY <3>1, <3>2
    <3>3. CASE x # s
      BY <3>1, <3>3
    <3> QED BY <3>2, <3>3
  <2>2. \A u : PartsOf(u)' = PartsOf(u)
    BY <1>0 DEF PartsOf
  <2>3. \A x \in slices' : PartsOf(x.id)' # {}
    BY <1>0, <2>2 DEF PartsFit
  <2> QED BY <1>0, <2>1, <2>2, <2>3 DEF PartsFit
<1>7. ContentFits' /\ CounterExact'
  <2>1. /\ \A c : Written(c)' <=> Written(c)
        /\ \A u : Expected(u)' <=> Expected(u)
    BY <1>0 DEF Written, Expected, Fed
  <2>2. CounterExact'
    BY <1>0 DEF FileInv, CounterExact, SlicesOf
  <2> QED BY <1>0, <2>1, <2>2 DEF ContentFits
<1>8. SumsFit'
  <2>1. \A d \in Chunk : AskedOf(slices', d) = AskedOf(slices, d)
    <3> SUFFICES ASSUME NEW d \in Chunk PROVE AskedOf(slices', d) = AskedOf(slices, d)
      OBVIOUS
    <3>1. AskedOf(slices, d)
             = AskedOf(slices \ {s}, d) + (IF ChunkOf(s.id) = d THEN s.size ELSE 0)
      BY <1>2, AskedWithout
    <3>2. AskedOf((slices \ {s}) \cup {t}, d)
             = AskedOf(slices \ {s}, d) + (IF ChunkOf(t.id) = d THEN t.size ELSE 0)
      BY <1>2, <1>3, AskedWith
    <3> QED BY <3>1, <3>2
  <2>2. ChunkAccounted'
    <3>1. \A d \in Chunk : map'[d] = "active" =>
             remains'[d] = AskedOf(slices', d) + ToFeed(feed', d)
      BY <1>0, <2>1, AccountedIs DEF SumsFit
    <3> QED BY <3>1 DEF ChunkAccounted, AskedOf, ToFeed
  <2>3. CacheExact'
    BY <1>0, CacheIs DEF SumsFit, CacheExact
  <2> QED BY <1>0, <2>2, <2>3 DEF SumsFit, AllDone
<1>9. TypeOK'
  <2>1. ChunkTypes'
    BY <1>0, <1>2 DEF ChunkTypes
  <2>2. FileTypes' /\ ModuleTypes'
    BY <1>0, TypesAre DEF FileTypes, ModuleTypes, fileVars, moduleVars
  <2> QED BY <2>1, <2>2, TypesAfter
<1> QED BY <1>4, <1>5, <1>6, <1>7, <1>8, <1>9 DEF FileInv

\* reAskPendingChunk().
LEMMA ReAskPendingChunkKeeps ==
    ASSUME FileInv, NEW p \in Peer, ReAskPendingChunk(p)
    PROVE  FileInv'
<1>0. TypeOK /\ SlicesFit
  BY DEF FileInv
<1>1. PICK s \in slices :
         /\ slices' = (slices \ {s}) \cup {[s EXCEPT !.peers = @ \cup {p}]}
         /\ Request(p, s.id, s.size)
  BY DEF ReAskPendingChunk
<1> DEFINE t == [s EXCEPT !.peers = @ \cup {p}]
<1>2. /\ s \in Slice /\ s.id \in Nat /\ s.size \in Nat
      /\ \A u \in Int : s.id <= u /\ u < s.id + s.size => u \in Unit
  BY <1>0, SliceRange
<1>3. t \in Slice /\ t.id = s.id /\ t.size = s.size
  BY <1>2 DEF Slice
<1>4. NetTypes' /\ UNCHANGED silences
  BY <1>0, <1>1, <1>2, RequestTypes DEF Request
<1>5. /\ UNCHANGED <<map, remains, feed, queue, complete, total>> /\ UNCHANGED fileVars
      /\ UNCHANGED moduleVars
  BY DEF ReAskPendingChunk
<1>6. slices' = (slices \ {s}) \cup {t}
  BY <1>1
<1> HIDE DEF t
<1> QED BY <1>3, <1>4, <1>5, <1>6, SwapKeeps

-----------------------------------------------------------------------------
\* What removeInactiveChunks() forgets: everything of chunk c.
GivenUp(c) ==
    /\ c \in Chunk /\ map[c] = "active" /\ map' = [map EXCEPT ![c] = "outstanding"]
    /\ total' = total - (SizeOfChunk(c) - remains[c])
    /\ remains' = [remains EXCEPT ![c] = 0]
    /\ slices' = {s \in slices : ChunkOf(s.id) # c}
    /\ feed' = [p \in Peer |-> IF Fed(p, c) THEN NoFeed ELSE feed[p]]
    /\ parts' = {q \in parts : ChunkOf(q.id) # c}
    /\ refs' = [u \in Unit |-> IF ChunkOf(u) = c THEN 0 ELSE refs[u]]
    /\ count' \in [Peer -> 0 .. CounterMod - 1]
    /\ silences' # 0
    /\ UNCHANGED <<queue, complete, content, flag, saved>>

\* removeInactiveChunks() forgets just that.
LEMMA RemovesChunk ==
    ASSUME FileInv, NEW c \in Chunk, RemoveInactive(c)
    PROVE  GivenUp(c) /\ ModuleTypes' /\ NetTypes'
<1> DEFINE ids  == {s.id : s \in {t \in slices : ChunkOf(t.id) = c}}
           gone == {q \in parts : q.id \in ids}
<1>0. /\ TypeOK /\ SlicesFit /\ PartsFit /\ ModuleTypes /\ NetTypes /\ FileTypes
  BY TypesAre DEF FileInv
<1>1. /\ map[c] = "active" /\ map' = [map EXCEPT ![c] = "outstanding"]
      /\ total' = total - (SizeOfChunk(c) - remains[c])
      /\ remains' = [remains EXCEPT ![c] = 0]
      /\ slices' = {s \in slices : s.id \notin ids}
      /\ feed' = [p \in Peer |-> IF feed[p] # NoFeed /\ ChunkOf(feed[p]) = c
                                 THEN NoFeed ELSE feed[p]]
      /\ parts' = parts \ gone
      /\ refs' = [u \in Unit |-> refs[u] - Cardinality({q \in gone : q.id = u})]
      /\ count' = [p \in Peer |->
                      Decremented(count[p], Cardinality({q \in gone : q.peer = p}))]
      /\ UNCHANGED <<queue, complete, content, flag, saved>>
  BY DEF RemoveInactive, moduleVars
<1>2. \A s \in slices : s.id \in ids <=> ChunkOf(s.id) = c
  OBVIOUS
<1>3. \A q \in parts : q.id \in ids <=> ChunkOf(q.id) = c
  <2> SUFFICES ASSUME NEW q \in parts PROVE q.id \in ids <=> ChunkOf(q.id) = c
    OBVIOUS
  <2>1. PICK s \in slices : Within(q, s)
    BY <1>0, PartRange
  <2>2. s.id = q.id
    BY <2>1 DEF Within
  <2> QED BY <1>2, <2>2
<1>4. gone = {q \in parts : ChunkOf(q.id) = c}
  BY <1>3
<1> HIDE DEF ids, gone
<1>5. slices' = {s \in slices : ChunkOf(s.id) # c} /\ parts' = {q \in parts : ChunkOf(q.id) # c}
  BY <1>1, <1>2, <1>4
<1>6. feed' = [p \in Peer |-> IF Fed(p, c) THEN NoFeed ELSE feed[p]]
  BY <1>1 DEF Fed
<1>7. ASSUME NEW u \in Unit
      PROVE  refs[u] - Cardinality({q \in gone : q.id = u})
                = IF ChunkOf(u) = c THEN 0 ELSE refs[u]
  <2>1. refs[u] \in Nat /\ refs[u] = Cardinality(PartsOf(u))
    <3>1. refs[u] = Cardinality(PartsOf(u))
      BY <1>0 DEF PartsFit
    <3>2. IsFiniteSet(PartsOf(u))
      BY <1>0, PartsOfBounded
    <3> QED BY <3>1, <3>2, FS_CardinalityType
  <2>2. CASE ChunkOf(u) = c
    <3>1. {q \in gone : q.id = u} = PartsOf(u)
      BY <1>4, <2>2 DEF PartsOf
    <3> QED BY <2>1, <2>2, <3>1
  <2>3. CASE ChunkOf(u) # c
    <3>1. {q \in gone : q.id = u} = {}
      BY <1>4, <2>3
    <3>2. Cardinality({q \in gone : q.id = u}) = 0
      BY <3>1, FS_EmptySet
    <3> QED BY <2>1, <2>3, <3>2
  <2> QED BY <2>2, <2>3
<1>8. refs' = [u \in Unit |-> IF ChunkOf(u) = c THEN 0 ELSE refs[u]]
  BY <1>1, <1>7
<1>9. count' \in [Peer -> 0 .. CounterMod - 1]
  <2>1. ASSUME NEW p \in Peer
        PROVE  Decremented(count[p], Cardinality({q \in gone : q.peer = p})) \in 0 .. CounterMod - 1
    <3>1. IsFiniteSet({q \in gone : q.peer = p})
      <4>1. {q \in gone : q.peer = p} \subseteq parts /\ IsFiniteSet(parts)
        BY <1>0, <1>4 DEF PartsFit
      <4> QED BY <4>1, FS_Subset
    <3>2. Cardinality({q \in gone : q.peer = p}) \in Int
      BY <3>1, FS_CardinalityType
    <3>3. count[p] \in Int
      <4>1. CounterMod \in Nat /\ count[p] \in 0 .. CounterMod - 1
        BY <1>0, Bounds DEF FileTypes
      <4> QED BY <4>1
    <3> QED BY <3>2, <3>3, CounterTypes
  <2> QED BY <1>1, <2>1
<1>10. silences' = silences + 1 /\ MayFail /\ UNCHANGED <<net, faults, late>>
       /\ UNCHANGED moduleVars
  BY DEF RemoveInactive
<1>11. silences' # 0 /\ NetTypes'
  BY <1>0, <1>10, FaultBounds DEF NetTypes
<1>12. ModuleTypes'
  BY <1>0, <1>10 DEF ModuleTypes, moduleVars
<1>13. GivenUp(c)
  BY <1>1, <1>5, <1>6, <1>8, <1>9, <1>11 DEF GivenUp
<1> QED BY <1>11, <1>12, <1>13

\* What is left of the tables.
LEMMA GivenUpTables ==
    ASSUME FileInv, NEW c, GivenUp(c)
    PROVE  SlicesFit' /\ FeedsFit' /\ PartsFit' /\ ContentFits'
<1>0. TypeOK /\ SlicesFit /\ FeedsFit /\ PartsFit /\ ContentFits
  BY DEF FileInv
<1>1. /\ c \in Chunk /\ map[c] = "active"
      /\ map'[c] = "outstanding" /\ \A d \in Chunk : d # c => map'[d] = map[d]
      /\ slices' = {s \in slices : ChunkOf(s.id) # c}
      /\ parts' = {q \in parts : ChunkOf(q.id) # c}
      /\ refs' = [u \in Unit |-> IF ChunkOf(u) = c THEN 0 ELSE refs[u]]
      /\ UNCHANGED <<content, saved>>
  BY <1>0 DEF GivenUp, TypeOK
<1>2. \A p \in Peer : /\ feed'[p] \in {NoFeed, feed[p]}
                      /\ feed'[p] # NoFeed => ~Fed(p, c)
                      /\ ~Fed(p, c) => feed'[p] = feed[p]
  BY DEF GivenUp, Fed
<1>3. \A p \in Peer : \A d : Fed(p, d)' <=> Fed(p, d) /\ d # c
  BY <1>2 DEF Fed
<1>4. SlicesFit'
  <2>1. IsFiniteSet(slices')
    BY <1>0, <1>1, FS_Subset DEF SlicesFit
  <2>2. ASSUME NEW s \in slices'
        PROVE  /\ map'[ChunkOf(s.id)] = "active"
               /\ s.id + s.size <= EndOf(ChunkOf(s.id))
               /\ \A p \in Peer : Fed(p, ChunkOf(s.id))' => s.id + s.size <= feed'[p]
    <3>1. s \in slices /\ ChunkOf(s.id) # c
      BY <1>1
    <3>2. ChunkOf(s.id) \in Chunk
      BY <1>0, <3>1, SliceRange
    <3>3. ASSUME NEW p \in Peer, Fed(p, ChunkOf(s.id))'
          PROVE  s.id + s.size <= feed'[p]
      <4>1. Fed(p, ChunkOf(s.id)) /\ feed'[p] = feed[p]
        BY <1>2, <1>3, <3>3 DEF Fed
      <4> QED BY <1>0, <3>1, <4>1 DEF SlicesFit
    <3> QED BY <1>0, <1>1, <3>1, <3>2, <3>3 DEF SlicesFit
  <2>3. \A s, t \in slices' : s = t \/ s.id + s.size <= t.id \/ t.id + t.size <= s.id
    BY <1>0, <1>1 DEF SlicesFit
  <2> QED BY <2>1, <2>2, <2>3 DEF SlicesFit
<1>5. FeedsFit'
  <2>1. ASSUME NEW p \in Peer, feed'[p] # NoFeed
        PROVE  map'[ChunkOf(feed'[p])] = "active"
    <3>1. feed'[p] = feed[p] /\ ChunkOf(feed[p]) # c
      BY <1>2, <2>1 DEF Fed
    <3>2. feed[p] \in Unit /\ map[ChunkOf(feed[p])] = "active"
      BY <1>0, <2>1, <3>1 DEF TypeOK, FeedsFit
    <3>3. ChunkOf(feed[p]) \in Chunk
      BY <3>2, UnitIn
    <3> QED BY <1>1, <3>1, <3>2, <3>3
  <2> QED BY <1>0, <1>3, <2>1 DEF FeedsFit
<1>6. PartsFit'
  <2>1. IsFiniteSet(parts')
    BY <1>0, <1>1, FS_Subset DEF PartsFit
  <2>2. ASSUME NEW q \in parts'
        PROVE  \E s \in slices' : s.id = q.id /\ s.id <= q.off /\ q.off + q.size <= s.id + s.size
    <3>1. q \in parts /\ ChunkOf(q.id) # c
      BY <1>1
    <3>2. PICK s \in slices : s.id = q.id /\ s.id <= q.off /\ q.off + q.size <= s.id + s.size
      BY <1>0, <3>1 DEF PartsFit
    <3> QED BY <1>1, <3>1, <3>2
  <2>3. \A u : PartsOf(u)' = IF ChunkOf(u) = c THEN {} ELSE PartsOf(u)
    BY <1>1 DEF PartsOf
  <2>4. \A u \in Unit : refs'[u] = Cardinality(PartsOf(u)')
    BY <1>0, <1>1, <2>3, FS_EmptySet DEF PartsFit
  <2>5. \A s \in slices' : PartsOf(s.id)' # {}
    BY <1>0, <1>1, <2>3 DEF PartsFit
  <2>6. /\ \A q, r \in parts' : q = r \/ q.off + q.size <= r.off \/ r.off + r.size <= q.off
        /\ \A q, r \in parts' : q.id = r.id => q.peer = r.peer
    BY <1>0, <1>1 DEF PartsFit
  <2> QED BY <2>1, <2>2, <2>4, <2>5, <2>6 DEF PartsFit
<1>7. ContentFits'
  <2>1. ASSUME NEW d \in Chunk, map'[d] \in {"checking", "done"} \/ d \in saved'
        PROVE  Written(d)'
    BY <1>0, <1>1, <2>1 DEF ContentFits, Written
  <2>2. ASSUME NEW u \in Unit, map'[ChunkOf(u)] = "active", content'[u] = "missing"
        PROVE  Expected(u)'
    <3>1. ChunkOf(u) \in Chunk /\ u \in Int
      BY UnitIn, Bounds
    <3>2. ChunkOf(u) # c /\ map[ChunkOf(u)] = "active"
      BY <1>1, <2>2, <3>1
    <3>3. Expected(u)
      BY <1>0, <1>1, <2>2, <3>2 DEF ContentFits
    <3>4. CASE \E q \in parts : q.off <= u /\ u < q.off + q.size
      <4>1. PICK q \in parts : q.off <= u /\ u < q.off + q.size
        BY <3>4
      <4>2. ChunkOf(u) = ChunkOf(q.id)
        BY <1>0, <3>1, <4>1, PartRange
      <4> QED BY <1>1, <3>2, <4>1, <4>2 DEF Expected
    <3>5. CASE \E p \in Peer : Fed(p, ChunkOf(u)) /\ feed[p] <= u
      <4>1. PICK p \in Peer : Fed(p, ChunkOf(u)) /\ feed[p] <= u
        BY <3>5
      <4>2. Fed(p, ChunkOf(u))' /\ feed'[p] = feed[p]
        BY <1>2, <1>3, <3>2, <4>1 DEF Fed
      <4> QED BY <4>1, <4>2 DEF Expected
    <3> QED BY <3>3, <3>4, <3>5 DEF Expected
  <2> QED BY <2>1, <2>2 DEF ContentFits
<1> QED BY <1>4, <1>5, <1>6, <1>7

\* What is left of the sums.
LEMMA GivenUpSums ==
    ASSUME FileInv, NEW c, GivenUp(c)
    PROVE  SumsFit' /\ ChunkTypes'
<1>0. TypeOK /\ SlicesFit /\ FeedsFit /\ SumsFit /\ ChunkTypes
  BY TypesAre DEF FileInv
<1>1. /\ c \in Chunk /\ map[c] = "active"
      /\ map'[c] = "outstanding" /\ \A d \in Chunk : d # c => map'[d] = map[d]
      /\ remains \in [Chunk -> 0 .. ChunkLen] /\ ChunkLen \in Nat
      /\ \A d \in Chunk : remains'[d] = IF d = c THEN 0 ELSE remains[d]
      /\ slices' = {s \in slices : ChunkOf(s.id) # c}
      /\ UNCHANGED <<complete, flag, queue>> /\ total' = total - (SizeOfChunk(c) - remains[c])
  BY <1>0, Bounds DEF GivenUp, TypeOK
<1>2. remains' \in [Chunk -> 0 .. ChunkLen] /\ map' \in [Chunk -> States]
  BY <1>0, <1>1 DEF GivenUp, ChunkTypes, States
<1>3. /\ slices \in SUBSET Slice /\ IsFiniteSet(slices) /\ slices' \in SUBSET Slice
      /\ feed \in [Peer -> Unit \cup {NoFeed}]
  BY <1>0, <1>1 DEF TypeOK, SlicesFit
<1>4. feed' \in [Peer -> Unit \cup {NoFeed}]
  BY <1>3 DEF GivenUp
<1>5. FeedsFit'
  BY GivenUpTables
<1>6. \A d \in Chunk : OneFed(feed, d) /\ OneFed(feed', d)
  BY <1>0, <1>5 DEF FeedsFit, Fed, OneFed
<1>7. ASSUME NEW d \in Chunk, d # c
      PROVE  AskedOf(slices, d) = AskedOf(slices', d) /\ ToFeed(feed, d) = ToFeed(feed', d)
  <2>1. {s \in slices : ChunkOf(s.id) = d} = {s \in slices' : ChunkOf(s.id) = d}
    BY <1>1, <1>7
  <2>2. SameFeeds(feed, feed', d)
    BY <1>7 DEF SameFeeds, GivenUp, Fed
  <2>3. OneFed(feed, d) /\ OneFed(feed', d)
    BY <1>6
  <2>4. ToFeed(feed, d) = ToFeed(feed', d)
    BY <1>3, <1>4, <2>2, <2>3, FeedSame
  <2> QED BY <1>3, <2>1, <2>4, AskedSame
<1>8. ChunkAccounted'
  <2>1. ASSUME NEW d \in Chunk, map'[d] = "active"
        PROVE  remains'[d] = AskedOf(slices', d) + ToFeed(feed', d)
    <3>1. d # c /\ map[d] = "active" /\ remains'[d] = remains[d]
      BY <1>1, <2>1
    <3>2. remains[d] = AskedOf(slices, d) + ToFeed(feed, d)
      BY <1>0, <3>1, AccountedIs DEF SumsFit
    <3> QED BY <1>7, <3>1, <3>2
  <2> QED BY <2>1 DEF ChunkAccounted, AskedOf, ToFeed
<1>9. \A d \in Chunk : map'[d] = "active" => remains'[d] <= SizeOfChunk(d)
  BY <1>0, <1>1 DEF SumsFit
<1>10. total' = TotalOf(map', remains')
  <2>1. SameBut(c, map, remains, map', remains')
    BY <1>1, <1>2 DEF SameBut
  <2>2. /\ TotalOf(map', remains')
              = TotalOf(map, remains) - Counted(map, remains, c) + Counted(map', remains', c)
        /\ TotalOf(map, remains) \in Int
    BY <2>1, TotalChange
  <2>3. Counted(map, remains, c) = SizeOfChunk(c) - remains[c] /\ Counted(map', remains', c) = 0
    BY <1>1 DEF Counted
  <2>4. SizeOfChunk(c) \in Int /\ remains[c] \in Int /\ total = TotalOf(map, remains)
    BY <1>0, <1>1, ChunkRange, Bounds DEF SumsFit, CacheExact
  <2> QED BY <1>1, <2>2, <2>3, <2>4
<1>11. AllDone(map) = FALSE /\ AllDone(map') = FALSE
  BY <1>1 DEF AllDone
<1>12. CacheExact'
  <2>1. complete' = AllDone(map')
    BY <1>0, <1>1, <1>11 DEF SumsFit, CacheExact
  <2> QED BY <1>10, <2>1, CacheIs
<1>13. flag' = "downloading"
  BY <1>0, <1>1, <1>11 DEF SumsFit
<1>14. SumsFit'
  BY <1>8, <1>9, <1>12, <1>13 DEF SumsFit
<1>15. total' \in 0 .. FileSize
  <2>1. remains' \in [Chunk -> Nat]
    BY <1>1, <1>2
  <2> QED BY <1>9, <1>10, <2>1, TotalBounds
<1>16. ChunkTypes'
  BY <1>0, <1>1, <1>2, <1>3, <1>4, <1>15 DEF ChunkTypes
<1> QED BY <1>14, <1>16

\* removeInactiveChunks().
LEMMA RemoveInactiveKeeps ==
    ASSUME FileInv, NEW c \in Chunk, RemoveInactive(c)
    PROVE  FileInv'
<1>1. GivenUp(c) /\ ModuleTypes' /\ NetTypes'
  BY RemovesChunk
<1>2. SlicesFit' /\ FeedsFit' /\ PartsFit' /\ ContentFits'
  BY <1>1, GivenUpTables
<1>3. SumsFit' /\ ChunkTypes'
  BY <1>1, GivenUpSums
<1>4. FileTypes'
  <2>1. FileTypes /\ MaxSlice \in Nat
    BY TypesAre, Bounds DEF FileInv
  <2> QED BY <1>1, <2>1 DEF FileTypes, GivenUp
<1>5. CounterExact'
  BY <1>1 DEF CounterExact, GivenUp
<1> QED BY <1>1, <1>2, <1>3, <1>4, <1>5, TypesAfter DEF FileInv

-----------------------------------------------------------------------------
(* The check of chunks and of the file, and restarts *)

\* Chunks that are not active may change their states.
LEMMA StatesKeep ==
    ASSUME FileInv, map' \in [Chunk -> States],
           \A c \in Chunk : map'[c] = "active" <=> map[c] = "active",
           UNCHANGED <<remains, slices, feed>>, UNCHANGED fileVars,
           UNCHANGED <<saved, silences>>,
           \A c \in Chunk : map'[c] \in {"checking", "done"} => Written(c),
           CacheExact', flag' # "downloading" => AllDone(map'),
           queue' \subseteq Chunk, ModuleTypes', NetTypes'
    PROVE  FileInv'
<1>0. /\ TypeOK /\ SlicesFit /\ FeedsFit /\ PartsFit /\ ContentFits /\ SumsFit
      /\ ChunkTypes /\ UNCHANGED <<parts, refs, count, content>>
  BY TypesAre DEF FileInv, fileVars
<1>1. \A r \in Peer : \A d : Fed(r, d)' <=> Fed(r, d)
  BY DEF Fed
<1>2. SlicesFit'
  <2>1. ASSUME NEW s \in slices
        PROVE  map'[ChunkOf(s.id)] = "active"
    BY <1>0, SliceRange
  <2> QED BY <1>0, <1>1, <2>1 DEF SlicesFit
<1>3. FeedsFit'
  <2>1. ASSUME NEW p \in Peer, feed[p] # NoFeed
        PROVE  map'[ChunkOf(feed[p])] = "active"
    <3>1. feed[p] \in Unit /\ map[ChunkOf(feed[p])] = "active"
      BY <1>0, <2>1 DEF TypeOK, FeedsFit
    <3> QED BY <3>1, UnitIn
  <2> QED BY <1>0, <1>1, <2>1 DEF FeedsFit
<1>4. PartsFit' /\ CounterExact'
  BY <1>0 DEF FileInv, PartsFit, PartsOf, CounterExact, SlicesOf
<1>5. ContentFits'
  <2>1. /\ \A c : Written(c)' <=> Written(c)
        /\ \A u : Expected(u)' <=> Expected(u)
    BY <1>0 DEF Written, Expected, Fed
  <2>2. \A u \in Unit : ChunkOf(u) \in Chunk
    BY UnitIn
  <2> QED BY <1>0, <2>1, <2>2 DEF ContentFits
<1>6. SumsFit'
  <2>1. ChunkAccounted'
    BY <1>0 DEF SumsFit, ChunkAccounted
  <2>2. \A c \in Chunk : map'[c] = "active" => remains'[c] <= SizeOfChunk(c)
    BY <1>0 DEF SumsFit
  <2>3. flag' # "downloading" => AllDone(map)'
    BY DEF AllDone
  <2> QED BY <2>1, <2>2, <2>3 DEF SumsFit
<1>7. TypeOK'
  <2>1. FileTypes'
    BY <1>0, TypesAre DEF FileTypes
  <2>2. complete' \in BOOLEAN /\ total' = TotalOf(map', remains')
    BY CacheIs DEF AllDone
  <2>3. total' \in 0 .. FileSize
    <3>1. remains' \in [Chunk -> Nat]
      BY <1>0, Bounds DEF ChunkTypes
    <3>2. \A c \in Chunk : map'[c] = "active" => remains'[c] <= SizeOfChunk(c)
      BY <1>6 DEF SumsFit
    <3> QED BY <2>2, <3>1, <3>2, TotalBounds
  <2>4. ChunkTypes'
    BY <1>0, <2>2, <2>3 DEF ChunkTypes
  <2> QED BY <2>1, <2>4, TypesAfter
<1> QED BY <1>2, <1>3, <1>4, <1>5, <1>6, <1>7 DEF FileInv

\* verifyChunk(), setChunkCheckingResult().
LEMMA VerifyChunkKeeps ==
    ASSUME FileInv, NEW c \in Chunk, NEW sum \in {"right", "wrong"}, VerifyChunk(c, sum)
    PROVE  FileInv'
<1>0. /\ TypeOK /\ ChunkTypes /\ ModuleTypes /\ NetTypes /\ SumsFit
      /\ \A d \in Chunk : map[d] \in {"checking", "done"} => Written(d)
  BY TypesAre, DoneIsWritten DEF FileInv
<1>1. /\ UNCHANGED <<remains, slices, feed, queue>> /\ UNCHANGED fileVars
      /\ UNCHANGED <<flag, saved, silences>> /\ UNCHANGED netVars
  BY DEF VerifyChunk, netVars
<1>2. CASE map[c] # "checking"
  <2>1. UNCHANGED <<map, remains, slices, feed, complete, total>>
    BY <1>1, <1>2 DEF VerifyChunk, CheckingResult
  <2> QED BY <1>1, <2>1, ModuleKeeps
<1>3. CASE map[c] = "checking"
  <2>1. queue' \subseteq Chunk /\ ModuleTypes' /\ NetTypes'
    BY <1>0, <1>1 DEF ChunkTypes, ModuleTypes, NetTypes, netVars, VerifyChunk
  <2>2. AllDone(map) = FALSE
    BY <1>3 DEF AllDone
  <2>3. flag' = "downloading"
    BY <1>0, <1>1, <2>2 DEF SumsFit
  <2>4. PICK st \in {"done", "outstanding"} :
           /\ map' = [map EXCEPT ![c] = st]
           /\ \/ st = "done" /\ complete' = AllDone(map') /\ total' = total
              \/ st = "outstanding" /\ total' = total - SizeOfChunk(c) /\ complete' = complete
    BY <1>3 DEF VerifyChunk, CheckingResult
  <2>5. /\ map' \in [Chunk -> States] /\ map'[c] = st
        /\ \A d \in Chunk : d # c => map'[d] = map[d]
    BY <1>0, <2>4 DEF ChunkTypes, States
  <2>6. total' = TotalOf(map', remains')
    <3>1. remains \in [Chunk -> Int] /\ remains' = remains
      BY <1>0, <1>1, Bounds DEF ChunkTypes
    <3>2. SameBut(c, map, remains, map', remains')
      BY <2>5, <3>1 DEF SameBut
    <3>3. /\ TotalOf(map', remains')
                = TotalOf(map, remains) - Counted(map, remains, c) + Counted(map', remains', c)
          /\ TotalOf(map, remains) \in Int
      BY <3>2, TotalChange
    <3>4. SizeOfChunk(c) \in Int /\ total = TotalOf(map, remains)
      BY <1>0, ChunkRange, Bounds DEF SumsFit, CacheExact
    <3>5. SizeOfChunk(c) - 0 = SizeOfChunk(c)
      BY <3>4
    <3>6. Counted(map, remains, c) = SizeOfChunk(c)
      BY <1>3, <3>5 DEF Counted
    <3>7. Counted(map', remains', c) = IF st = "done" THEN SizeOfChunk(c) ELSE 0
      BY <2>5, <3>5 DEF Counted
    <3> QED BY <2>4, <3>3, <3>4, <3>6, <3>7
  <2>7. complete' = AllDone(map')
    <3>1. CASE st = "outstanding"
      <4>1. complete = FALSE
        BY <1>0, <2>2 DEF SumsFit, CacheExact
      <4>2. AllDone(map') = FALSE
        BY <2>5, <3>1 DEF AllDone
      <4> QED BY <2>4, <3>1, <4>1, <4>2
    <3> QED BY <2>4, <3>1
  <2>8. CacheExact'
    BY <2>6, <2>7, CacheIs
  <2>9. /\ \A d \in Chunk : map'[d] = "active" <=> map[d] = "active"
        /\ \A d \in Chunk : map'[d] \in {"checking", "done"} => Written(d)
    BY <1>0, <1>3, <2>5
  <2> QED BY <1>1, <2>1, <2>3, <2>5, <2>8, <2>9, StatesKeep
<1> QED BY <1>2, <1>3

\* There is at least one chunk.
LEMMA SomeChunk == 0 \in Chunk
<1>1. FileSize \in Nat \ {0} /\ ChunkLen \in Nat \ {0}
  BY SizesAssumption
<1>2. FileSize - 1 \in Nat
  BY <1>1
<1>3. (FileSize - 1) \div ChunkLen \in Nat
  BY <1>2, Division DEF ChunkOf
<1> QED BY <1>3 DEF Chunk

\* checkFile(), forceCheck().
LEMMA CheckFileKeeps ==
    ASSUME FileInv, CheckFile
    PROVE  FileInv'
<1>0. /\ TypeOK /\ ChunkTypes /\ ModuleTypes /\ NetTypes /\ SumsFit
      /\ \A d \in Chunk : map[d] \in {"checking", "done"} => Written(d)
  BY TypesAre, DoneIsWritten DEF FileInv
<1>1. UNCHANGED fileVars /\ UNCHANGED <<toAsk, checksums, saved>>
      /\ UNCHANGED <<net, faults, silences>>
  BY DEF CheckFile
<1>2. CASE UNCHANGED chunkVars
  <2>1. UNCHANGED <<map, remains, slices, feed, complete, total>>
    BY <1>2 DEF chunkVars
  <2> QED BY <1>1, <2>1, ModuleKeeps
<1>3. CASE hashing' = NoThread /\ flag' = "downloading" /\ ForceCheck /\ late' = {}
  <2>1. AllDone(map)
    BY <1>0 DEF SumsFit, CheckFile
  <2>2. map' = [d \in Chunk |-> "checking"] /\ UNCHANGED <<remains, slices, feed>>
        /\ queue' = queue \cup Chunk /\ complete' = FALSE /\ total' = TotalOf(map', remains')
    BY <1>3 DEF ForceCheck, TotalOf
  <2>3. AllDone(map') = FALSE
    BY <2>2, SomeChunk DEF AllDone
  <2>4. CacheExact'
    BY <2>2, <2>3, CacheIs
  <2>5. /\ \A d \in Chunk : map'[d] = "active" <=> map[d] = "active"
        /\ \A d \in Chunk : map'[d] \in {"checking", "done"} => Written(d)
        /\ map' \in [Chunk -> States]
    BY <1>0, <2>1, <2>2 DEF AllDone, States
  <2>6. queue' \subseteq Chunk /\ ModuleTypes' /\ NetTypes' /\ UNCHANGED <<saved, silences>>
    BY <1>0, <1>1, <1>3, <2>2, ThreadTypes DEF ChunkTypes, ModuleTypes, NetTypes
  <2> QED BY <1>1, <1>3, <2>2, <2>4, <2>5, <2>6, StatesKeep
<1> QED BY <1>2, <1>3 DEF CheckFile

\* No slice, part or feed is known, and nothing is active: at the start.
Cleared ==
    /\ map \in [Chunk -> States] /\ \A c \in Chunk : map[c] # "active"
    /\ remains = [c \in Chunk |-> 0]
    /\ slices = {} /\ feed = [p \in Peer |-> NoFeed] /\ queue = {}
    /\ parts = {} /\ refs = [u \in Unit |-> 0] /\ count = [p \in Peer |-> 0]
    /\ content \in Contents
    /\ \A c \in Chunk : map[c] \in {"checking", "done"} \/ c \in saved => Written(c)
    /\ CacheExact /\ flag = "downloading" /\ hashing = NoThread
    /\ toAsk = {} /\ checksums = {} /\ saved \subseteq Chunk

\* Such a state satisfies the invariant.
LEMMA ClearedFits ==
    ASSUME Cleared, NetTypes
    PROVE  FileInv
<1> USE DEF Cleared
<1>1. SlicesFit /\ FeedsFit
  BY FS_EmptySet DEF SlicesFit, FeedsFit, Fed
<1>2. PartsFit
  <2>1. \A u : PartsOf(u) = {}
    BY DEF PartsOf
  <2>2. Cardinality({}) = 0 /\ IsFiniteSet({})
    BY FS_EmptySet
  <2> QED BY <2>1, <2>2 DEF PartsFit
<1>3. ContentFits
  BY UnitIn DEF ContentFits
<1>4. SumsFit
  BY DEF SumsFit, ChunkAccounted
<1>5. CounterExact
  <2>1. \A p : SlicesOf(p) = {}
    BY DEF SlicesOf
  <2>2. Cardinality({}) = 0
    BY FS_EmptySet
  <2> QED BY <2>1, <2>2 DEF CounterExact
<1>6. FileTypes
  <2>1. MaxSlice \in Nat /\ CounterMod \in Nat \ {0}
    BY Bounds
  <2>2. 0 \in 0 .. MaxSlice /\ 0 \in 0 .. CounterMod - 1
    BY <2>1
  <2> QED BY <2>2 DEF FileTypes
<1>7. ModuleTypes
  BY ThreadTypes DEF ModuleTypes
<1>8. ChunkTypes
  <2>1. ChunkLen \in Nat
    BY Bounds
  <2>2. remains \in [Chunk -> 0 .. ChunkLen] /\ remains \in [Chunk -> Nat]
    BY <2>1
  <2>3. total \in 0 .. FileSize /\ complete \in BOOLEAN
    BY <2>2, TotalBounds DEF CacheExact, AllDone
  <2> QED BY <2>2, <2>3 DEF ChunkTypes
<1>9. TypeOK
  BY <1>6, <1>7, <1>8, TypesAre
<1> QED BY <1>1, <1>2, <1>3, <1>4, <1>5, <1>9 DEF FileInv

\* So does the state of a new transfer.
LEMMA InitFits == Init => FileInv
<1> SUFFICES ASSUME Init PROVE FileInv
  OBVIOUS
<1>1. CacheExact
  <2>1. {c \in Chunk : map[c] # "outstanding"} = {}
    BY DEF Init
  <2>2. TotalOf(map, remains) = 0
    BY <2>1, SumOfNone DEF TotalOf
  <2>3. AllDone(map) = FALSE
    BY SomeChunk DEF Init, AllDone
  <2> QED BY <2>2, <2>3 DEF Init, CacheExact
<1>2. Cleared
  BY <1>1 DEF Init, Cleared, States, Contents
<1>3. NetTypes
  <2>1. 0 \in 0 .. MaxFaults
    BY Bounds
  <2>2. net \in [Peer -> Seq(Unit)]
    <3>1. <<>> \in Seq(Unit)
      OBVIOUS
    <3> QED BY <3>1 DEF Init
  <2> QED BY <2>1, <2>2 DEF Init, NetTypes
<1> QED BY <1>2, <1>3, ClearedFits

\* loadList() after a restart.
LEMMA RestartKeeps ==
    ASSUME FileInv, Restart
    PROVE  FileInv'
<1>0. /\ TypeOK /\ FileTypes /\ ModuleTypes /\ NetTypes /\ \A c \in saved : Written(c)
  BY TypesAre, DoneIsWritten DEF FileInv
<1>1. /\ map' = [c \in Chunk |-> IF c \in saved THEN "done" ELSE "outstanding"]
      /\ remains' = [c \in Chunk |-> 0]
      /\ complete' = (saved = Chunk)
      /\ total' = SumFunctionOnSet([c \in Chunk |-> SizeOfChunk(c)], saved)
      /\ content' = content /\ saved' = saved
  BY DEF Restart
<1>2. TotalOf(map', remains') = total'
  <2> DEFINE f == [c \in Chunk |-> SizeOfChunk(c) - (IF map'[c] = "active" THEN remains'[c] ELSE 0)]
             g == [c \in Chunk |-> SizeOfChunk(c)]
  <2>1. {c \in Chunk : map'[c] # "outstanding"} = saved /\ saved \in SUBSET Chunk
    BY <1>0, <1>1 DEF ModuleTypes
  <2>2. \A c \in saved : f[c] = g[c]
    <3> SUFFICES ASSUME NEW c \in Chunk PROVE f[c] = g[c]
      BY <2>1
    <3>1. SizeOfChunk(c) \in Int /\ map'[c] # "active"
      BY <1>1, ChunkRange, Bounds
    <3> QED BY <3>1
  <2>3. IsFiniteSet(saved)
    BY <2>1, Bounds, FS_Subset
  <2>4. SumFunctionOnSet(f, saved) = SumFunctionOnSet(g, saved)
    <3> HIDE DEF f, g
    <3> QED BY <2>2, <2>3, SumSame
  <2> QED BY <1>1, <2>1, <2>4 DEF TotalOf
<1>3. complete' = AllDone(map')
  <2>1. saved \subseteq Chunk
    BY <1>0 DEF ModuleTypes
  <2>2. AllDone(map') = (\A c \in Chunk : c \in saved)
    BY <1>1 DEF AllDone
  <2>3. (\A c \in Chunk : c \in saved) = (saved = Chunk)
    BY <2>1
  <2> QED BY <1>1, <2>2, <2>3
<1>4. CacheExact'
  BY <1>2, <1>3, CacheIs
<1>5. Cleared'
  <2>1. \A c \in Chunk : map'[c] \in {"checking", "done"} \/ c \in saved' => Written(c)'
    BY <1>0, <1>1 DEF Written
  <2>2. map' \in [Chunk -> States] /\ \A c \in Chunk : map'[c] # "active"
    BY <1>1 DEF States
  <2>3. content' \in Contents /\ saved' \subseteq Chunk
    BY <1>0, <1>1 DEF FileTypes, ModuleTypes
  <2>4. /\ slices' = {} /\ feed' = [p \in Peer |-> NoFeed] /\ queue' = {}
        /\ parts' = {} /\ refs' = [u \in Unit |-> 0] /\ count' = [p \in Peer |-> 0]
        /\ flag' = "downloading" /\ hashing' = NoThread /\ toAsk' = {} /\ checksums' = {}
    BY DEF Restart
  <2> QED BY <1>1, <1>4, <2>1, <2>2, <2>3, <2>4 DEF Cleared
<1>6. NetTypes'
  <2>1. faults' \in 0 .. MaxFaults
    BY <1>0, FaultBounds DEF Restart
  <2>2. net' \in [Peer -> Seq(Unit)]
    <3>1. <<>> \in Seq(Unit)
      OBVIOUS
    <3> QED BY <3>1 DEF Restart
  <2> QED BY <1>0, <2>1, <2>2 DEF NetTypes, Restart
<1>7. Cleared' /\ NetTypes' => FileInv'
  BY ClearedFits, PTL
<1> QED BY <1>5, <1>6, <1>7

\* Steps of the check.
LEMMA CheckingKeeps ==
    ASSUME FileInv, Checking
    PROVE  FileInv'
<1>1. CASE QueryInactive
  <2>1. UNCHANGED <<map, remains, slices, feed, complete, total>> /\ UNCHANGED fileVars
    BY <1>1 DEF QueryInactive
  <2> QED BY <1>1, <2>1, ModuleKeeps
<1>2. CASE ReadUnit \/ HashReceivedData
  <2>1. UNCHANGED <<map, remains, slices, feed, complete, total>> /\ UNCHANGED fileVars
    BY <1>2 DEF ReadUnit, HashReceivedData, chunkVars
  <2> QED BY <1>2, <2>1, ModuleKeeps
<1>3. CASE CheckFile
  BY <1>3, CheckFileKeeps
<1>4. CASE CompleteFile
  <2>1. UNCHANGED <<map, remains, slices, feed, complete, total>> /\ UNCHANGED fileVars
    BY <1>4 DEF CompleteFile, chunkVars
  <2> QED BY <1>4, <2>1, ModuleKeeps
<1>5. ASSUME NEW c \in Chunk, RecvSingleChunkCRC(c)
      PROVE  FileInv'
  <2>1. UNCHANGED <<map, remains, slices, feed, complete, total>> /\ UNCHANGED fileVars
    BY <1>5 DEF RecvSingleChunkCRC, chunkVars
  <2> QED BY <1>5, <2>1, ModuleKeeps
<1>6. ASSUME NEW c \in Chunk, NEW sum \in {"right", "wrong"}, VerifyChunk(c, sum)
      PROVE  FileInv'
  BY <1>6, VerifyChunkKeeps
<1> QED BY <1>1, <1>2, <1>3, <1>4, <1>5, <1>6 DEF Checking

\* Every step preserves the invariant.
LEMMA NextKeeps == FileInv /\ [Next]_vars => FileInv'
<1> SUFFICES ASSUME FileInv, [Next]_vars
             PROVE  FileInv'
  OBVIOUS
<1>1. CASE UNCHANGED vars \/ Done
  <2>1. UNCHANGED <<chunkVars, fileVars, moduleVars>> /\ UNCHANGED silences /\ UNCHANGED netVars
    BY <1>1 DEF vars, Done, netVars
  <2>2. NetTypes'
    BY <2>1, TypesAre DEF FileInv, NetTypes, netVars
  <2> QED BY <2>1, <2>2, NetKeeps
<1>2. ASSUME NEW p \in Peer, Asking(p)
      PROVE  FileInv'
  BY <1>2, ReAskPartKeeps, GetDataChunkKeeps, ReAskPendingChunkKeeps DEF Asking
<1>3. ASSUME NEW p \in Peer, RecvFileData(p) \/ Lose(p)
      PROVE  FileInv'
  BY <1>3, RecvFileDataKeeps, LoseKeeps
<1>4. ASSUME NEW c \in Chunk, RemoveInactive(c)
      PROVE  FileInv'
  BY <1>4, RemoveInactiveKeeps
<1>5. CASE Checking
  BY <1>5, CheckingKeeps
<1>6. CASE SaveTransfers
  <2>1. UNCHANGED <<map, remains, slices, feed, complete, total>> /\ UNCHANGED fileVars
    BY <1>6 DEF SaveTransfers, chunkVars
  <2> QED BY <1>6, <2>1, ModuleKeeps
<1>7. CASE Restart
  BY <1>7, RestartKeeps
<1> QED BY <1>1, <1>2, <1>3, <1>4, <1>5, <1>6, <1>7 DEF Next

\* The invariant holds in every state.
LEMMA FileInvHolds == Spec => []FileInv
  BY InitFits, NextKeeps, PTL DEF Spec

\* Every variable keeps its type; the counters of peers stay in their range through
\* every decrement (ftFileCreator::locked_notifyReceived()).
THEOREM FileTransferTypes == Spec => []TypeOK
<1>1. FileInv => TypeOK
  BY DEF FileInv
<1> QED BY <1>1, FileInvHolds, PTL

\* No byte of an active chunk is dropped between ChunkMap's tables: what remains of
\* it is asked for, or still to be given out by the one feed (ChunkMap::getDataChunk(),
\* dataReceived(), removeInactiveChunks()).
THEOREM BytesAccounted == Spec => []ChunkAccounted
<1>1. FileInv => ChunkAccounted
  BY DEF FileInv, SumsFit
<1> QED BY <1>1, FileInvHolds, PTL

\* _total_downloaded and _file_is_complete, which most operations of ChunkMap adjust
\* or leave alone, are what updateTotalDownloaded() would compute.
THEOREM CachesAreExact == Spec => []CacheExact
<1>1. FileInv => CacheExact
  BY DEF FileInv, SumsFit
<1> QED BY <1>1, FileInvHolds, PTL

\* A chunk that is checked, or done, has been written completely: slices are finished
\* by their own data, in spite of lost, late and repeated packets (addFileData(),
\* locked_notifyReceived()).
THEOREM ChecksWhatIsWritten == Spec => []CheckedIsWritten
<1>1. FileInv => CheckedIsWritten
  BY DEF FileInv, ContentFits, Written, CheckedIsWritten
<1> QED BY <1>1, FileInvHolds, PTL

\* A slice that ChunkMap waits for has a part that can be asked again, and as many as
\* its shared counter says (ftFileCreator: mChunks, ref_cnt).
THEOREM SlicesArePending == Spec => []SlicePending
<1>1. FileInv => SlicePending
  <2> SUFFICES ASSUME FileInv, NEW s \in slices
               PROVE  refs[s.id] > 0 /\ refs[s.id] = Cardinality(PartsOf(s.id))
    BY DEF SlicePending, PartsOf
  <2>1. s.id \in Unit
    BY SliceRange DEF FileInv
  <2>2. PICK q \in parts : q.id = s.id
    BY DEF FileInv, PartsFit, PartsOf
  <2>3. refs[s.id] \in Nat \ {0}
    BY <2>2, RefsAre
  <2>4. refs[s.id] = Cardinality(PartsOf(s.id))
    BY <2>1 DEF FileInv, PartsFit
  <2> QED BY <2>3, <2>4
<1> QED BY <1>1, FileInvHolds, PTL

\* The chunks counted for a peer (mChunksPerPeer) are the slices it is asked for, as
\* long as no chunk was given up for inactivity.
THEOREM CountersAreExact == Spec => []CounterExact
<1>1. FileInv => CounterExact
  BY DEF FileInv
<1> QED BY <1>1, FileInvHolds, PTL

-----------------------------------------------------------------------------
(* The tables implement Download *)

\* When the hash thread may be at work, or have a result.
HashingInv == hashing.state # None => flag = "checking"

\* A step that only concerns the tables, or goes from outstanding to active.
LEMMA ViewStutters ==
    ASSUME UNCHANGED <<content, saved, flag, hashing>>,
           \/ UNCHANGED map
           \/ \A c \in Chunk : \/ map'[c] = map[c]
                               \/ {map[c], map'[c]} \subseteq {"outstanding", "active"}
    PROVE  UNCHANGED File!vars
<1>1. ChunkStates' = ChunkStates
  BY DEF ChunkStates
<1>2. Stage' = Stage /\ UnitsRead' = UnitsRead
  BY DEF Stage, UnitsRead, Reading
<1> QED BY <1>1, <1>2 DEF File!vars

\* Chunk c changes its state.
LEMMA ViewChanges ==
    ASSUME NEW c \in Chunk, NEW st \in States, map \in [Chunk -> States],
           map' = [map EXCEPT ![c] = st]
    PROVE  /\ st \in {"checking", "done"} => ChunkStates' = [ChunkStates EXCEPT ![c] = st]
           /\ st = "outstanding" => ChunkStates' = [ChunkStates EXCEPT ![c] = "missing"]
  BY DEF ChunkStates, States

\* The state of a chunk as Download sees it.
LEMMA ViewOf ==
    ASSUME NEW c \in Chunk
    PROVE  /\ ChunkStates[c] = IF map[c] \in {"outstanding", "active"} THEN "missing"
                               ELSE map[c]
           /\ [d \in Chunk |-> Units(d)][c] = Units(c)
  BY DEF ChunkStates

\* All chunks are done for Download if they are for ChunkMap.
LEMMA ViewDone == File!AllDone <=> AllDone(map)
  BY DEF File!AllDone, ChunkStates, AllDone

\* ChunkMap checks the chunks of all files but those of one chunk.
LEMMA CollectedIs ==
    ASSUME NEW c \in Chunk
    PROVE  Received(c) = File!Collected
<1> DEFINE last == (FileSize - 1) \div ChunkLen
<1>1. /\ FileSize \in Nat \ {0} /\ ChunkLen \in Nat \ {0} /\ FileSize - 1 \in Nat
      /\ Chunk = 0 .. last /\ 0 \in Chunk /\ c \in Nat
  BY SizesAssumption, SomeChunk, Bounds DEF Chunk
<1>2. last \in Nat /\ last * ChunkLen <= FileSize - 1 /\ FileSize - 1 < last * ChunkLen + ChunkLen
  BY <1>1, Division DEF ChunkOf, Start
<1>3. CASE FileSize > ChunkLen
  <2>1. last # 0
    BY <1>1, <1>2, <1>3
  <2>2. 1 \in Chunk
    <3> HIDE DEF last
    <3> QED BY <1>1, <1>2, <2>1
  <2>3. File!Collected = "checking"
    BY <1>1, <2>2 DEF File!Collected
  <2> QED BY <1>3, <2>3 DEF Received
<1>4. CASE ~(FileSize > ChunkLen)
  <2>1. last = 0
    <3> HIDE DEF last
    <3>1. last = 0 \/ last * ChunkLen >= ChunkLen
      BY <1>1, <1>2, SMT
    <3>2. last * ChunkLen \in Nat
      BY <1>1, <1>2, SMT
    <3> QED BY <1>1, <1>2, <1>4, <3>1, <3>2
  <2>2. \A d \in Chunk : d = 0
    <3> HIDE DEF last
    <3> QED BY <1>1, <2>1
  <2>3. File!Collected = "done" /\ c = 0
    BY <2>2 DEF File!Collected
  <2> QED BY <1>1, <1>4, <2>3 DEF Received
<1> QED BY <1>3, <1>4

\* What data that came does to the states of chunks: it may finish its own chunk, if
\* that is written now.
LEMMA DataCollects ==
    ASSUME FileInv, NEW p \in Peer, RecvFileData(p), NEW u, u = Head(net[p])
    PROVE  /\ u \in Unit /\ u \in Units(ChunkOf(u)) /\ ChunkOf(u) \in Chunk
           /\ \/ UNCHANGED map
              \/ /\ map[ChunkOf(u)] = "active" /\ Written(ChunkOf(u))'
                 /\ map' = [map EXCEPT ![ChunkOf(u)] = Received(ChunkOf(u))]
<1> DEFINE c == ChunkOf(u)
           Goal == \/ UNCHANGED map
                   \/ /\ map[c] = "active" /\ Written(c)'
                      /\ map' = [map EXCEPT ![c] = Received(c)]
<1>1. Writes(u)
  BY DataWrites
<1>2. u \in Unit /\ u \in Int /\ c \in Chunk /\ u \in Units(c)
  BY <1>1, UnitIn, Bounds DEF Writes, Units
<1>3. NotifyReceived(u)
  BY DEF RecvFileData
<1>4. FileInv'
  BY RecvFileDataKeeps
<1>5. ASSUME NEW q \in parts, q.off = u, PartReceived(q, parts \ {q}, refs)
      PROVE  Goal
  <2>1. CASE UNCHANGED <<count, chunkVars>>
    BY <2>1 DEF chunkVars
  <2>2. CASE Finishes(u, q)
    <3>1. PICK s \in slices : s.id = q.id /\ Finished(s, ChunkOf(s.id))
      BY <2>2, Finishing
    <3>2. ChunkOf(s.id) = c
      <4>1. q.off <= u /\ u < q.off + q.size
        BY <1>2, <2>2 DEF Finishes
      <4> QED BY <1>2, <3>1, <4>1, PartRange DEF FileInv
    <3>3. map[c] = "active" /\ (UNCHANGED map \/ map' = [map EXCEPT ![c] = Received(c)])
      BY <3>1, <3>2 DEF Finished
    <3> HIDE DEF c
    <3>4. CASE map' = [map EXCEPT ![c] = Received(c)]
      <4>1. map'[c] \in {"checking", "done"}
        BY <1>2, <3>4 DEF FileInv, TypeOK, Received
      <4>2. Written(c)'
        BY <1>2, <1>4, <4>1 DEF FileInv, ContentFits
      <4> QED BY <3>3, <3>4, <4>2
    <3> QED BY <3>3, <3>4
  <2> QED BY <1>5, <2>1, <2>2, BeginsAt DEF chunkVars
<1>6. ASSUME NEW q \in Around(u),
             PartReceived([q EXCEPT !.off = u, !.size = q.off + q.size - u],
                          (parts \ {q}) \cup {[q EXCEPT !.size = u - q.off]},
                          [refs EXCEPT ![q.id] = @ + 1])
      PROVE  Goal
  BY <1>2, <1>6, SplitAt DEF chunkVars
<1>7. ASSUME UNCHANGED <<parts, refs, count, chunkVars>> PROVE Goal
  BY <1>7 DEF chunkVars
<1>8. Goal
  <2> HIDE DEF Goal
  <2> QED BY <1>3, <1>5, <1>6, <1>7 DEF NotifyReceived
<1> QED BY <1>2, <1>8

\* Data arrives: a step Receive of Download.
LEMMA DataImplements ==
    ASSUME FileInv, NEW p \in Peer, RecvFileData(p)
    PROVE  File!Next
<1>1. PICK u : u = Head(net[p])
  OBVIOUS
<1> DEFINE c == ChunkOf(u)
<1>2. /\ u \in Unit /\ u \in Units(c) /\ c \in Chunk
      /\ \/ UNCHANGED map
         \/ map[c] = "active" /\ Written(c)' /\ map' = [map EXCEPT ![c] = Received(c)]
  BY <1>1, DataCollects
<1>3. /\ \E data \in {"right", "wrong"} : content' = [content EXCEPT ![u] = data]
      /\ flag # "moved" /\ UNCHANGED <<flag, hashing, saved>>
  BY <1>1 DEF RecvFileData, moduleVars
<1>4. Stage # "delivered" /\ UNCHANGED <<Stage, UnitsRead>>
  BY <1>3 DEF Stage, UnitsRead, Reading
<1> HIDE DEF c
<1>5. \/ UNCHANGED ChunkStates
      \/ /\ ChunkStates[c] = "missing"
         /\ \A x \in Units(c) : content'[x] # "missing"
         /\ ChunkStates' = [ChunkStates EXCEPT ![c] = File!Collected]
  <2>1. CASE UNCHANGED map
    BY <2>1 DEF ChunkStates
  <2>2. CASE map[c] = "active" /\ Written(c)' /\ map' = [map EXCEPT ![c] = Received(c)]
    <3>1. Received(c) \in {"checking", "done"} /\ Received(c) \in States
      BY DEF Received, States
    <3>2. map \in [Chunk -> States]
      BY DEF FileInv, TypeOK, States
    <3>3. ChunkStates' = [ChunkStates EXCEPT ![c] = Received(c)]
      BY <1>2, <2>2, <3>1, <3>2, ViewChanges
    <3>4. ChunkStates[c] = "missing"
      BY <1>2, <2>2, ViewOf
    <3> QED BY <1>2, <2>2, <3>3, <3>4, CollectedIs DEF Written
  <2> QED BY <1>2, <2>1, <2>2
<1>6. File!Receive(c, u)
  BY <1>2, <1>3, <1>4, <1>5, ViewOf DEF File!Receive
<1>7. u \in [d \in Chunk |-> Units(d)][c]
  BY <1>2
<1> QED BY <1>2, <1>6, <1>7 DEF File!Next

\* The check of a chunk: a step Check, or none.
LEMMA CheckImplements ==
    ASSUME FileInv, NEW c \in Chunk, NEW sum \in {"right", "wrong"}, VerifyChunk(c, sum)
    PROVE  File!Next \/ UNCHANGED File!vars
<1>1. UNCHANGED <<content, saved, flag, hashing>>
  BY DEF VerifyChunk, fileVars
<1>2. CASE map[c] # "checking"
  <2>1. UNCHANGED map
    BY <1>2 DEF VerifyChunk, CheckingResult
  <2> QED BY <1>1, <2>1, ViewStutters
<1>3. CASE map[c] = "checking"
  <2>1. \/ map' = [map EXCEPT ![c] = "done"] /\ Right(Units(c))
        \/ map' = [map EXCEPT ![c] = "outstanding"]
    BY <1>3 DEF VerifyChunk, CheckingResult
  <2>2. map \in [Chunk -> States] /\ {"done", "outstanding"} \subseteq States
    BY DEF FileInv, TypeOK, States
  <2>3. \/ /\ ChunkStates' = [ChunkStates EXCEPT ![c] = "done"]
           /\ \A x \in Units(c) : content[x] = "right"
        \/ ChunkStates' = [ChunkStates EXCEPT ![c] = "missing"]
    BY <2>1, <2>2, ViewChanges DEF Right
  <2>4. ChunkStates[c] = "checking" /\ UNCHANGED <<Stage, UnitsRead>>
    BY <1>1, <1>3, ViewOf DEF Stage, UnitsRead, Reading
  <2>5. File!Check(c)
    BY <1>1, <2>3, <2>4, ViewOf DEF File!Check
  <2> QED BY <2>5 DEF File!Next
<1> QED BY <1>2, <1>3

\* The hash thread reads a unit: a step Read, or none when it has read a wrong one.
LEMMA ReadImplements ==
    ASSUME FileInv, HashingInv, ReadUnit
    PROVE  File!Next \/ UNCHANGED File!vars
<1> DEFINE n == hashing.read
<1>1. /\ hashing \in HashThread /\ hashing.state = "running" /\ flag = "checking"
      /\ n \in 0 .. FileSize /\ n < FileSize /\ FileSize \in Nat
      /\ UNCHANGED <<content, saved, map, flag>>
  BY Bounds DEF ReadUnit, HashingInv, FileInv, TypeOK, HashThread, None, chunkVars, fileVars
<1>2. /\ hashing'.state = "running" /\ hashing'.read = n + 1
      /\ hashing'.good <=> (hashing.good /\ content[n] = "right")
  BY <1>1 DEF ReadUnit, HashThread
<1>3. n \in Unit /\ \A u \in Unit : u \in Nat
  BY <1>1 DEF Unit
<1> HIDE DEF n
<1>4. UNCHANGED ChunkStates
  BY <1>1 DEF ChunkStates
<1>5. CASE ~hashing.good
  <2>1. Stage = "failed" /\ Stage' = "failed" /\ UnitsRead = {} /\ UnitsRead' = {}
    BY <1>1, <1>2, <1>5 DEF Stage, UnitsRead, Reading, None
  <2> QED BY <1>1, <1>4, <2>1 DEF File!vars
<1>6. CASE hashing.good
  <2>1. Stage = "verifying" /\ UnitsRead = {u \in Unit : u < n}
    BY <1>1, <1>6 DEF Stage, UnitsRead, Reading, n
  <2>2. n \notin UnitsRead
    BY <1>1, <2>1
  <2>3. CASE content[n] = "right"
    <3>1. Stage' = "verifying" /\ UnitsRead' = {u \in Unit : u < n + 1}
      BY <1>1, <1>2, <1>6, <2>3 DEF Stage, UnitsRead, Reading
    <3>2. UnitsRead' = UnitsRead \cup {n}
      <4>1. \A u \in Unit : u < n + 1 <=> (u < n \/ u = n)
        BY <1>1, <1>3
      <4> QED BY <1>3, <2>1, <3>1, <4>1, Zenon
    <3>3. File!Read(n)
      BY <1>1, <1>4, <2>1, <2>2, <2>3, <3>1, <3>2 DEF File!Read
    <3> QED BY <1>3, <3>3 DEF File!Next
  <2>4. CASE content[n] # "right"
    <3>1. Stage' = "failed" /\ UnitsRead' = {}
      BY <1>1, <1>2, <2>4 DEF Stage, UnitsRead, Reading, None
    <3>2. File!Read(n)
      BY <1>1, <1>4, <2>1, <2>2, <2>4, <3>1 DEF File!Read
    <3> QED BY <1>3, <3>2 DEF File!Next
  <2> QED BY <2>3, <2>4
<1> QED BY <1>5, <1>6

\* The hash thread ends: the file is verified if all that was read was right.
LEMMA ResultImplements ==
    ASSUME FileInv, HashingInv, HashReceivedData
    PROVE  File!Next \/ UNCHANGED File!vars
<1>1. /\ hashing \in HashThread /\ hashing.state = "running" /\ flag = "checking"
      /\ UNCHANGED <<content, saved, map, flag>>
  BY DEF HashReceivedData, HashingInv, FileInv, TypeOK, None, chunkVars, fileVars
<1>2. complete
  BY <1>1 DEF FileInv, SumsFit, CacheExact
<1>3. hashing.read = FileSize
  BY <1>2 DEF HashReceivedData
<1>4. hashing'.state = IF hashing.good THEN "match" ELSE "mismatch"
  BY <1>1, <1>3 DEF HashReceivedData, HashThread
<1>5. UNCHANGED ChunkStates
  BY <1>1 DEF ChunkStates
<1>6. CASE hashing.good
  <2>1. \A u \in Unit : u < FileSize
    BY Bounds DEF Unit
  <2>2. Stage = "verifying" /\ UnitsRead = Unit
    BY <1>1, <1>3, <1>6, <2>1 DEF Stage, UnitsRead, Reading
  <2>3. Stage' = "verified" /\ UnitsRead' = {}
    BY <1>1, <1>4, <1>6 DEF Stage, UnitsRead, Reading
  <2>4. File!Verify
    BY <1>1, <1>5, <2>2, <2>3 DEF File!Verify
  <2> QED BY <2>4 DEF File!Next
<1>7. CASE ~hashing.good
  <2>1. Stage = "failed" /\ Stage' = "failed" /\ UnitsRead = {} /\ UnitsRead' = {}
    BY <1>1, <1>4, <1>7 DEF Stage, UnitsRead, Reading, None
  <2> QED BY <1>1, <1>5, <2>1 DEF File!vars
<1> QED BY <1>6, <1>7

\* The check of the file begins, or its result is taken: the file is complete, or all
\* of it is checked again.
LEMMA CheckFileImplements ==
    ASSUME FileInv, HashingInv, CheckFile
    PROVE  File!Next \/ UNCHANGED File!vars
<1>1. flag = "checking" /\ UNCHANGED <<content, saved>> /\ File!AllDone
  BY ViewDone DEF CheckFile, fileVars, FileInv, SumsFit
<1>2. NoThread.state = None /\ NewThread.state = "running" /\ NewThread.read = 0
      /\ NewThread.good /\ \A u \in Unit : ~(u < 0)
  BY Bounds DEF NoThread, NewThread, Unit
<1>3. CASE hashing.state = None /\ hashing' = NewThread /\ UNCHANGED <<flag, chunkVars>>
  <2>1. Stage = "loading" /\ Stage' = "verifying"
    BY <1>1, <1>2, <1>3 DEF Stage, Reading, None
  <2>2. UnitsRead = {} /\ UnitsRead' = {} /\ UNCHANGED ChunkStates
    BY <1>2, <1>3 DEF UnitsRead, Reading, None, ChunkStates, chunkVars
  <2>3. File!Start
    BY <1>1, <2>1, <2>2 DEF File!Start
  <2> QED BY <2>3 DEF File!Next
<1>4. CASE /\ hashing.state = "match" /\ hashing' = NoThread /\ flag' = "complete"
           /\ UNCHANGED chunkVars
  <2>1. UNCHANGED ChunkStates /\ UNCHANGED Stage /\ UnitsRead = {} /\ UnitsRead' = {}
    BY <1>1, <1>2, <1>4 DEF ChunkStates, Stage, UnitsRead, Reading, None, chunkVars
  <2> QED BY <1>1, <2>1 DEF File!vars
<1>5. CASE /\ hashing.state = "mismatch" /\ hashing' = NoThread /\ flag' = "downloading"
           /\ ForceCheck
  <2>1. Stage = "failed" /\ Stage' = "loading" /\ UnitsRead = {} /\ UnitsRead' = {}
    BY <1>1, <1>2, <1>5 DEF Stage, UnitsRead, Reading, None
  <2>2. ChunkStates' = [c \in Chunk |-> "checking"]
    BY <1>5 DEF ChunkStates, ForceCheck
  <2>3. File!Recheck
    BY <1>1, <2>1, <2>2 DEF File!Recheck
  <2> QED BY <2>3 DEF File!Next
<1> QED BY <1>3, <1>4, <1>5 DEF CheckFile

\* The result of the hash thread belongs to a check that goes on.
LEMMA NextHashing == HashingInv /\ [Next]_vars => HashingInv'
<1> SUFFICES ASSUME HashingInv, [Next]_vars
             PROVE  HashingInv'
  OBVIOUS
<1>1. \/ UNCHANGED <<flag, hashing>>
      \/ flag = "downloading" /\ UNCHANGED hashing
      \/ UNCHANGED flag /\ hashing.state # None
      \/ CheckFile \/ CompleteFile \/ Restart
  <2>1. ASSUME NEW p \in Peer, Asking(p) \/ RecvFileData(p) \/ Lose(p)
        PROVE  UNCHANGED <<flag, hashing>>
    BY <2>1 DEF Asking, ReAskPart, GetDataChunk, ReAskPendingChunk, RecvFileData, Lose,
                moduleVars
  <2>2. ASSUME NEW c \in Chunk,
               \/ RemoveInactive(c) \/ RecvSingleChunkCRC(c)
               \/ VerifyChunk(c, "right") \/ VerifyChunk(c, "wrong")
        PROVE  UNCHANGED <<flag, hashing>>
    BY <2>2 DEF RemoveInactive, RecvSingleChunkCRC, VerifyChunk, moduleVars
  <2>3. SaveTransfers \/ Done \/ UNCHANGED vars => UNCHANGED <<flag, hashing>>
    BY DEF SaveTransfers, Done, vars, moduleVars
  <2>4. QueryInactive => flag = "downloading" /\ UNCHANGED hashing
    BY DEF QueryInactive
  <2>5. ReadUnit \/ HashReceivedData => UNCHANGED flag /\ hashing.state # None
    BY DEF ReadUnit, HashReceivedData, None
  <2> QED BY <2>1, <2>2, <2>3, <2>4, <2>5 DEF Next, Checking
<1>2. CASE CheckFile \/ CompleteFile \/ Restart
  <2>1. NoThread.state = None
    BY DEF NoThread
  <2> QED BY <1>2, <2>1 DEF CheckFile, CompleteFile, Restart, HashingInv, None
<1> QED BY <1>1, <1>2 DEF HashingInv

\* Every step is one of Download, or does not concern it.
LEMMA NextImplementsDownload ==
    ASSUME FileInv, HashingInv, [Next]_vars
    PROVE  File!Next \/ UNCHANGED File!vars
<1>0. map \in [Chunk -> States] /\ flag \in {"downloading", "checking", "complete", "moved"}
  BY DEF FileInv, TypeOK, States
<1>1. ASSUME NEW p \in Peer, Asking(p) \/ Lose(p)
      PROVE  UNCHANGED File!vars
  <2>1. UNCHANGED <<content, saved, flag, hashing>>
    BY <1>1 DEF Asking, ReAskPart, GetDataChunk, ReAskPendingChunk, Lose, moduleVars,
                fileVars
  <2>2. \/ UNCHANGED map
        \/ \E c \in Chunk : map[c] = "outstanding" /\ map' = [map EXCEPT ![c] = "active"]
    <3>1. ASSUME GetDataChunk(p), ~UNCHANGED map
          PROVE  \E c \in Chunk : map[c] = "outstanding" /\ map' = [map EXCEPT ![c] = "active"]
      <4>1. \E c \in Available(p) : map' = [map EXCEPT ![c] = "active"]
        BY <3>1 DEF GetDataChunk
      <4>2. Available(p) \subseteq {c \in Chunk : map[c] = "outstanding"}
        BY AvailAssumption DEF Available
      <4> QED BY <4>1, <4>2
    <3>2. ReAskPart(p) \/ ReAskPendingChunk(p) \/ Lose(p) => UNCHANGED map
      BY DEF ReAskPart, ReAskPendingChunk, Lose, chunkVars
    <3> QED BY <1>1, <3>1, <3>2 DEF Asking
  <2>3. \/ UNCHANGED map
        \/ \A d \in Chunk : \/ map'[d] = map[d]
                            \/ {map[d], map'[d]} \subseteq {"outstanding", "active"}
    BY <1>0, <2>2
  <2> QED BY <2>1, <2>3, ViewStutters
<1>2. ASSUME NEW p \in Peer, RecvFileData(p) PROVE File!Next
  BY <1>2, DataImplements
<1>3. ASSUME NEW c \in Chunk, RemoveInactive(c) PROVE UNCHANGED File!vars
  <2>1. /\ UNCHANGED <<content, saved, flag, hashing>>
        /\ map[c] = "active" /\ map' = [map EXCEPT ![c] = "outstanding"]
    BY <1>3 DEF RemoveInactive, moduleVars
  <2>2. \A d \in Chunk : \/ map'[d] = map[d]
                         \/ {map[d], map'[d]} \subseteq {"outstanding", "active"}
    BY <1>0, <2>1
  <2> QED BY <2>1, <2>2, ViewStutters
<1>4. ASSUME \/ QueryInactive
             \/ \E c \in Chunk : RecvSingleChunkCRC(c)
      PROVE  UNCHANGED File!vars
  <2>1. CASE \E c \in Chunk : RecvSingleChunkCRC(c)
    BY <2>1, ViewStutters DEF RecvSingleChunkCRC, chunkVars, fileVars
  <2>2. CASE QueryInactive
    <3>1. UNCHANGED <<content, saved, hashing, map>> /\ flag = "downloading"
          /\ flag' \in {"downloading", "checking"}
      BY <2>2 DEF QueryInactive, fileVars
    <3>2. UNCHANGED ChunkStates /\ UNCHANGED <<Stage, UnitsRead>>
      BY <3>1 DEF ChunkStates, Stage, UnitsRead, Reading, HashingInv
    <3> QED BY <3>1, <3>2 DEF File!vars
  <2> QED BY <1>4, <2>1, <2>2
<1>5. ASSUME NEW c \in Chunk, VerifyChunk(c, "right") \/ VerifyChunk(c, "wrong")
      PROVE  File!Next \/ UNCHANGED File!vars
  BY <1>5, CheckImplements
<1>6. ASSUME ReadUnit \/ HashReceivedData \/ CheckFile
      PROVE  File!Next \/ UNCHANGED File!vars
  BY <1>6, ReadImplements, ResultImplements, CheckFileImplements
<1>7. ASSUME CompleteFile PROVE File!Next
  <2>1. /\ UNCHANGED <<content, saved, map, hashing>> /\ flag = "complete" /\ flag' = "moved"
        /\ AllDone(map)
    BY <1>7 DEF CompleteFile, chunkVars, fileVars, FileInv, SumsFit
  <2>2. File!Deliver
    BY <2>1, ViewDone DEF File!Deliver, ChunkStates, Stage, UnitsRead, Reading
  <2> QED BY <2>2 DEF File!Next
<1>8. ASSUME SaveTransfers PROVE File!Next
  <2>1. /\ UNCHANGED <<content, map, flag, hashing>> /\ flag # "moved"
        /\ saved' = {c \in Chunk : map[c] = "done"}
    BY <1>8 DEF SaveTransfers, chunkVars, fileVars
  <2>2. {c \in Chunk : map[c] = "done"} = {c \in Chunk : ChunkStates[c] = "done"}
    BY DEF ChunkStates
  <2>3. UNCHANGED <<ChunkStates, Stage, UnitsRead>> /\ Stage # "delivered"
    BY <2>1 DEF ChunkStates, Stage, UnitsRead, Reading
  <2>4. File!Save
    BY <2>1, <2>2, <2>3 DEF File!Save
  <2> QED BY <2>4 DEF File!Next
<1>9. ASSUME Restart PROVE File!Next
  <2>1. /\ UNCHANGED <<content, saved>> /\ flag # "moved" /\ flag' = "downloading"
        /\ hashing'.state = None
        /\ map' = [c \in Chunk |-> IF c \in saved THEN "done" ELSE "outstanding"]
    BY <1>9 DEF Restart, NoThread
  <2>2. ChunkStates' = [c \in Chunk |-> IF c \in saved THEN "done" ELSE "missing"]
    BY <2>1 DEF ChunkStates
  <2>3. Stage # "delivered" /\ Stage' = "loading" /\ UnitsRead' = {}
    BY <2>1 DEF Stage, UnitsRead, Reading, None
  <2>4. File!Restart
    BY <2>1, <2>2, <2>3 DEF File!Restart
  <2> QED BY <2>4 DEF File!Next
<1>10. ASSUME Done \/ UNCHANGED vars PROVE UNCHANGED File!vars
  <2>1. UNCHANGED <<content, saved, flag, hashing, map>>
    BY <1>10 DEF Done, vars, chunkVars, fileVars, moduleVars
  <2> QED BY <2>1, ViewStutters
<1> QED
  BY <1>1, <1>2, <1>3, <1>4, <1>5, <1>6, <1>7, <1>8, <1>9, <1>10 DEF Next, Checking

\* Whatever sources send, and whatever is lost, late, repeated, given up or forgotten
\* in a restart, the chunk map, the file creator, the transfer module and the
\* controller together keep the promise of Download.
THEOREM DownloadImplemented == Spec => ImplementsDownload
<1>1. Init => File!Init /\ HashingInv
  <2> SUFFICES ASSUME Init PROVE File!Init /\ HashingInv
    OBVIOUS
  <2>1. /\ map = [c \in Chunk |-> "outstanding"] /\ flag = "downloading"
        /\ hashing.state = None /\ content = [u \in Unit |-> "missing"] /\ saved = {}
    BY DEF Init, NoThread
  <2>2. ChunkStates = [c \in Chunk |-> "missing"] /\ Stage = "loading" /\ UnitsRead = {}
    BY <2>1 DEF ChunkStates, Stage, UnitsRead, Reading, None
  <2> QED BY <2>1, <2>2 DEF File!Init, HashingInv
<1>2. FileInv /\ HashingInv /\ [Next]_vars => [File!Next]_(File!vars)
  BY NextImplementsDownload
<1> QED BY <1>1, <1>2, InitFits, NextKeeps, NextHashing, PTL
        DEF Spec, ImplementsDownload, File!Spec
=============================================================================
