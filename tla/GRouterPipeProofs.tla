------------------------- MODULE GRouterPipeProofs -------------------------
(***************************************************************************)
(* What one link of the global router joins was sent together, for items   *)
(* and chunks of every size and any number of losses (IntactNotMixed), and *)
(* a loss spoils at most one transmission that lost nothing (WasteBounded).*)
(*                                                                         *)
(* The invariant of the first: the chunks of a transmission that lost none *)
(* follow each other on the link (Unbroken), and the buffer holds remains  *)
(* of broken transmissions only, or the beginning of the one whose next    *)
(* chunk is the next to arrive (Continued, Pure).                          *)
(*                                                                         *)
(* The second counts: a transmission without a loss fails (Failed) when    *)
(* the buffer is cleared under it, or when its first chunk meets remains   *)
(* of a torn one (Torn), which are then gone.  A loss tears at most one,   *)
(* since transmissions arrive in their order (InOrder, Past).              *)
(***************************************************************************)
EXTENDS GRouterPipe, FiniteSetTheorems, SequenceTheorems, TLAPS

\* Chunk d is the next of the same transmission.
Follows(c, d) == d.of = c.of /\ d.start = c.start + c.size /\ d.total = c.total

Unbroken ==
    \A k \in 1 .. Len(link) : link[k].of \notin hit =>
        /\ ~IsLast(link[k]) => k < Len(link) /\ Follows(link[k], link[k + 1])
        /\ k > 1 /\ link[k].start > 0 => Follows(link[k - 1], link[k])

Continued ==
    link # <<>> /\ link[1].of \notin hit /\ link[1].start > 0 =>
        buffer = NoBuffer \/ buffer.from = {link[1].of}

Pure ==
    buffer # NoBuffer =>
        /\ buffer.size > 0
        /\ \A t \in buffer.from :
              \/ t \in hit
              \/ buffer.from = {t} /\ link # <<>> /\ link[1].of = t

Outputs == \A joined \in out : joined \subseteq hit \/ \E t : joined = {t}

Bounded == \A k \in 1 .. Len(link) : link[k].start + link[k].size <= link[k].total

PipeInv == TypeOK /\ Bounded /\ Unbroken /\ Continued /\ Pure /\ Outputs

-----------------------------------------------------------------------------
(* sliceDataItem() *)

\* What division by the size of a chunk yields.
LEMMA Quotient ==
    ASSUME NEW a \in Nat, NEW b \in Nat \ {0}
    PROVE  a \div b \in Nat /\ b * (a \div b) <= a /\ a < b * (a \div b) + b
  BY SMT

\* Offsets grow with the number of the chunk.
LEMMA Offsets ==
    ASSUME NEW j \in Nat, NEW k \in Nat, NEW b \in Nat
    PROVE  /\ j <= k => j * b <= k * b
           /\ j * b \in Nat /\ j * b = b * j /\ (j + 1) * b = j * b + b
  BY SMT

\* The chunks of an item follow each other and end with the item.
LEMMA SliceChunks ==
    ASSUME NEW t \in Transmission, NEW total \in Sizes
    PROVE  /\ Slice(t, total) \in Seq(Chunk) /\ Len(Slice(t, total)) \in Nat \ {0}
           /\ \A k \in 1 .. Len(Slice(t, total)) :
                 LET s == Slice(t, total) IN
                 /\ s[k].of = t /\ s[k].start + s[k].size <= s[k].total
                 /\ k = 1 => s[k].start = 0
                 /\ ~IsLast(s[k]) => k < Len(s) /\ Follows(s[k], s[k + 1])
                 /\ k > 1 => Follows(s[k - 1], s[k])
<1> DEFINE n == (total + ChunkSize - 1) \div ChunkSize
           s == Slice(t, total)
<1>1. total \in Nat /\ total > 0 /\ ChunkSize \in Nat /\ ChunkSize > 0
  BY PipeAssumption
<1>2. n \in Nat /\ ChunkSize * n <= total + ChunkSize - 1 /\ total + ChunkSize - 1 < ChunkSize * n + ChunkSize
  <2>1. total + ChunkSize - 1 \in Nat /\ ChunkSize \in Nat \ {0}
    BY <1>1
  <2> HIDE DEF n
  <2> QED BY <2>1, Quotient DEF n
<1>3. DOMAIN s = 1 .. n /\ Len(s) = n
  <2>1. DOMAIN s = 1 .. n
    BY DEF Slice
  <2> QED BY <1>2, <2>1
<1>4. \A k \in 1 .. n :
         s[k] = [of |-> t, start |-> (k - 1) * ChunkSize,
                 size |-> ChunkLength(total - (k - 1) * ChunkSize), total |-> total]
  BY DEF Slice
<1>0. n \in Nat \ {0}
  <2>1. n = 0 => ChunkSize * n = 0
    BY <1>1
  <2> HIDE DEF n
  <2> QED BY <1>1, <1>2, <2>1
<1>5. \A k \in 1 .. n : /\ (k - 1) * ChunkSize \in Nat /\ (k - 1) * ChunkSize < total
                        /\ k * ChunkSize = (k - 1) * ChunkSize + ChunkSize
                        /\ k < n => k * ChunkSize < total
                        /\ k = n => total <= k * ChunkSize
  <2> SUFFICES ASSUME NEW k \in 1 .. n
               PROVE  /\ (k - 1) * ChunkSize \in Nat /\ (k - 1) * ChunkSize < total
                      /\ k * ChunkSize = (k - 1) * ChunkSize + ChunkSize
                      /\ k < n => k * ChunkSize < total
                      /\ k = n => total <= k * ChunkSize
    OBVIOUS
  <2> HIDE DEF n
  <2>1. k \in Nat /\ k - 1 \in Nat /\ n - 1 \in Nat /\ k - 1 <= n - 1 /\ (k < n => k <= n - 1)
    BY <1>2
  <2>2. /\ (k - 1) * ChunkSize \in Nat /\ k * ChunkSize = (k - 1) * ChunkSize + ChunkSize
        /\ (k - 1) * ChunkSize <= (n - 1) * ChunkSize
        /\ k < n => k * ChunkSize <= (n - 1) * ChunkSize
    <3>1. (k - 1) + 1 = k
      BY <2>1
    <3> QED BY <1>1, <2>1, <3>1, Offsets
  <2>3. n * ChunkSize = (n - 1) * ChunkSize + ChunkSize /\ (n - 1) * ChunkSize \in Nat
        /\ n * ChunkSize = ChunkSize * n
    <3>1. (n - 1) + 1 = n
      BY <1>2
    <3> QED BY <1>1, <1>2, <2>1, <3>1, Offsets
  <2>4. (n - 1) * ChunkSize < total /\ total <= n * ChunkSize
    BY <1>1, <1>2, <2>3
  <2> QED BY <1>1, <2>1, <2>2, <2>3, <2>4
<1> HIDE DEF n, s
<1>6. \A k \in 1 .. n :
         /\ s[k] \in Chunk /\ s[k].of = t /\ s[k].total = total
         /\ s[k].start = (k - 1) * ChunkSize
         /\ k < n => s[k].size = ChunkSize
         /\ k = n => s[k].start + s[k].size = total
         /\ s[k].start + s[k].size <= total
  <2> SUFFICES ASSUME NEW k \in 1 .. n
               PROVE  /\ s[k] \in Chunk /\ s[k].of = t /\ s[k].total = total
                      /\ s[k].start = (k - 1) * ChunkSize
                      /\ k < n => s[k].size = ChunkSize
                      /\ k = n => s[k].start + s[k].size = total
                      /\ s[k].start + s[k].size <= total
    OBVIOUS
  <2> DEFINE offset == (k - 1) * ChunkSize
             size == ChunkLength(total - offset)
  <2>1. s[k] = [of |-> t, start |-> offset, size |-> size, total |-> total]
    BY <1>4
  <2>2. offset \in Nat /\ offset < total /\ (k < n => offset + ChunkSize < total)
        /\ (k = n => total <= offset + ChunkSize)
    BY <1>5
  <2> HIDE DEF offset
  <2>3. /\ size \in Nat \ {0} /\ (k < n => size = ChunkSize)
        /\ (k = n => offset + size = total) /\ offset + size <= total
    BY <1>1, <2>2 DEF ChunkLength
  <2> HIDE DEF size
  <2> QED BY <2>1, <2>2, <2>3 DEF Chunk, offset
<1>7. s \in Seq(Chunk)
  <2>1. s = [k \in 1 .. n |-> s[k]]
    BY <1>3 DEF s, Slice
  <2> QED BY <1>2, <1>6, <2>1
<1>8. ASSUME NEW k \in 1 .. n
      PROVE  /\ k = 1 => s[k].start = 0
             /\ ~IsLast(s[k]) => k < n /\ Follows(s[k], s[k + 1])
             /\ k > 1 => Follows(s[k - 1], s[k])
  <2>1. k = 1 => s[k].start = 0
    BY <1>1, <1>6
  <2>2. ~IsLast(s[k]) => k < n
    BY <1>2, <1>6 DEF IsLast
  <2>3. k < n => Follows(s[k], s[k + 1])
    <3> SUFFICES ASSUME k < n PROVE Follows(s[k], s[k + 1])
      OBVIOUS
    <3>1. k + 1 \in 1 .. n /\ (k + 1) - 1 = k
      BY <1>2
    <3>2. s[k + 1].start = k * ChunkSize /\ s[k + 1].of = t /\ s[k + 1].total = total
      BY <1>6, <3>1
    <3>3. s[k].start + s[k].size = k * ChunkSize
      BY <1>5, <1>6
    <3> QED BY <1>6, <3>2, <3>3 DEF Follows
  <2>4. k > 1 => Follows(s[k - 1], s[k])
    <3> SUFFICES ASSUME k > 1 PROVE Follows(s[k - 1], s[k])
      OBVIOUS
    <3>1. k - 1 \in 1 .. n /\ k - 1 < n
      BY <1>2
    <3>2. s[k].start = (k - 1) * ChunkSize /\ s[k].of = t /\ s[k].total = total
      BY <1>6
    <3>3. s[k - 1].start + s[k - 1].size = (k - 1) * ChunkSize
      BY <1>1, <1>5, <1>6, <3>1
    <3> QED BY <1>6, <3>1, <3>2, <3>3 DEF Follows
  <2> QED BY <2>1, <2>2, <2>3, <2>4
<1> QED BY <1>0, <1>3, <1>6, <1>7, <1>8 DEF s

-----------------------------------------------------------------------------
(* The steps *)

\* The pipe is empty at first.
LEMMA InitPipe == Init => PipeInv
<1> SUFFICES ASSUME Init PROVE PipeInv
  OBVIOUS
<1>1. NoBuffer \in Buffer
  BY DEF NoBuffer, Buffer
<1>2. TypeOK
  BY <1>1, PipeAssumption DEF Init, TypeOK
<1> QED BY <1>2 DEF Init, PipeInv, Bounded, Unbroken, Continued, Pure, Outputs

\* A whole transmission joins the end of the link (sliceDataItem()).
LEMMA SendPipe == ASSUME PipeInv, NEW total \in Sizes, Send(total) PROVE PipeInv'
<1> DEFINE t == sent + 1
           s == Slice(t, total)
<1>1. /\ t \in Transmission /\ t \in 0 .. MaxTransmissions
      /\ link \in Seq(Chunk) /\ link' = link \o s /\ sent' = t
      /\ UNCHANGED <<buffer, out, hit, over, losses, washes>>
  BY PipeAssumption DEF PipeInv, TypeOK, Send, Transmission
<1>2. /\ s \in Seq(Chunk)
      /\ \A k \in 1 .. Len(s) :
            /\ s[k].of = t /\ s[k].start + s[k].size <= s[k].total
            /\ k = 1 => s[k].start = 0
            /\ ~IsLast(s[k]) => k < Len(s) /\ Follows(s[k], s[k + 1])
            /\ k > 1 => Follows(s[k - 1], s[k])
  BY <1>1, SliceChunks
<1> HIDE DEF s, t
<1>3. /\ link' \in Seq(Chunk) /\ Len(link') = Len(link) + Len(s)
      /\ Len(link) \in Nat /\ Len(s) \in Nat
      /\ \A k \in 1 .. Len(link) : link'[k] = link[k]
      /\ \A k \in 1 .. Len(s) : link'[Len(link) + k] = s[k]
      /\ \A k \in 1 .. Len(link') : k \in 1 .. Len(link) \/ k - Len(link) \in 1 .. Len(s)
  BY <1>1, <1>2
<1>4. TypeOK'
  BY <1>1, <1>3 DEF PipeInv, TypeOK
<1>5. Bounded'
  <2> SUFFICES ASSUME NEW k \in 1 .. Len(link')
               PROVE  link'[k].start + link'[k].size <= link'[k].total
    BY DEF Bounded
  <2>1. CASE k \in 1 .. Len(link)
    BY <1>3, <2>1 DEF PipeInv, Bounded
  <2>2. CASE k - Len(link) \in 1 .. Len(s)
    <3>1. link'[k] = s[k - Len(link)]
      BY <1>3, <2>2
    <3> QED BY <1>2, <2>2, <3>1
  <2> QED BY <1>3, <2>1, <2>2
<1>6. Unbroken'
  <2> SUFFICES ASSUME NEW k \in 1 .. Len(link'), link'[k].of \notin hit
               PROVE  /\ ~IsLast(link'[k]) => k < Len(link') /\ Follows(link'[k], link'[k + 1])
                      /\ k > 1 /\ link'[k].start > 0 => Follows(link'[k - 1], link'[k])
    BY <1>1 DEF Unbroken
  <2>1. CASE k \in 1 .. Len(link)
    <3>1. link'[k] = link[k] /\ (k > 1 => link'[k - 1] = link[k - 1])
          /\ (k < Len(link) => link'[k + 1] = link[k + 1])
      BY <1>3, <2>1
    <3>2. /\ ~IsLast(link[k]) => k < Len(link) /\ Follows(link[k], link[k + 1])
          /\ k > 1 /\ link[k].start > 0 => Follows(link[k - 1], link[k])
      BY <2>1, <3>1 DEF PipeInv, Unbroken
    <3> QED BY <1>3, <3>1, <3>2
  <2>2. CASE k - Len(link) \in 1 .. Len(s)
    <3> DEFINE j == k - Len(link)
    <3>1. /\ link'[k] = s[j] /\ (j > 1 => link'[k - 1] = s[j - 1])
          /\ (j < Len(s) => link'[k + 1] = s[j + 1]) /\ (j < Len(s) => k < Len(link'))
      <4>1. link'[Len(link) + j] = s[j] /\ Len(link) + j = k
        BY <1>3, <2>2
      <4>2. j > 1 => link'[Len(link) + (j - 1)] = s[j - 1] /\ Len(link) + (j - 1) = k - 1
        BY <1>3, <2>2
      <4>3. j < Len(s) => link'[Len(link) + (j + 1)] = s[j + 1] /\ Len(link) + (j + 1) = k + 1
        BY <1>3, <2>2
      <4> QED BY <1>3, <2>2, <4>1, <4>2, <4>3
    <3>2. /\ j = 1 => s[j].start = 0
          /\ ~IsLast(s[j]) => j < Len(s) /\ Follows(s[j], s[j + 1])
          /\ j > 1 => Follows(s[j - 1], s[j])
      BY <1>2, <2>2
    <3>3. j = 1 \/ j > 1
      BY <1>3, <2>2
    <3> QED BY <3>1, <3>2, <3>3
  <2> QED BY <1>3, <2>1, <2>2
<1>7. Continued' /\ Pure'
  <2>1. link # <<>> => link' # <<>> /\ link'[1] = link[1]
    BY <1>1, <1>3
  <2>2. link = <<>> /\ link' # <<>> => link'[1].start = 0
    <3> SUFFICES ASSUME link = <<>>, link' # <<>> PROVE link'[1].start = 0
      OBVIOUS
    <3>1. link' = s /\ Len(s) > 0
      BY <1>1, <1>2, <1>3
    <3> QED BY <1>2, <3>1
  <2> QED BY <1>1, <2>1, <2>2 DEF PipeInv, Continued, Pure
<1>8. Outputs'
  BY <1>1 DEF PipeInv, Outputs
<1> QED BY <1>4, <1>5, <1>6, <1>7, <1>8 DEF PipeInv

\* An inactive pipe is cleared (autoWash()).
LEMMA WashPipeStep == ASSUME PipeInv, WashPipe PROVE PipeInv'
<1>1. NoBuffer \in Buffer
  BY DEF NoBuffer, Buffer
<1>2. TypeOK'
  BY <1>1, PipeAssumption DEF PipeInv, TypeOK, WashPipe
<1> QED BY <1>2 DEF PipeInv, WashPipe, Bounded, Unbroken, Continued, Pure, Outputs

\* What is left of the link when the chunks i .. j are lost: those before the
\* gap stay where they are, the others move up by its length.
LEMMA LoseChunks ==
    ASSUME link \in Seq(Chunk), NEW i \in DOMAIN link, NEW j \in DOMAIN link, i <= j
    PROVE  LET rest == SubSeq(link, 1, i - 1) \o SubSeq(link, j + 1, Len(link))
               gap == j - i + 1
           IN  /\ rest \in Seq(Chunk) /\ Len(rest) = Len(link) - gap
               /\ \A k \in 1 .. i - 1 : rest[k] = link[k]
               /\ \A k \in i .. Len(rest) : rest[k] = link[k + gap]
<1> DEFINE a == SubSeq(link, 1, i - 1)
           b == SubSeq(link, j + 1, Len(link))
           rest == a \o b
           gap == j - i + 1
<1>0. /\ Len(link) \in Nat /\ i \in Int /\ j \in Int
      /\ 1 <= i /\ i <= j /\ j <= Len(link)
      /\ \A k \in 1 .. Len(link) : link[k] \in Chunk
  <2>1. i \in 1 .. Len(link) /\ j \in 1 .. Len(link) /\ Len(link) \in Nat
    OBVIOUS
  <2> QED BY <2>1
<1>1. /\ a \in Seq(Chunk) /\ Len(a) = i - 1
      /\ \A k \in 1 .. i - 1 : a[k] = link[k]
  <2>1. /\ i - 1 \in Int /\ 1 \in Int /\ \A k \in 1 .. i - 1 : link[k] \in Chunk
        /\ (i - 1) - 1 + 1 = i - 1 /\ (IF 1 <= i - 1 THEN (i - 1) - 1 + 1 ELSE 0) = i - 1
        /\ \A k \in 1 .. i - 1 : 1 + k - 1 = k
    BY <1>0
  <2>2. /\ a \in Seq(Chunk) /\ Len(a) = IF 1 <= i - 1 THEN (i - 1) - 1 + 1 ELSE 0
        /\ \A k \in 1 .. (i - 1) - 1 + 1 : a[k] = link[1 + k - 1]
    BY <2>1, SubSeqProperties
  <2> QED BY <2>1, <2>2
<1>2. /\ b \in Seq(Chunk) /\ Len(b) = Len(link) - j
      /\ \A k \in 1 .. Len(link) - j : b[k] = link[j + k]
  <2>1. /\ j + 1 \in Int /\ Len(link) \in Int
        /\ \A k \in j + 1 .. Len(link) : link[k] \in Chunk
        /\ Len(link) - (j + 1) + 1 = Len(link) - j
        /\ (IF j + 1 <= Len(link) THEN Len(link) - (j + 1) + 1 ELSE 0) = Len(link) - j
        /\ \A k \in 1 .. Len(link) - j : (j + 1) + k - 1 = j + k
    BY <1>0
  <2>2. /\ b \in Seq(Chunk)
        /\ Len(b) = IF j + 1 <= Len(link) THEN Len(link) - (j + 1) + 1 ELSE 0
        /\ \A k \in 1 .. Len(link) - (j + 1) + 1 : b[k] = link[(j + 1) + k - 1]
    BY <2>1, SubSeqProperties
  <2> QED BY <2>1, <2>2
<1>3. rest = a \o b
  OBVIOUS
<1> HIDE DEF a, b, rest
<1>4. /\ rest \in Seq(Chunk) /\ Len(rest) = (i - 1) + (Len(link) - j)
      /\ \A k \in 1 .. i - 1 : rest[k] = a[k]
      /\ \A k \in 1 .. Len(link) - j : rest[(i - 1) + k] = b[k]
  <2>1. /\ rest \in Seq(Chunk) /\ Len(rest) = Len(a) + Len(b)
        /\ \A k \in 1 .. Len(a) + Len(b) :
              rest[k] = IF k <= Len(a) THEN a[k] ELSE b[k - Len(a)]
    BY <1>1, <1>2, <1>3, ConcatProperties
  <2>2. ASSUME NEW k \in 1 .. Len(link) - j PROVE rest[(i - 1) + k] = b[k]
    <3>1. Len(a) = i - 1 /\ Len(b) = Len(link) - j
      BY <1>1, <1>2
    <3>2. /\ (i - 1) + k \in 1 .. (i - 1) + (Len(link) - j)
          /\ ~((i - 1) + k <= i - 1) /\ ((i - 1) + k) - (i - 1) = k
      BY <1>0
    <3> QED BY <2>1, <3>1, <3>2
  <2>3. ASSUME NEW k \in 1 .. i - 1 PROVE rest[k] = a[k]
    BY <1>0, <1>1, <1>2, <2>1
  <2> QED BY <1>1, <1>2, <2>1, <2>2, <2>3
<1>5. Len(rest) = (i - 1) + (Len(link) - j) /\ Len(rest) = Len(link) - gap
  <2>1. (i - 1) + (Len(link) - j) = Len(link) - gap
    BY <1>0
  <2> QED BY <1>4, <2>1
<1>6. ASSUME NEW k \in i .. Len(rest) PROVE rest[k] = link[k + gap]
  <2>1. k - (i - 1) \in 1 .. Len(link) - j /\ (i - 1) + (k - (i - 1)) = k
        /\ j + (k - (i - 1)) = k + gap
    <3>1. k \in i .. (i - 1) + (Len(link) - j)
      BY <1>5
    <3>2. k \in Int /\ i <= k /\ k <= (i - 1) + (Len(link) - j)
      BY <1>0, <3>1
    <3>3. j + (k - (i - 1)) = k + gap
      BY <1>0, <3>2
    <3>4. (i - 1) + (k - (i - 1)) = k
      BY <1>0, <3>2
    <3>5. k - (i - 1) \in 1 .. Len(link) - j
      BY <1>0, <3>2
    <3> QED BY <3>3, <3>4, <3>5
  <2> QED BY <1>2, <1>4, <2>1
<1>7. \A k \in 1 .. i - 1 : rest[k] = link[k]
  BY <1>1, <1>4
<1> QED BY <1>4, <1>5, <1>6, <1>7 DEF a, b, rest

\* A run of chunks is lost: all the transmissions it touches are broken.
LEMMA LosePipe ==
    ASSUME PipeInv, NEW i \in DOMAIN link, NEW j \in DOMAIN link, i <= j, Lose(i, j)
    PROVE  PipeInv'
<1> DEFINE gap == j - i + 1
           lost == {link[k].of : k \in i .. j}
<1>0. /\ link \in Seq(Chunk)
      /\ link' = SubSeq(link, 1, i - 1) \o SubSeq(link, j + 1, Len(link))
  BY DEF PipeInv, TypeOK, Lose
<1>1. /\ Len(link) \in Nat /\ i \in Int /\ j \in Int
      /\ 1 <= i /\ i <= j /\ j <= Len(link)
      /\ hit' = hit \cup lost
      /\ UNCHANGED <<sent, buffer, out, over, washes>>
  <2>1. i \in 1 .. Len(link) /\ j \in 1 .. Len(link) /\ Len(link) \in Nat
    BY <1>0
  <2> QED BY <2>1 DEF Lose
<1>2. \A k \in 1 .. Len(link) : link[k] \in Chunk
  BY <1>0
<1>3. /\ link' \in Seq(Chunk) /\ Len(link') = Len(link) - gap
      /\ \A k \in 1 .. i - 1 : link'[k] = link[k]
      /\ \A k \in i .. Len(link') : link'[k] = link[k + gap]
  BY <1>0, LoseChunks
<1>4. lost \subseteq Transmission
  <2>1. \A k \in i .. j : k \in 1 .. Len(link)
    BY <1>1
  <2> QED BY <1>2, <2>1 DEF Chunk
<1>5. \A k \in i .. j : link[k].of \in hit'
  BY <1>1
<1>6. gap \in Nat /\ gap >= 1 /\ i + gap = j + 1
  BY <1>1
<1> HIDE DEF gap, lost
<1>7. TypeOK'
  <2>1. losses' \in 0 .. MaxLosses
    BY PipeAssumption DEF PipeInv, TypeOK, Lose
  <2>2. hit' \subseteq Transmission /\ link' \in Seq(Chunk)
    BY <1>1, <1>3, <1>4 DEF PipeInv, TypeOK
  <2> QED BY <1>1, <2>1, <2>2 DEF PipeInv, TypeOK
<1>8. Bounded'
  <2> SUFFICES ASSUME NEW k \in 1 .. Len(link')
               PROVE  link'[k].start + link'[k].size <= link'[k].total
    BY DEF Bounded
  <2>1. k \in 1 .. i - 1 \/ k \in i .. Len(link')
    BY <1>1, <1>3, <1>6
  <2>2. CASE k \in 1 .. i - 1
    BY <1>1, <1>3, <2>2 DEF PipeInv, Bounded
  <2>3. CASE k \in i .. Len(link')
    <3>1. k + gap \in 1 .. Len(link) /\ link'[k] = link[k + gap]
      BY <1>1, <1>3, <1>6, <2>3
    <3> QED BY <3>1 DEF PipeInv, Bounded
  <2> QED BY <2>1, <2>2, <2>3
<1>9. Unbroken'
  <2> SUFFICES ASSUME NEW k \in 1 .. Len(link'), link'[k].of \notin hit'
               PROVE  /\ ~IsLast(link'[k]) => k < Len(link') /\ Follows(link'[k], link'[k + 1])
                      /\ k > 1 /\ link'[k].start > 0 => Follows(link'[k - 1], link'[k])
    BY DEF Unbroken
  <2>1. k \in 1 .. i - 1 \/ k \in i .. Len(link')
    BY <1>1, <1>3, <1>6
  <2>2. CASE k \in 1 .. i - 1
    <3>1. k \in 1 .. Len(link) /\ link'[k] = link[k] /\ link[k].of \notin hit
      BY <1>1, <1>3, <2>2
    <3>2. /\ ~IsLast(link[k]) => k < Len(link) /\ Follows(link[k], link[k + 1])
          /\ k > 1 /\ link[k].start > 0 => Follows(link[k - 1], link[k])
      BY <3>1 DEF PipeInv, Unbroken
    <3>3. k > 1 => link'[k - 1] = link[k - 1]
      BY <1>1, <1>3, <2>2
    <3>4. ~IsLast(link[k]) => k + 1 \in 1 .. i - 1
      <4>1. ~IsLast(link[k]) => link[k + 1].of = link[k].of
        BY <3>2 DEF Follows
      <4>2. k + 1 = i => link[k + 1].of \in hit'
        BY <1>1, <1>5
      <4> QED BY <1>1, <2>2, <3>1, <4>1, <4>2
    <3>5. ~IsLast(link[k]) => k < Len(link') /\ link'[k + 1] = link[k + 1]
      BY <1>1, <1>3, <1>6, <2>2, <3>4
    <3> QED BY <3>1, <3>2, <3>3, <3>5
  <2>3. CASE k \in i .. Len(link')
    <3> DEFINE m == k + gap
    <3>1. m \in 1 .. Len(link) /\ link'[k] = link[m] /\ link[m].of \notin hit
      <4>1. m \in 1 .. Len(link) /\ link'[k] = link[m]
        BY <1>1, <1>3, <1>6, <2>3
      <4> QED BY <1>1, <4>1
    <3>2. /\ ~IsLast(link[m]) => m < Len(link) /\ Follows(link[m], link[m + 1])
          /\ m > 1 /\ link[m].start > 0 => Follows(link[m - 1], link[m])
      BY <3>1 DEF PipeInv, Unbroken
    <3>3. m < Len(link) => k < Len(link') /\ link'[k + 1] = link[m + 1]
      <4> SUFFICES ASSUME m < Len(link) PROVE k < Len(link') /\ link'[k + 1] = link[m + 1]
        OBVIOUS
      <4>1. k < Len(link') /\ k + 1 \in i .. Len(link') /\ (k + 1) + gap = m + 1
        BY <1>1, <1>3, <1>6, <2>3
      <4> QED BY <1>3, <4>1
    <3>4. k > i => link'[k - 1] = link[m - 1]
      <4> SUFFICES ASSUME k > i PROVE link'[k - 1] = link[m - 1]
        OBVIOUS
      <4>1. k - 1 \in i .. Len(link') /\ (k - 1) + gap = m - 1
        BY <1>1, <1>3, <1>6, <2>3
      <4> QED BY <1>3, <4>1
    <3>5. m > 1
      BY <1>1, <1>6, <2>3
    <3>6. k = i => link[m].start <= 0 \/ link[m].of \in hit'
      <4>1. k = i => m - 1 = j /\ link[j].of \in hit'
        BY <1>1, <1>5, <1>6
      <4> QED BY <1>2, <3>1, <3>2, <3>5, <4>1 DEF Follows, Chunk
    <3>7. k > i \/ k = i
      BY <1>1, <2>3
    <3>8. ~(link[m].start <= 0) <=> link[m].start > 0
      BY <1>2, <3>1 DEF Chunk
    <3>9. /\ ~IsLast(link[m]) => k < Len(link') /\ Follows(link[m], link'[k + 1])
      BY <3>2, <3>3
    <3>10. link[m].start > 0 => Follows(link'[k - 1], link[m])
      BY <3>1, <3>2, <3>4, <3>5, <3>6, <3>7, <3>8
    <3> QED BY <3>1, <3>9, <3>10
  <2> QED BY <2>1, <2>2, <2>3
<1>10. Continued'
  <2> SUFFICES ASSUME link' # <<>>, link'[1].of \notin hit', link'[1].start > 0
               PROVE  buffer = NoBuffer \/ buffer.from = {link'[1].of}
    BY <1>1 DEF Continued
  <2>1. 1 \in 1 .. Len(link')
    BY <1>3
  <2>2. CASE i > 1
    <3>1. link'[1] = link[1] /\ link # <<>> /\ link[1].of \notin hit
      BY <1>1, <1>3, <2>2
    <3> QED BY <3>1 DEF PipeInv, Continued
  <2>3. CASE i = 1
    <3>1. /\ link'[1] = link[j + 1] /\ j + 1 \in 1 .. Len(link) /\ j + 1 > 1
          /\ (j + 1) - 1 = j /\ link[j].of \in hit'
      BY <1>1, <1>3, <1>5, <1>6, <2>1, <2>3
    <3>2. Follows(link[j], link[j + 1])
      BY <1>1, <3>1 DEF PipeInv, Unbroken
    <3> QED BY <3>1, <3>2 DEF Follows
  <2>4. i > 1 \/ i = 1
    BY <1>1
  <2> QED BY <2>2, <2>3, <2>4
<1>11. Pure'
  <2> SUFFICES ASSUME buffer # NoBuffer, NEW t \in buffer.from, t \notin hit'
               PROVE  buffer.from = {t} /\ link' # <<>> /\ link'[1].of = t
    BY <1>1 DEF PipeInv, Pure
  <2>1. buffer.from = {t} /\ link # <<>> /\ link[1].of = t
    BY <1>1 DEF PipeInv, Pure
  <2>2. i > 1
    BY <1>1, <1>5, <2>1
  <2>3. link'[1] = link[1] /\ Len(link') > 0
    BY <1>1, <1>3, <1>6, <2>2
  <2> QED BY <2>1, <2>3
<1>12. Outputs'
  BY <1>1 DEF PipeInv, Outputs
<1> QED BY <1>7, <1>8, <1>9, <1>10, <1>11, <1>12 DEF PipeInv

\* A chunk arrives (addDataChunk()).
LEMMA AddPipe == ASSUME PipeInv, AddDataChunk PROVE PipeInv'
<1> DEFINE c == link[1]
           n == Len(link)
<1>1. /\ link \in Seq(Chunk) /\ link # <<>> /\ link' = Tail(link)
      /\ UNCHANGED <<sent, hit, losses, washes>>
  BY DEF PipeInv, TypeOK, AddDataChunk
<1>2. /\ n \in Nat /\ n >= 1 /\ c \in Chunk /\ Head(link) = c
      /\ link' \in Seq(Chunk) /\ Len(link') = n - 1
      /\ \A k \in 1 .. n - 1 : link'[k] = link[k + 1]
  BY <1>1
<1>3. /\ c.of \in Transmission /\ c.start \in Nat /\ c.size \in Nat \ {0}
      /\ c.total \in Sizes /\ c.total \in Nat
  BY <1>2, PipeAssumption DEF Chunk
<1>4. /\ c.start + c.size <= c.total
      /\ c.of \notin hit /\ ~IsLast(c) => n > 1 /\ Follows(c, link[2])
  BY <1>2 DEF PipeInv, Bounded, Unbroken
<1>5. over' \subseteq Transmission
  BY <1>2, <1>3 DEF AddDataChunk, PipeInv, TypeOK
<1>6. \/ ~Fits(c) /\ buffer' = NoBuffer /\ out' = out
      \/ /\ Fits(c) /\ Joined(c).size = c.total /\ buffer' = NoBuffer
         /\ out' = out \cup {Joined(c).from} \/ out' = out
      \/ Fits(c) /\ Joined(c).size # c.total /\ buffer' = Joined(c) /\ out' = out
  BY <1>2 DEF AddDataChunk, Reset
<1> HIDE DEF c, n
<1>7. /\ buffer.from \subseteq Transmission /\ buffer.size \in Nat
      /\ NoBuffer.from = {} /\ NoBuffer.size = 0 /\ NoBuffer \in Buffer
  BY DEF PipeInv, TypeOK, Buffer, NoBuffer
<1>8. Joined(c).from = buffer.from \cup {c.of} /\ Joined(c).size = buffer.size + c.size
      /\ Joined(c).total = c.total
  BY DEF Joined
<1>9. ASSUME Fits(c)
      PROVE  /\ buffer.size = c.start
             /\ c.of \notin hit => buffer.from \cup {c.of} = {c.of}
             /\ \A t \in buffer.from : t \in hit \/ t = c.of
  <2>1. CASE buffer = NoBuffer
    BY <1>7, <1>9, <2>1 DEF Fits
  <2>2. CASE buffer # NoBuffer
    <3>1. buffer.size = c.start /\ buffer.size > 0
      BY <1>9, <2>2 DEF Fits, PipeInv, Pure
    <3>2. c.of \notin hit => buffer.from = {c.of}
      BY <1>1, <2>2, <3>1 DEF PipeInv, Continued, c
    <3>3. \A t \in buffer.from : t \in hit \/ t = c.of
      BY <2>2 DEF PipeInv, Pure, c
    <3> QED BY <3>1, <3>2, <3>3
  <2> QED BY <2>1, <2>2
<1>10. ASSUME buffer' = Joined(c), Fits(c), Joined(c).size # c.total
       PROVE  /\ buffer' \in Buffer /\ buffer'.size < buffer'.total /\ buffer'.size > 0
              /\ ~IsLast(c) /\ buffer'.from = buffer.from \cup {c.of}
  <2>1. Joined(c).size = c.start + c.size
    BY <1>8, <1>9, <1>10
  <2>2. /\ Joined(c).size \in Nat /\ Joined(c).size < c.total /\ Joined(c).size > 0
        /\ ~IsLast(c)
    BY <1>3, <1>4, <1>10, <2>1 DEF IsLast
  <2>3. Joined(c) \in Buffer
    <3>1. Joined(c) = [from |-> buffer.from \cup {c.of}, size |-> Joined(c).size,
                       total |-> c.total]
      BY DEF Joined
    <3>2. buffer.from \cup {c.of} \in SUBSET Transmission /\ c.total \in Sizes \cup {0}
      BY <1>3, <1>7
    <3> HIDE DEF Joined
    <3> QED BY <2>2, <3>1, <3>2 DEF Buffer
  <2> QED BY <1>8, <1>10, <2>2, <2>3
<1>11. out' \subseteq SUBSET Transmission
  BY <1>3, <1>6, <1>7, <1>8 DEF PipeInv, TypeOK
<1>12. buffer' \in Buffer /\ (buffer' # NoBuffer => buffer'.size < buffer'.total)
  BY <1>6, <1>7, <1>10
<1>13. TypeOK'
  BY <1>1, <1>2, <1>5, <1>11, <1>12 DEF PipeInv, TypeOK
<1>14. Bounded'
  <2> SUFFICES ASSUME NEW k \in 1 .. Len(link')
               PROVE  link'[k].start + link'[k].size <= link'[k].total
    BY DEF Bounded
  <2>1. k + 1 \in 1 .. n /\ link'[k] = link[k + 1]
    BY <1>2
  <2> QED BY <2>1 DEF PipeInv, Bounded, n
<1>15. Unbroken'
  <2> SUFFICES ASSUME NEW k \in 1 .. Len(link'), link'[k].of \notin hit
               PROVE  /\ ~IsLast(link'[k]) => k < Len(link') /\ Follows(link'[k], link'[k + 1])
                      /\ k > 1 /\ link'[k].start > 0 => Follows(link'[k - 1], link'[k])
    BY <1>1 DEF Unbroken
  <2>1. /\ k + 1 \in 1 .. n /\ link'[k] = link[k + 1] /\ k + 1 > 1 /\ (k + 1) - 1 = k
        /\ k < Len(link') <=> k + 1 < n
    BY <1>2
  <2>2. k + 1 < n => link'[k + 1] = link[(k + 1) + 1]
    BY <1>2, <2>1
  <2>3. k > 1 => link'[k - 1] = link[k]
    <3>1. k > 1 => k - 1 \in 1 .. n - 1 /\ (k - 1) + 1 = k
      BY <1>2
    <3> QED BY <1>2, <3>1
  <2>4. /\ ~IsLast(link[k + 1]) => k + 1 < n /\ Follows(link[k + 1], link[(k + 1) + 1])
        /\ link[k + 1].start > 0 => Follows(link[k], link[k + 1])
    BY <2>1 DEF PipeInv, Unbroken, n
  <2> QED BY <2>1, <2>2, <2>3, <2>4
<1>16. Continued'
  <2> SUFFICES ASSUME link' # <<>>, link'[1].of \notin hit, link'[1].start > 0
               PROVE  buffer' = NoBuffer \/ buffer'.from = {link'[1].of}
    BY <1>1 DEF Continued
  <2>1. 2 \in 1 .. n /\ link'[1] = link[2]
    BY <1>2
  <2>2. Follows(c, link[2])
    BY <2>1 DEF PipeInv, Unbroken, c, n
  <2>3. c.of \notin hit /\ c.of = link'[1].of
    BY <2>1, <2>2 DEF Follows
  <2> QED BY <1>6, <1>9, <1>10, <2>3
<1>17. Pure'
  <2> SUFFICES ASSUME buffer' # NoBuffer
               PROVE  /\ buffer'.size > 0
                      /\ \A t \in buffer'.from :
                            \/ t \in hit
                            \/ buffer'.from = {t} /\ link' # <<>> /\ link'[1].of = t
    BY <1>1 DEF Pure
  <2>1. Fits(c) /\ Joined(c).size # c.total /\ buffer' = Joined(c)
    BY <1>6
  <2>2. c.of \notin hit => link' # <<>> /\ link'[1].of = c.of
    <3>1. c.of \notin hit => n > 1 /\ link[2].of = c.of
      BY <1>4, <1>10, <2>1 DEF Follows
    <3>2. n > 1 => link'[1] = link[2] /\ Len(link') > 0
      BY <1>2
    <3> QED BY <3>1, <3>2
  <2> QED BY <1>9, <1>10, <2>1, <2>2
<1>18. Outputs'
  <2>1. Fits(c) => Joined(c).from \subseteq hit \/ \E t : Joined(c).from = {t}
    BY <1>8, <1>9
  <2> QED BY <1>1, <1>6, <2>1 DEF PipeInv, Outputs
<1> QED BY <1>13, <1>14, <1>15, <1>16, <1>17, <1>18 DEF PipeInv

-----------------------------------------------------------------------------
(* The theorems *)

\* Every step preserves the invariant.
LEMMA NextPipe == PipeInv /\ [Next]_vars => PipeInv'
<1> SUFFICES ASSUME PipeInv, [Next]_vars PROVE PipeInv'
  OBVIOUS
<1>1. CASE UNCHANGED vars
  BY <1>1 DEF vars, PipeInv, TypeOK, Bounded, Unbroken, Continued, Pure, Outputs
<1> QED BY <1>1, SendPipe, LosePipe, AddPipe, WashPipeStep DEF Next

\* The buffer never holds more than the item it is to become, for every size of
\* items and chunks: the test for a finished item (addDataChunk()) is not missed.
THEOREM PipeTypes == Spec => []TypeOK
<1>1. PipeInv => TypeOK
  BY DEF PipeInv
<1> QED BY <1>1, InitPipe, NextPipe, PTL DEF Spec

\* A transmission that lost no chunk never becomes part of a mixture, though
\* addDataChunk() does not look at the propagation id.
THEOREM NothingMixed == Spec => []IntactNotMixed
<1>1. PipeInv => IntactNotMixed
  <2> SUFFICES ASSUME PipeInv, NEW joined \in out, Cardinality(joined) > 1
               PROVE  joined \subseteq hit
    BY DEF IntactNotMixed
  <2>1. ASSUME NEW t, joined = {t} PROVE FALSE
    <3>1. Cardinality({t}) = 1
      BY FS_Singleton
    <3> QED BY <2>1, <3>1
  <2> QED BY <2>1 DEF PipeInv, Outputs
<1> QED BY <1>1, InitPipe, NextPipe, PTL DEF Spec

-----------------------------------------------------------------------------
(* Waste: how many transmissions without a loss fail *)

\* Transmissions leave and arrive in their order, and the last chunk of one is
\* followed, and its first preceded, by chunks of others only.
InOrder ==
    \A j, k \in 1 .. Len(link) : j < k =>
        /\ link[j].of <= link[k].of
        /\ IsLast(link[j]) \/ link[k].start = 0 => link[j].of < link[k].of

Known ==
    /\ \A k \in 1 .. Len(link) : link[k].of \in 1 .. sent
    /\ buffer.from \cup over \subseteq 1 .. sent

\* What the receiver holds is older than what is under way.
Past ==
    /\ \A k \in 1 .. Len(link) :
          /\ link[k].of \notin over
          /\ \A t \in buffer.from : t <= link[k].of
          /\ link[k].start = 0 => link[k].of \notin buffer.from
    /\ buffer.from \cap over = {}

\* What the buffer holds of a transmission without a loss, the next chunk fits.
Fitting ==
    buffer # NoBuffer =>
        /\ buffer.from # {}
        /\ \A t \in buffer.from \ hit : link # <<>> /\ Fits(link[1])

\* The transmissions without a loss that can no longer get through: their first
\* chunk is neither under way nor in the buffer, and they were not joined.
Failed ==
    {t \in 1 .. sent :
        /\ t \notin hit /\ {t} \notin out /\ t \notin buffer.from
        /\ \A k \in 1 .. Len(link) : link[k].start = 0 => link[k].of # t}

\* The transmissions that lost their last chunk and of which remains are left:
\* each of them can spoil one transmission.
Torn ==
    {t \in 1 .. sent :
        /\ t \notin over
        /\ \A k \in 1 .. Len(link) : IsLast(link[k]) => link[k].of # t
        /\ t \in buffer.from \/ \E k \in 1 .. Len(link) : link[k].of = t}

OrderInv == PipeInv /\ InOrder /\ Known /\ Past /\ Fitting

WasteInv == OrderInv /\ Cardinality(Failed) + Cardinality(Torn) <= losses + washes

\* The numbers of a chunk.
LEMMA ChunkTypes ==
    ASSUME NEW c \in Chunk
    PROVE  c.of \in Nat /\ c.start \in Nat /\ c.size \in Nat \ {0} /\ c.total \in Nat
<1>1. Sizes \subseteq Nat /\ MaxTransmissions \in Nat
  BY PipeAssumption
<1>2. c.of \in 1 .. MaxTransmissions /\ c.start \in Nat /\ c.size \in Nat \ {0} /\ c.total \in Sizes
  BY DEF Chunk, Transmission
<1>3. c.of \in Nat
  BY <1>1, <1>2
<1>4. c.total \in Nat
  BY <1>1, <1>2
<1> QED BY <1>2, <1>3, <1>4

\* How the two sets may change in one step so that their sizes stay bounded.
LEMMA Grows ==
    ASSUME NEW A, NEW B, NEW x, IsFiniteSet(A), B \subseteq A \cup {x}
    PROVE  IsFiniteSet(B) /\ Cardinality(B) \in Nat /\ Cardinality(A) \in Nat
           /\ Cardinality(B) <= Cardinality(A) + 1
<1>1. IsFiniteSet(A \cup {x}) /\ Cardinality(A \cup {x}) <= Cardinality(A) + 1
      /\ Cardinality(A) \in Nat
  <2>1. /\ IsFiniteSet(A \cup {x}) /\ Cardinality(A) \in Nat
        /\ \/ x \in A /\ Cardinality(A \cup {x}) = Cardinality(A)
           \/ x \notin A /\ Cardinality(A \cup {x}) = Cardinality(A) + 1
    BY FS_AddElement, FS_CardinalityType
  <2> QED BY <2>1
<1>2. IsFiniteSet(B) /\ Cardinality(B) <= Cardinality(A \cup {x})
  BY <1>1, FS_Subset
<1>3. Cardinality(B) \in Nat /\ Cardinality(A \cup {x}) \in Nat
  BY <1>1, <1>2, FS_CardinalityType
<1> QED BY <1>1, <1>2, <1>3

\* A set that stays within the old one does not grow, and shrinks when one
\* member leaves it.
LEMMA Shrinks ==
    ASSUME NEW A, NEW B, IsFiniteSet(A), B \subseteq A
    PROVE  /\ Cardinality(B) \in Nat /\ Cardinality(A) \in Nat
           /\ Cardinality(B) <= Cardinality(A)
           /\ \A x \in A \ B : Cardinality(B) + 1 <= Cardinality(A)
<1>1. IsFiniteSet(B) /\ Cardinality(B) <= Cardinality(A)
      /\ Cardinality(B) \in Nat /\ Cardinality(A) \in Nat
  BY FS_Subset, FS_CardinalityType
<1>2. ASSUME NEW x \in A \ B PROVE Cardinality(B) + 1 <= Cardinality(A)
  <2>1. Cardinality(B) = Cardinality(A) => B = A
    BY FS_Subset
  <2> QED BY <1>1, <2>1
<1> QED BY <1>1, <1>2

\* Both sets are finite.
LEMMA FiniteWaste == ASSUME OrderInv PROVE IsFiniteSet(Failed) /\ IsFiniteSet(Torn)
<1>1. IsFiniteSet(1 .. sent)
  BY FS_Interval DEF OrderInv, PipeInv, TypeOK
<1> QED BY <1>1, FS_Subset DEF Failed, Torn

\* Nothing is wasted at first.
LEMMA InitWaste == Init => WasteInv
<1> SUFFICES ASSUME Init PROVE WasteInv
  OBVIOUS
<1>1. OrderInv
  BY InitPipe DEF Init, OrderInv, InOrder, Known, Past, Fitting, NoBuffer
<1>2. Failed = {} /\ Torn = {}
  BY DEF Init, Failed, Torn
<1> QED BY <1>1, <1>2, FS_EmptySet DEF Init, WasteInv

\* A new transmission is younger than all others, and all of it is under way.
LEMMA SendWaste == ASSUME WasteInv, NEW total \in Sizes, Send(total) PROVE WasteInv'
<1> DEFINE t == sent + 1
           s == Slice(t, total)
<1>1. /\ PipeInv /\ PipeInv' /\ sent \in Nat
      /\ t \in Transmission /\ link \in Seq(Chunk) /\ link' = link \o s /\ sent' = t
      /\ UNCHANGED <<buffer, out, hit, over, losses, washes>>
  <2>1. PipeInv /\ PipeInv'
    BY SendPipe DEF WasteInv, OrderInv
  <2> QED BY <2>1, PipeAssumption DEF PipeInv, TypeOK, Send, Transmission
<1>2. /\ s \in Seq(Chunk) /\ Len(s) \in Nat \ {0}
      /\ \A k \in 1 .. Len(s) :
            /\ s[k].of = t /\ s[k].start + s[k].size <= s[k].total
            /\ k = 1 => s[k].start = 0
            /\ ~IsLast(s[k]) => k < Len(s) /\ Follows(s[k], s[k + 1])
            /\ k > 1 => Follows(s[k - 1], s[k])
  BY <1>1, SliceChunks
<1> HIDE DEF s
<1>3. /\ Len(link') = Len(link) + Len(s) /\ Len(link) \in Nat
      /\ \A k \in 1 .. Len(link) : link'[k] = link[k]
      /\ \A k \in 1 .. Len(link') : k \in 1 .. Len(link) \/ k - Len(link) \in 1 .. Len(s)
      /\ \A k \in 1 .. Len(s) : link'[Len(link) + k] = s[k]
  BY <1>1, <1>2
<1>4. \A k \in 1 .. Len(link) : link[k].of \in 1 .. sent
  BY DEF WasteInv, OrderInv, Known
<1>5. ASSUME NEW k \in 1 .. Len(link'), k \notin 1 .. Len(link)
      PROVE  k - Len(link) \in 1 .. Len(s) /\ link'[k] = s[k - Len(link)]
             /\ link'[k].of = t
  <2>1. k - Len(link) \in 1 .. Len(s) /\ Len(link) + (k - Len(link)) = k
    BY <1>3, <1>5
  <2>2. link'[k] = s[k - Len(link)]
    BY <1>3, <2>1
  <2> QED BY <1>2, <2>1, <2>2
<1>6. \A k \in 1 .. Len(link') : link'[k].of \in 1 .. sent'
  <2> SUFFICES ASSUME NEW k \in 1 .. Len(link') PROVE link'[k].of \in 1 .. sent'
    OBVIOUS
  <2>1. CASE k \in 1 .. Len(link)
    <3>1. link'[k].of \in 1 .. sent
      BY <1>3, <1>4, <2>1
    <3> QED BY <1>1, <3>1
  <2>2. CASE k \notin 1 .. Len(link)
    <3>1. link'[k].of = t
      BY <1>5, <2>2
    <3> QED BY <1>1, <3>1
  <2> QED BY <2>1, <2>2
<1>7. \A j, k \in 1 .. Len(s) : j < k => ~IsLast(s[j]) /\ s[k].start # 0
  <2> SUFFICES ASSUME NEW j \in 1 .. Len(s), NEW k \in 1 .. Len(s), j < k
               PROVE  ~IsLast(s[j]) /\ s[k].start # 0
    OBVIOUS
  <2>1. s[j] \in Chunk /\ s[j + 1] \in Chunk /\ s[k] \in Chunk /\ s[k - 1] \in Chunk
        /\ j + 1 \in 1 .. Len(s) /\ j + 1 > 1 /\ (j + 1) - 1 = j /\ k > 1
    BY <1>2
  <2>2. s[j + 1].start + s[j + 1].size <= s[j + 1].total /\ Follows(s[k - 1], s[k])
    BY <1>2, <2>1
  <2>3. Follows(s[(j + 1) - 1], s[j + 1])
    BY <1>2, <2>1
  <2>4. Follows(s[j], s[j + 1])
    BY <2>1, <2>3
  <2>5. Sizes \subseteq Nat
    BY PipeAssumption
  <2>6. ~IsLast(s[j])
    BY <2>1, <2>2, <2>4, <2>5 DEF Follows, IsLast, Chunk
  <2>7. s[k].start # 0
    BY <2>1, <2>2 DEF Follows, Chunk
  <2> QED BY <2>6, <2>7
<1>8. InOrder'
  <2> SUFFICES ASSUME NEW j \in 1 .. Len(link'), NEW k \in 1 .. Len(link'), j < k
               PROVE  /\ link'[j].of <= link'[k].of
                      /\ IsLast(link'[j]) \/ link'[k].start = 0 => link'[j].of < link'[k].of
    BY DEF InOrder, IsLast
  <2>1. CASE k \in 1 .. Len(link)
    BY <1>3, <2>1 DEF WasteInv, OrderInv, InOrder
  <2>2. CASE k \notin 1 .. Len(link) /\ j \in 1 .. Len(link)
    <3>1. link'[k].of = t /\ link'[j].of \in 1 .. sent
      BY <1>3, <1>4, <1>5, <2>2
    <3> QED BY <1>1, <3>1
  <2>3. CASE k \notin 1 .. Len(link) /\ j \notin 1 .. Len(link)
    <3>1. /\ k - Len(link) \in 1 .. Len(s) /\ link'[k] = s[k - Len(link)] /\ link'[k].of = t
          /\ j - Len(link) \in 1 .. Len(s) /\ link'[j] = s[j - Len(link)] /\ link'[j].of = t
      BY <1>5, <2>3
    <3>2. j - Len(link) < k - Len(link)
      BY <1>3
    <3>3. ~IsLast(link'[j]) /\ link'[k].start # 0
      BY <1>7, <3>1, <3>2
    <3> QED BY <1>1, <3>1, <3>3
  <2> QED BY <1>3, <2>1, <2>2, <2>3
<1>9. Known'
  BY <1>1, <1>6 DEF WasteInv, OrderInv, Known
<1>10. Past'
  <2>1. ASSUME NEW k \in 1 .. Len(link')
        PROVE  /\ link'[k].of \notin over
               /\ \A r \in buffer.from : r <= link'[k].of
               /\ link'[k].start = 0 => link'[k].of \notin buffer.from
    <3>1. CASE k \in 1 .. Len(link)
      BY <1>3, <3>1 DEF WasteInv, OrderInv, Past
    <3>2. CASE k \notin 1 .. Len(link)
      <4>1. link'[k].of = t
        BY <1>5, <3>2
      <4>2. buffer.from \cup over \subseteq 1 .. sent
        BY DEF WasteInv, OrderInv, Known
      <4> QED BY <1>1, <4>1, <4>2
    <3> QED BY <3>1, <3>2
  <2> QED BY <1>1, <2>1 DEF WasteInv, OrderInv, Past
<1>11. Fitting'
  <2>1. link # <<>> => link' # <<>> /\ link'[1] = link[1]
    BY <1>1, <1>3
  <2> QED BY <1>1, <2>1 DEF WasteInv, OrderInv, Fitting, Fits
<1>12. Failed' \subseteq Failed
  <2> SUFFICES ASSUME NEW r \in Failed' PROVE r \in Failed
    OBVIOUS
  <2>1. /\ r \in 1 .. sent' /\ r \notin hit /\ {r} \notin out /\ r \notin buffer.from
        /\ \A k \in 1 .. Len(link') : link'[k].start = 0 => link'[k].of # r
    BY <1>1 DEF Failed
  <2>2. r # t
    <3>1. 1 \in 1 .. Len(s) /\ Len(link) + 1 \in 1 .. Len(link')
      BY <1>2, <1>3
    <3>2. link'[Len(link) + 1].start = 0 /\ link'[Len(link) + 1].of = t
      BY <1>2, <1>3, <3>1
    <3> QED BY <2>1, <3>1, <3>2
  <2>3. r \in 1 .. sent /\ \A k \in 1 .. Len(link) : link[k].start = 0 => link[k].of # r
    BY <1>1, <1>3, <2>1, <2>2
  <2> QED BY <2>1, <2>3 DEF Failed
<1>13. Torn' \subseteq Torn
  <2> SUFFICES ASSUME NEW r \in Torn' PROVE r \in Torn
    OBVIOUS
  <2>1. /\ r \in 1 .. sent' /\ r \notin over
        /\ \A k \in 1 .. Len(link') : IsLast(link'[k]) => link'[k].of # r
        /\ r \in buffer.from \/ \E k \in 1 .. Len(link') : link'[k].of = r
    BY <1>1 DEF Torn, IsLast
  <2>2. r # t
    <3>1. Len(s) \in 1 .. Len(s) /\ Len(link) + Len(s) \in 1 .. Len(link')
          /\ ~(Len(s) < Len(s))
      BY <1>2, <1>3
    <3>2. IsLast(link'[Len(link) + Len(s)]) /\ link'[Len(link) + Len(s)].of = t
      BY <1>2, <1>3, <3>1
    <3> QED BY <2>1, <3>1, <3>2
  <2>3. r \in 1 .. sent
    BY <1>1, <2>1, <2>2
  <2>4. \A k \in 1 .. Len(link') : link'[k].of = r => k \in 1 .. Len(link)
    BY <1>5, <2>2
  <2>5. /\ \A k \in 1 .. Len(link) : IsLast(link[k]) => link[k].of # r
        /\ r \in buffer.from \/ \E k \in 1 .. Len(link) : link[k].of = r
    BY <1>3, <2>1, <2>4
  <2> QED BY <2>1, <2>3, <2>5 DEF Torn
<1>14. /\ losses \in Nat /\ washes \in Nat /\ losses' = losses /\ washes' = washes
  BY <1>1 DEF PipeInv, TypeOK
<1>15. /\ Cardinality(Failed') \in Nat /\ Cardinality(Failed) \in Nat
       /\ Cardinality(Failed') <= Cardinality(Failed)
       /\ Cardinality(Torn') \in Nat /\ Cardinality(Torn) \in Nat
       /\ Cardinality(Torn') <= Cardinality(Torn)
  BY <1>12, <1>13, FiniteWaste, Shrinks DEF WasteInv
<1>16. Cardinality(Failed') + Cardinality(Torn') <= losses' + washes'
  BY <1>14, <1>15 DEF WasteInv
<1> QED BY <1>1, <1>8, <1>9, <1>10, <1>11, <1>16 DEF WasteInv, OrderInv

\* Clearing the buffer fails the transmission that was being joined, if it lost
\* nothing: it is then alone in the buffer.
LEMMA WashWaste == ASSUME WasteInv, WashPipe PROVE WasteInv'
<1>1. /\ PipeInv /\ PipeInv' /\ buffer' = NoBuffer /\ washes' = washes + 1
      /\ UNCHANGED <<sent, link, out, hit, over, losses>> /\ NoBuffer.from = {}
  BY WashPipeStep DEF WasteInv, OrderInv, WashPipe, NoBuffer
<1>2. /\ InOrder' /\ Known' /\ Past' /\ Fitting'
  BY <1>1 DEF WasteInv, OrderInv, InOrder, IsLast, Known, Past, Fitting
<1>3. \E t : Failed' \subseteq Failed \cup {t}
  <2>1. CASE \E t \in buffer.from : t \notin hit
    <3>1. PICK t \in buffer.from : t \notin hit
      BY <2>1
    <3>2. buffer.from = {t}
      BY <1>1, <3>1 DEF PipeInv, Pure
    <3>3. Failed' \subseteq Failed \cup {t}
      BY <1>1, <3>2 DEF Failed
    <3> QED BY <3>3
  <2>2. CASE \A t \in buffer.from : t \in hit
    <3>1. Failed' \subseteq Failed \cup {sent}
      BY <1>1, <2>2 DEF Failed
    <3> QED BY <3>1
  <2> QED BY <2>1, <2>2
<1>4. Torn' \subseteq Torn
  BY <1>1 DEF Torn, IsLast
<1>5. /\ losses \in Nat /\ washes \in Nat /\ losses' = losses /\ washes' = washes + 1
  BY <1>1 DEF PipeInv, TypeOK
<1>6. /\ Cardinality(Failed') \in Nat /\ Cardinality(Failed) \in Nat
      /\ Cardinality(Failed') <= Cardinality(Failed) + 1
      /\ Cardinality(Torn') \in Nat /\ Cardinality(Torn) \in Nat
      /\ Cardinality(Torn') <= Cardinality(Torn)
  BY <1>3, <1>4, FiniteWaste, Shrinks, Grows DEF WasteInv
<1>7. Cardinality(Failed') + Cardinality(Torn') <= losses' + washes'
  BY <1>5, <1>6 DEF WasteInv
<1> QED BY <1>1, <1>2, <1>7 DEF WasteInv, OrderInv

\* A loss tears at most one transmission: the one that the first lost chunk
\* belongs to, for of all later ones up to the end of the loss no chunk arrived.
LEMMA LoseWaste ==
    ASSUME WasteInv, NEW i \in DOMAIN link, NEW j \in DOMAIN link, i <= j, Lose(i, j)
    PROVE  WasteInv'
<1> DEFINE gap == j - i + 1
           Old(k) == IF k < i THEN k ELSE k + gap
<1>1. /\ PipeInv /\ PipeInv' /\ link \in Seq(Chunk)
      /\ link' = SubSeq(link, 1, i - 1) \o SubSeq(link, j + 1, Len(link))
      /\ losses' = losses + 1 /\ hit' = hit \cup {link[k].of : k \in i .. j}
      /\ UNCHANGED <<sent, buffer, out, over, washes>>
  <2>1. PipeInv /\ PipeInv'
    BY LosePipe DEF WasteInv, OrderInv
  <2> QED BY <2>1 DEF PipeInv, TypeOK, Lose
<1>2. /\ Len(link) \in Nat /\ i \in Int /\ j \in Int /\ 1 <= i /\ i <= j /\ j <= Len(link)
  <2>1. i \in 1 .. Len(link) /\ j \in 1 .. Len(link) /\ Len(link) \in Nat
    BY <1>1
  <2> QED BY <2>1
<1>3. /\ Len(link') = Len(link) - gap
      /\ \A k \in 1 .. i - 1 : link'[k] = link[k]
      /\ \A k \in i .. Len(link') : link'[k] = link[k + gap]
  BY <1>1, LoseChunks
<1>4. gap \in Nat /\ gap >= 1 /\ i + gap = j + 1
  BY <1>2
<1> HIDE DEF gap
<1>5. ASSUME NEW k \in 1 .. Len(link')
      PROVE  Old(k) \in 1 .. Len(link) /\ ~(Old(k) \in i .. j) /\ link'[k] = link[Old(k)]
  <2>1. CASE k < i
    <3>1. k \in 1 .. i - 1 /\ Old(k) = k /\ k \in 1 .. Len(link)
      BY <1>2, <2>1
    <3> QED BY <1>2, <1>3, <2>1, <3>1
  <2>2. CASE ~(k < i)
    <3>1. k \in i .. Len(link')
      BY <1>2, <2>2
    <3>2. k + gap \in 1 .. Len(link) /\ ~(k + gap \in i .. j)
      BY <1>2, <1>3, <1>4, <3>1
    <3> QED BY <1>3, <2>2, <3>1, <3>2
  <2> QED BY <2>1, <2>2
<1>6. \A k, m \in 1 .. Len(link') : k < m => Old(k) < Old(m)
  BY <1>2, <1>3, <1>4
<1>7. ASSUME NEW m \in 1 .. Len(link), ~(m \in i .. j)
      PROVE  \E k \in 1 .. Len(link') : link'[k] = link[m]
  <2>1. CASE m < i
    <3>1. m \in 1 .. i - 1 /\ m \in 1 .. Len(link')
      BY <1>2, <1>3, <1>4, <2>1
    <3> QED BY <1>3, <3>1
  <2>2. CASE ~(m < i)
    <3>1. /\ m - gap \in i .. Len(link') /\ (m - gap) + gap = m
          /\ m - gap \in 1 .. Len(link')
      BY <1>2, <1>3, <1>4, <1>7, <2>2
    <3>2. link'[m - gap] = link[m]
      BY <1>3, <3>1
    <3> QED BY <3>1, <3>2
  <2> QED BY <2>1, <2>2
<1> HIDE DEF Old
<1>8. InOrder'
  <2> SUFFICES ASSUME NEW k \in 1 .. Len(link'), NEW m \in 1 .. Len(link'), k < m
               PROVE  /\ link'[k].of <= link'[m].of
                      /\ IsLast(link'[k]) \/ link'[m].start = 0 => link'[k].of < link'[m].of
    BY DEF InOrder, IsLast
  <2>1. /\ Old(k) \in 1 .. Len(link) /\ Old(m) \in 1 .. Len(link) /\ Old(k) < Old(m)
        /\ link'[k] = link[Old(k)] /\ link'[m] = link[Old(m)]
    BY <1>5, <1>6
  <2> QED BY <2>1 DEF WasteInv, OrderInv, InOrder
<1>9. Known' /\ Past'
  BY <1>1, <1>5 DEF WasteInv, OrderInv, Known, Past
<1>10. Fitting'
  <2> SUFFICES ASSUME buffer # NoBuffer, NEW t \in buffer.from \ hit'
               PROVE  link' # <<>> /\ Fits(link'[1])
    BY <1>1 DEF Fitting, Fits, WasteInv, OrderInv
  <2>1. t \in buffer.from \ hit /\ link # <<>> /\ link[1].of = t /\ Fits(link[1])
    BY <1>1 DEF WasteInv, OrderInv, Fitting, PipeInv, Pure
  <2>2. i > 1
    <3>1. \A k \in i .. j : link[k].of \in hit'
      BY <1>1
    <3> QED BY <1>2, <2>1, <3>1
  <2>3. link'[1] = link[1] /\ link' # <<>>
    <3>1. 1 \in 1 .. i - 1 /\ Len(link') > 0
      BY <1>2, <1>3, <1>4, <2>2
    <3> QED BY <1>3, <3>1
  <2> QED BY <2>1, <2>3
<1>11. Failed' \subseteq Failed
  <2> SUFFICES ASSUME NEW r \in Failed' PROVE r \in Failed
    OBVIOUS
  <2>1. /\ r \in 1 .. sent /\ r \notin hit' /\ {r} \notin out /\ r \notin buffer.from
        /\ \A k \in 1 .. Len(link') : link'[k].start = 0 => link'[k].of # r
    BY <1>1 DEF Failed
  <2>2. ASSUME NEW k \in 1 .. Len(link), link[k].start = 0, link[k].of = r PROVE FALSE
    <3>1. CASE k \in i .. j
      BY <1>1, <2>1, <2>2, <3>1
    <3>2. CASE ~(k \in i .. j)
      BY <1>7, <2>1, <2>2, <3>2
    <3> QED BY <3>1, <3>2
  <2> QED BY <1>1, <2>1, <2>2 DEF Failed
<1>12. Torn' \subseteq Torn \cup {link[i].of}
  <2> SUFFICES ASSUME NEW r \in Torn', r \notin Torn PROVE r = link[i].of
    OBVIOUS
  <2>1. /\ r \in 1 .. sent /\ r \notin over
        /\ \A k \in 1 .. Len(link') : IsLast(link'[k]) => link'[k].of # r
        /\ r \in buffer.from \/ \E k \in 1 .. Len(link') : link'[k].of = r
    BY <1>1 DEF Torn, IsLast
  <2>2. r \in buffer.from \/ \E k \in 1 .. Len(link) : link[k].of = r /\ ~(k \in i .. j)
    BY <1>5, <2>1
  <2>3. PICK m \in 1 .. Len(link) : IsLast(link[m]) /\ link[m].of = r
    BY <2>1, <2>2 DEF Torn
  <2>4. m \in i .. j
    BY <1>7, <2>1, <2>3
  <2>5. \A k \in 1 .. Len(link) : link[k].of \in Nat
    BY <1>1, ChunkTypes
  <2>6. i \in 1 .. Len(link) /\ i <= m /\ link[i].of <= r
    <3>1. i \in 1 .. Len(link) /\ (i = m \/ i < m)
      BY <1>2, <2>4
    <3> QED BY <2>3, <2>5, <3>1 DEF WasteInv, OrderInv, InOrder
  <2>7. r <= link[i].of
    <3>1. CASE r \in buffer.from
      BY <2>6, <3>1 DEF WasteInv, OrderInv, Past
    <3>2. CASE \E k \in 1 .. Len(link) : link[k].of = r /\ ~(k \in i .. j)
      <4>1. PICK k \in 1 .. Len(link) : link[k].of = r /\ ~(k \in i .. j)
        BY <3>2
      <4>2. ~(m < k)
        BY <2>3, <2>5, <4>1 DEF WasteInv, OrderInv, InOrder
      <4>3. k < i
        BY <1>2, <2>4, <4>1, <4>2
      <4> QED BY <2>6, <4>1, <4>3 DEF WasteInv, OrderInv, InOrder
    <3> QED BY <2>2, <3>1, <3>2
  <2> QED BY <2>1, <2>5, <2>6, <2>7
<1>13. /\ losses \in Nat /\ washes \in Nat /\ losses' = losses + 1 /\ washes' = washes
  BY <1>1 DEF PipeInv, TypeOK
<1>14. /\ Cardinality(Failed') \in Nat /\ Cardinality(Failed) \in Nat
       /\ Cardinality(Failed') <= Cardinality(Failed)
       /\ Cardinality(Torn') \in Nat /\ Cardinality(Torn) \in Nat
       /\ Cardinality(Torn') <= Cardinality(Torn) + 1
  BY <1>11, <1>12, FiniteWaste, Shrinks, Grows DEF WasteInv
<1>15. Cardinality(Failed') + Cardinality(Torn') <= losses' + washes'
  BY <1>13, <1>14 DEF WasteInv
<1> QED BY <1>1, <1>8, <1>9, <1>10, <1>15 DEF WasteInv, OrderInv

\* A chunk that arrives fails a transmission without a loss only if it is its
\* first and meets remains; those are then gone, and with them what was torn.
LEMMA AddWaste == ASSUME WasteInv, AddDataChunk PROVE WasteInv'
<1> DEFINE c == link[1]
           n == Len(link)
<1>1. /\ PipeInv /\ PipeInv' /\ link \in Seq(Chunk) /\ link # <<>> /\ link' = Tail(link)
      /\ UNCHANGED <<sent, hit, losses, washes>>
  <2>1. PipeInv /\ PipeInv'
    BY AddPipe DEF WasteInv, OrderInv
  <2> QED BY <2>1 DEF PipeInv, TypeOK, AddDataChunk
<1>2. /\ n \in Nat /\ n >= 1 /\ c \in Chunk /\ Head(link) = c /\ Len(link') = n - 1
      /\ \A k \in 1 .. n - 1 : link'[k] = link[k + 1]
  BY <1>1
<1>3. over' = IF IsLast(c) THEN over \cup {c.of} ELSE over
  BY <1>2 DEF AddDataChunk
<1>4. \/ ~Fits(c) /\ buffer' = NoBuffer /\ out' = out
      \/ /\ Fits(c) /\ Joined(c).size = c.total /\ buffer' = NoBuffer
         /\ \/ out' = out \cup {Joined(c).from}
            \/ Cardinality(Joined(c).from) > 1 /\ out' = out
      \/ Fits(c) /\ Joined(c).size # c.total /\ buffer' = Joined(c) /\ out' = out
  BY <1>2 DEF AddDataChunk, Reset
<1>5. /\ c.of \in 1 .. sent /\ c.of \notin over /\ c.of \in Nat /\ sent \in Nat
      /\ c.start \in Nat /\ c.size \in Nat \ {0} /\ c.start + c.size <= c.total
      /\ c.total \in Nat /\ buffer.size \in Nat
      /\ \A t \in buffer.from : t \in Nat /\ t <= c.of
      /\ c.start = 0 => c.of \notin buffer.from
  <2>1. 1 \in 1 .. Len(link)
    BY <1>2
  <2>2. c.of \in 1 .. sent /\ c.of \notin over /\ (\A t \in buffer.from : t <= c.of)
        /\ (c.start = 0 => c.of \notin buffer.from) /\ c.start + c.size <= c.total
    BY <2>1 DEF WasteInv, OrderInv, Known, Past, PipeInv, Bounded
  <2>3. c.of \in Nat /\ c.start \in Nat /\ c.size \in Nat \ {0} /\ c.total \in Nat
    BY <1>2, ChunkTypes
  <2>4. sent \in Nat /\ buffer.size \in Nat /\ (\A t \in buffer.from : t \in Nat)
    BY <1>1, PipeAssumption DEF PipeInv, TypeOK, Buffer, Transmission
  <2> QED BY <2>2, <2>3, <2>4
<1>6. \A k \in 1 .. n - 1 :
         /\ k + 1 \in 1 .. Len(link)
         /\ c.of <= link[k + 1].of
         /\ IsLast(c) \/ link[k + 1].start = 0 => c.of < link[k + 1].of
  <2>1. \A k \in 1 .. n - 1 : k + 1 \in 1 .. Len(link) /\ 1 < k + 1 /\ 1 \in 1 .. Len(link)
    BY <1>2
  <2> QED BY <2>1 DEF WasteInv, OrderInv, InOrder
<1>7. \A k \in 1 .. n - 1 : link[k + 1].of \in Nat
  BY <1>1, <1>6, ChunkTypes
<1>8. NoBuffer.from = {} /\ NoBuffer.size = 0 /\ Joined(c).from = buffer.from \cup {c.of}
      /\ Joined(c).size = buffer.size + c.size /\ Joined(c).total = c.total
  BY DEF NoBuffer, Joined
<1>9. buffer'.from \subseteq buffer.from \cup {c.of}
  BY <1>4, <1>8
\* Fits(c) and the item is not finished: c is not the last of its transmission.
<1>10. ASSUME buffer' # NoBuffer
       PROVE  /\ buffer' = Joined(c) /\ Fits(c) /\ out' = out /\ ~IsLast(c)
              /\ buffer.size = c.start
  <2>1. buffer' = Joined(c) /\ Fits(c) /\ out' = out /\ Joined(c).size # c.total
    BY <1>4, <1>10
  <2>2. buffer.size = c.start
    BY <1>8, <2>1 DEF Fits
  <2> QED BY <1>8, <2>1, <2>2 DEF IsLast
<1> HIDE DEF c, n
<1>11. InOrder'
  <2> SUFFICES ASSUME NEW k \in 1 .. Len(link'), NEW m \in 1 .. Len(link'), k < m
               PROVE  /\ link'[k].of <= link'[m].of
                      /\ IsLast(link'[k]) \/ link'[m].start = 0 => link'[k].of < link'[m].of
    BY DEF InOrder, IsLast
  <2>1. /\ k + 1 \in 1 .. Len(link) /\ m + 1 \in 1 .. Len(link) /\ k + 1 < m + 1
        /\ link'[k] = link[k + 1] /\ link'[m] = link[m + 1]
    <3>1. k \in 1 .. n - 1 /\ m \in 1 .. n - 1 /\ k + 1 < m + 1
      BY <1>2
    <3> QED BY <1>2, <1>6, <3>1
  <2> QED BY <2>1 DEF WasteInv, OrderInv, InOrder
<1>12. Known'
  <2>1. \A k \in 1 .. Len(link') : link'[k].of \in 1 .. sent
    BY <1>2, <1>6 DEF WasteInv, OrderInv, Known
  <2>2. buffer.from \cup over \subseteq 1 .. sent
    BY DEF WasteInv, OrderInv, Known
  <2>3. buffer'.from \cup over' \subseteq 1 .. sent
    BY <1>3, <1>5, <1>9, <2>2
  <2> QED BY <1>1, <2>1, <2>3 DEF Known
<1>13. Past'
  <2>1. ASSUME NEW k \in 1 .. Len(link')
        PROVE  /\ link'[k].of \notin over'
               /\ \A t \in buffer'.from : t <= link'[k].of
               /\ link'[k].start = 0 => link'[k].of \notin buffer'.from
    <3>1. /\ k \in 1 .. n - 1 /\ k + 1 \in 1 .. Len(link) /\ link'[k] = link[k + 1]
          /\ c.of <= link'[k].of /\ link'[k].of \in Nat
          /\ IsLast(c) \/ link'[k].start = 0 => c.of < link'[k].of
      BY <1>2, <1>6, <1>7
    <3>2. /\ link'[k].of \notin over /\ (\A t \in buffer.from : t <= link'[k].of)
          /\ link'[k].start = 0 => link'[k].of \notin buffer.from
      BY <3>1 DEF WasteInv, OrderInv, Past
    <3>3. IsLast(c) \/ link'[k].start = 0 => c.of # link'[k].of
      BY <1>5, <3>1
    <3> QED BY <1>3, <1>9, <3>1, <3>2, <3>3
  <2>2. buffer'.from \cap over' = {}
    <3>1. CASE buffer' = NoBuffer
      BY <1>8, <3>1
    <3>2. CASE buffer' # NoBuffer
      <4>1. over' = over
        BY <1>3, <1>10, <3>2
      <4>2. buffer.from \cap over = {}
        BY DEF WasteInv, OrderInv, Past
      <4> QED BY <1>5, <1>9, <4>1, <4>2
    <3> QED BY <3>1, <3>2
  <2> QED BY <2>1, <2>2 DEF Past
\* What is intact in the buffer is c's transmission, and c fits it.
<1>14. ASSUME NEW t \in buffer.from, t \notin hit
       PROVE  t = c.of /\ buffer.from = {t} /\ Fits(c) /\ buffer # NoBuffer
  <2>1. buffer # NoBuffer
    BY <1>8, <1>14
  <2>2. buffer.from = {t} /\ link[1].of = t
    BY <1>1, <1>14, <2>1 DEF PipeInv, Pure
  <2>3. Fits(link[1])
    BY <1>14, <2>1 DEF WasteInv, OrderInv, Fitting
  <2> QED BY <2>1, <2>2, <2>3 DEF c
<1>15. Fitting'
  <2> SUFFICES ASSUME buffer' # NoBuffer
               PROVE  /\ buffer'.from # {}
                      /\ \A t \in buffer'.from \ hit :
                            /\ link' # <<>> /\ buffer'.size = link'[1].start
                            /\ buffer'.total = link'[1].total
    BY <1>1 DEF Fitting, Fits
  <2>1. buffer' = Joined(c) /\ ~IsLast(c) /\ buffer.size = c.start
    BY <1>10
  <2>2. ASSUME NEW t \in buffer'.from \ hit
        PROVE  /\ link' # <<>> /\ buffer'.size = link'[1].start
               /\ buffer'.total = link'[1].total
    <3>1. t = c.of /\ c.of \notin hit
      BY <1>8, <1>14, <2>1, <2>2
    <3>2. n > 1 /\ Follows(c, link[2])
      <4>1. 1 \in 1 .. Len(link)
        BY <1>2 DEF n
      <4> QED BY <1>1, <2>1, <3>1, <4>1 DEF PipeInv, Unbroken, c, n
    <3>3. link'[1] = link[2] /\ link' # <<>>
      BY <1>2, <3>2
    <3>4. buffer'.size = link'[1].start /\ buffer'.total = link'[1].total
      BY <1>8, <2>1, <3>2, <3>3 DEF Follows
    <3> QED BY <3>3, <3>4
  <2> QED BY <1>8, <2>1, <2>2
\* Only the transmission of c can fail, and only if it begins with c.
<1>16. ASSUME NEW r \in Failed', r \notin Failed
       PROVE  /\ r = c.of /\ c.start = 0 /\ buffer # NoBuffer /\ buffer' = NoBuffer
              /\ \A t \in buffer.from : t \in hit
  <2>1. /\ r \in 1 .. sent /\ r \notin hit /\ {r} \notin out' /\ r \notin buffer'.from
        /\ \A k \in 1 .. Len(link') : link'[k].start = 0 => link'[k].of # r
    BY <1>1, <1>16 DEF Failed
  <2>2. {r} \notin out
    BY <1>4, <2>1
  <2>3. ASSUME NEW k \in 1 .. Len(link), link[k].start = 0, link[k].of = r
        PROVE  c.start = 0 /\ c.of = r
    <3>1. CASE k = 1
      BY <2>3, <3>1 DEF c
    <3>2. CASE k # 1
      <4>1. k - 1 \in 1 .. n - 1 /\ (k - 1) + 1 = k
        BY <1>2, <3>2 DEF n
      <4>2. link'[k - 1] = link[k] /\ k - 1 \in 1 .. Len(link')
        BY <1>2, <4>1
      <4> QED BY <2>1, <2>3, <4>2
    <3> QED BY <3>1, <3>2
  <2>4. r \in buffer.from \/ (c.start = 0 /\ c.of = r)
    BY <1>16, <2>1, <2>2, <2>3 DEF Failed
  <2>5. ASSUME Fits(c), buffer.from \subseteq {c.of}, c.of = r PROVE FALSE
    <3>1. Joined(c).from = {r}
      BY <1>8, <2>5
    <3>2. Cardinality(Joined(c).from) = 1
      BY <3>1, FS_Singleton
    <3>3. r \in Joined(c).from
      BY <3>1
    <3>4. ~(Cardinality(Joined(c).from) > 1)
      BY <3>2
    <3> QED BY <1>4, <2>1, <2>5, <3>1, <3>3, <3>4
  <2>6. r \notin buffer.from
    BY <1>14, <2>1, <2>5
  <2>7. c.start = 0 /\ c.of = r
    BY <2>4, <2>6
  <2>8. buffer # NoBuffer
    BY <1>8, <2>5, <2>7 DEF Fits
  <2>9. ~Fits(c)
    <3>1. buffer.size > 0
      BY <1>1, <2>8 DEF PipeInv, Pure
    <3> QED BY <2>7, <2>8, <3>1 DEF Fits
  <2>10. \A t \in buffer.from : t \in hit
    BY <1>14, <2>9
  <2> QED BY <1>4, <2>7, <2>8, <2>9, <2>10
<1>17. Torn' \subseteq Torn
  <2> SUFFICES ASSUME NEW r \in Torn' PROVE r \in Torn
    OBVIOUS
  <2>1. /\ r \in 1 .. sent /\ r \notin over'
        /\ \A k \in 1 .. Len(link') : IsLast(link'[k]) => link'[k].of # r
        /\ r \in buffer'.from \/ \E k \in 1 .. Len(link') : link'[k].of = r
    BY <1>1 DEF Torn, IsLast
  <2>2. r \notin over
    BY <1>3, <2>1
  <2>3. ASSUME NEW k \in 1 .. Len(link), IsLast(link[k]), link[k].of = r PROVE FALSE
    <3>1. CASE k = 1
      BY <1>3, <2>1, <2>3, <3>1 DEF c
    <3>2. CASE k # 1
      <4>1. k - 1 \in 1 .. n - 1 /\ (k - 1) + 1 = k
        BY <1>2, <3>2 DEF n
      <4>2. link'[k - 1] = link[k] /\ k - 1 \in 1 .. Len(link')
        BY <1>2, <4>1
      <4> QED BY <2>1, <2>3, <4>2
    <3> QED BY <3>1, <3>2
  <2>4. r \in buffer.from \/ \E k \in 1 .. Len(link) : link[k].of = r
    <3>1. 1 \in 1 .. Len(link) /\ link[1].of = c.of
      BY <1>2 DEF c, n
    <3>2. \A k \in 1 .. Len(link') : k + 1 \in 1 .. Len(link) /\ link'[k] = link[k + 1]
      BY <1>2, <1>6
    <3> QED BY <1>9, <2>1, <3>1, <3>2
  <2> QED BY <2>1, <2>2, <2>3, <2>4 DEF Torn
<1>18. /\ losses \in Nat /\ washes \in Nat /\ losses' = losses /\ washes' = washes
  BY <1>1 DEF PipeInv, TypeOK
<1>19. Cardinality(Failed') + Cardinality(Torn') <= losses' + washes'
  <2>1. CASE Failed' \subseteq Failed
    <3>1. /\ Cardinality(Failed') \in Nat /\ Cardinality(Failed) \in Nat
          /\ Cardinality(Failed') <= Cardinality(Failed)
          /\ Cardinality(Torn') \in Nat /\ Cardinality(Torn) \in Nat
          /\ Cardinality(Torn') <= Cardinality(Torn)
      BY <1>17, <2>1, FiniteWaste, Shrinks DEF WasteInv
    <3> QED BY <1>18, <3>1 DEF WasteInv
  <2>2. CASE ~(Failed' \subseteq Failed)
    <3>1. /\ c.start = 0 /\ buffer # NoBuffer /\ buffer' = NoBuffer
          /\ \A t \in buffer.from : t \in hit
      BY <1>16, <2>2
    <3>2. Failed' \subseteq Failed \cup {c.of}
      BY <1>16
    <3>3. PICK a \in buffer.from : TRUE
      BY <3>1 DEF WasteInv, OrderInv, Fitting
    <3>4. a \in 1 .. sent /\ a < c.of /\ a \notin over
      <4>1. a # c.of /\ a <= c.of /\ a \in Nat
        BY <1>5, <3>1
      <4>2. a \notin over /\ a \in 1 .. sent
        BY DEF WasteInv, OrderInv, Past, Known
      <4> QED BY <1>5, <4>1, <4>2
    <3>5. \A k \in 1 .. n - 1 : link[k + 1].of # a
      BY <1>5, <1>6, <1>7, <3>4
    <3>6. \A k \in 1 .. Len(link) : link[k].of # a
      <4> SUFFICES ASSUME NEW k \in 1 .. Len(link) PROVE link[k].of # a
        OBVIOUS
      <4>1. CASE k = 1
        BY <1>5, <3>4, <4>1 DEF c
      <4>2. CASE k # 1
        <5>1. k - 1 \in 1 .. n - 1 /\ (k - 1) + 1 = k
          BY <1>2, <4>2 DEF n
        <5> QED BY <3>5, <5>1
      <4> QED BY <4>1, <4>2
    <3>7. a \in Torn
      BY <3>4, <3>6 DEF Torn
    <3>8. a \notin Torn'
      <4>1. \A k \in 1 .. Len(link') : link'[k].of # a
        BY <1>2, <3>5
      <4> QED BY <1>8, <3>1, <4>1 DEF Torn
    <3>9. /\ Cardinality(Torn') \in Nat /\ Cardinality(Torn) \in Nat
          /\ Cardinality(Torn') + 1 <= Cardinality(Torn)
      BY <1>17, <3>7, <3>8, FiniteWaste, Shrinks DEF WasteInv
    <3>10. /\ Cardinality(Failed') \in Nat /\ Cardinality(Failed) \in Nat
           /\ Cardinality(Failed') <= Cardinality(Failed) + 1
      BY <3>2, FiniteWaste, Grows DEF WasteInv
    <3> QED BY <1>18, <3>9, <3>10 DEF WasteInv
  <2> QED BY <2>1, <2>2
<1> QED BY <1>1, <1>11, <1>12, <1>13, <1>15, <1>19 DEF WasteInv, OrderInv

\* Every step preserves the bound.
LEMMA NextWaste == WasteInv /\ [Next]_vars => WasteInv'
<1> SUFFICES ASSUME WasteInv, [Next]_vars PROVE WasteInv'
  OBVIOUS
<1>1. CASE UNCHANGED vars
  <2>1. PipeInv'
    BY <1>1, NextPipe DEF WasteInv, OrderInv
  <2> QED BY <1>1, <2>1 DEF vars, WasteInv, OrderInv, InOrder, IsLast, Known, Past, Fitting,
                            Fits, Failed, Torn
<1> QED BY <1>1, SendWaste, LoseWaste, AddWaste, WashWaste DEF Next

\* Each loss and each clearing of the buffer makes at most one transmission that
\* lost nothing fail, for every size of items and chunks and however many are
\* sent: a message sent again after a loss gets through at the second attempt at
\* the latest, although addDataChunk() keeps the remains of the broken one.
THEOREM OneWastedPerLoss == Spec => []WasteBounded
<1>1. WasteInv => WasteBounded
  <2> SUFFICES ASSUME WasteInv PROVE WasteBounded
    OBVIOUS
  <2> DEFINE W == {t \in over \ hit : {t} \notin out}
  <2>1. W \subseteq Failed
    BY DEF WasteInv, OrderInv, Known, Past, Failed
  <2>2. Cardinality(W) \in Nat /\ Cardinality(Failed) \in Nat /\ Cardinality(W) <= Cardinality(Failed)
    BY <2>1, FiniteWaste, Shrinks DEF WasteInv
  <2>3. Cardinality(Torn) \in Nat
    BY FiniteWaste, FS_CardinalityType DEF WasteInv
  <2>4. losses \in Nat /\ washes \in Nat
    BY DEF WasteInv, OrderInv, PipeInv, TypeOK
  <2> HIDE DEF W
  <2>5. Cardinality(W) <= losses + washes
    BY <2>2, <2>3, <2>4 DEF WasteInv
  <2> QED BY <2>5 DEF WasteBounded, W
<1> QED BY <1>1, InitWaste, NextWaste, PTL DEF Spec
=============================================================================
