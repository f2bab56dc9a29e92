--------------------------- MODULE VideoRingProofs ---------------------------
(***************************************************************************)
(* Theorems about VideoRing, for every pool size, buffer size, number of   *)
(* frames and set of sessions.                                             *)
(***************************************************************************)
EXTENDS VideoRing, TLAPS

(* The frames written so far, by number. *)
SentOK == sent \in [0 .. tick - 1 -> Frame]

(* A written packet tells the truth about its frame. *)
PacketsOK ==
    \A p \in Positions : pool[p].magic =>
        /\ pool[p].frameNo \in 0 .. tick - 1
        /\ sent[pool[p].frameNo].len = pool[p].count
        /\ sent[pool[p].frameNo].key = pool[p].key

(* No frame lies across the write pointer: going round from writeEnd, each *)
(* frame still to be found ends before writeEnd is reached again.          *)
NoStraddle ==
    \A p \in Positions : IsStart(p) => Offset(writeEnd, p) + pool[p].count <= PoolCount

(* The ring, without the sessions: what makes StartMeansWhole inductive. *)
RingInv ==
    /\ TypeOK
    /\ SentOK
    /\ PacketsOK
    /\ StartMeansWhole
    /\ NoStraddle

(* Where the frames in the ring lie relative to each other ... *)
OneStart ==
    \A p, q \in Positions :
        (IsStart(p) /\ IsStart(q) /\ pool[p].frameNo = pool[q].frameNo) => p = q
Chained ==
    \A p, q \in Positions :
        (IsStart(p) /\ IsStart(q) /\ pool[q].frameNo = pool[p].frameNo + 1)
            => q = After(p, pool[p].count)
NewestEndsAtWriteEnd ==
    \A p \in Positions :
        (IsStart(p) /\ pool[p].frameNo = tick - 1) => After(p, pool[p].count) = writeEnd

(* ... and relative to a session that has read all there is. *)
CaughtUpAtWriteEnd ==
    \A r \in Readers :
        /\ want[r] <= tick
        /\ (want[r] # 0 /\ want[r] = tick) => pos[r] = writeEnd

PlaceInv ==
    /\ OneStart
    /\ Chained
    /\ NewestEndsAtWriteEnd
    /\ CaughtUpAtWriteEnd
    /\ NextFrameAtPos

(* NewestKey with the history in the open, for use on both sides of a step. *)
NewestKeyOf(s, t, n) == s[n].key /\ \A m \in n + 1 .. t - 1 : ~s[m].key

(* What nLastIFrameBegin still says after the writer has lapped it. *)
KeyInv ==
    \A p \in Positions : IsStart(p) =>
        /\ NewestKeyOf(sent, tick, pool[p].frameNo) => p = iBegin
        /\ (p = iBegin /\ pool[p].key) => NewestKeyOf(sent, tick, pool[p].frameNo)

-----------------------------------------------------------------------------
(* Arithmetic of the ring.                                                 *)

\* Offset is the distance in the direction of writing, and After undoes it.
LEMMA OffsetBounds ==
    ASSUME NEW b \in Positions, NEW p \in Positions
    PROVE  /\ Offset(b, p) \in Positions
           /\ Offset(b, p) = 0 <=> p = b
           /\ After(b, Offset(b, p)) = p
  BY PoolAssumption DEF Offset, After, Wrap, Positions

\* After stays in the ring.
LEMMA AfterInRing ==
    ASSUME NEW p \in Positions, NEW n \in 0 .. PoolCount
    PROVE  After(p, n) \in Positions
  BY PoolAssumption DEF After, Wrap, Positions

\* A step that does not come back to b adds to the distance from b.
LEMMA OffsetAfter ==
    ASSUME NEW b \in Positions, NEW p \in Positions, NEW k \in Nat,
           Offset(b, p) + k < PoolCount
    PROVE  /\ After(p, k) \in Positions
           /\ Offset(b, After(p, k)) = Offset(b, p) + k
  BY PoolAssumption DEF Offset, After, Wrap, Positions

\* Moving the reference point by n takes n from the distance of all that it
\* has not passed ...
LEMMA OffsetMoved ==
    ASSUME NEW b \in Positions, NEW p \in Positions, NEW n \in 1 .. PoolCount,
           Offset(b, p) >= n
    PROVE  Offset(After(b, n), p) = Offset(b, p) - n
  BY PoolAssumption DEF Offset, After, Wrap, Positions

\* ... and leaves n packets before it is met again from where it was.
LEMMA OffsetOfOldEnd ==
    ASSUME NEW b \in Positions, NEW n \in 1 .. PoolCount
    PROVE  Offset(After(b, n), b) + n <= PoolCount
  BY PoolAssumption DEF Offset, After, Wrap, Positions

\* The distance of a position reached from b is the number of steps.
LEMMA OffsetOfAfter ==
    ASSUME NEW b \in Positions, NEW k \in Positions
    PROVE  /\ After(b, k) \in Positions
           /\ Offset(b, After(b, k)) = k
  BY PoolAssumption DEF Offset, After, Wrap, Positions

-----------------------------------------------------------------------------
(* What one write does to the starts in the ring.                          *)

\* The packet at p after writing f is the new frame's, if it is one of the
\* f.len packets from writeEnd on, and the old one otherwise.
LEMMA WrittenPacket ==
    ASSUME TypeOK, NEW f \in Frame, WriteVideo2Buf(f), NEW p \in Positions
    PROVE  /\ f.len \in 1 .. PoolCount
           /\ Offset(writeEnd, p) \in Positions
           /\ Offset(writeEnd, p) < f.len =>
                pool'[p] = [magic |-> TRUE, no |-> Offset(writeEnd, p), count |-> f.len,
                            frameNo |-> tick, key |-> f.key]
           /\ Offset(writeEnd, p) >= f.len => pool'[p] = pool[p]
  <1>1. f.len \in 1 .. PoolCount
    BY DEF Frame
  <1>2. Offset(writeEnd, p) \in Positions
    BY OffsetBounds DEF TypeOK
  <1>3. pool'[p] = IF Offset(writeEnd, p) < f.len
                   THEN PacketOf(f, Offset(writeEnd, p)) ELSE pool[p]
    BY DEF WriteVideo2Buf
  <1>4. f.len \in Int /\ Offset(writeEnd, p) \in Int
    BY <1>1, <1>2, PoolAssumption DEF Positions
  <1>5. Offset(writeEnd, p) >= f.len => ~(Offset(writeEnd, p) < f.len)
    BY <1>4
  <1> QED
    BY <1>1, <1>2, <1>3, <1>5 DEF PacketOf

\* A start after the write is the new frame's, at writeEnd, or an old one
\* that the write has not touched.
LEMMA StartsAfterWrite ==
    ASSUME TypeOK, NEW f \in Frame, WriteVideo2Buf(f), NEW p \in Positions,
           IsStart(p)'
    PROVE  \/ /\ p = writeEnd
              /\ pool'[p] = [magic |-> TRUE, no |-> 0, count |-> f.len,
                             frameNo |-> tick, key |-> f.key]
           \/ /\ Offset(writeEnd, p) >= f.len
              /\ IsStart(p)
              /\ pool'[p] = pool[p]
  <1>1. writeEnd \in Positions
    BY DEF TypeOK
  <1>2. Offset(writeEnd, p) \in Positions /\ f.len \in 1 .. PoolCount
    BY WrittenPacket
  <1>. Offset(writeEnd, p) \in Int /\ f.len \in Int
    BY <1>2, PoolAssumption DEF Positions
  <1>3. CASE Offset(writeEnd, p) < f.len
    <2>1. pool'[p] = [magic |-> TRUE, no |-> Offset(writeEnd, p), count |-> f.len,
                      frameNo |-> tick, key |-> f.key]
      BY <1>3, WrittenPacket
    <2>2. Offset(writeEnd, p) = 0
      BY <2>1 DEF IsStart
    <2> QED
      BY <1>1, <2>1, <2>2, OffsetBounds
  <1>4. CASE Offset(writeEnd, p) >= f.len
    BY <1>4, WrittenPacket DEF IsStart
  <1> QED
    BY <1>3, <1>4

-----------------------------------------------------------------------------
(* The ring invariant.                                                     *)

\* The zeroed pool holds no start of a frame.
LEMMA RingInvInit == Init => RingInv
  <1> SUFFICES ASSUME Init PROVE RingInv
    OBVIOUS
  <1>1. TypeOK
    BY PoolAssumption DEF Init, TypeOK, Positions, BlankPacket, Packet
  <1>2. SentOK
    BY DEF Init, SentOK
  <1>3. \A p \in Positions : ~pool[p].magic
    BY DEF Init, BlankPacket
  <1> QED
    BY <1>1, <1>2, <1>3 DEF RingInv, PacketsOK, StartMeansWhole, NoStraddle, IsStart

\* A write keeps every index in its pool.
LEMMA TypeOKWrite ==
    ASSUME TypeOK, NEW f \in Frame, WriteVideo2Buf(f)
    PROVE  TypeOK'
  <1>1. pool' \in [Positions -> Packet]
    <2>1. ASSUME NEW p \in Positions
          PROVE  (IF Offset(writeEnd, p) < f.len
                  THEN PacketOf(f, Offset(writeEnd, p)) ELSE pool[p]) \in Packet
      <3>0. Offset(writeEnd, p) \in Positions
        BY WrittenPacket
      <3>1. Offset(writeEnd, p) \in Nat
        BY <3>0, PoolAssumption DEF Positions
      <3>2. PacketOf(f, Offset(writeEnd, p)) \in Packet
        BY <3>1, PoolAssumption DEF PacketOf, Packet, Frame, TypeOK
      <3> QED
        BY <3>2 DEF TypeOK
    <2> QED
      BY <2>1 DEF WriteVideo2Buf
  <1>2. writeEnd' \in Positions
    <2>1. writeEnd \in Positions /\ f.len \in 0 .. PoolCount
      BY PoolAssumption DEF TypeOK, Frame
    <2> QED
      BY <2>1, AfterInRing DEF WriteVideo2Buf
  <1> QED
    BY <1>1, <1>2 DEF TypeOK, WriteVideo2Buf, LastIFrameBegin, sessions

\* The history stays a function on the numbers given out so far.
LEMMA SentOKWrite ==
    ASSUME TypeOK, SentOK, NEW f \in Frame, WriteVideo2Buf(f)
    PROVE  /\ SentOK'
           /\ tick' = tick + 1
           /\ sent'[tick] = f
           /\ \A n \in 0 .. tick - 1 : sent'[n] = sent[n]
  <1>1. tick \in Nat
    BY DEF TypeOK
  <1> QED
    BY <1>1 DEF SentOK, WriteVideo2Buf

\* Every packet still carries a number given out and the description of its
\* frame.
LEMMA PacketsOKWrite ==
    ASSUME TypeOK, SentOK, PacketsOK, NEW f \in Frame, WriteVideo2Buf(f)
    PROVE  PacketsOK'
  <1> SUFFICES ASSUME NEW p \in Positions, pool'[p].magic
               PROVE  /\ pool'[p].frameNo \in 0 .. tick' - 1
                      /\ sent'[pool'[p].frameNo].len = pool'[p].count
                      /\ sent'[pool'[p].frameNo].key = pool'[p].key
    BY DEF PacketsOK
  <1>1. tick \in Nat /\ tick' = tick + 1
    BY SentOKWrite DEF TypeOK
  <1>2. Offset(writeEnd, p) \in Int /\ f.len \in Int
    <2>1. Offset(writeEnd, p) \in Positions /\ f.len \in 1 .. PoolCount
      BY WrittenPacket
    <2> QED
      BY <2>1, PoolAssumption DEF Positions
  <1>3. CASE Offset(writeEnd, p) < f.len
    <2>1. pool'[p] = [magic |-> TRUE, no |-> Offset(writeEnd, p), count |-> f.len,
                      frameNo |-> tick, key |-> f.key]
      BY <1>3, WrittenPacket
    <2> QED
      BY <1>1, <2>1, SentOKWrite
  <1>4. CASE Offset(writeEnd, p) >= f.len
    <2>1. pool'[p] = pool[p]
      BY <1>4, WrittenPacket
    <2>2. /\ pool[p].frameNo \in 0 .. tick - 1
          /\ sent[pool[p].frameNo].len = pool[p].count
          /\ sent[pool[p].frameNo].key = pool[p].key
      BY <2>1 DEF PacketsOK
    <2> QED
      BY <1>1, <2>1, <2>2, SentOKWrite
  <1> QED
    BY <1>2, <1>3, <1>4

\* The frames the write does not destroy still end before the write pointer.
LEMMA NoStraddleWrite ==
    ASSUME RingInv, NEW f \in Frame, WriteVideo2Buf(f)
    PROVE  NoStraddle'
  <1> USE DEF RingInv
  <1> SUFFICES ASSUME NEW p \in Positions, IsStart(p)'
               PROVE  Offset(writeEnd', p) + pool'[p].count <= PoolCount
    BY DEF NoStraddle, Offset
  <1>1. /\ writeEnd \in Positions
        /\ writeEnd' = After(writeEnd, f.len)
        /\ f.len \in 1 .. PoolCount
    BY WrittenPacket DEF TypeOK, WriteVideo2Buf
  <1>2. CASE /\ p = writeEnd
             /\ pool'[p] = [magic |-> TRUE, no |-> 0, count |-> f.len,
                            frameNo |-> tick, key |-> f.key]
    BY <1>1, <1>2, OffsetOfOldEnd
  <1>3. CASE /\ Offset(writeEnd, p) >= f.len
             /\ IsStart(p)
             /\ pool'[p] = pool[p]
    <2>1. Offset(writeEnd, p) + pool[p].count <= PoolCount
      BY <1>3 DEF NoStraddle
    <2>2. Offset(writeEnd', p) = Offset(writeEnd, p) - f.len
      BY <1>1, <1>3, OffsetMoved
    <2>3. Offset(writeEnd, p) \in Positions /\ pool[p].count \in Nat
      BY <1>1, OffsetBounds DEF TypeOK, Packet
    <2> QED
      BY <1>1, <1>3, <2>1, <2>2, <2>3, PoolAssumption DEF Positions
  <1> QED
    BY <1>2, <1>3, StartsAfterWrite

\* The new frame is whole, and the frames whose start survives are untouched.
LEMMA StartMeansWholeWrite ==
    ASSUME RingInv, NEW f \in Frame, WriteVideo2Buf(f)
    PROVE  StartMeansWhole'
  <1> USE DEF RingInv
  <1> SUFFICES ASSUME NEW p \in Positions, IsStart(p)'
               PROVE  /\ pool'[p].count \in 1 .. PoolCount
                      /\ \A k \in 0 .. pool'[p].count - 1 :
                           pool'[After(p, k)] = Piece(pool'[p], k)
    BY DEF StartMeansWhole, After, Wrap, Piece
  <1>1. writeEnd \in Positions /\ f.len \in 1 .. PoolCount
    BY WrittenPacket DEF TypeOK
  <1>2. CASE /\ p = writeEnd
             /\ pool'[p] = [magic |-> TRUE, no |-> 0, count |-> f.len,
                            frameNo |-> tick, key |-> f.key]
    <2>1. ASSUME NEW k \in 0 .. f.len - 1
          PROVE  pool'[After(p, k)] = Piece(pool'[p], k)
      <3>1. k \in Positions /\ k < f.len
        BY <1>1, PoolAssumption DEF Positions
      <3>2. After(writeEnd, k) \in Positions /\ Offset(writeEnd, After(writeEnd, k)) = k
        BY <1>1, <3>1, OffsetOfAfter
      <3>3. pool'[After(writeEnd, k)]
              = [magic |-> TRUE, no |-> k, count |-> f.len,
                 frameNo |-> tick, key |-> f.key]
        BY <3>1, <3>2, WrittenPacket
      <3> QED
        BY <1>2, <3>3 DEF Piece
    <2>2. pool'[p].count = f.len
      BY <1>2
    <2> QED
      BY <1>1, <2>1, <2>2
  <1>3. CASE /\ Offset(writeEnd, p) >= f.len
             /\ IsStart(p)
             /\ pool'[p] = pool[p]
    <2>1. pool[p].count \in 1 .. PoolCount
      BY <1>3 DEF StartMeansWhole
    <2>2. ASSUME NEW k \in 0 .. pool[p].count - 1
          PROVE  pool'[After(p, k)] = Piece(pool'[p], k)
      <3>1. Offset(writeEnd, p) + pool[p].count <= PoolCount
        BY <1>3 DEF NoStraddle
      <3>2. /\ k \in Nat
            /\ Offset(writeEnd, p) \in Int
            /\ Offset(writeEnd, p) + k < PoolCount
            /\ Offset(writeEnd, p) + k >= f.len
        <4>1. Offset(writeEnd, p) \in Positions
          BY <1>1, OffsetBounds
        <4> QED
          BY <1>1, <1>3, <2>1, <3>1, <4>1, PoolAssumption DEF Positions
      <3>3. /\ After(p, k) \in Positions
            /\ Offset(writeEnd, After(p, k)) >= f.len
        BY <1>1, <3>2, OffsetAfter
      <3>4. pool'[After(p, k)] = pool[After(p, k)]
        BY <3>3, WrittenPacket
      <3>5. pool[After(p, k)] = Piece(pool[p], k)
        BY <1>3 DEF StartMeansWhole
      <3> QED
        BY <1>3, <3>4, <3>5
    <2> QED
      BY <1>3, <2>1, <2>2
  <1> QED
    BY <1>2, <1>3, StartsAfterWrite

\* A read changes nothing in the ring, whatever it gives.
LEMMA ReadKeepsRing ==
    ASSUME NEW r \in Readers, NEW bKeyFrame \in BOOLEAN, GetOneVideoFrame(r, bKeyFrame)
    PROVE  UNCHANGED ring
  BY DEF GetOneVideoFrame, Copy, Miss

\* What a successful read gives: the frame at q and the position behind it.
LEMMA ReadResult ==
    ASSUME NEW r \in Readers, NEW bKeyFrame \in BOOLEAN, GetOneVideoFrame(r, bKeyFrame),
           TypeOK
    PROVE  \/ \E q \in Positions :
                 /\ Acceptable(q, want[r], bKeyFrame)
                 /\ Copy(r, q)
           \/ /\ UNCHANGED <<want, got>>
              /\ pos' = pos
  <1>1. pos[r] \in Positions
    BY DEF TypeOK
  <1>2. ASSUME Miss(r, bKeyFrame)
        PROVE  pos' = pos
    BY <1>1, <1>2 DEF Miss, SearchFrom, TypeOK
  <1> QED
    BY <1>2 DEF GetOneVideoFrame, Miss

\* A read leaves a position of the ring and a number behind.
LEMMA TypeOKRead ==
    ASSUME RingInv, NEW r \in Readers, NEW bKeyFrame \in BOOLEAN,
           GetOneVideoFrame(r, bKeyFrame)
    PROVE  TypeOK'
  <1> USE DEF RingInv
  <1>1. UNCHANGED ring
    BY ReadKeepsRing
  <1>2. ASSUME NEW q \in Positions, Acceptable(q, want[r], bKeyFrame), Copy(r, q)
        PROVE  want' \in [Readers -> Nat] /\ pos' \in [Readers -> Positions]
    <2>1. pool[q].count \in 1 .. PoolCount
      BY <1>2 DEF Acceptable, CheckTotalFrame, StartMeansWhole
    <2>2. After(q, pool[q].count) \in Positions
      BY <2>1, AfterInRing, PoolAssumption
    <2>3. pool[q].frameNo + 1 \in Nat
      BY DEF TypeOK, Packet
    <2> QED
      BY <1>2, <2>2, <2>3 DEF Copy, Copied, TypeOK
  <1> QED
    BY <1>1, <1>2, ReadResult DEF TypeOK, ring

\* Every step keeps the ring invariant.
LEMMA RingInvNext == RingInv /\ [Next]_vars => RingInv'
  <1> SUFFICES ASSUME RingInv, [Next]_vars PROVE RingInv'
    OBVIOUS
  <1> USE DEF RingInv
  <1>1. ASSUME NEW f \in Frame, WriteVideo2Buf(f)
        PROVE  RingInv'
    BY <1>1, TypeOKWrite, SentOKWrite, PacketsOKWrite, StartMeansWholeWrite, NoStraddleWrite
  <1>2. ASSUME NEW r \in Readers, NEW bKeyFrame \in BOOLEAN, GetOneVideoFrame(r, bKeyFrame)
        PROVE  RingInv'
    <2>1. UNCHANGED ring
      BY <1>2, ReadKeepsRing
    <2>2. TypeOK'
      BY <1>2, TypeOKRead
    <2>3. SentOK' /\ PacketsOK' /\ NoStraddle'
      BY <2>1 DEF ring, SentOK, PacketsOK, NoStraddle, Offset, IsStart
    <2>4. StartMeansWhole'
      BY <2>1 DEF ring, StartMeansWhole, After, Wrap, IsStart, Piece
    <2> QED
      BY <2>2, <2>3, <2>4
  <1>3. CASE UNCHANGED vars
    BY <1>3 DEF vars, ring, sessions, TypeOK, SentOK, PacketsOK, NoStraddle, Offset,
                IsStart, StartMeansWhole, After, Wrap, Piece
  <1> QED
    BY <1>1, <1>2, <1>3 DEF Next

\* Types, the history, what packets say and where frames lie agree in every
\* reachable state.
THEOREM RingInvariant == Spec => []RingInv
  <1> QED
    BY RingInvInit, RingInvNext, PTL DEF Spec

\* The variables of VideoRing keep their types for every pool size and every
\* sequence of frames; in particular every index stays inside its pool.
THEOREM TypeCorrect == Spec => []TypeOK
  <1>1. RingInv => TypeOK
    BY DEF RingInv
  <1> QED
    BY <1>1, RingInvariant, PTL

\* Wherever the ring holds the first packet of a frame it holds the whole
\* frame, so that looking at the first and last packet is enough of a check.
THEOREM FramesAreWhole == Spec => []StartMeansWhole
  <1>1. RingInv => StartMeansWhole
    BY DEF RingInv
  <1> QED
    BY <1>1, RingInvariant, PTL
-----------------------------------------------------------------------------
(* The ring implements the feed.                                           *)

\* A write is a publication.
LEMMA WriteIsPublish ==
    ASSUME NEW f \in Frame, WriteVideo2Buf(f)
    PROVE  Feed!Publish(f)
  BY DEF WriteVideo2Buf, Feed!Publish, sessions

\* A successful read is the delivery of one whole frame.
LEMMA CopyIsDeliver ==
    ASSUME RingInv, NEW r \in Readers, NEW bKeyFrame \in BOOLEAN, NEW q \in Positions,
           Acceptable(q, want[r], bKeyFrame), Copy(r, q)
    PROVE  \E n \in Feed!Numbers : Feed!Deliver(r, n)
  <1> USE DEF RingInv
  <1> DEFINE n == pool[q].frameNo
  <1>1. IsStart(q) /\ n >= want[r]
    <2>1. IsStart(q) /\ want[r] <= n
      BY DEF Acceptable, CheckTotalFrame
    <2>2. want[r] \in Nat /\ n \in Nat
      BY DEF TypeOK, Packet
    <2> QED
      BY <2>1, <2>2
  <1>2. n \in Feed!Numbers /\ sent[n].len = pool[q].count
    BY <1>1 DEF IsStart, PacketsOK, Feed!Numbers
  <1>3. [k \in 0 .. pool[q].count - 1 |->
           <<pool[After(q, k)].frameNo, pool[After(q, k)].no>>] = Feed!Whole(n, sent[n])
    <2>1. ASSUME NEW k \in 0 .. pool[q].count - 1
          PROVE  <<pool[After(q, k)].frameNo, pool[After(q, k)].no>> = <<n, k>>
      <3>1. pool[After(q, k)] = Piece(pool[q], k)
        BY <1>1 DEF StartMeansWhole
      <3> QED
        BY <3>1 DEF Piece
    <2> QED
      BY <1>2, <2>1 DEF Feed!Whole
  <1>4. Feed!Deliver(r, n)
    BY <1>1, <1>2, <1>3 DEF Copy, Feed!Deliver, ring
  <1> QED
    BY <1>2, <1>4

\* Every session of every stream receives whole published frames, each newer
\* than all it had before: the ring with its laps, scans and fallbacks is an
\* implementation of FrameFeed.
THEOREM RingImplementsFeed == Spec => FeedSpec
  <1>1. Init => Feed!Init
    BY DEF Init, Feed!Init, Feed!Nothing
  <1>2. RingInv /\ [Next]_vars => [Feed!Next]_(Feed!feedVars)
    <2> SUFFICES ASSUME RingInv, [Next]_vars PROVE [Feed!Next]_(Feed!feedVars)
      OBVIOUS
    <2>1. ASSUME NEW f \in Frame, WriteVideo2Buf(f)
          PROVE  Feed!Next
      BY <2>1, WriteIsPublish DEF Feed!Next
    <2>2. ASSUME NEW r \in Readers, NEW bKeyFrame \in BOOLEAN, GetOneVideoFrame(r, bKeyFrame)
          PROVE  [Feed!Next]_(Feed!feedVars)
      <3>1. ASSUME NEW q \in Positions, Acceptable(q, want[r], bKeyFrame), Copy(r, q)
            PROVE  Feed!Next
        BY <3>1, CopyIsDeliver DEF Feed!Next
      <3>2. CASE UNCHANGED <<want, got>>
        BY <2>2, <3>2, ReadKeepsRing DEF ring, Feed!feedVars
      <3> QED
        BY <2>2, <3>1, <3>2, ReadResult DEF RingInv
    <2>3. CASE UNCHANGED vars
      BY <2>3 DEF vars, ring, sessions, Feed!feedVars
    <2> QED
      BY <2>1, <2>2, <2>3 DEF Next
  <1> QED
    BY <1>1, <1>2, RingInvariant, PTL DEF Spec, FeedSpec, Feed!Spec

-----------------------------------------------------------------------------
(* Where a session's next frame is.                                        *)

\* At the start no session waits for a numbered frame.
LEMMA PlaceInvInit == Init => PlaceInv
  <1> SUFFICES ASSUME Init PROVE PlaceInv
    OBVIOUS
  <1>1. \A p \in Positions : ~pool[p].magic
    BY DEF Init, BlankPacket
  <1>2. tick = 0 /\ \A r \in Readers : want[r] = 0
    BY DEF Init
  <1> QED
    BY <1>1, <1>2 DEF PlaceInv, OneStart, Chained, NewestEndsAtWriteEnd, CaughtUpAtWriteEnd,
                      NextFrameAtPos, IsStart

\* A start after the write: its position and what its packet says.
LEMMA StartKinds ==
    ASSUME RingInv, NEW f \in Frame, WriteVideo2Buf(f), NEW p \in Positions, IsStart(p)'
    PROVE  \/ /\ p = writeEnd
              /\ pool'[p].frameNo = tick
              /\ pool'[p].count = f.len
           \/ /\ IsStart(p)
              /\ pool'[p] = pool[p]
              /\ pool[p].frameNo \in 0 .. tick - 1
  <1> USE DEF RingInv
  <1>1. CASE /\ p = writeEnd
             /\ pool'[p] = [magic |-> TRUE, no |-> 0, count |-> f.len,
                            frameNo |-> tick, key |-> f.key]
    BY <1>1
  <1>2. CASE /\ Offset(writeEnd, p) >= f.len
             /\ IsStart(p)
             /\ pool'[p] = pool[p]
    BY <1>2 DEF PacketsOK, IsStart
  <1> QED
    BY <1>1, <1>2, StartsAfterWrite

\* A write puts the frame sessions are waiting for where they look.
LEMMA PlaceInvWrite ==
    ASSUME RingInv, PlaceInv, NEW f \in Frame, WriteVideo2Buf(f)
    PROVE  PlaceInv'
  <1> USE DEF RingInv, PlaceInv
  <1>1. /\ tick \in Nat
        /\ tick' = tick + 1
        /\ writeEnd' = After(writeEnd, f.len)
        /\ UNCHANGED <<want, pos>>
    BY DEF TypeOK, WriteVideo2Buf, sessions
  <1>2. OneStart'
    <2> SUFFICES ASSUME NEW p \in Positions, NEW q \in Positions, IsStart(p)', IsStart(q)',
                        pool'[p].frameNo = pool'[q].frameNo
                 PROVE  p = q
      BY DEF OneStart
    <2> QED
      BY <1>1, StartKinds DEF OneStart
  <1>3. Chained'
    <2> SUFFICES ASSUME NEW p \in Positions, NEW q \in Positions, IsStart(p)', IsStart(q)',
                        pool'[q].frameNo = pool'[p].frameNo + 1
                 PROVE  q = After(p, pool'[p].count)
      BY DEF Chained, After, Wrap
    <2> QED
      BY <1>1, StartKinds DEF Chained, NewestEndsAtWriteEnd
  <1>4. NewestEndsAtWriteEnd'
    <2> SUFFICES ASSUME NEW p \in Positions, IsStart(p)', pool'[p].frameNo = tick' - 1
                 PROVE  After(p, pool'[p].count) = writeEnd'
      BY DEF NewestEndsAtWriteEnd, After, Wrap
    <2> QED
      BY <1>1, StartKinds
  <1>5. CaughtUpAtWriteEnd'
    BY <1>1 DEF CaughtUpAtWriteEnd, TypeOK
  <1>6. NextFrameAtPos'
    <2> SUFFICES ASSUME NEW r \in Readers, NEW p \in Positions, want[r] # 0, IsStart(p)',
                        pool'[p].frameNo = want[r]
                 PROVE  p = pos[r]
      BY <1>1 DEF NextFrameAtPos
    <2> QED
      BY <1>1, StartKinds DEF NextFrameAtPos, CaughtUpAtWriteEnd
  <1> QED
    BY <1>2, <1>3, <1>4, <1>5, <1>6

\* A read leaves its session where the next frame is or will be.
LEMMA PlaceInvCopy ==
    ASSUME RingInv, PlaceInv, NEW r \in Readers, NEW bKeyFrame \in BOOLEAN,
           NEW q \in Positions, Acceptable(q, want[r], bKeyFrame), Copy(r, q)
    PROVE  CaughtUpAtWriteEnd' /\ NextFrameAtPos'
  <1> USE DEF RingInv, PlaceInv
  <1>1. IsStart(q) /\ pool[q].frameNo \in 0 .. tick - 1 /\ tick \in Nat
    BY DEF Acceptable, CheckTotalFrame, PacketsOK, IsStart, TypeOK
  <1>2. /\ UNCHANGED ring
        /\ want'[r] = pool[q].frameNo + 1
        /\ pos'[r] = After(q, pool[q].count)
        /\ \A o \in Readers \ {r} : want'[o] = want[o] /\ pos'[o] = pos[o]
    BY DEF Copy, Copied, TypeOK
  <1>3. CaughtUpAtWriteEnd'
    <2> SUFFICES ASSUME NEW o \in Readers
                 PROVE  /\ want'[o] <= tick
                        /\ (want'[o] # 0 /\ want'[o] = tick) => pos'[o] = writeEnd
      BY <1>2 DEF CaughtUpAtWriteEnd, ring
    <2>1. CASE o = r
      BY <1>1, <1>2, <2>1 DEF NewestEndsAtWriteEnd
    <2>2. CASE o # r
      BY <1>2, <2>2 DEF CaughtUpAtWriteEnd
    <2> QED
      BY <2>1, <2>2
  <1>4. NextFrameAtPos'
    <2> SUFFICES ASSUME NEW o \in Readers, NEW p \in Positions, want'[o] # 0, IsStart(p),
                        pool[p].frameNo = want'[o]
                 PROVE  p = pos'[o]
      BY <1>2 DEF NextFrameAtPos, ring, IsStart
    <2>1. CASE o = r
      BY <1>1, <1>2, <2>1 DEF Chained
    <2>2. CASE o # r
      BY <1>2, <2>2 DEF NextFrameAtPos
    <2> QED
      BY <2>1, <2>2
  <1> QED
    BY <1>3, <1>4

\* Every step keeps the places.
LEMMA PlaceInvNext == RingInv /\ PlaceInv /\ [Next]_vars => PlaceInv'
  <1> SUFFICES ASSUME RingInv, PlaceInv, [Next]_vars PROVE PlaceInv'
    OBVIOUS
  <1>1. ASSUME NEW f \in Frame, WriteVideo2Buf(f)
        PROVE  PlaceInv'
    BY <1>1, PlaceInvWrite
  <1>2. ASSUME UNCHANGED ring
        PROVE  OneStart' /\ Chained' /\ NewestEndsAtWriteEnd'
    BY <1>2 DEF PlaceInv, ring, OneStart, Chained, NewestEndsAtWriteEnd, IsStart, After, Wrap
  <1>3. ASSUME UNCHANGED <<ring, want, pos>>
        PROVE  CaughtUpAtWriteEnd' /\ NextFrameAtPos'
    BY <1>3 DEF PlaceInv, ring, CaughtUpAtWriteEnd, NextFrameAtPos, IsStart
  <1>4. ASSUME NEW r \in Readers, NEW bKeyFrame \in BOOLEAN, GetOneVideoFrame(r, bKeyFrame)
        PROVE  PlaceInv'
    <2>1. UNCHANGED ring
      BY <1>4, ReadKeepsRing
    <2>2. ASSUME NEW q \in Positions, Acceptable(q, want[r], bKeyFrame), Copy(r, q)
          PROVE  CaughtUpAtWriteEnd' /\ NextFrameAtPos'
      BY <2>2, PlaceInvCopy
    <2>3. ASSUME UNCHANGED want, pos' = pos
          PROVE  CaughtUpAtWriteEnd' /\ NextFrameAtPos'
      BY <1>3, <2>1, <2>3
    <2>4. TypeOK
      BY DEF RingInv
    <2>5. CaughtUpAtWriteEnd' /\ NextFrameAtPos'
      BY <1>4, <2>2, <2>3, <2>4, ReadResult
    <2> QED
      BY <1>2, <2>1, <2>5 DEF PlaceInv
  <1>5. CASE UNCHANGED vars
    BY <1>2, <1>3, <1>5 DEF vars, sessions, PlaceInv
  <1> QED
    BY <1>1, <1>4, <1>5 DEF Next

\* A session's next frame, while the ring has it, is where its last one ended,
\* whatever the sizes of the frames and however often the ring was lapped.
THEOREM NextFrameIsAtPos == Spec => []NextFrameAtPos
  <1>1. PlaceInv => NextFrameAtPos
    BY DEF PlaceInv
  <1> QED
    BY <1>1, RingInvariant, PlaceInvInit, PlaceInvNext, PTL DEF Spec
\* A scan that finds its frame finds it at the first step, so no reduction by
\* the main stream's packet count takes place.
LEMMA SearchStops == TypeOK /\ NextFrameAtPos => SearchStaysInPool
  <1> SUFFICES ASSUME TypeOK, NextFrameAtPos, NEW r \in Readers, NEW bKeyFrame \in BOOLEAN
               PROVE  GetOneVideoPos(want[r], bKeyFrame, pos[r]) \in Positions \cup {NoPos}
    BY DEF SearchStaysInPool
  <1> DEFINE n == want[r]
             b == pos[r]
  <1>1. b \in Positions /\ iBegin \in Positions /\ SearchFrom(b) = b
    BY DEF TypeOK, SearchFrom
  <1>2. ASSUME n # 0
        PROVE  FindByTimeTick(n, b) \in Positions
    <2>1. CASE Hits(n, b) = {}
      BY <1>1, <2>1 DEF FindByTimeTick
    <2>2. CASE Hits(n, b) # {}
      <3>1. ASSUME NEW i \in Hits(n, b)
            PROVE  i = 0
        <4>1. i \in Positions /\ After(b, i) \in Positions
          BY <1>1, OffsetOfAfter DEF Hits
        <4>2. After(b, i) = b
          BY <1>2, <4>1 DEF Hits, NextFrameAtPos
        <4>3. Offset(b, b) = i
          BY <1>1, <4>1, <4>2, OffsetOfAfter
        <4> QED
          BY <1>1, <4>3, OffsetBounds
      <3>2. Hits(n, b) = {0}
        BY <2>2, <3>1
      <3>3. (CHOOSE i \in Hits(n, b) : \A j \in Hits(n, b) : i <= j) = 0
        BY <3>2
      <3>4. Wrap(b + 0, MainCount) = b
        BY <1>1, PoolAssumption DEF Wrap, Positions
      <3> QED
        BY <1>1, <2>2, <3>3, <3>4 DEF FindByTimeTick
    <2> QED
      BY <2>1, <2>2
  <1> QED
    BY <1>1, <1>2 DEF GetOneVideoPos, Searches

\* A search ends inside its own pool, on a main stream and on a sub stream,
\* although a sub stream's hit is reduced by the main stream's packet count.
THEOREM SearchInPool == Spec => []SearchStaysInPool
  <1> QED
    BY TypeCorrect, NextFrameIsAtPos, SearchStops, PTL

-----------------------------------------------------------------------------
(* What a request for a key frame finds.                                   *)

\* At the start there is no I frame.
LEMMA KeyInvInit == Init => KeyInv
  <1> SUFFICES ASSUME Init PROVE KeyInv
    OBVIOUS
  <1>1. \A p \in Positions : ~pool[p].magic
    BY DEF Init, BlankPacket
  <1> QED
    BY <1>1 DEF KeyInv, IsStart

\* The newest key frame after the write is the one before, or the one written.
LEMMA NewestKeyWrite ==
    ASSUME RingInv, NEW f \in Frame, WriteVideo2Buf(f), NEW n \in 0 .. tick
    PROVE  /\ f.key => (NewestKeyOf(sent', tick', n) <=> n = tick)
           /\ ~f.key => (NewestKeyOf(sent', tick', n)
                           <=> (n # tick /\ NewestKeyOf(sent, tick, n)))
  <1> USE DEF RingInv
  <1>1. /\ tick \in Nat
        /\ tick' = tick + 1
        /\ sent'[tick] = f
        /\ \A m \in 0 .. tick - 1 : sent'[m] = sent[m]
    BY SentOKWrite DEF TypeOK
  <1>2. NewestKeyOf(sent', tick', n) <=> (sent'[n].key /\ \A m \in n + 1 .. tick : ~sent'[m].key)
    BY <1>1 DEF NewestKeyOf
  <1>3. CASE n = tick
    BY <1>1, <1>2, <1>3
  <1>4. CASE n # tick
    <2>1. n \in 0 .. tick - 1 /\ tick \in n + 1 .. tick
      BY <1>1, <1>4
    <2>2. sent'[n] = sent[n] /\ \A m \in n + 1 .. tick - 1 : sent'[m] = sent[m]
      BY <1>1, <2>1
    <2>3. \A m : m \in n + 1 .. tick <=> (m = tick \/ m \in n + 1 .. tick - 1)
      BY <1>1, <2>1
    <2> QED
      BY <1>1, <1>2, <1>4, <2>1, <2>2, <2>3 DEF NewestKeyOf
  <1> QED
    BY <1>3, <1>4

\* A write moves nLastIFrameBegin exactly when it writes an I frame.
LEMMA KeyInvWrite ==
    ASSUME RingInv, KeyInv, NEW f \in Frame, WriteVideo2Buf(f)
    PROVE  KeyInv'
  <1> SUFFICES ASSUME NEW p \in Positions, IsStart(p)'
               PROVE  /\ NewestKeyOf(sent', tick', pool'[p].frameNo) => p = iBegin'
                      /\ (p = iBegin' /\ pool'[p].key)
                           => NewestKeyOf(sent', tick', pool'[p].frameNo)
    BY DEF KeyInv, NewestKeyOf
  <1>1. /\ tick \in Nat
        /\ iBegin' = IF f.key THEN writeEnd ELSE iBegin
        /\ writeEnd \in Positions
    BY DEF RingInv, TypeOK, WriteVideo2Buf, LastIFrameBegin
  <1>2. CASE /\ p = writeEnd
             /\ pool'[p] = [magic |-> TRUE, no |-> 0, count |-> f.len,
                            frameNo |-> tick, key |-> f.key]
    <2>1. pool'[p].frameNo = tick /\ pool'[p].key = f.key /\ tick \in 0 .. tick
      BY <1>1, <1>2
    <2>2. /\ f.key => NewestKeyOf(sent', tick', tick)
          /\ ~f.key => ~NewestKeyOf(sent', tick', tick)
      BY <2>1, NewestKeyWrite
    <2> QED
      BY <1>1, <1>2, <2>1, <2>2
  <1>3. CASE /\ Offset(writeEnd, p) >= f.len
             /\ IsStart(p)
             /\ pool'[p] = pool[p]
    <2> DEFINE n == pool[p].frameNo
    <2>1. n \in 0 .. tick - 1
      BY <1>3 DEF RingInv, PacketsOK, IsStart
    <2>2. n \in 0 .. tick /\ n # tick
      BY <1>1, <2>1
    <2>3. /\ f.key => ~NewestKeyOf(sent', tick', n)
          /\ ~f.key => (NewestKeyOf(sent', tick', n) <=> NewestKeyOf(sent, tick, n))
      BY <2>2, NewestKeyWrite
    <2>4. f.key => p # writeEnd
      <3>1. f.len \in 1 .. PoolCount
        BY DEF Frame
      <3> QED
        BY <1>1, <1>3, <3>1, OffsetBounds, PoolAssumption
    <2> QED
      BY <1>1, <1>3, <2>3, <2>4 DEF KeyInv
  <1> QED
    BY <1>2, <1>3, StartsAfterWrite DEF RingInv

\* Every step keeps the place of the newest I frame.
LEMMA KeyInvNext == RingInv /\ KeyInv /\ [Next]_vars => KeyInv'
  <1> SUFFICES ASSUME RingInv, KeyInv, [Next]_vars PROVE KeyInv'
    OBVIOUS
  <1>1. ASSUME NEW f \in Frame, WriteVideo2Buf(f)
        PROVE  KeyInv'
    BY <1>1, KeyInvWrite
  <1>2. ASSUME UNCHANGED ring
        PROVE  KeyInv'
    BY <1>2 DEF KeyInv, ring, IsStart, NewestKeyOf
  <1> QED
    BY <1>1, <1>2, ReadKeepsRing DEF Next, vars

\* What that place is good for.
LEMMA KeyInvUse == RingInv /\ KeyInv => KeyRequestGetsNewestKey
  <1> SUFFICES ASSUME RingInv, KeyInv, NEW r \in Readers, NEW n \in 0 .. tick - 1, NewestKey(n)
               PROVE  /\ Acceptable(iBegin, want[r], TRUE) => pool[iBegin].frameNo = n
                      /\ InRing(n) /\ want[r] <= n /\ sent[n].len <= BufUnits
                           => Acceptable(iBegin, want[r], TRUE)
    BY DEF KeyRequestGetsNewestKey, GetOneVideoPos, Searches
  <1> USE DEF RingInv
  <1>1. tick \in Nat /\ iBegin \in Positions
    BY DEF TypeOK
  <1>2. ASSUME Acceptable(iBegin, want[r], TRUE)
        PROVE  pool[iBegin].frameNo = n
    <2>1. IsStart(iBegin) /\ pool[iBegin].key
      BY <1>2 DEF Acceptable, CheckTotalFrame
    <2>2. NewestKey(pool[iBegin].frameNo) /\ pool[iBegin].frameNo \in 0 .. tick - 1
      BY <1>1, <2>1 DEF KeyInv, PacketsOK, IsStart, NewestKey, NewestKeyOf
    <2>3. \A i, j \in 0 .. tick - 1 : NewestKey(i) /\ NewestKey(j) => ~(i < j)
      BY <1>1 DEF NewestKey
    <2> QED
      BY <1>1, <2>2, <2>3
  <1>3. ASSUME InRing(n), want[r] <= n, sent[n].len <= BufUnits
        PROVE  Acceptable(iBegin, want[r], TRUE)
    <2>1. PICK p \in Positions : IsStart(p) /\ pool[p].frameNo = n
      BY <1>3 DEF InRing
    <2>2. p = iBegin
      BY <2>1 DEF KeyInv, NewestKey, NewestKeyOf
    <2>3. /\ pool[p].count \in 1 .. PoolCount
          /\ pool[After(p, pool[p].count - 1)] = Piece(pool[p], pool[p].count - 1)
      <3>1. /\ pool[p].count \in 1 .. PoolCount
            /\ \A k \in 0 .. pool[p].count - 1 : pool[After(p, k)] = Piece(pool[p], k)
        BY <2>1 DEF StartMeansWhole
      <3>2. pool[p].count - 1 \in 0 .. pool[p].count - 1
        BY <3>1, PoolAssumption
      <3> QED
        BY <3>1, <3>2
    <2>4. CheckTotalFrame(p)
      BY <2>1, <2>3, PoolAssumption DEF CheckTotalFrame, Piece
    <2>5. sent[n].len = pool[p].count /\ sent[n].key = pool[p].key
      BY <2>1 DEF PacketsOK, IsStart
    <2> QED
      BY <1>3, <2>1, <2>2, <2>4, <2>5 DEF Acceptable, NewestKey
  <1> QED
    BY <1>2, <1>3

\* nLastIFrameBegin is never reset, and yet a key-frame request never gets
\* anything but the newest I frame, and gets it whenever it can be had.
THEOREM KeyRequestIsRight == Spec => []KeyRequestGetsNewestKey
  <1> QED
    BY RingInvariant, KeyInvInit, KeyInvNext, KeyInvUse, PTL DEF Spec

=============================================================================
