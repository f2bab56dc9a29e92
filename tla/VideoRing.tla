------------------------------ MODULE VideoRing ------------------------------
(***************************************************************************)
(* One video stream of a channel: the ring of fixed-size packets that the  *)
(* encoder callback fills (WriteVideo2Buf for the main stream and          *)
(* WriteFrameSub for the sub stream, which are the same code on two sets   *)
(* of fields) and that the RTSP sessions read (GetOneVideoFrame).          *)
(*                                                                         *)
(* Both sides work under the stream's mutex muVideoWriteRead[Sub] from     *)
(* their first access to the ring to their last, so a write and a read     *)
(* are one step each.  The module begins after InitStream has allocated    *)
(* the pool; nothing in the sources stops a stream again.                  *)
(*                                                                         *)
(* A packet is its header; its payload is the piece of the frame that the  *)
(* header names, written in the same iteration of the same loop.           *)
(*                                                                         *)
(* The RTSP sessions live in a library that is not part of the sources.    *)
(* They go by the interface: ask for number 0 (any frame) first, then for  *)
(* the number after the one received, and hand back the last position.     *)
(***************************************************************************)
EXTENDS Integers

CONSTANTS Readers,    \* the RTSP sessions that read this stream
          PoolCount,  \* nPoolVideoCount, or nPoolVideoCountSub for a sub stream
          MainCount,  \* nPoolVideoCount, whichever stream this is
          BufUnits,   \* the size of a session's frame buffer, in packets
          MaxTick     \* bound: the number of frames the encoder produces

\* InitStream gives both pools the configured size and caps the sub pool.
ASSUME PoolAssumption ==
    /\ PoolCount \in Nat \ {0}
    /\ MainCount \in Nat
    /\ PoolCount <= MainCount
    /\ BufUnits \in Nat
    /\ MaxTick \in Nat

VARIABLES pool,        \* pPoolVideoPacket: position -> packet
          writeBegin,  \* nWriteVideoBegin: where the newest frame starts
          writeEnd,    \* nWriteVideoEnd: where the next frame will start
          tick,        \* nVideoFrameTick: the number of the next frame
          iBegin,      \* nLastIFrameBegin: where the newest I frame was written
          want,        \* per session: nVideoFrmNo of its next request
          pos,         \* per session: *nLastVideoPos, where it looks first
          got,         \* per session: the packets copied by its last successful read
          sent         \* history: the frames written, by number

ring == <<pool, writeBegin, writeEnd, tick, iBegin, sent>>
sessions == <<want, pos, got>>
vars == <<ring, sessions>>

-----------------------------------------------------------------------------
(* Packets and positions.                                                  *)

Positions == 0 .. PoolCount - 1

\* i % m for the sums of two positions, which are below 2 * m
Wrap(i, m) == IF i < m THEN i ELSE i - m

\* how far position p lies after position b, going round the ring
Offset(b, p) == IF p >= b THEN p - b ELSE p + PoolCount - b

\* NET_PACKET_HEAD: nNetFlag is the magic, nPakcetNo, nPakcetCount, nFrameNo,
\* and the stream flag of the frame head (STREAM_FLAG_VI or not)
Packet == [magic : BOOLEAN, no : Nat, count : Nat, frameNo : Nat, key : BOOLEAN]

\* the pools are zeroed when they are allocated
BlankPacket == [magic |-> FALSE, no |-> 0, count |-> 0, frameNo |-> 0, key |-> FALSE]

Frame == [len : 1 .. PoolCount, key : BOOLEAN]

\* the first packet of a frame
IsStart(p) == pool[p].magic /\ pool[p].no = 0

-----------------------------------------------------------------------------
(* The writer.                                                             *)

\* a mutation of PacketOf: the count of the full packets and one more, also
\* for a frame that fills its last packet
PacketOfRoundedUp(f, k) ==
    [magic |-> TRUE, no |-> k, count |-> f.len + 1, frameNo |-> tick, key |-> f.key]

\* packet k of frame f, which is the frame number tick
PacketOf(f, k) ==
    [magic |-> TRUE, no |-> k, count |-> f.len, frameNo |-> tick, key |-> f.key]

\* a mutation of After: not brought back into the ring
AfterUnwrapped(p, n) == p + n

\* the position n packets after p, for n <= PoolCount
After(p, n) == Wrap(p + n, PoolCount)

\* a mutation of LastIFrameBegin: taken after the write pointer has moved
EndOfIFrame(f) == IF f.key THEN After(writeEnd, f.len) ELSE iBegin

\* where the newest I frame starts once frame f is written
LastIFrameBegin(f) == IF f.key THEN writeEnd ELSE iBegin

\* The encoder is outside the sources: its first frame is an I frame.
Encodes(f) == tick = 0 => f.key

\* WriteVideo2Buf / WriteFrameSub: the frame is cut into f.len packets that go
\* to consecutive positions from writeEnd on, whatever they held.  A frame of
\* more packets than the pool is refused before anything changes, so Frame has
\* none.  The I frame's end, cycle and count and nWriteVideoCycle are written
\* and never read; they are left out.
WriteVideo2Buf(f) ==
    /\ tick < MaxTick                                      \* bound
    /\ Encodes(f)
    /\ pool' = [p \in Positions |-> IF Offset(writeEnd, p) < f.len
                                    THEN PacketOf(f, Offset(writeEnd, p))
                                    ELSE pool[p]]
    /\ writeBegin' = writeEnd
    /\ writeEnd' = After(writeEnd, f.len)
    /\ tick' = tick + 1
    /\ iBegin' = LastIFrameBegin(f)
    /\ sent' = [n \in 0 .. tick |-> IF n = tick THEN f ELSE sent[n]]
    /\ UNCHANGED sessions

-----------------------------------------------------------------------------
(* The reader.  NoPos stands for the negative results.                     *)

NoPos == -1

\* the steps of FindByTimeTick's scan from position b that meet frame n's start
Hits(n, b) == {i \in Positions : IsStart(After(b, i)) /\ pool[After(b, i)].frameNo = n}

\* FindByTimeTick: scan the pool from b for the start of frame n, and settle
\* for the newest I frame when it is not there.  Both streams reduce the
\* position found by the MAIN stream's packet count.
FindByTimeTick(n, b) ==
    IF Hits(n, b) = {} THEN iBegin
    ELSE LET first == CHOOSE i \in Hits(n, b) : \A j \in Hits(n, b) : i <= j
         IN  Wrap(b + first, MainCount)

\* a last position outside the ring is replaced by the newest frame's
SearchFrom(p) == IF p \in Positions THEN p ELSE writeBegin

\* whether GetOneVideoPos searches for frame n, or takes the newest I frame
Searches(n, bKeyFrame) == n # 0 /\ ~bKeyFrame

\* GetOneVideoPos.  FindByTimeTick finds that frame n is not written yet only
\* when the first test does, under the same mutex.
GetOneVideoPos(n, bKeyFrame, p) ==
    IF ~Searches(n, bKeyFrame) THEN iBegin
    ELSE IF n >= tick THEN NoPos
    ELSE FindByTimeTick(n, SearchFrom(p))

\* CheckTotalFrame: the frame's first and last packet belong together
CheckTotalFrame(q) ==
    /\ IsStart(q)
    /\ LET last == pool[After(q, pool[q].count - 1)]
       IN  /\ last.magic
           /\ last.no + 1 = last.count
           /\ last.frameNo = pool[q].frameNo

\* mutations of Acceptable: the requested number is not compared, or excluded
NoNumberCheck(q, n, bKeyFrame) ==
    /\ CheckTotalFrame(q)
    /\ pool[q].count <= BufUnits
    /\ bKeyFrame => pool[q].key
OnlyNewer(q, n, bKeyFrame) ==
    /\ NoNumberCheck(q, n, bKeyFrame)
    /\ n < pool[q].frameNo

\* what GetOneVideoFrame requires of the packet at the position it was given
Acceptable(q, n, bKeyFrame) ==
    /\ CheckTotalFrame(q)
    /\ pool[q].count <= BufUnits
    /\ n <= pool[q].frameNo
    /\ bKeyFrame => pool[q].key

\* a mutation of Copied: the position is left at the start of the frame read
StartOf(q) == q

\* where CopyTotalFrame leaves the last position: behind the frame at q
Copied(q) == After(q, pool[q].count)

\* a successful read: CopyTotalFrame copies as many packets as the first one
\* announces; the session goes on with the number after the one it got
Copy(r, q) ==
    /\ got' = [got EXCEPT ![r] = [k \in 0 .. pool[q].count - 1 |->
                 <<pool[After(q, k)].frameNo, pool[After(q, k)].no>>]]
    /\ pos' = [pos EXCEPT ![r] = Copied(q)]
    /\ want' = [want EXCEPT ![r] = pool[q].frameNo + 1]
    /\ UNCHANGED ring

\* a read that returns no frame may still have replaced the last position
Miss(r, bKeyFrame) ==
    /\ pos' = [pos EXCEPT ![r] =
                 IF Searches(want[r], bKeyFrame) /\ want[r] < tick THEN SearchFrom(@) ELSE @]
    /\ UNCHANGED <<ring, want, got>>

\* GetOneVideoFrame: a position beyond the pool holds a null pointer (-5)
GetOneVideoFrame(r, bKeyFrame) ==
    LET q == GetOneVideoPos(want[r], bKeyFrame, pos[r])
    IN  IF q \in Positions /\ Acceptable(q, want[r], bKeyFrame)
        THEN Copy(r, q)
        ELSE Miss(r, bKeyFrame)

-----------------------------------------------------------------------------
Init ==
    /\ pool = [p \in Positions |-> BlankPacket]
    /\ writeBegin = 0
    /\ writeEnd = 0
    /\ tick = 0
    /\ iBegin = 0
    /\ sent = [n \in {} |-> 0]
    /\ want = [r \in Readers |-> 0]
    /\ pos = [r \in Readers |-> 0]
    /\ got = [r \in Readers |-> [k \in {} |-> <<0, 0>>]]

Next ==
    \/ \E f \in Frame : WriteVideo2Buf(f)
    \/ \E r \in Readers, bKeyFrame \in BOOLEAN : GetOneVideoFrame(r, bKeyFrame)

Spec == Init /\ [][Next]_vars

\* A session polls for its next frame for as long as it plays.
FairSpec == Spec /\ \A r \in Readers : WF_vars(GetOneVideoFrame(r, FALSE))

-----------------------------------------------------------------------------
(* Properties.                                                             *)

TypeOK ==
    /\ pool \in [Positions -> Packet]
    /\ writeBegin \in Positions
    /\ writeEnd \in Positions
    /\ tick \in Nat
    /\ iBegin \in Positions
    /\ want \in [Readers -> Nat]
    /\ pos \in [Readers -> Positions]

\* The whole frame is in the ring wherever its first packet is: the writer,
\* which goes round the ring without looking at what it overwrites, always
\* destroys a frame's first packet first.  This is what lets CheckTotalFrame
\* look at two packets and CopyTotalFrame copy all of them.
Piece(first, k) ==
    [magic |-> TRUE, no |-> k, count |-> first.count, frameNo |-> first.frameNo,
     key |-> first.key]
StartMeansWhole ==
    \A p \in Positions : IsStart(p) =>
        /\ pool[p].count \in 1 .. PoolCount
        /\ \A k \in 0 .. pool[p].count - 1 :
             pool[After(p, k)] = Piece(pool[p], k)

\* A frame that a session is waiting for and that is in the ring starts
\* exactly where the session's last frame ended.  So the scan of
\* FindByTimeTick always hits at its first step.
NextFrameAtPos ==
    \A r \in Readers, p \in Positions :
        (want[r] # 0 /\ IsStart(p) /\ pool[p].frameNo = want[r]) => p = pos[r]

\* A search never leaves the pool of its own stream, although the sub stream's
\* hit is reduced by the main stream's packet count (a position beyond the sub
\* pool is a null pointer and ends the read with -5).
SearchStaysInPool ==
    \A r \in Readers, bKeyFrame \in BOOLEAN :
        GetOneVideoPos(want[r], bKeyFrame, pos[r]) \in Positions \cup {NoPos}

\* A request for a key frame gives the newest I frame ever written or nothing,
\* and it does give it when the frame is still in the ring, is not older than
\* what was asked for and fits.  nLastIFrameBegin is not reset when the writer
\* laps the I frame, so this rests on what the position holds by then.
InRing(n) == \E p \in Positions : IsStart(p) /\ pool[p].frameNo = n
NewestKey(n) == sent[n].key /\ \A m \in n + 1 .. tick - 1 : ~sent[m].key
KeyRequestGetsNewestKey ==
    \A r \in Readers, n \in 0 .. tick - 1 : NewestKey(n) =>
        LET q == GetOneVideoPos(want[r], TRUE, pos[r])
        IN  /\ Acceptable(q, want[r], TRUE) => pool[q].frameNo = n
            /\ InRing(n) /\ want[r] <= n /\ sent[n].len <= BufUnits
                 => Acceptable(q, want[r], TRUE)

\* What a session receives is a whole published frame, newer than all it had.
Feed == INSTANCE FrameFeed
FeedSpec == Feed!Spec

\* A frame that a session is due for, that fits its buffer and is in the ring,
\* is delivered unless the writer laps the session first.
Due(r, n) == want[r] = n /\ n > 0 /\ InRing(n) /\ sent[n].len <= BufUnits
ServedOrLapped ==
    \A r \in Readers : \A n \in 1 .. MaxTick :
        Due(r, n) ~> (want[r] > n \/ ~InRing(n))

\* A session that joins, or that lost its place because the writer lapped it,
\* starts at an I frame (the comments on GetOneVideoPos and FindByTimeTick).
JoinOrSkipAtKey ==
    [][\A r \in Readers :
         (want'[r] # want[r] /\ (want[r] = 0 \/ want'[r] # want[r] + 1))
            => sent[want'[r] - 1].key]_vars
=============================================================================
