------------------------------ MODULE FrameFeed ------------------------------
(***************************************************************************)
(* What a video stream of the network buffer promises to the RTSP sessions *)
(* that read it, with no buffer in sight: frames are numbered 0, 1, 2, ... *)
(* as the encoder publishes them, a session may miss frames, and whatever  *)
(* a session receives is one whole published frame, never older than the   *)
(* one it asked for.                                                       *)
(***************************************************************************)
EXTENDS Naturals

CONSTANTS Readers,   \* the RTSP sessions
          Frame      \* the descriptions of frames: [len : number of units, key : BOOLEAN]

VARIABLES sent,      \* sent[n] is the frame that was published with number n
          tick,      \* the number of frames published so far
          want,      \* want[r] is the lowest frame number session r will take next
          got        \* got[r] is what session r received last, unit by unit

feedVars == <<sent, tick, want, got>>

Numbers == 0 .. tick - 1

\* The units of the whole frame n: unit k of it, for every k.
Whole(n, f) == [k \in 0 .. f.len - 1 |-> <<n, k>>]

Nothing == [k \in {} |-> <<0, 0>>]

Init == /\ tick = 0
        /\ sent = [n \in {} |-> 0]
        /\ want = [r \in Readers |-> 0]
        /\ got = [r \in Readers |-> Nothing]

Publish(f) == /\ tick' = tick + 1
              /\ sent' = [n \in 0 .. tick |-> IF n = tick THEN f ELSE sent[n]]
              /\ UNCHANGED <<want, got>>

Deliver(r, n) == /\ n \in Numbers
                 /\ n >= want[r]
                 /\ got' = [got EXCEPT ![r] = Whole(n, sent[n])]
                 /\ want' = [want EXCEPT ![r] = n + 1]
                 /\ UNCHANGED <<sent, tick>>

Next == \/ \E f \in Frame : Publish(f)
        \/ \E r \in Readers : \E n \in Numbers : Deliver(r, n)

Spec == Init /\ [][Next]_feedVars
=============================================================================
