-------------------------- MODULE RtspClientProofs --------------------------
(***************************************************************************)
(* The safety properties of RtspClient, proved for any number of streams,  *)
(* any limit, and whether or not the library forces connections down.      *)
(***************************************************************************)
EXTENDS RtspClient, TLAPS

\* before end_4: the fields and what they stand for go together
Up == pc \in {"init", "loop", "store", "size", "destroy", "clear"}

\* where the supervisor is in the middle of a visit, and the overlay thread's
\* life within the supervisor's
PlaceInv ==
    /\ pc \in {"store", "size", "destroy", "clear", "unwind"} => i < StreamNum
    /\ pc = "store" => status[i] \in {"LINKED", "WORDWELL"}
    /\ pc = "size" => status[i] \in {"LINKED", "LINKDOWN"} /\ ~encode_create[i]
    /\ pc \in {"destroy", "clear"} => status[i] = "LINKDOWN" /\ ~linked[i]
    /\ pc = "init" => osdPc = "none" /\ \A s \in Streams :
          status[s] = "UNINIT" \/ (status[s] = "UNLINK" /\ s < i)
    /\ pc \in {"unwind", "end"} => osdPc \in {"none", "gone"}

\* the encoder of stream s, field by field, in each status
EncodeInv(s) ==
    /\ status[s] \in {"UNINIT", "UNLINK", "LINKED"} => ~width[s]
    /\ status[s] = "GETVD" => width[s]
    /\ status[s] \in {"UNINIT", "UNLINK", "LINKED", "GETVD"} => ~encode_create[s]
    /\ status[s] = "WORDWELL" => encode_create[s]
    /\ status[s] = "LINKDOWN" /\ width[s] => encode_create[s]
    /\ IF encode_create[s] /\ ~(pc = "clear" /\ i = s)
       THEN venc[s] /\ osd[s]
       ELSE ~venc[s] /\ ~osd[s]

\* the connection and the lamp of stream s in each status
LinkInv(s) ==
    /\ status[s] \in {"UNINIT", "UNLINK"} => ~linked[s]
    /\ status[s] \in {"LINKED", "GETVD", "WORDWELL"} => linked[s]
    /\ status[s] = "LINKDOWN" /\ ~(pc \in {"destroy", "clear"} /\ i = s) => linked[s]
    /\ led[s] => s \in {0, 1} /\ status[s] \in {"WORDWELL", "LINKDOWN"}
                 /\ encode_create[s] /\ linked[s] /\ ~(pc = "clear" /\ i = s)

\* what end_4 has still to take down hangs on a connection
EndInv ==
    /\ pc = "end_4" => \A s \in Streams :
          IF s < i THEN ~venc[s] /\ ~osd[s] /\ ~linked[s]
                   ELSE venc[s] \/ osd[s] => linked[s]
    /\ pc \in {"unwind", "end"} => \A s \in Streams :
          ~venc[s] /\ ~osd[s] /\ ~linked[s]

\* a stream that is in the game has its window until the windows go
WindowInv ==
    /\ pc \notin {"unwind", "end"} =>
          \A s \in Streams : window[s] \/ status[s] = "UNINIT"
    /\ osdPc \in {"check", "draw"} => window[osdIdx]

\* only GETVD counts past the limit, and what a late frame writes back is
\* what it read less one
TimerInv ==
    /\ \A s \in Streams :
          /\ cb[s] = "load" => timer[s] >= 0
          /\ cb[s] = "store" => cbT[s] >= 0
          /\ status[s] \in {"UNINIT", "UNLINK", "LINKED", "GETVD"} =>
                timer[s] <= StreamTimeout + 1
    /\ pc \in {"size", "destroy", "clear"} => timer[i] <= StreamTimeout + 1
    /\ pc = "store" => t <= StreamTimeout + (IF status[i] = "LINKED" THEN 0 ELSE 1)

IInv ==
    /\ TypeOK
    /\ PlaceInv
    /\ Up => \A s \in Streams : EncodeInv(s) /\ LinkInv(s)
    /\ EndInv
    /\ WindowInv
    /\ TimerInv

-----------------------------------------------------------------------------
(* Types.                                                                  *)

\* Every step keeps the types; the timer needs the bounds of TimerInv.
LEMMA TypeStep == ASSUME IInv, Next PROVE TypeOK'
  <1> USE ClientAssumption DEF IInv, stream, media, TypeOK, PlaceInv
  <1>1. CASE InitStream
    <2> USE <1>1 DEF InitStream, Visit, NextStream
    <2>0. i \in Streams
      BY DEF Streams
    <2>1. i' \in 0 .. StreamNum
      BY <2>0 DEF Set, Statuses
    <2>2. status' \in [Streams -> Statuses]
      BY <2>0 DEF Set, Statuses
    <2>3. window' \in [Streams -> BOOLEAN]
      BY <2>0 DEF Set, Statuses
    <2> QED
      BY <2>0, <2>1, <2>2, <2>3
  <1>2. CASE StartThreads
    BY <1>2 DEF StartThreads, None
  <1>3. CASE TestRunFlag
    BY <1>3 DEF TestRunFlag
  <1>4. CASE VisitUninit
    BY <1>4 DEF VisitUninit, Visit, NextStream, Streams
  <1>5. CASE VisitUnlink
    <2> USE <1>5 DEF VisitUnlink, Visit, NextStream
    <2>0. i \in Streams
      BY DEF Streams
    <2>1. status' \in [Streams -> Statuses]
      BY <2>0 DEF Set, Statuses
    <2>2. linked' \in [Streams -> BOOLEAN]
      BY <2>0 DEF Set, Statuses
    <2> QED
      BY <2>0, <2>1, <2>2
  <1>6. CASE VisitLinked
    <2> USE <1>6 DEF VisitLinked, Visit, NextStream
    <2>0. i \in Streams
      BY DEF Streams
    <2>1. status' \in [Streams -> Statuses]
      BY <2>0 DEF Set, Statuses
    <2> QED
      BY <2>0, <2>1
  <1>7. CASE LookForPicture
    <2> USE <1>7 DEF LookForPicture, Visit, NextStream
    <2>0. i \in Streams
      BY DEF Streams
    <2>1. width' \in [Streams -> BOOLEAN]
      BY <2>0 DEF Set, Statuses
    <2>2. status' \in [Streams -> Statuses]
      BY <2>0 DEF Set, Statuses
    <2> QED
      BY <2>0, <2>1, <2>2
  <1>8. CASE VisitGetVd
    <2> USE <1>8 DEF VisitGetVd, Visit, NextStream
    <2>0. i \in Streams
      BY DEF Streams
    <2>1. i' \in 0 .. StreamNum
      BY <2>0 DEF Set, Statuses
    <2>2. t' \in Timers
      BY <2>0 DEF Set, Statuses
    <2>3. venc' \in [Streams -> BOOLEAN]
      BY <2>0 DEF Set, Statuses
    <2>4. osd' \in [Streams -> BOOLEAN]
      BY <2>0 DEF Set, Statuses
    <2>5. encode_create' \in [Streams -> BOOLEAN]
      BY <2>0 DEF Set, Statuses
    <2>6. status' \in [Streams -> Statuses]
      BY <2>0 DEF Set, Statuses
    <2> QED
      BY <2>0, <2>1, <2>2, <2>3, <2>4, <2>5, <2>6
  <1>9. CASE VisitWordwell
    <2> USE <1>9 DEF VisitWordwell, Visit, NextStream
    <2>0. i \in Streams
      BY DEF Streams
    <2>1. i' \in 0 .. StreamNum
      BY <2>0 DEF Set, Statuses
    <2>2. t' \in Timers
      BY <2>0 DEF Timers
    <2>3. led' \in [Streams -> BOOLEAN]
      BY <2>0 DEF Set, Statuses
    <2>4. status' \in [Streams -> Statuses]
      BY <2>0 DEF Set, Statuses
    <2> QED
      BY <2>0, <2>1, <2>2, <2>3, <2>4
  <1>10. CASE VisitLinkDown
    <2> USE <1>10 DEF VisitLinkDown, Visit, NextStream
    <2>0. i \in Streams
      BY DEF Streams
    <2>1. led' \in [Streams -> BOOLEAN]
      BY <2>0 DEF Set, Statuses
    <2>2. linked' \in [Streams -> BOOLEAN]
      BY <2>0 DEF Set, Statuses
    <2>3. timer' \in [Streams -> Timers]
      BY <2>0 DEF Timers, Set
    <2>4. have_vd' \in [Streams -> BOOLEAN]
      BY <2>0 DEF Set, Statuses
    <2> QED
      BY <2>0, <2>1, <2>2, <2>3, <2>4
  <1>11. CASE StoreTimer
    <2> USE <1>11 DEF StoreTimer, Visit, NextStream
    <2>0. i \in Streams
      BY DEF Streams
    <2>1. t' \in Timers
      BY <2>0 DEF Timers
    <2>2. timer' \in [Streams -> Timers]
      BY <2>0 DEF Timers, TimerInv, Set
    <2>3. i' \in 0 .. StreamNum
      BY <2>0 DEF Set, Statuses
    <2> QED
      BY <2>0, <2>1, <2>2, <2>3
  <1>12. CASE DestroyEncode
    BY <1>12 DEF DestroyEncode, vars, Visit, NextStream, None, Set, Timers, TimerInv, Statuses, Streams
  <1>13. CASE ClearStream
    <2> USE <1>13 DEF ClearStream, Visit, NextStream
    <2>0. i \in Streams
      BY DEF Streams
    <2>1. width' \in [Streams -> BOOLEAN]
      BY <2>0 DEF Set, Statuses
    <2>2. encode_create' \in [Streams -> BOOLEAN]
      BY <2>0 DEF Set, Statuses
    <2>3. status' \in [Streams -> Statuses]
      BY <2>0 DEF Set, Statuses
    <2>4. i' \in 0 .. StreamNum
      BY <2>0 DEF Set, Statuses
    <2> QED
      BY <2>0, <2>1, <2>2, <2>3, <2>4
  <1>14. CASE TearDown
    <2> USE <1>14 DEF TearDown, Visit, NextStream
    <2>0. i \in Streams
      BY DEF Streams
    <2>1. osd' \in [Streams -> BOOLEAN]
      BY <2>0 DEF Set, Statuses
    <2>2. venc' \in [Streams -> BOOLEAN]
      BY <2>0 DEF Set, Statuses
    <2>3. linked' \in [Streams -> BOOLEAN]
      BY <2>0 DEF Set, Statuses
    <2> QED
      BY <2>0, <2>1, <2>2, <2>3
  <1>15. CASE Join
    BY <1>15 DEF Join, Streams
  <1>16. CASE Unwind
    <2> USE <1>16 DEF Unwind, Visit, NextStream
    <2>0. i \in Streams
      BY DEF Streams
    <2>1. window' \in [Streams -> BOOLEAN]
      BY <2>0 DEF Set, Statuses
    <2>2. i' \in 0 .. StreamNum
      BY <2>0 DEF Set, Statuses
    <2> QED
      BY <2>0, <2>1, <2>2
  <1>17. CASE Exit
    BY <1>17 DEF Exit
  <1>18. CASE Stop_rtspclient
    BY <1>18 DEF Stop_rtspclient
  <1>19. CASE OsdTop
    BY <1>19 DEF OsdTop
  <1>20. CASE OsdWake
    BY <1>20 DEF OsdWake
  <1>21. CASE OsdCheck
    BY <1>21 DEF OsdCheck
  <1>22. CASE OsdDraw
    BY <1>22 DEF OsdDraw, Streams
  <1>23. CASE Done
    BY <1>23 DEF Done, vars
  <1>24. ASSUME NEW s \in Streams, CbFind(s) PROVE TypeOK'
    BY <1>24 DEF CbFind, Set, Timers, TimerInv
  <1>25. ASSUME NEW s \in Streams, CbSend(s) PROVE TypeOK'
    BY <1>25 DEF CbSend, Set, Timers, TimerInv
  <1>26. ASSUME NEW s \in Streams, CbTest(s) PROVE TypeOK'
    BY <1>26 DEF CbTest, Set, Timers, TimerInv
  <1>27. ASSUME NEW s \in Streams, CbLoad(s) PROVE TypeOK'
    BY <1>27 DEF CbLoad, Set, Timers, TimerInv
  <1>28. ASSUME NEW s \in Streams, CbStore(s) PROVE TypeOK'
    BY <1>28 DEF CbStore, Set, Timers, TimerInv
  <1>29. ASSUME NEW s \in Streams, OsdMessage(s) PROVE TypeOK'
    BY <1>29 DEF OsdMessage, Set, Timers, TimerInv
  <1> QED
    BY <1>1, <1>2, <1>3, <1>4, <1>5, <1>6, <1>7, <1>8, <1>9, <1>10, <1>11, <1>12,
       <1>13, <1>14, <1>15, <1>16, <1>17, <1>18, <1>19, <1>20, <1>21, <1>22, <1>23, <1>24,
       <1>25, <1>26, <1>27, <1>28, <1>29
       DEF Next, Supervisor, Overlay, OverlayRuns, FinishFrame

-----------------------------------------------------------------------------
(* The other parts of the invariant, one lemma each, one step per action.  *)

\* Where the supervisor stands after a step.  In GETVD there is always an
\* encoder to create, so the write of timer++ finds LINKED or WORDWELL.
LEMMA PlaceStep == ASSUME IInv, Next PROVE PlaceInv'
  <1> USE ClientAssumption DEF IInv, TypeOK, PlaceInv, stream, media, Streams,
                                Up, EncodeInv
  <1>0. i \in 0 .. StreamNum /\ (i < StreamNum => i \in Streams)
    BY DEF Streams
  <1>1. CASE InitStream
    <2> USE <1>0, <1>1 DEF InitStream, Set
    <2>1. pc' = "init" => /\ osdPc' = "none"
                          /\ \A s \in Streams \ {i} : status'[s] = status[s]
                          /\ status'[i] \in {"UNINIT", "UNLINK"}
                          /\ i' = i + 1
      OBVIOUS
    <2>2. \A s \in Streams : s < i => s < i + 1
      OBVIOUS
    <2>3. pc' \in {"init", "unwind"} /\ osdPc' = "none" /\ (pc' = "unwind" => i' < StreamNum)
      OBVIOUS
    <2> QED
      BY <2>1, <2>2, <2>3
  <1>2. CASE StartThreads
    BY <1>0, <1>2 DEF StartThreads, None
  <1>3. CASE TestRunFlag
    BY <1>0, <1>3 DEF TestRunFlag
  <1>4. CASE VisitUninit
    BY <1>0, <1>4 DEF VisitUninit, Visit, NextStream
  <1>5. CASE VisitUnlink
    BY <1>0, <1>5 DEF VisitUnlink, Visit, NextStream, Set
  <1>6. CASE VisitLinked
    BY <1>0, <1>6 DEF VisitLinked, Visit, Set
  <1>7. CASE LookForPicture
    BY <1>0, <1>7 DEF LookForPicture, NextStream, Set
  <1>8. CASE VisitGetVd
    BY <1>0, <1>8 DEF VisitGetVd, Visit, Set
  <1>9. CASE VisitWordwell
    BY <1>0, <1>9 DEF VisitWordwell, Visit, NextStream, Set
  <1>10. CASE VisitLinkDown
    BY <1>0, <1>10 DEF VisitLinkDown, Visit, Set
  <1>11. CASE StoreTimer
    BY <1>0, <1>11 DEF StoreTimer, NextStream, Set
  <1>12. CASE DestroyEncode
    BY <1>0, <1>12 DEF DestroyEncode, Set
  <1>13. CASE ClearStream
    BY <1>0, <1>13 DEF ClearStream, NextStream, Set
  <1>14. CASE TearDown
    BY <1>0, <1>14 DEF TearDown, Set
  <1>15. CASE Join
    BY <1>0, <1>15 DEF Join
  <1>16. CASE Unwind
    BY <1>0, <1>16 DEF Unwind, Set
  <1>17. CASE Exit
    BY <1>0, <1>17 DEF Exit
  <1>18. CASE Stop_rtspclient
    BY <1>0, <1>18 DEF Stop_rtspclient
  <1>19. CASE OsdTop
    BY <1>0, <1>19 DEF OsdTop
  <1>20. CASE OsdWake
    BY <1>0, <1>20 DEF OsdWake
  <1>21. CASE OsdCheck
    BY <1>0, <1>21 DEF OsdCheck
  <1>22. CASE OsdDraw
    BY <1>0, <1>22 DEF OsdDraw
  <1>23. CASE Done
    BY <1>0, <1>23 DEF Done, vars
  <1>24. ASSUME NEW s \in Streams, CbFind(s) PROVE PlaceInv'
    BY <1>24 DEF CbFind, Set
  <1>25. ASSUME NEW s \in Streams, CbSend(s) PROVE PlaceInv'
    BY <1>25 DEF CbSend, Set
  <1>26. ASSUME NEW s \in Streams, CbTest(s) PROVE PlaceInv'
    BY <1>26 DEF CbTest, Set
  <1>27. ASSUME NEW s \in Streams, CbLoad(s) PROVE PlaceInv'
    BY <1>27 DEF CbLoad, Set
  <1>28. ASSUME NEW s \in Streams, CbStore(s) PROVE PlaceInv'
    BY <1>28 DEF CbStore, Set
  <1>29. ASSUME NEW s \in Streams, OsdMessage(s) PROVE PlaceInv'
    BY <1>29 DEF OsdMessage, Set
  <1> QED
    BY <1>1, <1>2, <1>3, <1>4, <1>5, <1>6, <1>7, <1>8, <1>9, <1>10, <1>11, <1>12,
       <1>13, <1>14, <1>15, <1>16, <1>17, <1>18, <1>19, <1>20, <1>21, <1>22, <1>23, <1>24,
       <1>25, <1>26, <1>27, <1>28, <1>29
       DEF Next, Supervisor, Overlay, OverlayRuns, FinishFrame

\* The fields of every stream still agree with its status.
LEMMA FieldStep == ASSUME IInv, Next PROVE Up' => \A r \in Streams : EncodeInv(r)' /\ LinkInv(r)'
  <1> USE ClientAssumption DEF IInv, TypeOK, PlaceInv, stream, media,
                                Up, EncodeInv, LinkInv, Statuses
  <1>0. i \in 0 .. StreamNum /\ (i < StreamNum => i \in Streams)
    BY DEF Streams
  <1>1. CASE InitStream
    BY <1>0, <1>1 DEF InitStream, Set
  <1>2. CASE StartThreads
    BY <1>0, <1>2 DEF StartThreads, None
  <1>3. CASE TestRunFlag
    BY <1>0, <1>3 DEF TestRunFlag
  <1>4. CASE VisitUninit
    BY <1>0, <1>4 DEF VisitUninit, Visit, NextStream
  <1>5. CASE VisitUnlink
    BY <1>0, <1>5 DEF VisitUnlink, Visit, NextStream, Set
  <1>6. CASE VisitLinked
    BY <1>0, <1>6 DEF VisitLinked, Visit, Set
  <1>7. CASE LookForPicture
    <2> SUFFICES ASSUME Up', NEW r \in Streams
                 PROVE  EncodeInv(r)' /\ LinkInv(r)'
      OBVIOUS
    <2> USE <1>0, <1>7 DEF LookForPicture, NextStream, Set
    <2>1. CASE r = i
      <3>1. EncodeInv(r)'
        BY <2>1
      <3>2. LinkInv(r)'
        BY <2>1
      <3> QED
        BY <3>1, <3>2
    <2>2. CASE r # i
      <3>1. EncodeInv(r)'
        BY <2>2
      <3>2. LinkInv(r)'
        BY <2>2
      <3> QED
        BY <3>1, <3>2
    <2> QED
      BY <2>1, <2>2
  <1>8. CASE VisitGetVd
    BY <1>0, <1>8 DEF VisitGetVd, Visit, Set
  <1>9. CASE VisitWordwell
    BY <1>0, <1>9 DEF VisitWordwell, Visit, NextStream, Set
  <1>10. CASE VisitLinkDown
    BY <1>0, <1>10 DEF VisitLinkDown, Visit, Set
  <1>11. CASE StoreTimer
    BY <1>0, <1>11 DEF StoreTimer, NextStream, Set
  <1>12. CASE DestroyEncode
    <2> SUFFICES ASSUME Up', NEW r \in Streams
                 PROVE  EncodeInv(r)' /\ LinkInv(r)'
      OBVIOUS
    <2> USE <1>0, <1>12 DEF DestroyEncode, Set
    <2>1. CASE r = i
      <3>1. EncodeInv(r)'
        BY <2>1
      <3>2. LinkInv(r)'
        BY <2>1
      <3> QED
        BY <3>1, <3>2
    <2>2. CASE r # i
      <3>1. EncodeInv(r)'
        BY <2>2
      <3>2. LinkInv(r)'
        BY <2>2
      <3> QED
        BY <3>1, <3>2
    <2> QED
      BY <2>1, <2>2
  <1>13. CASE ClearStream
    <2> SUFFICES ASSUME Up', NEW r \in Streams
                 PROVE  EncodeInv(r)' /\ LinkInv(r)'
      OBVIOUS
    <2> USE <1>0, <1>13 DEF ClearStream, NextStream, Set
    <2>1. CASE r = i
      <3>1. EncodeInv(r)'
        BY <2>1
      <3>2. LinkInv(r)'
        BY <2>1
      <3> QED
        BY <3>1, <3>2
    <2>2. CASE r # i
      <3>1. EncodeInv(r)'
        BY <2>2
      <3>2. LinkInv(r)'
        BY <2>2
      <3> QED
        BY <3>1, <3>2
    <2> QED
      BY <2>1, <2>2
  <1>14. CASE TearDown
    BY <1>0, <1>14 DEF TearDown, Set
  <1>15. CASE Join
    BY <1>0, <1>15 DEF Join
  <1>16. CASE Unwind
    BY <1>0, <1>16 DEF Unwind, Set
  <1>17. CASE Exit
    BY <1>0, <1>17 DEF Exit
  <1>18. CASE Stop_rtspclient
    BY <1>0, <1>18 DEF Stop_rtspclient
  <1>19. CASE OsdTop
    BY <1>0, <1>19 DEF OsdTop
  <1>20. CASE OsdWake
    BY <1>0, <1>20 DEF OsdWake
  <1>21. CASE OsdCheck
    BY <1>0, <1>21 DEF OsdCheck
  <1>22. CASE OsdDraw
    BY <1>0, <1>22 DEF OsdDraw
  <1>23. CASE Done
    BY <1>0, <1>23 DEF Done, vars
  <1>24. ASSUME NEW s \in Streams, CbFind(s) PROVE Up' => \A r \in Streams : EncodeInv(r)' /\ LinkInv(r)'
    BY <1>24 DEF CbFind, Set
  <1>25. ASSUME NEW s \in Streams, CbSend(s) PROVE Up' => \A r \in Streams : EncodeInv(r)' /\ LinkInv(r)'
    BY <1>25 DEF CbSend, Set
  <1>26. ASSUME NEW s \in Streams, CbTest(s) PROVE Up' => \A r \in Streams : EncodeInv(r)' /\ LinkInv(r)'
    BY <1>26 DEF CbTest, Set
  <1>27. ASSUME NEW s \in Streams, CbLoad(s) PROVE Up' => \A r \in Streams : EncodeInv(r)' /\ LinkInv(r)'
    BY <1>27 DEF CbLoad, Set
  <1>28. ASSUME NEW s \in Streams, CbStore(s) PROVE Up' => \A r \in Streams : EncodeInv(r)' /\ LinkInv(r)'
    BY <1>28 DEF CbStore, Set
  <1>29. ASSUME NEW s \in Streams, OsdMessage(s) PROVE Up' => \A r \in Streams : EncodeInv(r)' /\ LinkInv(r)'
    BY <1>29 DEF OsdMessage, Set
  <1> QED
    BY <1>1, <1>2, <1>3, <1>4, <1>5, <1>6, <1>7, <1>8, <1>9, <1>10, <1>11, <1>12,
       <1>13, <1>14, <1>15, <1>16, <1>17, <1>18, <1>19, <1>20, <1>21, <1>22, <1>23, <1>24,
       <1>25, <1>26, <1>27, <1>28, <1>29
       DEF Next, Supervisor, Overlay, OverlayRuns, FinishFrame

\* end_4 takes down what is left, stream by stream.
LEMMA EndStep == ASSUME IInv, Next PROVE EndInv'
  <1> USE ClientAssumption DEF IInv, TypeOK, PlaceInv, stream, media,
                                EndInv, Up, EncodeInv, LinkInv
  <1>0. i \in 0 .. StreamNum /\ (i < StreamNum => i \in Streams)
    BY DEF Streams
  <1>1. CASE InitStream
    BY <1>0, <1>1 DEF InitStream, Set
  <1>2. CASE StartThreads
    BY <1>0, <1>2 DEF StartThreads, None
  <1>3. CASE TestRunFlag
    <2>1. Up /\ pc = "loop"
      BY <1>3 DEF TestRunFlag
    <2>2. \A r \in Streams : venc[r] \/ osd[r] => linked[r]
      BY <2>1, <1>0 DEF Statuses
    <2>3. \A r \in Streams : ~(r < 0)
      BY DEF Streams
    <2> QED
      BY <2>1, <2>2, <2>3, <1>0, <1>3 DEF TestRunFlag
  <1>4. CASE VisitUninit
    BY <1>0, <1>4 DEF VisitUninit, Visit, NextStream
  <1>5. CASE VisitUnlink
    BY <1>0, <1>5 DEF VisitUnlink, Visit, NextStream, Set
  <1>6. CASE VisitLinked
    BY <1>0, <1>6 DEF VisitLinked, Visit, Set
  <1>7. CASE LookForPicture
    BY <1>0, <1>7 DEF LookForPicture, NextStream, Set
  <1>8. CASE VisitGetVd
    <2>1. Up /\ pc = "loop" /\ linked[i] /\ i \in Streams
      BY <1>0, <1>8 DEF VisitGetVd, Visit, Set
    <2>2. \A r \in Streams : venc[r] \/ osd[r] => linked[r]
      BY <2>1 DEF Statuses
    <2>3. \A r \in Streams : ~(r < 0)
      BY DEF Streams
    <2>4. (\A r \in Streams : venc'[r] => venc[r] \/ r = i) \/ pc' = "store"
      BY <2>1, <1>8 DEF VisitGetVd, Visit, Set
    <2>5. linked' = linked
      BY <1>8 DEF VisitGetVd, Visit, Set
    <2>6. \/ pc' = "store"
          \/ pc' = "end_4" /\ osd' = osd /\ i' = 0
      BY <1>8 DEF VisitGetVd, Visit, Set
    <2> QED
      BY <2>1, <2>2, <2>3, <2>4, <2>5, <2>6
  <1>9. CASE VisitWordwell
    BY <1>0, <1>9 DEF VisitWordwell, Visit, NextStream, Set
  <1>10. CASE VisitLinkDown
    BY <1>0, <1>10 DEF VisitLinkDown, Visit, Set
  <1>11. CASE StoreTimer
    BY <1>0, <1>11 DEF StoreTimer, NextStream, Set
  <1>12. CASE DestroyEncode
    BY <1>0, <1>12 DEF DestroyEncode, Set
  <1>13. CASE ClearStream
    BY <1>0, <1>13 DEF ClearStream, NextStream, Set
  <1>14. CASE TearDown
    <2>1. \A r \in Streams : r < i + 1 <=> r < i \/ r = i
      BY <1>0 DEF Streams
    <2>2. i \in Streams /\ pc' = "end_4" /\ i' = i + 1
      BY <1>0, <1>14 DEF TearDown, Set
    <2>3. ~venc'[i] /\ ~osd'[i] /\ ~linked'[i]
      BY <2>2, <1>14 DEF TearDown, Set
    <2>4. \A r \in Streams \ {i} : /\ venc'[r] = venc[r] /\ osd'[r] = osd[r]
                                  /\ linked'[r] = linked[r]
      BY <2>2, <1>14 DEF TearDown, Set
    <2> QED
      BY <2>1, <2>2, <2>3, <2>4, <1>14 DEF TearDown, Set
  <1>15. CASE Join
    <2>1. \A r \in Streams : r < i
      BY <1>15 DEF Join, Streams
    <2> QED
      BY <2>1, <1>15 DEF Join
  <1>16. CASE Unwind
    BY <1>0, <1>16 DEF Unwind, Set
  <1>17. CASE Exit
    BY <1>0, <1>17 DEF Exit
  <1>18. CASE Stop_rtspclient
    BY <1>0, <1>18 DEF Stop_rtspclient
  <1>19. CASE OsdTop
    BY <1>0, <1>19 DEF OsdTop
  <1>20. CASE OsdWake
    BY <1>0, <1>20 DEF OsdWake
  <1>21. CASE OsdCheck
    BY <1>0, <1>21 DEF OsdCheck
  <1>22. CASE OsdDraw
    BY <1>0, <1>22 DEF OsdDraw
  <1>23. CASE Done
    BY <1>0, <1>23 DEF Done, vars
  <1>24. ASSUME NEW s \in Streams, CbFind(s) PROVE EndInv'
    BY <1>24 DEF CbFind, Set
  <1>25. ASSUME NEW s \in Streams, CbSend(s) PROVE EndInv'
    BY <1>25 DEF CbSend, Set
  <1>26. ASSUME NEW s \in Streams, CbTest(s) PROVE EndInv'
    BY <1>26 DEF CbTest, Set
  <1>27. ASSUME NEW s \in Streams, CbLoad(s) PROVE EndInv'
    BY <1>27 DEF CbLoad, Set
  <1>28. ASSUME NEW s \in Streams, CbStore(s) PROVE EndInv'
    BY <1>28 DEF CbStore, Set
  <1>29. ASSUME NEW s \in Streams, OsdMessage(s) PROVE EndInv'
    BY <1>29 DEF OsdMessage, Set
  <1> QED
    BY <1>1, <1>2, <1>3, <1>4, <1>5, <1>6, <1>7, <1>8, <1>9, <1>10, <1>11, <1>12,
       <1>13, <1>14, <1>15, <1>16, <1>17, <1>18, <1>19, <1>20, <1>21, <1>22, <1>23, <1>24,
       <1>25, <1>26, <1>27, <1>28, <1>29
       DEF Next, Supervisor, Overlay, OverlayRuns, FinishFrame

\* Windows outlive the overlay thread's use of them.
LEMMA WindowStep == ASSUME IInv, Next PROVE WindowInv'
  <1> USE ClientAssumption DEF IInv, TypeOK, PlaceInv, stream, media, WindowInv
  <1>0. i \in 0 .. StreamNum /\ (i < StreamNum => i \in Streams)
    BY DEF Streams
  <1>1. CASE InitStream
    BY <1>0, <1>1 DEF InitStream, Set
  <1>2. CASE StartThreads
    BY <1>0, <1>2 DEF StartThreads, None
  <1>3. CASE TestRunFlag
    BY <1>0, <1>3 DEF TestRunFlag
  <1>4. CASE VisitUninit
    BY <1>0, <1>4 DEF VisitUninit, Visit, NextStream
  <1>5. CASE VisitUnlink
    BY <1>0, <1>5 DEF VisitUnlink, Visit, NextStream, Set
  <1>6. CASE VisitLinked
    BY <1>0, <1>6 DEF VisitLinked, Visit, Set
  <1>7. CASE LookForPicture
    BY <1>0, <1>7 DEF LookForPicture, NextStream, Set
  <1>8. CASE VisitGetVd
    BY <1>0, <1>8 DEF VisitGetVd, Visit, Set
  <1>9. CASE VisitWordwell
    BY <1>0, <1>9 DEF VisitWordwell, Visit, NextStream, Set
  <1>10. CASE VisitLinkDown
    BY <1>0, <1>10 DEF VisitLinkDown, Visit, Set
  <1>11. CASE StoreTimer
    BY <1>0, <1>11 DEF StoreTimer, NextStream, Set
  <1>12. CASE DestroyEncode
    BY <1>0, <1>12 DEF DestroyEncode, Set
  <1>13. CASE ClearStream
    BY <1>0, <1>13 DEF ClearStream, NextStream, Set
  <1>14. CASE TearDown
    BY <1>0, <1>14 DEF TearDown, Set
  <1>15. CASE Join
    BY <1>0, <1>15 DEF Join
  <1>16. CASE Unwind
    BY <1>0, <1>16 DEF Unwind, Set
  <1>17. CASE Exit
    BY <1>0, <1>17 DEF Exit
  <1>18. CASE Stop_rtspclient
    BY <1>0, <1>18 DEF Stop_rtspclient
  <1>19. CASE OsdTop
    BY <1>0, <1>19 DEF OsdTop
  <1>20. CASE OsdWake
    BY <1>0, <1>20 DEF OsdWake
  <1>21. CASE OsdCheck
    BY <1>0, <1>21 DEF OsdCheck
  <1>22. CASE OsdDraw
    BY <1>0, <1>22 DEF OsdDraw
  <1>23. CASE Done
    BY <1>0, <1>23 DEF Done, vars
  <1>24. ASSUME NEW s \in Streams, CbFind(s) PROVE WindowInv'
    BY <1>24 DEF CbFind, Set
  <1>25. ASSUME NEW s \in Streams, CbSend(s) PROVE WindowInv'
    BY <1>25 DEF CbSend, Set
  <1>26. ASSUME NEW s \in Streams, CbTest(s) PROVE WindowInv'
    BY <1>26 DEF CbTest, Set
  <1>27. ASSUME NEW s \in Streams, CbLoad(s) PROVE WindowInv'
    BY <1>27 DEF CbLoad, Set
  <1>28. ASSUME NEW s \in Streams, CbStore(s) PROVE WindowInv'
    BY <1>28 DEF CbStore, Set
  <1>29. ASSUME NEW s \in Streams, OsdMessage(s) PROVE WindowInv'
    BY <1>29 DEF OsdMessage, Set
  <1> QED
    BY <1>1, <1>2, <1>3, <1>4, <1>5, <1>6, <1>7, <1>8, <1>9, <1>10, <1>11, <1>12,
       <1>13, <1>14, <1>15, <1>16, <1>17, <1>18, <1>19, <1>20, <1>21, <1>22, <1>23, <1>24,
       <1>25, <1>26, <1>27, <1>28, <1>29
       DEF Next, Supervisor, Overlay, OverlayRuns, FinishFrame

\* No timer runs away, and no stale write brings one out of its range.
LEMMA TimerStep == ASSUME IInv, Next PROVE TimerInv'
  <1> USE ClientAssumption DEF IInv, TypeOK, PlaceInv, stream, media,
                                TimerInv, Timers, Up, EncodeInv, LinkInv
  <1>0. i \in 0 .. StreamNum /\ (i < StreamNum => i \in Streams)
    BY DEF Streams
  <1>1. CASE InitStream
    BY <1>0, <1>1 DEF InitStream, Set
  <1>2. CASE StartThreads
    BY <1>0, <1>2 DEF StartThreads, None
  <1>3. CASE TestRunFlag
    BY <1>0, <1>3 DEF TestRunFlag
  <1>4. CASE VisitUninit
    BY <1>0, <1>4 DEF VisitUninit, Visit, NextStream
  <1>5. CASE VisitUnlink
    BY <1>0, <1>5 DEF VisitUnlink, Visit, NextStream, Set
  <1>6. CASE VisitLinked
    BY <1>0, <1>6 DEF VisitLinked, Visit, Set
  <1>7. CASE LookForPicture
    BY <1>0, <1>7 DEF LookForPicture, NextStream, Set
  <1>8. CASE VisitGetVd
    BY <1>0, <1>8 DEF VisitGetVd, Visit, Set
  <1>9. CASE VisitWordwell
    BY <1>0, <1>9 DEF VisitWordwell, Visit, NextStream, Set
  <1>10. CASE VisitLinkDown
    BY <1>0, <1>10 DEF VisitLinkDown, Visit, Set
  <1>11. CASE StoreTimer
    BY <1>0, <1>11 DEF StoreTimer, NextStream, Set
  <1>12. CASE DestroyEncode
    BY <1>0, <1>12 DEF DestroyEncode, Set
  <1>13. CASE ClearStream
    BY <1>0, <1>13 DEF ClearStream, NextStream, Set
  <1>14. CASE TearDown
    BY <1>0, <1>14 DEF TearDown, Set
  <1>15. CASE Join
    BY <1>0, <1>15 DEF Join
  <1>16. CASE Unwind
    BY <1>0, <1>16 DEF Unwind, Set
  <1>17. CASE Exit
    BY <1>0, <1>17 DEF Exit
  <1>18. CASE Stop_rtspclient
    BY <1>0, <1>18 DEF Stop_rtspclient
  <1>19. CASE OsdTop
    BY <1>0, <1>19 DEF OsdTop
  <1>20. CASE OsdWake
    BY <1>0, <1>20 DEF OsdWake
  <1>21. CASE OsdCheck
    BY <1>0, <1>21 DEF OsdCheck
  <1>22. CASE OsdDraw
    BY <1>0, <1>22 DEF OsdDraw
  <1>23. CASE Done
    BY <1>0, <1>23 DEF Done, vars
  <1>24. ASSUME NEW s \in Streams, CbFind(s) PROVE TimerInv'
    BY <1>24 DEF CbFind, Set
  <1>25. ASSUME NEW s \in Streams, CbSend(s) PROVE TimerInv'
    BY <1>25 DEF CbSend, Set
  <1>26. ASSUME NEW s \in Streams, CbTest(s) PROVE TimerInv'
    BY <1>26 DEF CbTest, Set
  <1>27. ASSUME NEW s \in Streams, CbLoad(s) PROVE TimerInv'
    BY <1>27 DEF CbLoad, Set
  <1>28. ASSUME NEW s \in Streams, CbStore(s) PROVE TimerInv'
    BY <1>28 DEF CbStore, Set
  <1>29. ASSUME NEW s \in Streams, OsdMessage(s) PROVE TimerInv'
    BY <1>29 DEF OsdMessage, Set
  <1> QED
    BY <1>1, <1>2, <1>3, <1>4, <1>5, <1>6, <1>7, <1>8, <1>9, <1>10, <1>11, <1>12,
       <1>13, <1>14, <1>15, <1>16, <1>17, <1>18, <1>19, <1>20, <1>21, <1>22, <1>23, <1>24,
       <1>25, <1>26, <1>27, <1>28, <1>29
       DEF Next, Supervisor, Overlay, OverlayRuns, FinishFrame

-----------------------------------------------------------------------------
(* The invariant and what it means.                                        *)

\* Nothing has happened before the client starts.
LEMMA InvInit == Init => IInv
  <1> SUFFICES ASSUME Init PROVE IInv
    OBVIOUS
  <1> USE ClientAssumption DEF Init, None
  <1>1. TypeOK
    BY DEF TypeOK, Streams, Statuses, Timers
  <1>2. PlaceInv
    BY DEF PlaceInv
  <1>3. \A s \in Streams : EncodeInv(s) /\ LinkInv(s)
    BY DEF EncodeInv, LinkInv
  <1>4. EndInv /\ WindowInv
    BY DEF EndInv, WindowInv
  <1>5. TimerInv
    BY DEF TimerInv
  <1> QED
    BY <1>1, <1>2, <1>3, <1>4, <1>5 DEF IInv

\* A step that changes nothing keeps the invariant.
LEMMA InvStutter == IInv /\ UNCHANGED vars => IInv'
  BY DEF IInv, TypeOK, PlaceInv, Up, EncodeInv, LinkInv, EndInv, WindowInv,
         TimerInv, vars, stream, media

\* The fields of a stream, the encoder, the connection and the lamp they stand
\* for, and the place of every thread agree in every reachable state.
THEOREM ClientInvariant == Spec => []IInv
  <1>1. IInv /\ [Next]_vars => IInv'
    <2> SUFFICES ASSUME IInv, [Next]_vars PROVE IInv'
      OBVIOUS
    <2>1. CASE Next
      BY <2>1, TypeStep, PlaceStep, FieldStep, EndStep, WindowStep, TimerStep DEF IInv
    <2>2. CASE UNCHANGED vars
      BY <2>2, InvStutter
    <2> QED
      BY <2>1, <2>2
  <1> QED
    BY InvInit, <1>1, PTL DEF Spec

\* Every variable keeps its type, the timer its range from one below zero to
\* two above the limit, whatever the frames and the visits overwrite.
THEOREM ClientTypes == Spec => []TypeOK
  BY ClientInvariant, PTL DEF IInv

\* S_GETVD is never a dead end.
THEOREM GetVdIsNoDeadEnd == Spec => []GetVdCanAdvance
  <1>1. IInv => GetVdCanAdvance
    BY DEF IInv, GetVdCanAdvance, Running, Up, EncodeInv, LinkInv
  <1> QED
    BY <1>1, ClientInvariant, PTL

\* The channel lamps tell the truth while the client runs.
THEOREM LampsAreRight == Spec => []LampMeansEncoding
  <1>1. IInv => LampMeansEncoding
    BY DEF IInv, LampMeansEncoding, Running, Up, EncodeInv, LinkInv
  <1> QED
    BY <1>1, ClientInvariant, PTL

\* The way out of the client takes every encoder, overlay and connection down
\* before it destroys a window, however the client came to leave its loop.
THEOREM ExitIsClean == Spec => []NothingLeftBehind
  <1>1. IInv => NothingLeftBehind
    BY DEF IInv, EndInv, NothingLeftBehind
  <1> QED
    BY <1>1, ClientInvariant, PTL

\* The overlay thread never holds the handle of a destroyed window.
THEOREM OverlayIsSafe == Spec => []OverlayHandleLives
  <1>1. IInv => OverlayHandleLives
    BY DEF IInv, WindowInv, OverlayHandleLives
  <1> QED
    BY <1>1, ClientInvariant, PTL

-----------------------------------------------------------------------------
(* What a connection that closes only when its frame is finished adds.     *)

\* Frames are delivered on connections only, connections hang on windows, and
\* a stream that is not connected has been cleared.
FrameInv ==
    /\ \A s \in Streams : cb[s] # "none" => linked[s]
    /\ \A s \in Streams : linked[s] => window[s]
    /\ Up => \A s \in Streams : ~linked[s] => timer[s] = 0 /\ ~have_vd[s]

\* No step of any thread leaves a frame without its connection, a connection
\* without its window, or a trace of a connection that is closed.
LEMMA FrameStep ==
    ASSUME ~ForcedClose, IInv, FrameInv, Next
    PROVE  FrameInv'
  <1> USE ClientAssumption DEF IInv, TypeOK, PlaceInv, stream, media, FrameInv,
                               Up, EncodeInv, LinkInv, EndInv, WindowInv
  <1>0. i \in 0 .. StreamNum /\ (i < StreamNum => i \in Streams)
    BY DEF Streams
  <1>1. CASE InitStream
    BY <1>0, <1>1 DEF InitStream, Visit, NextStream, Closes, Set, None
  <1>2. CASE StartThreads
    BY <1>0, <1>2 DEF StartThreads, Visit, NextStream, Closes, Set, None
  <1>3. CASE TestRunFlag
    BY <1>0, <1>3 DEF TestRunFlag, Visit, NextStream, Closes, Set, None
  <1>4. CASE VisitUninit
    BY <1>0, <1>4 DEF VisitUninit, Visit, NextStream, Closes, Set, None
  <1>5. CASE VisitUnlink
    BY <1>0, <1>5 DEF VisitUnlink, Visit, NextStream, Closes, Set, None
  <1>6. CASE VisitLinked
    BY <1>0, <1>6 DEF VisitLinked, Visit, NextStream, Closes, Set, None
  <1>7. CASE LookForPicture
    BY <1>0, <1>7 DEF LookForPicture, Visit, NextStream, Closes, Set, None
  <1>8. CASE VisitGetVd
    BY <1>0, <1>8 DEF VisitGetVd, Visit, NextStream, Closes, Set, None
  <1>9. CASE VisitWordwell
    BY <1>0, <1>9 DEF VisitWordwell, Visit, NextStream, Closes, Set, None
  <1>10. CASE VisitLinkDown
    BY <1>0, <1>10 DEF VisitLinkDown, Visit, NextStream, Closes, Set, None
  <1>11. CASE StoreTimer
    BY <1>0, <1>11 DEF StoreTimer, Visit, NextStream, Closes, Set, None
  <1>12. CASE DestroyEncode
    BY <1>0, <1>12 DEF DestroyEncode, Visit, NextStream, Closes, Set, None
  <1>13. CASE ClearStream
    BY <1>0, <1>13 DEF ClearStream, Visit, NextStream, Closes, Set, None
  <1>14. CASE TearDown
    BY <1>0, <1>14 DEF TearDown, Visit, NextStream, Closes, Set, None
  <1>15. CASE Join
    BY <1>0, <1>15 DEF Join, Visit, NextStream, Closes, Set, None
  <1>16. CASE Unwind
    BY <1>0, <1>16 DEF Unwind, Visit, NextStream, Closes, Set, None
  <1>17. CASE Exit
    BY <1>0, <1>17 DEF Exit, Visit, NextStream, Closes, Set, None
  <1>18. CASE Stop_rtspclient
    BY <1>0, <1>18 DEF Stop_rtspclient, Visit, NextStream, Closes, Set, None
  <1>19. CASE OsdTop
    BY <1>0, <1>19 DEF OsdTop, Visit, NextStream, Closes, Set, None
  <1>20. CASE OsdWake
    BY <1>0, <1>20 DEF OsdWake, Visit, NextStream, Closes, Set, None
  <1>21. CASE OsdCheck
    BY <1>0, <1>21 DEF OsdCheck, Visit, NextStream, Closes, Set, None
  <1>22. CASE OsdDraw
    BY <1>0, <1>22 DEF OsdDraw, Visit, NextStream, Closes, Set, None
  <1>23. CASE Done
    BY <1>23 DEF Done, vars
  <1>24. ASSUME NEW s \in Streams, CbFind(s) PROVE FrameInv'
    BY <1>24 DEF CbFind, Set
  <1>25. ASSUME NEW s \in Streams, CbSend(s) PROVE FrameInv'
    BY <1>25 DEF CbSend, Set
  <1>26. ASSUME NEW s \in Streams, CbTest(s) PROVE FrameInv'
    BY <1>26 DEF CbTest, Set
  <1>27. ASSUME NEW s \in Streams, CbLoad(s) PROVE FrameInv'
    BY <1>27 DEF CbLoad, Set
  <1>28. ASSUME NEW s \in Streams, CbStore(s) PROVE FrameInv'
    BY <1>28 DEF CbStore, Set
  <1>29. ASSUME NEW s \in Streams, OsdMessage(s) PROVE FrameInv'
    BY <1>29 DEF OsdMessage, Set
  <1> QED
    BY <1>1, <1>2, <1>3, <1>4, <1>5, <1>6, <1>7, <1>8, <1>9, <1>10, <1>11,
       <1>12, <1>13, <1>14, <1>15, <1>16, <1>17, <1>18, <1>19, <1>20, <1>21,
       <1>22, <1>23, <1>24, <1>25, <1>26, <1>27, <1>28, <1>29
       DEF Next, Supervisor, Overlay, OverlayRuns, FinishFrame

\* If the library waits for a frame in delivery, both invariants hold of every
\* reachable state.
LEMMA FramesKeepToConnections ==
    ASSUME ~ForcedClose
    PROVE  Spec => [](IInv /\ FrameInv)
  <1>1. Init => FrameInv
    BY DEF Init, FrameInv, None
  <1>2. IInv /\ FrameInv /\ [Next]_vars => FrameInv'
    <2>1. FrameInv /\ UNCHANGED vars => FrameInv'
      BY DEF FrameInv, Up, vars, stream, media
    <2> QED
      BY <2>1, FrameStep
  <1> QED
    BY <1>1, <1>2, ClientInvariant, PTL DEF Spec

\* A new connection inherits nothing from the one before: S_LINKDOWN resets the
\* fields after the close has waited for the last frame of the old one.
THEOREM LinkIsClean == ~ForcedClose => (Spec => []LinkStartsClean)
  <1> SUFFICES ASSUME ~ForcedClose PROVE Spec => []LinkStartsClean
    OBVIOUS
  <1>1. IInv /\ FrameInv => LinkStartsClean
    BY DEF IInv, FrameInv, LinkStartsClean, Running, Up, EncodeInv, LinkInv
  <1> QED
    BY <1>1, FramesKeepToConnections, PTL

\* rtsp_recv never hands MSA_SendDecData the handle of a destroyed window, also
\* while the client goes down.
THEOREM ReceiverIsSafe == ~ForcedClose => (Spec => []DecoderHandleLives)
  <1> SUFFICES ASSUME ~ForcedClose PROVE Spec => []DecoderHandleLives
    OBVIOUS
  <1>1. FrameInv => DecoderHandleLives
    BY DEF FrameInv, DecoderHandleLives
  <1> QED
    BY <1>1, FramesKeepToConnections, PTL
=============================================================================
