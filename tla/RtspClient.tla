----------------------------- MODULE RtspClient -----------------------------
(***************************************************************************)
(* The RTSP client of the board (rtsp_client in test.c): a supervisor      *)
(* thread that, once a second, looks at every camera stream in turn and    *)
(* connects it, creates its encoder and its overlay when pictures arrive,  *)
(* and takes it down and connects it again when it falls silent.  Two      *)
(* kinds of other threads work on the same fields with no lock at all:     *)
(*   - the receiver of the RTSP library calls rtsp_recv for every frame;   *)
(*   - osd_pic_receive draws texts on the streams that work.               *)
(* The supervisor adds one to a stream's timer at every visit and every    *)
(* frame takes one off; both read the timer first and write it later.      *)
(***************************************************************************)
EXTENDS Integers

CONSTANTS StreamNum,      \* STREAM_NUM
          StreamTimeout,  \* STREAM_TIMEOUT, in visits of the supervisor
          ForcedClose     \* may rl_close_rtsp return while rtsp_recv runs?

ASSUME ClientAssumption ==
    /\ StreamNum \in Nat \ {0}
    /\ StreamTimeout \in Nat
    /\ ForcedClose \in BOOLEAN

Streams == 0 .. StreamNum - 1

VARIABLES
    \* struct rtspc_stream, by stream
    status,         \* the state the supervisor keeps the stream in
    timer,          \* visits that no frame has paid for
    have_vd,        \* a frame has arrived
    linked,         \* rtsp_fd >= 0
    width,          \* stEncodeSet.iWidth # 0
    encode_create,  \* encoder and overlay are there
    \* what the media system (MSA_*) and the panel hold, by stream
    window,         \* the channel behind the stream's handle exists
    decoded,        \* its decoder has seen a picture
    venc, osd,      \* its encoder, its overlay layer
    led,            \* chn1_st, chn2_st
    \* the threads
    run,            \* thread_run_flag
    pc, i, t,       \* the supervisor: place, stream, the timer it read
    cb, cbT,        \* rtsp_recv, by stream: place, the timer it read
    osdPc, osdIdx   \* osd_pic_receive: place, the stream of the message

stream == <<status, timer, have_vd, linked, width, encode_create>>
media  == <<window, decoded, venc, osd, led>>
vars   == <<stream, media, run, pc, i, t, cb, cbT, osdPc, osdIdx>>

Statuses == {"UNINIT", "UNLINK", "LINKED", "GETVD", "WORDWELL", "LINKDOWN"}
Timers   == -1 .. StreamTimeout + 2

\* the supervisor is inside its while loop
Running == pc \in {"loop", "store", "size", "destroy", "clear"}

\* assigning one field of stream s
Set(f, s, v) == [f EXCEPT ![s] = v]

None == [s \in Streams |-> FALSE]

Init ==
    /\ status = [s \in Streams |-> "UNINIT"]
    /\ timer = [s \in Streams |-> 0]
    /\ cbT = [s \in Streams |-> 0]
    /\ have_vd = None /\ linked = None /\ width = None /\ encode_create = None
    /\ window = None /\ decoded = None /\ venc = None /\ osd = None /\ led = None
    /\ run = TRUE
    /\ pc = "init" /\ i = 0 /\ t = 0
    /\ cb = [s \in Streams |-> "none"]
    /\ osdPc = "none" /\ osdIdx = 0

-----------------------------------------------------------------------------
(* What the supervisor's steps share.                                      *)

\* a visit to a stream in a given state; timer++ is a read (into t) and a
\* write, so a visit may take several steps
Visit(st) == pc = "loop" /\ i < StreamNum /\ status[i] = st

\* the visit is over
NextStream == pc' = "loop" /\ i' = i + 1

\* rl_close_rtsp waits for a frame that is being delivered, unless it is
\* the kind that forces the connection down
Closes(s) == ForcedClose \/ cb[s] = "none"

-----------------------------------------------------------------------------
(* Mutants: slips the properties below would notice.                       *)

\* S_WORDWELL without its look at the limit
WordwellNoLimit ==
    /\ Visit("WORDWELL")
    /\ led' = IF i \in {0, 1} THEN Set(led, i, TRUE) ELSE led
    /\ t' = timer[i] /\ pc' = "store"
    /\ UNCHANGED <<stream, window, decoded, venc, osd, run, i, cb, cbT, osdPc, osdIdx>>

\* S_WORDWELL without its timer++
WordwellNoCount ==
    /\ Visit("WORDWELL")
    /\ led' = IF i \in {0, 1} THEN Set(led, i, TRUE) ELSE led
    /\ NextStream
    /\ UNCHANGED <<stream, window, decoded, venc, osd, run, t, cb, cbT, osdPc, osdIdx>>

\* S_LINKED with an early break when the limit is passed
LateMeansDown ==
    /\ Visit("LINKED")
    /\ IF timer[i] > StreamTimeout
       THEN status' = Set(status, i, "LINKDOWN") /\ NextStream /\ UNCHANGED t
       ELSE t' = timer[i] /\ pc' = "store" /\ UNCHANGED <<status, i>>
    /\ UNCHANGED <<timer, have_vd, linked, width, encode_create, media, run,
                   cb, cbT, osdPc, osdIdx>>

\* S_LINKDOWN that leaves the lamp alone
LinkDownLampOn ==
    /\ Visit("LINKDOWN") /\ Closes(i)
    /\ linked' = Set(linked, i, FALSE)
    /\ timer' = Set(timer, i, 0)
    /\ have_vd' = Set(have_vd, i, FALSE)
    /\ pc' = "destroy"
    /\ UNCHANGED <<status, width, encode_create, media, run, i, t, cb, cbT, osdPc, osdIdx>>

\* S_LINKDOWN that resets the fields without waiting for the close
ResetBeforeClose ==
    /\ Visit("LINKDOWN")
    /\ led' = IF i \in {0, 1} THEN Set(led, i, FALSE) ELSE led
    /\ linked' = Set(linked, i, FALSE)
    /\ timer' = Set(timer, i, 0)
    /\ have_vd' = Set(have_vd, i, FALSE)
    /\ pc' = "destroy"
    /\ UNCHANGED <<status, width, encode_create, window, decoded, venc, osd, run,
                   i, t, cb, cbT, osdPc, osdIdx>>

\* a stream is cleared but for encode_create
ClearKeepsEncode ==
    /\ pc = "clear"
    /\ width' = Set(width, i, width[i] /\ ~encode_create[i])
    /\ status' = Set(status, i, "UNLINK")
    /\ NextStream
    /\ UNCHANGED <<timer, have_vd, linked, encode_create, media, run, t, cb, cbT,
                   osdPc, osdIdx>>

\* end_4 that goes by encode_create
TearDownIfEncoding ==
    /\ pc = "end_4" /\ i < StreamNum
    /\ IF encode_create[i]
       THEN /\ Closes(i)
            /\ osd' = Set(osd, i, FALSE) /\ venc' = Set(venc, i, FALSE)
            /\ linked' = Set(linked, i, FALSE)
       ELSE UNCHANGED <<osd, venc, linked>>
    /\ i' = i + 1
    /\ UNCHANGED <<status, timer, have_vd, width, encode_create, window, decoded,
                   led, run, pc, t, cb, cbT, osdPc, osdIdx>>

\* end_4 that does not wait for the connection to close
TearDownNoClose ==
    /\ pc = "end_4" /\ i < StreamNum
    /\ osd' = Set(osd, i, FALSE) /\ venc' = Set(venc, i, FALSE)
    /\ linked' = Set(linked, i, FALSE)
    /\ i' = i + 1
    /\ UNCHANGED <<status, timer, have_vd, width, encode_create, window, decoded,
                   led, run, pc, t, cb, cbT, osdPc, osdIdx>>

\* end_3 without pthread_join
NoJoin ==
    /\ pc = "end_4" /\ i = StreamNum
    /\ pc' = "unwind" /\ i' = StreamNum - 1
    /\ UNCHANGED <<stream, media, run, t, cb, cbT, osdPc, osdIdx>>

\* while (1) in the overlay thread
OsdForever ==
    /\ osdPc \in {"top", "input"}
    /\ osdPc' = "select"
    /\ UNCHANGED <<stream, media, run, pc, i, t, cb, cbT, osdIdx>>

-----------------------------------------------------------------------------
(* The supervisor: start.                                                  *)

\* rtspc_init for stream i: the window is created, or the stream has no
\* address in iptable.txt and stays out of the game, or there is no buffer
\* or no window and the client gives up.
InitStream ==
    /\ pc = "init" /\ i < StreamNum
    /\ \/ /\ status' = Set(status, i, "UNLINK")
          /\ window' = Set(window, i, TRUE)
          /\ i' = i + 1
          /\ UNCHANGED pc
       \/ i' = i + 1 /\ UNCHANGED <<status, window, pc>>
       \/ pc' = "unwind" /\ UNCHANGED <<status, window, i>>
    /\ UNCHANGED <<timer, have_vd, linked, width, encode_create, decoded,
                   venc, osd, led, run, t, cb, cbT, osdPc, osdIdx>>

\* all streams initialised: the overlay thread starts, the lamps go off,
\* and the loop is entered
StartThreads ==
    /\ pc = "init" /\ i = StreamNum
    /\ osdPc' = "top"
    /\ led' = None
    /\ pc' = "loop"
    /\ UNCHANGED <<stream, window, decoded, venc, osd, run, i, t, cb, cbT, osdIdx>>

\* the while condition, read once per pass over the streams
TestRunFlag ==
    /\ pc = "loop" /\ i = StreamNum
    /\ pc' = IF run THEN "loop" ELSE "end_4"
    /\ i' = 0
    /\ UNCHANGED <<stream, media, run, t, cb, cbT, osdPc, osdIdx>>

-----------------------------------------------------------------------------
(* The supervisor: one visit.                                              *)

VisitUninit ==
    /\ Visit("UNINIT")
    /\ NextStream
    /\ UNCHANGED <<stream, media, run, t, cb, cbT, osdPc, osdIdx>>

\* rl_open_rtsp: frames that come before it returns find no stream with
\* their descriptor and are dropped.
VisitUnlink ==
    /\ Visit("UNLINK")
    /\ \E open \in BOOLEAN :
          /\ linked' = Set(linked, i, open)
          /\ status' = IF open THEN Set(status, i, "LINKED") ELSE status
    /\ NextStream
    /\ UNCHANGED <<timer, have_vd, width, encode_create, media, run, t,
                   cb, cbT, osdPc, osdIdx>>

\* too late, or one second more; either way have_vd is looked at next
VisitLinked ==
    /\ Visit("LINKED")
    /\ IF timer[i] > StreamTimeout
       THEN status' = Set(status, i, "LINKDOWN") /\ pc' = "size" /\ UNCHANGED t
       ELSE t' = timer[i] /\ pc' = "store" /\ UNCHANGED status
    /\ UNCHANGED <<timer, have_vd, linked, width, encode_create, media, run, i,
                   cb, cbT, osdPc, osdIdx>>

\* MSA_GetDecodePicSize; a size overrides a LINKDOWN of the same visit
LookForPicture ==
    /\ pc = "size"
    /\ IF have_vd[i]
       THEN /\ width' = Set(width, i, width[i] \/ decoded[i])
            /\ status' = IF width'[i] THEN Set(status, i, "GETVD") ELSE status
       ELSE UNCHANGED <<width, status>>
    /\ NextStream
    /\ UNCHANGED <<timer, have_vd, linked, encode_create, media, run, t,
                   cb, cbT, osdPc, osdIdx>>

\* MAS_ChanWindowCreateEncode (refused if there is one already) and
\* MAS_ChanWindowCreateOSDLayer; a failure of either ends the client.
VisitGetVd ==
    /\ Visit("GETVD")
    /\ IF width[i] /\ ~encode_create[i]
       THEN \/ /\ ~venc[i] /\ ~osd[i]
               /\ venc' = Set(venc, i, TRUE) /\ osd' = Set(osd, i, TRUE)
               /\ encode_create' = Set(encode_create, i, TRUE)
               /\ status' = Set(status, i, "WORDWELL")
               /\ t' = timer[i] /\ pc' = "store" /\ UNCHANGED i
            \/ /\ \E made \in BOOLEAN : venc' = Set(venc, i, venc[i] \/ made)
               /\ pc' = "end_4" /\ i' = 0
               /\ UNCHANGED <<osd, encode_create, status, t>>
       ELSE /\ t' = timer[i] /\ pc' = "store"
            /\ UNCHANGED <<venc, osd, encode_create, status, i>>
    /\ UNCHANGED <<timer, have_vd, linked, width, window, decoded, led, run,
                   cb, cbT, osdPc, osdIdx>>

\* the panel has lamps for the first two channels only
VisitWordwell ==
    /\ Visit("WORDWELL")
    /\ led' = IF i \in {0, 1} THEN Set(led, i, TRUE) ELSE led
    /\ IF timer[i] > StreamTimeout
       THEN status' = Set(status, i, "LINKDOWN") /\ NextStream /\ UNCHANGED t
       ELSE t' = timer[i] /\ pc' = "store" /\ UNCHANGED <<status, i>>
    /\ UNCHANGED <<timer, have_vd, linked, width, encode_create, window, decoded,
                   venc, osd, run, cb, cbT, osdPc, osdIdx>>

\* the write of timer++
StoreTimer ==
    /\ pc = "store"
    /\ timer' = Set(timer, i, t + 1)
    /\ t' = 0
    /\ IF status[i] = "LINKED" THEN pc' = "size" /\ UNCHANGED i ELSE NextStream
    /\ UNCHANGED <<status, have_vd, linked, width, encode_create, media, run,
                   cb, cbT, osdPc, osdIdx>>

VisitLinkDown ==
    /\ Visit("LINKDOWN")
    /\ linked[i] => Closes(i)
    /\ led' = IF i \in {0, 1} THEN Set(led, i, FALSE) ELSE led
    /\ IF linked[i]
       THEN /\ linked' = Set(linked, i, FALSE)
            /\ timer' = Set(timer, i, 0)
            /\ have_vd' = Set(have_vd, i, FALSE)
       ELSE UNCHANGED <<linked, timer, have_vd>>
    /\ pc' = "destroy"
    /\ UNCHANGED <<status, width, encode_create, window, decoded, venc, osd, run,
                   i, t, cb, cbT, osdPc, osdIdx>>

\* overlay and encoder go first, ...
DestroyEncode ==
    /\ pc = "destroy"
    /\ IF encode_create[i]
       THEN osd' = Set(osd, i, FALSE) /\ venc' = Set(venc, i, FALSE)
       ELSE UNCHANGED <<osd, venc>>
    /\ pc' = "clear"
    /\ UNCHANGED <<stream, window, decoded, led, run, i, t, cb, cbT, osdPc, osdIdx>>

\* ... the fields that say so follow
ClearStream ==
    /\ pc = "clear"
    /\ width' = Set(width, i, width[i] /\ ~encode_create[i])
    /\ encode_create' = Set(encode_create, i, FALSE)
    /\ status' = Set(status, i, "UNLINK")
    /\ NextStream
    /\ UNCHANGED <<timer, have_vd, linked, media, run, t, cb, cbT, osdPc, osdIdx>>

-----------------------------------------------------------------------------
(* The supervisor: end.                                                    *)

\* end_4 for stream i: whatever is connected is taken down
TearDown ==
    /\ pc = "end_4" /\ i < StreamNum
    /\ IF linked[i]
       THEN /\ Closes(i)
            /\ osd' = Set(osd, i, FALSE) /\ venc' = Set(venc, i, FALSE)
            /\ linked' = Set(linked, i, FALSE)
       ELSE UNCHANGED <<osd, venc, linked>>
    /\ i' = i + 1
    /\ UNCHANGED <<status, timer, have_vd, width, encode_create, window, decoded,
                   led, run, pc, t, cb, cbT, osdPc, osdIdx>>

\* end_3: pthread_join on the overlay thread
Join ==
    /\ pc = "end_4" /\ i = StreamNum
    /\ osdPc = "gone"
    /\ pc' = "unwind" /\ i' = StreamNum - 1
    /\ UNCHANGED <<stream, media, run, t, cb, cbT, osdPc, osdIdx>>

\* end_2: the windows are destroyed from i down to 1.  MSA_DestroyChanWindow
\* refuses a window that has an encoder or an overlay.
Unwind ==
    /\ pc = "unwind" /\ i > 0
    /\ window' = Set(window, i, window[i] /\ (venc[i] \/ osd[i]))
    /\ i' = i - 1
    /\ UNCHANGED <<stream, decoded, venc, osd, led, run, pc, t, cb, cbT, osdPc, osdIdx>>

\* end_1: MSA_DestroySystem, BRLib_Keyboard_Exit
Exit ==
    /\ pc = "unwind" /\ i = 0
    /\ pc' = "end"
    /\ UNCHANGED <<stream, media, run, i, t, cb, cbT, osdPc, osdIdx>>

\* Stop_rtspclient, called by the watchdog thread that the client started
Stop_rtspclient ==
    /\ osdPc # "none" /\ run
    /\ run' = FALSE
    /\ UNCHANGED <<stream, media, pc, i, t, cb, cbT, osdPc, osdIdx>>

Supervisor ==
    \/ InitStream \/ StartThreads \/ TestRunFlag
    \/ VisitUninit \/ VisitUnlink \/ VisitLinked \/ LookForPicture
    \/ VisitGetVd \/ VisitWordwell \/ VisitLinkDown
    \/ StoreTimer \/ DestroyEncode \/ ClearStream
    \/ TearDown \/ Join \/ Unwind \/ Exit

-----------------------------------------------------------------------------
(* The receiver: rtsp_recv for one frame of stream s.                      *)

\* finds the stream of its descriptor, the flag up and a handle
CbFind(s) ==
    /\ cb[s] = "none"
    /\ linked[s] /\ run /\ window[s]
    /\ cb' = Set(cb, s, "found")
    /\ UNCHANGED <<stream, media, run, pc, i, t, cbT, osdPc, osdIdx>>

\* MSA_SendDecData, which may fail, and have_vd = 1, whatever it returned
CbSend(s) ==
    /\ cb[s] = "found"
    /\ \E picture \in BOOLEAN : decoded' = Set(decoded, s, decoded[s] \/ picture)
    /\ have_vd' = Set(have_vd, s, TRUE)
    /\ cb' = Set(cb, s, "sent")
    /\ UNCHANGED <<status, timer, linked, width, encode_create, window, venc, osd,
                   led, run, pc, i, t, cbT, osdPc, osdIdx>>

\* if (timer > 0)
CbTest(s) ==
    /\ cb[s] = "sent"
    /\ cb' = Set(cb, s, IF timer[s] > 0 THEN "load" ELSE "none")
    /\ UNCHANGED <<stream, media, run, pc, i, t, cbT, osdPc, osdIdx>>

\* timer--: the read
CbLoad(s) ==
    /\ cb[s] = "load"
    /\ cbT' = Set(cbT, s, timer[s])
    /\ cb' = Set(cb, s, "store")
    /\ UNCHANGED <<stream, media, run, pc, i, t, osdPc, osdIdx>>

\* timer--: the write
CbStore(s) ==
    /\ cb[s] = "store"
    /\ timer' = Set(timer, s, cbT[s] - 1)
    /\ cb' = Set(cb, s, "none")
    /\ cbT' = Set(cbT, s, 0)
    /\ UNCHANGED <<status, have_vd, linked, width, encode_create, media, run,
                   pc, i, t, osdPc, osdIdx>>

FinishFrame(s) == CbSend(s) \/ CbTest(s) \/ CbLoad(s) \/ CbStore(s)

-----------------------------------------------------------------------------
(* The overlay thread: osd_pic_receive and processOSD.                     *)

\* the while condition: at the start, and when the input is used up or given
\* up because of a message that is refused
OsdTop ==
    /\ osdPc \in {"top", "input"}
    /\ osdPc' = IF run THEN "select" ELSE "gone"
    /\ UNCHANGED <<stream, media, run, pc, i, t, cb, cbT, osdIdx>>

\* select returns: a client has connected, has left, or has sent something
OsdWake ==
    /\ osdPc = "select"
    /\ osdPc' = "input"
    /\ UNCHANGED <<stream, media, run, pc, i, t, cb, cbT, osdIdx>>

\* the next whole message of the input is for s.  Only messages for a working
\* stream get on, as get_stream_video_width tells.
OsdMessage(s) ==
    /\ osdPc = "input"
    /\ status[s] = "WORDWELL"
    /\ osdPc' = "check" /\ osdIdx' = s
    /\ UNCHANGED <<stream, media, run, pc, i, t, cb, cbT>>

\* processOSD: encode_create, then the handle
OsdCheck ==
    /\ osdPc = "check"
    /\ osdPc' = IF encode_create[osdIdx] THEN "draw" ELSE "input"
    /\ UNCHANGED <<stream, media, run, pc, i, t, cb, cbT, osdIdx>>

\* MSA_OSDLayerDrawPic or MSA_OSDLayerDrawClear on the handle
OsdDraw ==
    /\ osdPc = "draw"
    /\ osdPc' = "input" /\ osdIdx' = 0
    /\ UNCHANGED <<stream, media, run, pc, i, t, cb, cbT>>

\* what the thread does by itself; only traffic brings it out of its select
OverlayRuns == OsdTop \/ (\E s \in Streams : OsdMessage(s)) \/ OsdCheck \/ OsdDraw

Overlay == OverlayRuns \/ OsdWake

\* the client has returned
Done == pc = "end" /\ UNCHANGED vars

Next ==
    \/ Supervisor \/ Stop_rtspclient \/ Overlay \/ Done
    \/ \E s \in Streams : CbFind(s) \/ FinishFrame(s)

Spec == Init /\ [][Next]_vars

\* The threads are scheduled; a frame that has begun is finished; what one
\* select brings in is finite.  Neither frames nor overlay clients need ever
\* come: the overlay's select has no timeout, and nothing makes it return.
FairSpec ==
    /\ Spec
    /\ WF_vars(Supervisor)
    /\ WF_vars(OverlayRuns) /\ SF_vars(OsdTop)
    /\ \A s \in Streams : WF_vars(FinishFrame(s))

-----------------------------------------------------------------------------
(* Properties.                                                             *)

\* The types; the timer goes at most two past its limit (test.c counts in
\* LINKED, GETVD and WORDWELL, and only two of the three look at the limit)
\* and at most one below zero.
TypeOK ==
    /\ status \in [Streams -> Statuses]
    /\ timer \in [Streams -> Timers] /\ cbT \in [Streams -> Timers]
    /\ t \in Timers
    /\ have_vd \in [Streams -> BOOLEAN] /\ linked \in [Streams -> BOOLEAN]
    /\ width \in [Streams -> BOOLEAN] /\ encode_create \in [Streams -> BOOLEAN]
    /\ window \in [Streams -> BOOLEAN] /\ decoded \in [Streams -> BOOLEAN]
    /\ venc \in [Streams -> BOOLEAN] /\ osd \in [Streams -> BOOLEAN]
    /\ led \in [Streams -> BOOLEAN]
    /\ run \in BOOLEAN
    /\ pc \in {"init", "loop", "store", "size", "destroy", "clear",
               "end_4", "unwind", "end"}
    /\ i \in 0 .. StreamNum
    /\ cb \in [Streams -> {"none", "found", "sent", "load", "store"}]
    /\ osdPc \in {"none", "top", "select", "input", "check", "draw", "gone"}
    /\ osdIdx \in Streams

\* A stream in GETVD can leave it: the switch has no other way out of that
\* state than an encoder to create, so a size and no encoder must be there.
GetVdCanAdvance ==
    \A s \in Streams :
        Running /\ status[s] = "GETVD" => width[s] /\ ~encode_create[s] /\ linked[s]

\* While the loop runs, a lit channel lamp means a stream that is connected
\* and has its encoder and its overlay (set_chn1_up, set_chn2_up).
LampMeansEncoding ==
    \A s \in Streams : Running /\ led[s] => linked[s] /\ venc[s] /\ osd[s]

\* When the windows are destroyed nothing that hangs on them is left, so that
\* MSA_DestroyChanWindow never refuses, and no connection is left either.
NothingLeftBehind ==
    pc \in {"unwind", "end"} =>
        \A s \in Streams : ~venc[s] /\ ~osd[s] /\ ~linked[s]

\* The handle the overlay thread took is the handle of a window.
OverlayHandleLives ==
    osdPc \in {"check", "draw"} => window[osdIdx]

\* The handle the receiver is about to give to MSA_SendDecData is the handle
\* of a window, also while the client goes down.
DecoderHandleLives ==
    \A s \in Streams : cb[s] = "found" => window[s]

\* A connection starts as the first one did: no second counted against it, no
\* frame of its predecessor taken for its own, no encoder, no callback.
LinkStartsClean ==
    \A s \in Streams :
        Running /\ status[s] = "UNLINK" =>
            /\ timer[s] = 0 /\ ~have_vd[s] /\ ~width[s]
            /\ ~encode_create[s] /\ ~venc[s] /\ cb[s] = "none"

\* A stream that gets no more frames is connected anew again and again, as
\* long as the client runs: S_LINKDOWN is reached from wherever it stands.
SilentStreamIsRetried ==
    \A s \in Streams :
        <>[][~CbFind(s)]_vars =>
            \/ []<>(status[s] \in {"UNLINK", "UNINIT"})
            \/ <>[](~Running)

\* A connected stream whose frames decode gets its encoder, even when the
\* first frame came in the last second allowed.
PictureIsShown ==
    \A s \in Streams :
        (status[s] = "LINKED" /\ have_vd[s] /\ decoded[s])
            ~> (status[s] = "WORDWELL" \/ ~Running)

\* The supervisor has taken every stream down and waits in pthread_join for an
\* overlay thread that sits in its select, which has no timeout.
HungInJoin ==
    /\ pc = "end_4" /\ i = StreamNum /\ osdPc = "select"
    /\ \A s \in Streams : ~venc[s] /\ ~osd[s] /\ ~linked[s]

\* Once asked to stop (Stop_rtspclient) the client returns, or it hangs in one
\* place only and for one reason only: everything is taken down, and no overlay
\* client ever again wakes the overlay thread's select (test.c:535).  It hangs
\* nowhere else, and the first traffic that comes lets it return.
StopIsObeyed == ~run ~> (pc = "end" \/ []HungInJoin)
=============================================================================
