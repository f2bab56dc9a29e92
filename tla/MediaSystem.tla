---------------------------- MODULE MediaSystem -----------------------------
(***************************************************************************)
(* The media system of the board (media_sys_api.c, function_normal.c) and  *)
(* the threads of the RTSP client that share it: the supervisor creates    *)
(* and destroys windows, encoders and overlays; a receiver for each stream *)
(* decodes frames; the overlay thread draws; the key thread shows one      *)
(* window or all of them (show_win); and every encoder has a worker that   *)
(* fetches its stream.                                                     *)
(*                                                                         *)
(* A call holds OpLock from its beginning to its end, so it is one step,   *)
(* unless it waits: creating an encoder waits for its worker to start and  *)
(* destroying one for its worker to end, both with the lock held.  The     *)
(* workers never take the lock.  Every call of the vendor's library that   *)
(* is named in MayFail may fail.                                           *)
(*                                                                         *)
(* Windows are combined by hardware and not swapped, as the client uses    *)
(* them, so that a window, its decoder, its encoder and its overlay have   *)
(* one number.  RtspClient says when the supervisor does what; here it     *)
(* may do anything that it ever does in a status.                          *)
(***************************************************************************)
EXTENDS Integers, FiniteSetsExt

CONSTANTS StreamNum,    \* STREAM_NUM
          MaxChannels,  \* MSA_MAX_CHANNEL_NUM
          Cameras,      \* the streams whose cameras send frames
          Keys,         \* the keys that are pressed: a window, or StreamNum for all
          MayFail,      \* the vendor calls that may fail, by where they stand
          ForcedClose   \* may rl_close_rtsp return while rtsp_recv runs?

\* StartGrp stands for all that StartVpss does with a group once it is there,
\* RecvPic and AttachRgn for the second step of creating an encoder and an
\* overlay.
FailureSites == {"CreateGrp", "StartGrp", "StartVo", "BindVo", "StartSd", "BindSd",
                 "CreateDec", "BindDec", "UnbindDec", "StopDec", "UnbindSd",
                 "ShowStart", "ShowBind", "SetUnbind", "SetStart", "SetBind",
                 "CreateVenc", "RecvPic", "BindVenc", "Thread", "UnbindVenc",
                 "StopVenc", "CreateRgn", "AttachRgn", "DestroyRgn", "ReadSize"}

Streams == 0 .. StreamNum - 1
Ids     == 0 .. MaxChannels - 1
Null    == -1

ASSUME MediaAssumption ==
    /\ StreamNum \in Nat \ {0}
    /\ MaxChannels \in Nat \ {0}
    /\ Cameras \subseteq Streams
    /\ Keys \subseteq 0 .. StreamNum
    /\ MayFail \subseteq FailureSites
    /\ ForcedClose \in BOOLEAN

VARIABLES
    \* the media system
    isInit,
    OpLock,         \* "free", "supervisor", or "leaked" by a call that returned
    table,          \* the numbers with a channel in pstChanInfo
    alloc,          \* the numbers whose channel has not been freed
    chan,           \* the channels, MSA_CHANNEL_INFO_ST
    hw,             \* what runs in the hardware, as <<kind, number>>
    bound,          \* the receivers that have been bound to their source
    worker,         \* Hisi_StreamWorkThread, by number
    \* the RTSP client
    status, open, encode_create, handle,   \* of a stream; open: rtsp_fd >= 0
    run,            \* thread_run_flag
    pc, i,          \* the supervisor: place, stream
    feed,           \* the receivers, by stream: inside MSA_SendDecData?
    osdPc, osdIdx,  \* the overlay thread: place, the stream it draws on
    keyPc, key, k,  \* the key thread: place, the window asked for, loop index
    show_chan

device     == <<hw, bound>>
channels   == <<isInit, table, alloc, chan>>
streams    == <<status, open, encode_create, handle>>
supervisor == <<run, pc, i>>
drawer     == <<osdPc, osdIdx>>
keys       == <<keyPc, key, k, show_chan>>
vars == <<channels, OpLock, device, worker, streams, supervisor, feed, drawer, keys>>

\* a channel as a window has it when it is new.  iVencThreadFlag is not
\* initialised.
NewChannel == [vdec |-> TRUE, venc |-> FALSE, osd |-> FALSE,
               show |-> TRUE, win |-> "own", flag |-> "unset"]

Channels == [vdec : BOOLEAN, venc : BOOLEAN, osd : BOOLEAN, show : BOOLEAN,
             win : {"own", "full"}, flag : {"unset", "0", "1"}]

Kinds == {"vpss", "vo", "sd", "vdec", "venc", "rgn"}

Init ==
    /\ isInit = FALSE /\ OpLock = "free"
    /\ table = {} /\ alloc = {} /\ chan = [h \in Ids |-> NewChannel]
    /\ hw = {} /\ bound = {}
    /\ worker = [h \in Ids |-> "none"]
    /\ status = [s \in Streams |-> "UNINIT"]
    /\ open = [s \in Streams |-> FALSE]
    /\ encode_create = [s \in Streams |-> FALSE]
    /\ handle = [s \in Streams |-> Null]
    /\ run = TRUE /\ pc = "start" /\ i = 0
    /\ feed = [s \in Streams |-> FALSE]
    /\ osdPc = "none" /\ osdIdx = 0
    /\ keyPc = "none" /\ key = StreamNum /\ k = 0 /\ show_chan = StreamNum

-----------------------------------------------------------------------------
(* Helpers.                                                                *)

\* the process has not crashed, and nobody is inside the media system
MayCall == pc # "crashed" /\ OpLock = "free"

Fails(site) == site \in MayFail

Set(f, x, v) == [f EXCEPT ![x] = v]

\* the channel behind the handle of stream s
Chan(s) == chan[handle[s]]

\* What runs in the hardware for a number: the pipe (a VPSS group), the place
\* on the screen and, for window 0, a small one on the analogue output, the
\* decoder, the encoder, the overlay.
Pipe(h)    == {<<"vpss", h>>}
Place(h)   == {<<"vo", h>>}
Sd(h)      == IF h = 0 THEN {<<"sd", 0>>} ELSE {}
Decoder(h) == {<<"vdec", h>>}
Encoder(h) == {<<"venc", h>>}
Overlay(h) == {<<"rgn", h>>}

Window(h) == Pipe(h) \cup Place(h) \cup Sd(h) \cup Decoder(h)

\* a receiver gets its source, or loses it
Bind(parts)   == bound' = bound \cup parts
UnBind(parts) == bound' = bound \ parts

BindEncoder(h) == Bind(Encoder(h))

Free == Ids \ table

\* rl_close_rtsp waits for a frame that is being delivered, unless it is
\* the kind that forces the connection down
Closes(s) == ForcedClose \/ ~feed[s]

\* a call that changes nothing, because it is refused or fails at once
Refused == UNCHANGED <<channels, device>>

-----------------------------------------------------------------------------
(* Mutants: slips the properties below would notice.                       *)

\* MSA_DestroyChanWindow without MSA_CheckEnableOp
MayDestroyAlways(h) == h \in Ids

\* MSA_ShowChanWindow that hides a window and does not note it
HideUnnoted(h) ==
    IF ~chan[h].show THEN Refused
    ELSE /\ hw' = hw \ Place(h)
         /\ UNCHANGED <<channels, bound>>

\* Hisi_DestroyStreamWorkThread without pthread_join
DestroyEncodeNoJoin ==
    LET h == handle[i] IN
    /\ pc = "enc_off" /\ MayCall
    /\ IF chan[h].venc
       THEN /\ chan' = [chan EXCEPT ![h].flag = "0"]
            /\ OpLock' = "supervisor" /\ pc' = "stop"
       ELSE pc' = "down" /\ UNCHANGED <<OpLock, chan>>
    /\ UNCHANGED <<isInit, table, alloc, device, worker, streams, run, i, feed,
                   drawer, keys>>

\* Hisi_DestroyStreamWorkThread that joins without clearing the flag
DestroyEncodeKeepsFlag ==
    LET h == handle[i] IN
    /\ pc = "enc_off" /\ MayCall
    /\ IF chan[h].venc
       THEN OpLock' = "supervisor" /\ pc' = "join"
       ELSE pc' = "down" /\ UNCHANGED OpLock
    /\ UNCHANGED <<channels, device, worker, streams, run, i, feed, drawer, keys>>

\* end_3 without pthread_join
NoJoinOsd ==
    /\ pc = "end_4" /\ i = StreamNum
    /\ pc' = "end_2" /\ i' = StreamNum - 1
    /\ UNCHANGED <<channels, OpLock, device, worker, streams, run, feed, drawer, keys>>

\* end_2 that goes down to window 0 and beyond
UnwindPastZero ==
    /\ pc = "end_2" /\ i >= 0 /\ MayCall
    /\ Refused
    /\ i' = i - 1
    /\ UNCHANGED <<OpLock, worker, streams, run, pc, feed, drawer, keys>>

\* show_win that does not put the window back in its place
KeyPressNoRestore(c) ==
    /\ keyPc = "idle" /\ pc \notin {"end", "crashed"}
    /\ key' = c /\ k' = 0
    /\ keyPc' = "show"
    /\ UNCHANGED <<channels, device, OpLock, worker, streams, run, i, feed, drawer,
                   pc, show_chan>>

-----------------------------------------------------------------------------
(* The calls of the media system, for a handle that is a channel.          *)

\* MSA_CreateChanWindow: everything is started and the number inserted
Created(s) ==
    /\ Free # {}
    /\ LET h == Min(Free) IN
         /\ Window(h) \cap hw = {}
         /\ hw' = hw \cup Window(h)
         /\ Bind(Place(h) \cup Sd(h) \cup Pipe(h))
         /\ table' = table \cup {h} /\ alloc' = alloc \cup {h}
         /\ chan' = Set(chan, h, NewChannel)
         /\ handle' = Set(handle, s, h)
    /\ UNCHANGED isInit

\* What a failure may leave running: err1 stops the pipe, err3 also the two
\* places, err nothing, and StartVpss and MSA_CreateDec take nothing back.
Left(h, site) ==
    CASE site = "StartGrp"  -> {Pipe(h)}
      [] site = "BindVo"    -> {Place(h)}
      [] site = "CreateDec" -> {Window(h) \ Decoder(h), Window(h)}
      [] site = "BindDec"   -> {Window(h)}
      [] OTHER              -> {{}}

LeftBound(h, site) ==
    CASE site \in {"StartSd", "BindSd"}    -> Place(h)
      [] site \in {"CreateDec", "BindDec"} -> Place(h) \cup Sd(h)
      [] OTHER                             -> {}

\* refused for its place or for want of a number, or a vendor call fails
CreateFails ==
    \/ Refused
    \/ /\ Free # {}
       /\ \E site \in MayFail \cap {"CreateGrp", "StartGrp", "StartVo", "BindVo",
                                    "StartSd", "BindSd", "CreateDec", "BindDec"} :
            LET h == Min(Free) IN
              /\ site \in {"StartSd", "BindSd"} => h = 0
              /\ \E left \in Left(h, site) : hw' = hw \cup left
              /\ Bind(LeftBound(h, site))
       /\ UNCHANGED channels

\* MSA_CheckEnableOp: no encoder and no overlay
MayDestroy(h) == ~chan[h].venc /\ ~chan[h].osd

\* MSA_DestroyChanWindow.  The channel leaves the table first: if a later
\* step fails it stays allocated and what is left of it running.  The place
\* is unbound from a source that it is not bound to.
Destroy(h) ==
    IF h \notin table \/ ~MayDestroy(h) THEN Refused
    ELSE /\ table' = table \ {h}
         /\ \/ /\ Fails("UnbindDec")
               /\ UNCHANGED <<isInit, alloc, chan, device>>
            \/ /\ Fails("StopDec")
               /\ UnBind(Pipe(h))
               /\ UNCHANGED <<isInit, alloc, chan, hw>>
            \/ /\ Fails("UnbindSd") /\ h = 0
               /\ UnBind(Pipe(h))
               /\ hw' = hw \ (Place(h) \cup Decoder(h))
               /\ chan' = [chan EXCEPT ![h].vdec = FALSE]
               /\ UNCHANGED <<isInit, alloc>>
            \/ /\ UnBind(Pipe(h) \cup Sd(h))
               /\ hw' = hw \ Window(h)
               /\ alloc' = alloc \ {h} /\ chan' = Set(chan, h, NewChannel)
               /\ UNCHANGED isInit

\* MSA_ShowChanWindow(MSA_WINDOW_HIDE): unbound from a source again that it
\* is not bound to
Hide(h) ==
    IF ~chan[h].show THEN Refused
    ELSE /\ hw' = hw \ Place(h)
         /\ chan' = [chan EXCEPT ![h].show = FALSE]
         /\ UNCHANGED <<isInit, table, alloc, bound>>

\* MSA_ShowChanWindow(MSA_WINDOW_SHOW)
Show(h) ==
    \/ (chan[h].show \/ Fails("ShowStart")) /\ Refused
    \/ /\ ~chan[h].show
       /\ hw' = hw \cup Place(h)
       /\ chan' = [chan EXCEPT ![h].show = TRUE]
       /\ \/ Bind(Place(h))
          \/ Fails("ShowBind") /\ UNCHANGED bound
       /\ UNCHANGED <<isInit, table, alloc>>

\* MAS_ChanWindowSet: refused for a hidden window, else the place is
\* unbound and stopped, started at win and bound
WindowSet(h, win) ==
    \/ (~chan[h].show \/ Fails("SetUnbind")) /\ Refused
    \/ /\ chan[h].show /\ Fails("SetStart")
       /\ hw' = hw \ Place(h) /\ UnBind(Place(h))
       /\ UNCHANGED channels
    \/ /\ chan[h].show /\ Fails("SetBind")
       /\ hw' = hw \cup Place(h) /\ UnBind(Place(h))
       /\ UNCHANGED channels
    \/ /\ chan[h].show
       /\ hw' = hw \cup Place(h) /\ Bind(Place(h))
       /\ chan' = [chan EXCEPT ![h].win = win]
       /\ UNCHANGED <<isInit, table, alloc>>

\* MAS_ChanWindowCreateOSDLayer and MAS_ChanWindowDestroyOSDLayer, when
\* they do what they say
OsdCreated(h) ==
    /\ ~chan[h].osd /\ Overlay(h) \cap hw = {}
    /\ hw' = hw \cup Overlay(h)
    /\ chan' = [chan EXCEPT ![h].osd = TRUE]
    /\ UNCHANGED <<isInit, table, alloc, bound>>

OsdDestroyed(h) ==
    /\ chan[h].osd
    /\ hw' = hw \ Overlay(h)
    /\ chan' = [chan EXCEPT ![h].osd = FALSE]
    /\ UNCHANGED <<isInit, table, alloc, bound>>

-----------------------------------------------------------------------------
(* The supervisor: start.                                                  *)

\* MSA_InitSystem; what a failure has started, SAMPLE_COMM_SYS_Exit stops
InitSystem ==
    /\ pc = "start"
    /\ \/ isInit' = TRUE /\ pc' = "init"
       \/ isInit' = FALSE /\ pc' = "end_1"
    /\ UNCHANGED <<OpLock, table, alloc, chan, device, worker, streams, run, i,
                   feed, drawer, keys>>

\* rtspc_init: a stream without an address gets no window
InitStream ==
    /\ pc = "init" /\ i < StreamNum /\ MayCall
    /\ \/ /\ Created(i)
          /\ status' = Set(status, i, "UNLINK")
          /\ i' = i + 1 /\ UNCHANGED pc
       \/ i' = i + 1 /\ Refused /\ UNCHANGED <<pc, status, handle>>
       \/ CreateFails /\ pc' = "end_2" /\ UNCHANGED <<i, status, handle>>
    /\ UNCHANGED <<OpLock, worker, open, encode_create, run, feed, drawer, keys>>

\* osd_pic_receive and the key thread start
StartThreads ==
    /\ pc = "init" /\ i = StreamNum
    /\ osdPc' = "select" /\ keyPc' = "idle" /\ pc' = "loop" /\ i' = 0
    /\ UNCHANGED <<channels, OpLock, device, worker, streams, run, feed, osdIdx,
                   key, k, show_chan>>

-----------------------------------------------------------------------------
(* The supervisor: what a visit to a stream does.                          *)

\* stream s is visited in status st
Visit(s, st) == pc = "loop" /\ status[s] = st

VisitUnlink(s) ==
    /\ Visit(s, "UNLINK")
    /\ open' = Set(open, s, TRUE)
    /\ status' = Set(status, s, "LINKED")
    /\ UNCHANGED <<channels, OpLock, device, worker, encode_create, handle,
                   supervisor, feed, drawer, keys>>

\* MSA_GetDecodePicSize returns with the lock held if /proc/umap/vdec
\* cannot be opened; a stream without a size stays as it is.
VisitLinked(s) ==
    /\ Visit(s, "LINKED")
    /\ \/ MayCall /\ status' = Set(status, s, "GETVD") /\ UNCHANGED OpLock
       \/ status' = Set(status, s, "LINKDOWN") /\ UNCHANGED OpLock
       \/ MayCall /\ Fails("ReadSize") /\ OpLock' = "leaked" /\ UNCHANGED status
    /\ UNCHANGED <<channels, device, worker, open, encode_create, handle,
                   supervisor, feed, drawer, keys>>

\* A creation that fails: refused by the channel's record, by the vendor for
\* a number that is in use, or failing at once; or failing after its first
\* step, which leaves in the hardware what no record tells of.
CreateRefused(recorded, part, site) == (recorded \/ part \subseteq hw \/ Fails(site)) /\ Refused

CreateLeaves(recorded, part, site) ==
    /\ ~recorded /\ part \cap hw = {} /\ Fails(site)
    /\ hw' = hw \cup part
    /\ UNCHANGED <<channels, bound>>

\* MAS_ChanWindowCreateEncode up to its first wait.  An encoder that cannot
\* be bound is there all the same, as its record says; one that does not
\* start to receive is there and has no record.  That no worker could be
\* created is not reported.
VisitGetVd(s) ==
    LET h == handle[s] IN
    /\ Visit(s, "GETVD") /\ MayCall
    /\ i' = s
    /\ \/ /\ \/ CreateRefused(chan[h].venc, Encoder(h), "CreateVenc")
             \/ CreateLeaves(chan[h].venc, Encoder(h), "RecvPic")
          /\ pc' = "abort" /\ UNCHANGED <<OpLock, worker>>
       \/ /\ ~chan[h].venc /\ Encoder(h) \cap hw = {}
          /\ hw' = hw \cup Encoder(h)
          /\ \/ /\ Fails("BindVenc")
                /\ chan' = [chan EXCEPT ![h].venc = TRUE]
                /\ pc' = "abort" /\ UNCHANGED <<bound, OpLock, worker>>
             \/ /\ Fails("Thread")
                /\ chan' = [chan EXCEPT ![h].venc = TRUE, ![h].flag = "0"]
                /\ BindEncoder(h)
                /\ pc' = "osd_on" /\ UNCHANGED <<OpLock, worker>>
             \/ /\ chan' = [chan EXCEPT ![h].venc = TRUE, ![h].flag = "1"]
                /\ BindEncoder(h)
                /\ worker' = Set(worker, h, "new")
                /\ OpLock' = "supervisor" /\ pc' = "starting"
          /\ UNCHANGED <<isInit, table, alloc>>
    /\ UNCHANGED <<streams, run, feed, drawer, keys>>

\* the wait for pass_data_over
WorkerStarted ==
    /\ pc = "starting" /\ worker[handle[i]] # "new"
    /\ OpLock' = "free" /\ pc' = "osd_on"
    /\ UNCHANGED <<channels, device, worker, streams, run, i, feed, drawer, keys>>

\* the overlay, or the end of the client
CreateOsd ==
    /\ pc = "osd_on" /\ MayCall
    /\ \/ /\ OsdCreated(handle[i])
          /\ encode_create' = Set(encode_create, i, TRUE)
          /\ status' = Set(status, i, "WORDWELL")
          /\ pc' = "loop"
       \/ /\ LET h == handle[i] IN
                \/ CreateRefused(chan[h].osd, Overlay(h), "CreateRgn")
                \/ CreateLeaves(chan[h].osd, Overlay(h), "AttachRgn")
          /\ pc' = "abort" /\ UNCHANGED <<encode_create, status>>
    /\ i' = 0
    /\ UNCHANGED <<OpLock, worker, open, handle, run, feed, drawer, keys>>

VisitWordwell(s) ==
    /\ Visit(s, "WORDWELL")
    /\ status' = Set(status, s, "LINKDOWN")
    /\ UNCHANGED <<channels, OpLock, device, worker, open, encode_create, handle,
                   supervisor, feed, drawer, keys>>

VisitLinkDown(s) ==
    /\ Visit(s, "LINKDOWN") /\ Closes(s)
    /\ open' = Set(open, s, FALSE)
    /\ IF encode_create[s]
       THEN pc' = "osd_off" /\ i' = s /\ UNCHANGED status
       ELSE status' = Set(status, s, "UNLINK") /\ UNCHANGED <<pc, i>>
    /\ UNCHANGED <<channels, OpLock, device, worker, encode_create, handle, run,
                   feed, drawer, keys>>

-----------------------------------------------------------------------------
(* The supervisor: overlay and encoder are taken down, in S_LINKDOWN after *)
(* the connection is closed and in end_4 before.  What fails is ignored.   *)

DestroyOsd ==
    /\ pc = "osd_off" /\ MayCall
    /\ \/ OsdDestroyed(handle[i])
       \/ (~chan[handle[i]].osd \/ Fails("DestroyRgn")) /\ Refused
    /\ pc' = "enc_off"
    /\ UNCHANGED <<OpLock, worker, streams, run, i, feed, drawer, keys>>

\* MAS_ChanWindowDestroyEncode and Hisi_DestroyStreamWorkThread: the worker
\* is told to end.  A flag that was never set may look set.
DestroyEncode ==
    LET h == handle[i] IN
    /\ pc = "enc_off" /\ MayCall
    /\ \/ /\ ~chan[h].venc
          /\ pc' = "down" /\ UNCHANGED <<OpLock, chan>>
       \/ /\ chan[h].venc /\ chan[h].flag # "0"
          /\ chan' = [chan EXCEPT ![h].flag = "0"]
          /\ OpLock' = "supervisor" /\ pc' = "join"
       \/ /\ chan[h].venc /\ chan[h].flag # "1"
          /\ OpLock' = "supervisor" /\ pc' = "stop" /\ UNCHANGED chan
    /\ UNCHANGED <<isInit, table, alloc, device, worker, streams, run, i, feed,
                   drawer, keys>>

\* pthread_join.  Joining a thread that was never made is undefined, and
\* never returns here.
JoinWorker ==
    /\ pc = "join" /\ worker[handle[i]] = "gone"
    /\ worker' = Set(worker, handle[i], "none")
    /\ pc' = "stop"
    /\ UNCHANGED <<channels, OpLock, device, streams, run, i, feed, drawer, keys>>

\* the rest of MAS_ChanWindowDestroyEncode; the encoder is unbound from a
\* source that it is not bound to.  The flag, now 0, means nothing to the
\* next encoder, so it is forgotten.
StopEncode ==
    LET h == handle[i] IN
    /\ pc = "stop"
    /\ \/ /\ Fails("UnbindVenc") \/ Fails("StopVenc")
          /\ Refused
       \/ /\ hw' = hw \ Encoder(h)
          /\ chan' = [chan EXCEPT ![h].venc = FALSE, ![h].flag = "unset"]
          /\ UNCHANGED <<isInit, table, alloc, bound>>
    /\ OpLock' = "free" /\ pc' = "down"
    /\ UNCHANGED <<worker, streams, run, i, feed, drawer, keys>>

\* the stream is forgotten, or end_4 closes it and goes on
Down ==
    /\ pc = "down"
    /\ IF open[i]
       THEN /\ Closes(i)
            /\ open' = Set(open, i, FALSE)
            /\ pc' = "end_4" /\ i' = i + 1
            /\ UNCHANGED <<status, encode_create>>
       ELSE /\ encode_create' = Set(encode_create, i, FALSE)
            /\ status' = Set(status, i, "UNLINK")
            /\ pc' = "loop" /\ i' = 0 /\ UNCHANGED open
    /\ UNCHANGED <<channels, OpLock, device, worker, handle, run, feed, drawer, keys>>

-----------------------------------------------------------------------------
(* The supervisor: end.                                                    *)

\* thread_run_flag is down, or goto end_4
LeaveLoop ==
    /\ (pc = "loop" /\ ~run) \/ pc = "abort"
    /\ pc' = "end_4" /\ i' = 0
    /\ UNCHANGED <<channels, OpLock, device, worker, streams, run, feed, drawer, keys>>

End4 ==
    /\ pc = "end_4" /\ i < StreamNum
    /\ IF open[i] THEN pc' = "osd_off" /\ UNCHANGED i ELSE i' = i + 1 /\ UNCHANGED pc
    /\ UNCHANGED <<channels, OpLock, device, worker, streams, run, feed, drawer, keys>>

\* end_3: pthread_join on the overlay thread
JoinOsd ==
    /\ pc = "end_4" /\ i = StreamNum
    /\ osdPc = "gone"
    /\ pc' = "end_2" /\ i' = StreamNum - 1
    /\ UNCHANGED <<channels, OpLock, device, worker, streams, run, feed, drawer, keys>>

\* end_2: the windows from i down to 1
Unwind ==
    /\ pc = "end_2" /\ i > 0 /\ MayCall
    /\ IF handle[i] \in alloc THEN Destroy(handle[i]) ELSE Refused
    /\ i' = i - 1
    /\ UNCHANGED <<OpLock, worker, streams, run, pc, feed, drawer, keys>>

Unwound ==
    /\ pc = "end_2" /\ i = 0
    /\ pc' = "end_1"
    /\ UNCHANGED <<channels, OpLock, device, worker, streams, run, i, feed, drawer, keys>>

\* end_1: MSA_DestroySystem destroys what is left in the table, if it can,
\* and SAMPLE_COMM_SYS_Exit stops everything.
DestroySystem ==
    /\ pc = "end_1" /\ MayCall
    /\ table' = {h \in table : ~MayDestroy(h)}
    /\ alloc' = alloc \ (table \ table')
    /\ isInit' = FALSE /\ hw' = {} /\ bound' = {}
    /\ pc' = "end"
    /\ UNCHANGED <<chan, OpLock, worker, streams, run, i, feed, drawer, keys>>

\* Stop_rtspclient
Stop_rtspclient ==
    /\ run /\ osdPc # "none"
    /\ run' = FALSE
    /\ UNCHANGED <<channels, OpLock, device, worker, streams, pc, i, feed, drawer, keys>>

-----------------------------------------------------------------------------
(* The other threads.                                                      *)

others == <<channels, device, streams, run, i>>

\* Hisi_StreamWorkThread: says that it has its argument, then fetches the
\* encoder's stream for as long as its flag is set
WorkerStart(h) ==
    /\ worker[h] = "new"
    /\ worker' = Set(worker, h, "loop")
    /\ UNCHANGED <<others, OpLock, pc, feed, drawer, keys>>

WorkerLoop(h) ==
    /\ worker[h] = "loop"
    /\ worker' = Set(worker, h, IF chan[h].flag = "1" THEN "fetch" ELSE "gone")
    /\ UNCHANGED <<others, OpLock, pc, feed, drawer, keys>>

\* Hisi_GetVideoEncodeStream, with enc_data_callback, which writes into the
\* video ring and does not take the lock
WorkerFetch(h) ==
    /\ worker[h] = "fetch"
    /\ worker' = Set(worker, h, "loop")
    /\ UNCHANGED <<others, OpLock, pc, feed, drawer, keys>>

\* rtsp_recv finds its stream and calls MSA_SendDecData with its handle
Frame(s) ==
    /\ s \in Cameras /\ open[s] /\ run /\ handle[s] # Null /\ ~feed[s]
    /\ feed' = Set(feed, s, TRUE)
    /\ UNCHANGED <<others, OpLock, worker, pc, drawer, keys>>

\* MSA_SendDecData.  A window has had an H.264 decoder since it was created
\* and all frames are H.264, so none is created or replaced; with a channel
\* that has been freed, anything may happen.
SendDecData(s) ==
    /\ feed[s] /\ MayCall
    /\ feed' = Set(feed, s, FALSE)
    /\ pc' = IF handle[s] \in alloc THEN pc ELSE "crashed"
    /\ UNCHANGED <<others, OpLock, worker, drawer, keys>>

\* osd_pic_receive: a message for a stream that works, and processOSD, which
\* looks at encode_create before it takes the handle
OsdMessage(s) ==
    /\ osdPc = "select"
    /\ status[s] = "WORDWELL" /\ encode_create[s]
    /\ osdPc' = "draw" /\ osdIdx' = s
    /\ UNCHANGED <<others, OpLock, worker, pc, feed, keys>>

\* MSA_OSDLayerDrawPic, MSA_OSDLayerDrawClear: without an overlay, an error
OsdDraw ==
    /\ osdPc = "draw" /\ MayCall
    /\ osdPc' = "select" /\ osdIdx' = 0
    /\ UNCHANGED <<others, OpLock, worker, pc, feed, keys>>

\* the while condition, looked at when something has come
OsdLeave ==
    /\ osdPc = "select" /\ ~run
    /\ osdPc' = "gone"
    /\ UNCHANGED <<others, OpLock, worker, pc, feed, osdIdx, keys>>

-----------------------------------------------------------------------------
(* The key thread: show_win.                                               *)

\* A call of the media system by the key thread for stream s, which nobody
\* stops before the windows are destroyed: with a channel that has been
\* freed, anything may happen.
KeyCall(s, call) ==
    IF ~isInit \/ handle[s] = Null THEN Refused /\ UNCHANGED pc
    ELSE /\ MayCall
         /\ IF handle[s] \in alloc THEN call /\ UNCHANGED pc
            ELSE Refused /\ pc' = "crashed"

notKeys == <<OpLock, worker, streams, run, i, feed, drawer>>

\* a key for window c, or for all windows; first the window that was shown
\* alone goes back to its own place
KeyPress(c) ==
    /\ keyPc = "idle" /\ pc \notin {"end", "crashed"}
    /\ key' = c /\ k' = 0
    /\ keyPc' = IF show_chan < StreamNum THEN "restore" ELSE "show"
    /\ UNCHANGED <<channels, device, notKeys, pc, show_chan>>

KeyRestore ==
    /\ keyPc = "restore"
    /\ KeyCall(show_chan, WindowSet(handle[show_chan], "own"))
    /\ keyPc' = "show"
    /\ UNCHANGED <<notKeys, key, k, show_chan>>

\* then all windows are shown ...
KeyShow ==
    /\ keyPc = "show" /\ k < StreamNum
    /\ KeyCall(k, Show(handle[k]))
    /\ k' = k + 1
    /\ UNCHANGED <<notKeys, keyPc, key, show_chan>>

KeyShown ==
    /\ keyPc = "show" /\ k = StreamNum
    /\ show_chan' = key /\ k' = 0 /\ key' = StreamNum
    /\ keyPc' = IF key < StreamNum THEN "hide" ELSE "idle"
    /\ UNCHANGED <<channels, device, notKeys, pc>>

\* ... all others hidden ...
KeyHide ==
    /\ keyPc = "hide" /\ k < StreamNum
    /\ IF k = show_chan THEN Refused /\ UNCHANGED pc ELSE KeyCall(k, Hide(handle[k]))
    /\ k' = k + 1
    /\ UNCHANGED <<notKeys, keyPc, key, show_chan>>

\* ... and the one gets the whole screen.
KeyFull ==
    /\ keyPc = "hide" /\ k = StreamNum
    /\ KeyCall(show_chan, WindowSet(handle[show_chan], "full"))
    /\ keyPc' = "idle" /\ k' = 0
    /\ UNCHANGED <<notKeys, key, show_chan>>

\* BRLib_Keyboard_Exit takes the callback away, but the key thread goes on
\* and calls it at the next key.
KeyAfterEnd ==
    /\ keyPc = "idle" /\ pc = "end"
    /\ pc' = "crashed"
    /\ UNCHANGED <<channels, device, notKeys, keys>>

-----------------------------------------------------------------------------
Holder == WorkerStarted \/ JoinWorker \/ StopEncode

Supervisor ==
    \/ InitSystem \/ InitStream \/ StartThreads
    \/ \E s \in Streams : \/ VisitUnlink(s) \/ VisitLinked(s) \/ VisitGetVd(s)
                          \/ VisitWordwell(s) \/ VisitLinkDown(s)
    \/ CreateOsd \/ DestroyOsd \/ DestroyEncode \/ Down \/ Holder
    \/ LeaveLoop \/ End4 \/ JoinOsd \/ Unwind \/ Unwound \/ DestroySystem

Worker(h) == WorkerStart(h) \/ WorkerLoop(h) \/ WorkerFetch(h)

Receiver(s) == Frame(s) \/ SendDecData(s)

OsdThread == (\E s \in Streams : OsdMessage(s)) \/ OsdDraw \/ OsdLeave

KeyThread ==
    \/ \E c \in Keys : KeyPress(c)
    \/ KeyRestore \/ KeyShow \/ KeyShown \/ KeyHide \/ KeyFull
    \/ KeyAfterEnd

Next ==
    \/ Supervisor \/ Stop_rtspclient
    \/ \E h \in Ids : Worker(h)
    \/ \E s \in Streams : Receiver(s)
    \/ OsdThread \/ KeyThread

Spec == Init /\ [][Next]_vars

\* The supervisor, where it holds the lock, and the workers are threads that
\* run; nothing is assumed of who gets the lock, or of what else happens.
FairSpec ==
    /\ Spec
    /\ WF_vars(Holder)
    /\ \A h \in Ids : WF_vars(Worker(h))

-----------------------------------------------------------------------------
(* Properties.                                                             *)

\* The variables stay in their ranges; numbers and handles are in bounds.
TypeOK ==
    /\ isInit \in BOOLEAN /\ run \in BOOLEAN
    /\ OpLock \in {"free", "supervisor", "leaked"}
    /\ table \subseteq alloc /\ alloc \subseteq Ids
    /\ chan \in [Ids -> Channels]
    /\ hw \subseteq Kinds \X Ids /\ bound \subseteq Kinds \X Ids
    /\ worker \in [Ids -> {"none", "new", "loop", "fetch", "gone"}]
    /\ status \in [Streams -> {"UNINIT", "UNLINK", "LINKED", "GETVD",
                               "WORDWELL", "LINKDOWN"}]
    /\ open \in [Streams -> BOOLEAN]
    /\ encode_create \in [Streams -> BOOLEAN]
    /\ handle \in [Streams -> Ids \cup {Null}]
    /\ pc \in {"start", "init", "loop", "starting", "osd_on", "osd_off", "enc_off",
               "join", "stop", "down", "abort", "end_4", "end_2", "end_1", "end",
               "crashed"}
    /\ i \in 0 .. StreamNum
    /\ feed \in [Streams -> BOOLEAN]
    /\ osdPc \in {"none", "select", "draw", "gone"} /\ osdIdx \in Streams
    /\ keyPc \in {"none", "idle", "restore", "show", "hide"}
    /\ key \in 0 .. StreamNum /\ k \in 0 .. StreamNum
    /\ show_chan \in 0 .. StreamNum

On(kind, h) == <<kind, h>> \in hw

\* Between two calls a channel in the table names exactly the hardware that
\* runs for it, each part of it with its source, and no hardware runs for a
\* number that is free: what a call refuses to create is not there, and what
\* it creates is not there already.  Holds as long as no vendor call fails at
\* a place that leaves hardware behind (StartGrp, BindVo, CreateDec, BindDec,
\* RecvPic, AttachRgn, UnbindDec, StopDec, UnbindSd), a shown window dark
\* (SetStart, SetBind) or an encoder without a picture (BindVenc).
HandlesTellHardware ==
    isInit /\ OpLock = "free" =>
        \A h \in Ids :
            IF h \in table
            THEN /\ On("vpss", h)
                 /\ On("vdec", h) = chan[h].vdec
                 /\ On("venc", h) = chan[h].venc
                 /\ On("rgn", h) = chan[h].osd
                 /\ On("vo", h) = chan[h].show
                 /\ \A part \in Pipe(h) \cup Place(h) \cup Sd(h) \cup Encoder(h) :
                        part \in hw => part \in bound
            ELSE \A kind \in Kinds : ~On(kind, h)

\* An encoder and an overlay never outlive the pipe they are attached to:
\* MSA_DestroyChanWindow refuses a window that has one, whatever failed while
\* it was created or taken down.  Holds unless one was left without a record
\* by a creation that failed in its second step (RecvPic, AttachRgn):
\* MSA_CheckEnableOp looks at the records.
NothingOnADeadPipe ==
    \A h \in Ids : On("venc", h) \/ On("rgn", h) => On("vpss", h) /\ On("vdec", h)

\* A worker asks for the stream of an encoder that is there: it has left
\* its loop before the encoder is stopped.
WorkerFetchesFromEncoder ==
    \A h \in Ids : worker[h] \in {"new", "loop", "fetch"} =>
                       h \in table /\ chan[h].venc /\ On("venc", h)

\* A receiver or the overlay thread that has taken a stream's handle and
\* waits for the lock finds its window: connections are closed and the
\* overlay thread is joined before the windows are destroyed.  Of the
\* receivers this holds only if rl_close_rtsp, whose source is not in the
\* repository, waits for the frame it is delivering (~ForcedClose).
HandlesLive ==
    /\ ~ForcedClose => \A s \in Streams : feed[s] => handle[s] \in table
    /\ osdPc = "draw" => handle[osdIdx] \in table

\* When show_win has returned, the window it was asked for has the whole
\* screen and all others are hidden, at their own places; or all are shown
\* at their own places.  Holds unless the vendor fails to start a place or
\* to unbind it (ShowStart, SetUnbind, SetStart, SetBind).
ScreenIsAsAsked ==
    keyPc = "idle" /\ pc \notin {"end_2", "end_1", "end", "crashed"} =>
        \A s \in Streams : handle[s] \in table =>
            /\ Chan(s).show = (show_chan \in {s, StreamNum})
            /\ Chan(s).win = IF show_chan = s THEN "full" ELSE "own"

\* Whoever holds the lock lets go of it: the two calls that wait with the
\* lock held wait for a thread that does not need it.  Holds unless the
\* size of a picture cannot be read (ReadSize) or an encoder cannot be
\* bound (BindVenc), which can leave the lock taken for ever.
LockComesFree == (OpLock # "free") ~> (OpLock = "free")
=============================================================================
