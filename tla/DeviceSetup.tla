---------------------------- MODULE DeviceSetup -----------------------------
(***************************************************************************)
(* The library of the media system as any program may use it               *)
(* (media_sys_api.c, sample_comm_sys.c, gui_win.c): one or two high         *)
(* definition outputs, each combined by hardware (windows get a VPSS       *)
(* group) or by software (decoders are shown directly), a                  *)
(* picture-in-picture layer bound to one of them, the analogue output that *)
(* shows window 0 again, frame buffers for graphics, and windows that are  *)
(* created, hidden, swapped, zoomed and destroyed.  MediaSystem follows    *)
(* one program through one setting of all this, with its threads; here     *)
(* are the settings, the calls that change them, and what is left when a   *)
(* vendor call in the middle of one fails.                                 *)
(*                                                                         *)
(* Every call but MSA_InitSystem and MSA_DestroySystem runs under OpLock   *)
(* from its beginning to its end and is one step.  A call made before      *)
(* MSA_InitSystem returns at once and is no step.                          *)
(***************************************************************************)
EXTENDS Integers, SequencesExt, FiniteSetsExt

CONSTANTS MaxChannels,  \* MSA_MAX_CHANNEL_NUM
          Screens,      \* enOutputScreenMode, those that have a size
          NoFormat,     \* the ones that HDMI has no format for
          Setups,       \* the settings that MSA_InitSystem is called with
          MaxFailures,  \* bound: calls of the vendor's library that fail
                        \* for no reason, in one life of the system
          MaxMade       \* bound: windows that it makes in one life

Ids    == 0 .. MaxChannels - 1
Devs   == 0 .. 1                    \* MSA_HD0, MSA_HD1
SD0    == 2                         \* MSA_SD0, SAMPLE_VO_DEV_DSD0
VPIP   == 2                         \* SAMPLE_VO_LAYER_VPIP
VSD0   == 3                         \* SAMPLE_VO_LAYER_VSD0
Layers == 0 .. 3                    \* 0 and 1: VHD0 and VHD1
Modes  == {"hard", "soft"}          \* MSA_COMBINE_MODE

\* MSA_OUTPUT_DEV_INFO_ST: iOutputDevNum, iDevCombineMode,
\* enOutputScreenMode, iPipLayerBindDevId
SetupType == [num : {1, 2}, mode : [Devs -> Modes], screen : [Devs -> Screens],
              pip : Devs]

ASSUME SetupAssumption ==
    /\ MaxChannels \in Nat \ {0}
    /\ Screens # {} /\ NoFormat \subseteq Screens
    /\ Setups \subseteq SetupType
    /\ \A s \in Setups : s.pip < s.num
    /\ MaxFailures \in Nat /\ MaxMade \in Nat

VARIABLES
    isInit, setup,  \* gMsaCtrl: isInit, stInitDev
    attr,           \* stOutputDevLayerAttr and, for VPIP, stPipLayerAttr
    fb,             \* hd_layer_open: the open frame buffers
    lock,           \* hOpMutex: "free", or "leaked" by a call that returned
    lay,            \* the hardware: devices and layers
    hdmi,           \* the hardware: the format HDMI was started with
    chn,            \* the hardware: channels, groups and bindings
    table, win,     \* pstChanInfo: the numbers in use, and the windows
    torn,           \* history: numbers for which a vendor call has failed,
                    \* that were swapped while hidden, which shows them again,
                    \* or whose windows have outlived their system; and the
                    \* analogue output after a swap that failed
    failures, made  \* count for the bounds

board   == <<isInit, setup, attr, fb, lay, hdmi>>
windows == <<chn, table, win, torn>>
bounds  == <<failures, made>>
vars    == <<board, lock, windows, bounds>>

-----------------------------------------------------------------------------
(* The hardware.                                                           *)

Places == (Layers \ {VSD0}) \X Ids \cup {<<VSD0, 0>>}
Sd     == <<VSD0, 0>>
NoSource == <<"none", 0>>
Vpss(h) == <<"vpss", h>>            \* the group's channel for the screen
Vdec(h) == <<"vdec", h>>
SdFeed  == <<"sd", 0>>              \* group 0's channel for the analogue output
Analogue == -1                      \* the analogue output in torn

\* on: the layers that run; part: how a base layer is combined; size: of
\* which screen a layer has the size; pip: the device that VPIP is bound to
AllOff == [dev |-> {}, on |-> {}, part |-> [d \in Devs |-> "hard"],
           size |-> [l \in 0 .. VPIP |-> "none"], pip |-> 0]

\* vo: the channels of layers that run; src: what they are bound to; vpss,
\* vdec: what runs; fed: the groups bound to their decoder; extra: encoders
\* and overlays; crop, zoom: the groups and the channels that magnify
NoChannels == [vo |-> {}, src |-> [p \in Places |-> NoSource], vpss |-> {},
               vdec |-> {}, fed |-> {}, extra |-> {}, crop |-> {}, zoom |-> {}]

StartVpss(c, h)  == [c EXCEPT !.vpss = @ \cup {h}]
StopVpss(c, h)   == [c EXCEPT !.vpss = @ \ {h}, !.crop = @ \ {h}]
StartVoChn(c, p) == [c EXCEPT !.vo = @ \cup {p}]
StopVoChn(c, p)  == [c EXCEPT !.vo = @ \ {p}, !.zoom = @ \ {p}]
StartVdec(c, h)  == [c EXCEPT !.vdec = @ \cup {h}]
StopVdec(c, h)   == [c EXCEPT !.vdec = @ \ {h}]
FeedVpss(c, h)   == [c EXCEPT !.fed = @ \cup {h}]
StarveVpss(c, h) == [c EXCEPT !.fed = @ \ {h}]

\* HI_MPI_SYS_Bind and UnBind: a receiver has one source; it cannot be bound
\* to a second one, nor unbound from one that it is not bound to
MayBind(c, p, s) == c.src[p] \in {NoSource, s}
BindVo(c, p, s)   == [c EXCEPT !.src[p] = s]
UnBindVo(c, p, s) == IF c.src[p] = s THEN [c EXCEPT !.src[p] = NoSource] ELSE c

\* SAMPLE_COMM_VO_StartLayer, with the size on record, and _StopLayer
StartLayer(on, l) == [on EXCEPT !.on = @ \cup {l}, !.size[l] = attr[l]]
StopLayer(on, l)  == [on EXCEPT !.on = @ \ {l}]

-----------------------------------------------------------------------------
(* What the library works out.                                             *)

\* MSA_GetCombineMode
Hard(dev) == setup.mode[dev] = "hard"

\* MSA_GetChanLayer
ChanLayer(dev, base) == IF base /\ dev = setup.pip THEN VPIP ELSE dev
GetChanLayer(h) == ChanLayer(win[h].dev, win[h].base)

\* a window's place: where MSA_CreateChanWindow has put it
PlaceLayer(dev, base) == IF Hard(dev) THEN ChanLayer(dev, base) ELSE dev
Place(h)  == <<PlaceLayer(win[h].dev, win[h].base), win[h].vo>>
Source(h) == IF win[h].vpss THEN Vpss(h) ELSE Vdec(h)

NoWindow == [dev |-> 0, base |-> FALSE, show |-> FALSE, vpss |-> FALSE,
             vo |-> 0, busy |-> FALSE]

\* MSA_GetAvailableChanId
Free == Ids \ table

\* NeverAnyWindow: a mutant that does not look
NeverAnyWindow == FALSE

\* MSA_HaveChanWindow
HaveChanWindow == table # {}

\* the library is initialised and nobody keeps OpLock
Ready == isInit /\ lock = "free"

\* a vendor call fails that has no reason to
Fails == failures < MaxFailures /\ failures' = failures + 1

\* a vendor call fails that cannot do what it is asked, or for no reason
Refuses(can) == IF can THEN Fails ELSE UNCHANGED failures

\* A vendor call in the middle of a function: whether it is made at all,
\* whether it can do what it is asked, and what there is when it fails, the
\* error exit included.
Call(asked, can, left) == [asked |-> asked, can |-> can, left |-> left]

Succeeds(calls) == \A k \in DOMAIN calls : calls[k].asked => calls[k].can

FailsAt(calls, k) ==
    /\ Succeeds(SubSeq(calls, 1, k - 1))
    /\ calls[k].asked /\ Refuses(calls[k].can)
    /\ chn' = calls[k].left

-----------------------------------------------------------------------------
(* What the callers keep to.                                               *)

\* Bound: a torn window is not swapped, magnified or given an encoder; it may
\* be hidden, shown and destroyed.
Whole == table \ torn

\* A swap is undone before a window is created or destroyed: a window that
\* is destroyed stops channel 0 of its layer and the channel of its number,
\* and a new one takes them, whoever has them after a swap.
NothingSwapped == \A h \in table : win[h].vo = h

\* Windows are swapped where MSA_ChanWindowSwap looks for them: it uses
\* VPIP for a base window also where it was combined by software.
AtItsPlace(h) == PlaceLayer(win[h].dev, win[h].base) = GetChanLayer(h)

\* MSA_PipLayerBindToDev: "all channel windows must be closed before this
\* function is used" (media_sys_api.h); it does not check that itself
AllClosed == table = {}

-----------------------------------------------------------------------------
(* Starting and ending the system.                                         *)

\* the frame buffers that MSA_InitSystem opens, in this order
FrameBuffers(s) == (0 .. s.num - 1) \cup {SD0}

\* the layers and devices when all of MSA_InitSystem has been done
Started(s) ==
    [dev  |-> (0 .. s.num - 1) \cup {SD0},
     on   |-> (0 .. s.num - 1) \cup {VPIP, VSD0},
     part |-> [d \in Devs |-> IF d < s.num THEN s.mode[d] ELSE "hard"],
     size |-> [l \in 0 .. VPIP |->
                 IF l = VPIP THEN s.screen[s.pip]
                 ELSE IF l < s.num THEN s.screen[l] ELSE "none"],
     pip  |-> s.pip]

\* AttrsOfFirst: a mutant that notes the first device's attributes for all
AttrsOfFirst(s, ls) == [l \in 0 .. VPIP |-> IF l \in ls THEN s.screen[0] ELSE attr[l]]

\* stOutputDevLayerAttr and stPipLayerAttr after the layers of ls
Attrs(s, ls) ==
    [l \in 0 .. VPIP |->
        IF l \notin ls THEN attr[l]
        ELSE IF l = VPIP THEN s.screen[s.pip] ELSE s.screen[l]]

\* SAMPLE_COMM_VO_HdmiStart: a format that the conversion does not know is
\* read uninitialised
HdmiFormats(screen) == IF screen \in NoFormat THEN Screens ELSE {screen}

\* MSA_InitSystem.  It takes the format of the last device.
InitSystem(s) ==
    /\ ~isInit /\ fb = {}
    /\ isInit' = TRUE /\ setup' = s
    /\ lay' = Started(s) /\ attr' = Attrs(s, (0 .. s.num - 1) \cup {VPIP})
    /\ hdmi' \in HdmiFormats(s.screen[s.num - 1])
    /\ fb' = FrameBuffers(s)
    /\ lock' = "free"
    /\ chn' = NoChannels
    /\ failures' = 0 /\ made' = 0
    /\ UNCHANGED <<table, win, torn>>

\* MSA_InitSystem gets no memory for the pictures, or none for the decoders:
\* it has stopped whatever ran and started nothing
InitSystemNoPools ==
    /\ ~isInit /\ Fails
    /\ lay' = AllOff /\ chn' = NoChannels
    /\ UNCHANGED <<isInit, setup, attr, hdmi, fb, lock, table, win, torn, made>>

\* MSA_InitSystem fails before the frame buffers, after the layers of ls:
\* SAMPLE_COMM_SYS_Exit stops what runs
InitSystemFails(s) ==
    /\ ~isInit /\ Fails
    /\ \E n \in 0 .. s.num :
         LET ls == 0 .. n - 1 IN
         \/ attr' = Attrs(s, ls) /\ UNCHANGED hdmi
         \/ n = s.num /\ attr' = Attrs(s, ls \cup {VPIP})
            /\ (UNCHANGED hdmi \/ hdmi' \in HdmiFormats(s.screen[s.num - 1]))
    /\ lay' = AllOff /\ chn' = NoChannels
    /\ UNCHANGED <<isInit, setup, fb, lock, table, win, torn, made>>

\* gui_open_fb refuses a frame buffer that is open, or dev_fb_init fails
OpenFbFails(f) == Refuses(f \notin fb)

\* MSA_InitSystem fails at the frame buffer f; those before it stay open, since
\* only MSA_DestroySystem closes them
InitSystemNoFb(s) ==
    /\ ~isInit
    /\ \E f \in FrameBuffers(s) :
         /\ \A g \in FrameBuffers(s) : g < f => g \notin fb
         /\ OpenFbFails(f)
         /\ fb' = fb \cup {g \in FrameBuffers(s) : g < f}
    /\ attr' = Attrs(s, (0 .. s.num - 1) \cup {VPIP})
    /\ hdmi' \in HdmiFormats(s.screen[s.num - 1])
    /\ lay' = AllOff /\ chn' = NoChannels
    /\ UNCHANGED <<isInit, setup, lock, table, win, torn, made>>

\* MSA_DestroySystem: a window with an encoder or an overlay is refused and
\* stays in the table; it cannot get past a window when OpLock is leaked
DestroySystem ==
    /\ isInit /\ (lock = "free" \/ table = {})
    /\ isInit' = FALSE /\ fb' = {}
    /\ table' = {h \in table : win[h].busy}
    /\ win' = [h \in Ids |-> IF h \in table' THEN win[h] ELSE NoWindow]
    /\ lay' = AllOff /\ chn' = NoChannels /\ torn' = table'
    /\ failures' = 0 /\ made' = 0
    /\ UNCHANGED <<setup, attr, lock, hdmi>>

-----------------------------------------------------------------------------
(* Changing the setting.                                                   *)

\* MSA_SetDevCombineMode: the layer is stopped, combined otherwise, started
SetDevCombineMode(d, m) ==
    /\ Ready /\ d < setup.num /\ ~HaveChanWindow
    /\ setup.mode[d] # m
    /\ LET stopped == StopLayer(lay, d)
           parted  == [stopped EXCEPT !.part[d] = m]
           running == StartLayer(parted, d)
       IN \/ /\ lay' = running /\ setup' = [setup EXCEPT !.mode[d] = m]
             /\ UNCHANGED failures
          \/ Fails /\ lay' \in {lay, stopped, parted} /\ UNCHANGED setup
    /\ UNCHANGED <<isInit, attr, fb, hdmi, lock, windows, made>>

\* MSA_PipLayerBindToDev: stopped, unbound, bound, started with the
\* attributes that MSA_InitSystem has noted
PipLayerBindToDev(d) ==
    /\ Ready /\ d < setup.num /\ AllClosed
    /\ setup.pip # d
    /\ LET stopped == StopLayer(lay, VPIP)
           unbound == [stopped EXCEPT !.pip = -1]
           bound   == [stopped EXCEPT !.pip = d]
           running == StartLayer(bound, VPIP)
       IN \/ /\ lay.pip = setup.pip
             /\ lay' = running /\ setup' = [setup EXCEPT !.pip = d]
             /\ UNCHANGED failures
          \/ /\ lay.pip # setup.pip
             /\ lay' = stopped /\ UNCHANGED <<setup, failures>>
          \/ /\ Fails
             /\ \/ lay' \in {lay, stopped}
                \/ lay.pip = setup.pip /\ lay' \in {unbound, bound}
             /\ UNCHANGED setup
    /\ UNCHANGED <<isInit, attr, fb, hdmi, lock, windows, made>>

-----------------------------------------------------------------------------
(* Windows.                                                                *)

\* MSA_CreateChanWindow with the number h on a device and a layer.  err3 stops
\* both places and the group, err1 the group, err nothing.
CreateWith(h, dev, base) ==
    LET p  == <<PlaceLayer(dev, base), h>>
        w  == [dev |-> dev, base |-> base, show |-> TRUE, vpss |-> Hard(dev),
               vo |-> h, busy |-> FALSE]
        c1 == IF Hard(dev) THEN StartVpss(chn, h) ELSE chn
        c2 == StartVoChn(c1, p)
        c3 == IF Hard(dev) THEN BindVo(c2, p, Vpss(h)) ELSE c2
        c4 == IF h = 0 THEN StartVoChn(c3, Sd) ELSE c3
        c5 == IF h = 0 THEN BindVo(c4, Sd, SdFeed) ELSE c4
        c6 == StartVdec(c5, h)
        c7 == IF Hard(dev) THEN FeedVpss(c6, h) ELSE BindVo(c6, p, Vdec(h))
        Err3(c) == StopVpss(StopVoChn(StopVoChn(c, Sd), p), h)
        calls == << Call(Hard(dev), h \notin chn.vpss, chn),
                    Call(TRUE, p[1] \in lay.on, StopVpss(c1, h)),
                    Call(Hard(dev), MayBind(c2, p, Vpss(h)), StopVpss(c2, h)),
                    Call(h = 0, VSD0 \in lay.on, Err3(c3)),
                    Call(h = 0, MayBind(c4, Sd, SdFeed), Err3(c4)),
                    Call(TRUE, h \notin chn.vdec, c5),
                    Call(TRUE, Hard(dev) \/ MayBind(c6, p, Vdec(h)), c6) >>
    IN \/ /\ Succeeds(calls)
          /\ chn' = c7
          /\ table' = table \cup {h} /\ win' = [win EXCEPT ![h] = w]
          /\ UNCHANGED <<torn, failures>>
       \/ /\ \E k \in DOMAIN calls : FailsAt(calls, k)
          /\ torn' = torn \cup {h}
          /\ UNCHANGED <<table, win>>

\* MSA_CreateChanWindow takes the first number that is free.
CreateChanWindow(dev, base) ==
    /\ Ready /\ dev < setup.num /\ NothingSwapped
    /\ Free # {} /\ made < MaxMade
    /\ CreateWith(Min(Free), dev, base)
    /\ made' = made + 1
    /\ UNCHANGED <<board, lock>>

\* AlwaysEnabled: a mutant without MSA_CheckEnableOp
AlwaysEnabled(h) == TRUE

\* MSA_CheckEnableOp
CheckEnableOp(h) == ~win[h].busy

\* MSA_DestroyChanWindow.  The window leaves the table first.  It is unbound
\* from a channel of the group that it is not bound to, so that its place
\* stays bound; where window 0 has its group it stops channel 0 of its layer.
DestroyChanWindow(h) ==
    /\ Ready /\ h \in table /\ CheckEnableOp(h) /\ NothingSwapped
    /\ LET hard == Hard(win[h].dev)
           p  == Place(h)
           c1 == IF hard THEN StarveVpss(chn, h) ELSE UnBindVo(chn, p, Vdec(h))
           c2 == StopVdec(c1, h)
           c3 == IF ~hard \/ win[h].show THEN StopVoChn(c2, p) ELSE c2
           c4 == IF hard /\ h = 0
                 THEN StopVoChn(StopVoChn(UnBindVo(c3, Sd, SdFeed), Sd), <<p[1], 0>>)
                 ELSE c3
           c5 == IF hard THEN StopVpss(c4, h) ELSE c4
           calls == << Call(TRUE, IF hard THEN win[h].vpss ELSE MayBind(chn, p, Vdec(h)), chn),
                       Call(TRUE, h \in chn.vdec, c1),
                       Call(hard /\ h = 0, MayBind(c3, Sd, SdFeed), c3) >>
       IN \/ Succeeds(calls) /\ chn' = c5 /\ UNCHANGED <<torn, failures>>
          \/ /\ \E k \in DOMAIN calls : FailsAt(calls, k)
             /\ torn' = torn \cup {h}
    /\ table' = table \ {h} /\ win' = [win EXCEPT ![h] = NoWindow]
    /\ UNCHANGED <<board, lock, made>>

\* MSA_ShowChanWindow.  Hiding stops the place and leaves it bound.
ShowChanWindow(h) ==
    /\ Ready /\ h \in table /\ Hard(win[h].dev)
    /\ \/ /\ win[h].show
          /\ chn' = StopVoChn(chn, Place(h))
          /\ win' = [win EXCEPT ![h].show = FALSE] /\ UNCHANGED <<torn, failures>>
       \/ /\ ~win[h].show
          /\ LET c1 == StartVoChn(chn, Place(h))
                 bind == MayBind(c1, Place(h), Vpss(h))
             IN \/ /\ bind /\ chn' = BindVo(c1, Place(h), Vpss(h))
                   /\ UNCHANGED <<torn, failures>>
                \/ Refuses(bind) /\ chn' = c1 /\ torn' = torn \cup {h}
          /\ win' = [win EXCEPT ![h].show = TRUE]
       \/ /\ ~win[h].show /\ Fails
          /\ torn' = torn \cup {h}
          /\ UNCHANGED <<chn, win>>
    /\ UNCHANGED <<board, lock, table, made>>

\* MAS_ChanWindowSwap, the first loop: a window loses its source and its
\* group, and its place and the analogue one start anew
TakeDown(c, h) ==
    LET p  == <<GetChanLayer(h), win[h].vo>>
        c1 == UnBindVo(c, p, Source(h))
        c2 == IF win[h].vpss THEN StopVpss(StarveVpss(c1, h), h) ELSE c1
        c3 == StartVoChn(StopVoChn(c2, p), p)
        c4 == StartVoChn(StopVoChn(c3, Sd), Sd)
    IN << c1, c2, StopVoChn(c2, p), StopVoChn(c3, Sd), c4 >>

\* the second loop: h gets the place of g, and a group if that place is
\* combined by hardware; the analogue output only the first time round
PutUp(c, h, g, first) ==
    LET p  == <<GetChanLayer(g), win[g].vo>>
        c1 == StartVpss(c, h)
        c2 == BindVo(c1, p, Vpss(h))
        c3 == IF first THEN BindVo(c2, Sd, SdFeed) ELSE c2
    IN IF Hard(win[g].dev) THEN << c1, c2, c3, FeedVpss(c3, h) >>
       ELSE << BindVo(c, p, Vdec(h)) >>

\* whether the vendor's library can do all of it
MaySwap(a, b) ==
    /\ {a, b} \subseteq chn.vdec
    /\ MayBind(chn, Sd, SdFeed)
    /\ \A h \in {a, b} : /\ MayBind(chn, <<GetChanLayer(h), win[h].vo>>, Source(h))
                         /\ GetChanLayer(h) \in lay.on
    /\ VSD0 \in lay.on

\* ExchangedButVo: a mutant that keeps the numbers of the channels
ExchangedButVo(a, b, x, y) ==
    [win EXCEPT ![a] = [win[b] EXCEPT !.show = win[a].show, !.vpss = x, !.vo = win[a].vo],
                ![b] = [win[a] EXCEPT !.show = win[b].show, !.vpss = y, !.vo = win[b].vo]]

\* MAS_ChanWindowSwap: the windows take each other's number of a channel and
\* each other's place, but each keeps its iVoShow
Exchanged(a, b, x, y) ==
    [win EXCEPT ![a] = [win[b] EXCEPT !.show = win[a].show, !.vpss = x],
                ![b] = [win[a] EXCEPT !.show = win[b].show, !.vpss = y]]

ChanWindowSwap(a, b) ==
    /\ Ready /\ {a, b} \subseteq Whole /\ a # b
    /\ CheckEnableOp(a) /\ CheckEnableOp(b)
    /\ AtItsPlace(a) /\ AtItsPlace(b)
    /\ LET c0 == UnBindVo(chn, Sd, SdFeed)
           down1 == TakeDown(StopVoChn(c0, Sd), a)
           down2 == TakeDown(Last(down1), b)
           up1   == PutUp(Last(down2), a, b, TRUE)
           up2   == PutUp(Last(up1), b, a, FALSE)
           way   == << chn, StopVoChn(c0, Sd) >> \o down1 \o down2 \o up1 \o up2
       IN \/ /\ MaySwap(a, b)
             /\ chn' = Last(way)
             /\ win' = Exchanged(a, b, Hard(win[b].dev), Hard(win[a].dev))
             /\ torn' = torn \cup {h \in {a, b} : ~win[h].show}
             /\ UNCHANGED failures
          \/ /\ Refuses(MaySwap(a, b))
             /\ \E k \in 1 .. Len(way) - 1 :
                  /\ chn' = way[k]
                  /\ win' = [win EXCEPT ![a].vpss = @ /\ a \in way[k].vpss,
                                        ![b].vpss = @ /\ b \in way[k].vpss]
             /\ torn' = torn \cup {a, b, Analogue}
    /\ UNCHANGED <<board, lock, table, made>>

\* MAS_ChanWindowOpenZoomIn: the group is cropped, or the place magnified
ChanWindowOpenZoomIn(h) ==
    /\ Ready /\ h \in Whole
    /\ IF Hard(win[h].dev)
       THEN h \in chn.vpss /\ chn' = [chn EXCEPT !.crop = @ \cup {h}]
       ELSE chn' = [chn EXCEPT !.zoom = @ \cup {<<win[h].dev, win[h].vo>>}]
    /\ UNCHANGED <<board, lock, table, win, torn, bounds>>

\* MAS_ChanWindowCloseZoomIn goes by the device and not by how it is
\* combined; where it fails to find a group it returns with OpLock held
ChanWindowCloseZoomIn(h) ==
    /\ Ready /\ h \in table
    /\ IF win[h].dev = 0
       THEN \/ /\ win[h].vpss
               /\ chn' = [chn EXCEPT !.crop = @ \ {h}] /\ UNCHANGED <<lock, failures>>
            \/ /\ Refuses(win[h].vpss)
               /\ lock' = "leaked" /\ UNCHANGED chn
       ELSE /\ chn' = [chn EXCEPT !.zoom = @ \ {<<1, win[h].vo>>}]
            /\ UNCHANGED <<lock, failures>>
    /\ UNCHANGED <<board, table, win, torn, made>>

\* MAS_ChanWindowCreateEncode or MAS_ChanWindowCreateOSDLayer; and when both
\* have been destroyed again.  A creation that fails leaves nothing; or, where
\* the encoder does not start or the overlay is not attached, what it has
\* created and no note of it; or, where the encoder is not bound, both.
OpenExtra(h) ==
    /\ Ready /\ h \in Whole /\ Hard(win[h].dev) /\ ~win[h].busy
    /\ LET noted   == [win EXCEPT ![h].busy = TRUE]
           created == [chn EXCEPT !.extra = @ \cup {h}]
       IN \/ win' = noted /\ chn' = created /\ UNCHANGED <<torn, failures>>
          \/ Fails /\ UNCHANGED <<chn, win, torn>>
          \/ Fails /\ chn' = created /\ win' \in {win, noted} /\ torn' = torn \cup {h}
    /\ UNCHANGED <<board, lock, table, made>>

\* Where it fails the encoder or the overlay stays noted.
CloseExtra(h) ==
    /\ Ready /\ h \in table /\ Hard(win[h].dev) /\ win[h].busy
    /\ \/ /\ h \in chn.extra /\ chn' = [chn EXCEPT !.extra = @ \ {h}]
          /\ win' = [win EXCEPT ![h].busy = FALSE] /\ UNCHANGED <<torn, failures>>
       \/ /\ Refuses(h \in chn.extra)
          /\ torn' = torn \cup {h} /\ UNCHANGED <<chn, win>>
    /\ UNCHANGED <<board, lock, table, made>>

-----------------------------------------------------------------------------

Init ==
    /\ isInit = FALSE /\ setup \in Setups
    /\ attr = [l \in 0 .. VPIP |-> "none"]
    /\ fb = {} /\ lock = "free" /\ hdmi = "none"
    /\ lay = AllOff /\ chn = NoChannels
    /\ table = {} /\ win = [h \in Ids |-> NoWindow] /\ torn = {}
    /\ failures = 0 /\ made = 0

System ==
    \/ \E s \in Setups : InitSystem(s) \/ InitSystemFails(s) \/ InitSystemNoFb(s)
    \/ InitSystemNoPools
    \/ DestroySystem
    \/ \E d \in Devs : (\E m \in Modes : SetDevCombineMode(d, m)) \/ PipLayerBindToDev(d)

Window(h) ==
    \/ DestroyChanWindow(h) \/ ShowChanWindow(h)
    \/ ChanWindowOpenZoomIn(h) \/ ChanWindowCloseZoomIn(h)
    \/ OpenExtra(h) \/ CloseExtra(h)

Next ==
    \/ System
    \/ \E d \in Devs, base \in BOOLEAN : CreateChanWindow(d, base)
    \/ \E h \in Ids : Window(h)
    \/ \E a, b \in Ids : ChanWindowSwap(a, b)

Spec == Init /\ [][Next]_vars

-----------------------------------------------------------------------------
(* Properties.                                                             *)

Sizes == Screens \cup {"none"}

LayerType == [dev : SUBSET (0 .. SD0), on : SUBSET Layers, part : [Devs -> Modes],
              size : [0 .. VPIP -> Sizes], pip : {-1} \cup Devs]

WindowType == [dev : Devs, base : BOOLEAN, show : BOOLEAN, vpss : BOOLEAN,
               vo : Ids, busy : BOOLEAN]

\* The ranges of the variables; a number is found in the table only as long
\* as there is one.
TypeOK ==
    /\ isInit \in BOOLEAN /\ setup \in SetupType
    /\ attr \in [0 .. VPIP -> Sizes] /\ hdmi \in Sizes
    /\ fb \subseteq 0 .. SD0 /\ lock \in {"free", "leaked"}
    /\ lay \in LayerType
    /\ table \subseteq Ids /\ torn \subseteq Ids \cup {Analogue} /\ win \in [Ids -> WindowType]

\* A layer that runs is combined, and has the size, as the library has it on
\* record, the picture-in-picture layer is on the device on record, and HDMI
\* has the format of the last device if it has one for it, whatever vendor
\* calls of MSA_InitSystem, MSA_SetDevCombineMode and MSA_PipLayerBindToDev
\* have failed on the way.
LayerAsRecorded ==
    isInit =>
      /\ \A d \in 0 .. setup.num - 1 : d \in lay.on =>
           /\ lay.part[d] = setup.mode[d] /\ lay.size[d] = setup.screen[d]
           /\ d \in lay.dev
      /\ VPIP \in lay.on => lay.pip = setup.pip
      /\ setup.screen[setup.num - 1] \notin NoFormat =>
           hdmi = setup.screen[setup.num - 1]

\* A window has a group exactly when its device is combined by hardware:
\* each call decides by the mode of the device what it finds in the window.
WindowAsMode ==
    \A h \in table \ torn : win[h].vpss <=> Hard(win[h].dev)

\* the picture of h is at place p, and nowhere else on the high definition
\* outputs
ShownAt(h, p) ==
    /\ p \in chn.vo /\ h \in chn.vdec
    /\ win[h].vpss => h \in chn.vpss \cap chn.fed
    /\ \A q \in chn.vo \ {Sd} : chn.src[q] = Source(h) <=> q = p

\* A window that is shown has its picture at its place and nowhere else,
\* however windows have been created, hidden, swapped and destroyed, and
\* where all devices are combined by hardware window 0 is on the analogue
\* output, too, which every swap takes down and puts up.
ShownIsDisplayed ==
    isInit =>
    \A h \in table \ torn : win[h].show =>
       /\ ShownAt(h, Place(h))
       /\ (h = 0 /\ Analogue \notin torn /\ \A d \in 0 .. setup.num - 1 : Hard(d)) =>
             Sd \in chn.vo /\ chn.src[Sd] = SdFeed

\* A number without a window for which no call has failed has nothing
\* running, cropped or magnified, no encoder and no overlay, whatever was
\* swapped and whatever failed for other windows.  What MSA_DestroyChanWindow
\* leaves is that a place stays bound: it unbinds channel 1 of the group
\* where channel 0 was bound.  This is the number's own place, which does not
\* run, and not one that another window comes to by its number.
NothingLeftRunning ==
    \A h \in Ids \ (table \cup torn \cup {win[g].vo : g \in table \cap torn}) :
       /\ h \notin chn.vpss \cup chn.vdec \cup chn.fed \cup chn.extra \cup chn.crop
       /\ \A l \in Layers \ {VSD0} : <<l, h>> \notin chn.vo \cup chn.zoom
       /\ \A q \in Places : chn.src[q] \in {Vpss(h), Vdec(h)} => q[2] = h
=============================================================================
