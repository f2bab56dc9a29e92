-------------------------- MODULE DeviceSetupProofs --------------------------
(***************************************************************************)
(* Theorems about DeviceSetup: its types; the layers are as the library    *)
(* has them on record; a window has a group as its device's mode says; a   *)
(* window that is shown is displayed, and one that is gone leaves nothing  *)
(* running.                                                                *)
(***************************************************************************)
EXTENDS DeviceSetup, WellFoundedInduction, TLAPS

USE SetupAssumption

\* The notes of the layers that can still be started again agree with the
\* setting, and the devices run.
Noted ==
    isInit => \A d \in 0 .. setup.num - 1 :
                 attr[d] = setup.screen[d] /\ d \in lay.dev

\* A window that outlives its system is torn.
Outlived == ~isInit => table \subseteq torn

-----------------------------------------------------------------------------
(* Facts about the operators.                                              *)

\* What Attrs notes are sizes, that of every layer of ls its screen.
LEMMA AttrsFact ==
    ASSUME NEW s \in Setups, NEW ls, TypeOK
    PROVE  /\ Attrs(s, ls) \in [0 .. VPIP -> Sizes]
           /\ \A d \in Devs : d \in ls => Attrs(s, ls)[d] = s.screen[d]
  BY DEF TypeOK, Attrs, SetupType, Sizes, Devs, VPIP

\* The layers that MSA_InitSystem starts are combined, and have the sizes, as
\* asked for.
LEMMA StartedFact ==
    ASSUME NEW s \in Setups
    PROVE  /\ Started(s) \in LayerType
           /\ Started(s).pip = s.pip
           /\ \A d \in 0 .. s.num - 1 :
                 /\ d \in Devs /\ d \in Started(s).dev
                 /\ Started(s).part[d] = s.mode[d] /\ Started(s).size[d] = s.screen[d]
  BY DEF Started, LayerType, SetupType, Sizes, Devs, SD0, Layers, Modes, VPIP, VSD0

\* Nothing runs: a state of the layers.
LEMMA AllOffType == AllOff \in LayerType
  BY DEF AllOff, LayerType, SD0, Layers, Devs, Modes, VPIP, Sizes

\* HDMI gets a format; the one of the screen, if it has one for it.
LEMMA HdmiFact ==
    ASSUME NEW s \in Setups
    PROVE  /\ HdmiFormats(s.screen[s.num - 1]) \subseteq Sizes
           /\ s.screen[s.num - 1] \notin NoFormat =>
                HdmiFormats(s.screen[s.num - 1]) = {s.screen[s.num - 1]}
  BY DEF HdmiFormats, Sizes, SetupType, Devs

\* The window that a number without one has.
LEMMA NoWindowType == NoWindow \in WindowType
  BY DEF NoWindow, WindowType, Devs, Ids

\* Of the numbers without a window there is a smallest.
LEMMA SmallestFree ==
    ASSUME Free # {} PROVE Min(Free) \in Free
  <1>1. Free \subseteq Nat
    BY DEF Free, Ids
  <1>2. \E x \in Free : \A y \in Free : ~ <<y, x>> \in OpToRel(<, Nat)
    BY <1>1, NatLessThanWellFounded, WFMin
  <1>3. \E x \in Free : \A y \in Free : x =< y
    <2>1. \A x \in Nat, y \in Nat : y < x => <<y, x>> \in OpToRel(<, Nat)
      BY DEF OpToRel
    <2>2. PICK x \in Free : \A y \in Free : ~ <<y, x>> \in OpToRel(<, Nat)
      BY <1>2
    <2>3. \A y \in Free : x \in Nat /\ y \in Nat /\ ~ (y < x)
      BY <1>1, <2>1, <2>2
    <2> QED BY <2>3
  <1> QED BY <1>3 DEF Min

\* After a swap two windows have each other's fields but the one that says
\* whether they are shown; after one that failed only their groups differ.
LEMMA SwapFact ==
    ASSUME NEW a \in Ids, NEW b \in Ids, ChanWindowSwap(a, b), TypeOK
    PROVE  \/ /\ win' = Exchanged(a, b, Hard(win[b].dev), Hard(win[a].dev))
              /\ torn \subseteq torn'
           \/ /\ a \in torn' /\ b \in torn' /\ torn \subseteq torn'
              /\ \E x, y \in BOOLEAN :
                    win' = [win EXCEPT ![a].vpss = x, ![b].vpss = y]
  <1> DEFINE c0 == UnBindVo(chn, Sd, SdFeed)
             down1 == TakeDown(StopVoChn(c0, Sd), a)
             down2 == TakeDown(Last(down1), b)
             up1   == PutUp(Last(down2), a, b, TRUE)
             up2   == PutUp(Last(up1), b, a, FALSE)
             way   == << chn, StopVoChn(c0, Sd) >> \o down1 \o down2 \o up1 \o up2
  <1>1. \/ /\ win' = Exchanged(a, b, Hard(win[b].dev), Hard(win[a].dev))
           /\ torn' = torn \cup {h \in {a, b} : ~win[h].show}
        \/ /\ \E k \in 1 .. Len(way) - 1 :
                win' = [win EXCEPT ![a].vpss = @ /\ a \in way[k].vpss,
                                   ![b].vpss = @ /\ b \in way[k].vpss]
           /\ torn' = torn \cup {a, b, Analogue}
    BY Zenon DEF ChanWindowSwap
  <1> HIDE DEF way
  <1>2. a # b
    BY DEF ChanWindowSwap
  <1>3. ASSUME NEW k, win' = [win EXCEPT ![a].vpss = @ /\ a \in way[k].vpss,
                                         ![b].vpss = @ /\ b \in way[k].vpss]
        PROVE  \E x, y \in BOOLEAN : win' = [win EXCEPT ![a].vpss = x, ![b].vpss = y]
    <2> DEFINE x == win[a].vpss /\ a \in way[k].vpss
               y == win[b].vpss /\ b \in way[k].vpss
    <2>1. win' = [win EXCEPT ![a].vpss = x, ![b].vpss = y]
      BY <1>2, <1>3 DEF TypeOK
    <2>2. x \in BOOLEAN /\ y \in BOOLEAN
      OBVIOUS
    <2> QED BY <2>1, <2>2
  <1> QED BY <1>1, <1>3

\* A swap keeps the windows windows.
LEMMA SwappedTypes ==
    ASSUME NEW a \in Ids, NEW b \in Ids, ChanWindowSwap(a, b), TypeOK
    PROVE  win' \in [Ids -> WindowType]
  <1>1. Hard(win[a].dev) \in BOOLEAN /\ Hard(win[b].dev) \in BOOLEAN
    BY DEF Hard
  <1>2. win[a] \in WindowType /\ win[b] \in WindowType /\ win \in [Ids -> WindowType]
    BY DEF TypeOK
  <1>3. ASSUME NEW x \in BOOLEAN, NEW y \in BOOLEAN
        PROVE  Exchanged(a, b, x, y) \in [Ids -> WindowType]
    <2>1. [win[b] EXCEPT !.show = win[a].show, !.vpss = x] \in WindowType
      BY <1>2 DEF WindowType
    <2>2. [win[a] EXCEPT !.show = win[b].show, !.vpss = y] \in WindowType
      BY <1>2 DEF WindowType
    <2> QED BY <1>2, <2>1, <2>2 DEF Exchanged
  <1>4. ASSUME NEW x \in BOOLEAN, NEW y \in BOOLEAN
        PROVE  [win EXCEPT ![a].vpss = x, ![b].vpss = y] \in [Ids -> WindowType]
    <2> DEFINE f == [win EXCEPT ![a].vpss = x]
    <2>1. f \in [Ids -> WindowType]
      BY <1>2 DEF WindowType
    <2>2. [f EXCEPT ![b].vpss = y] \in [Ids -> WindowType]
      <3> HIDE DEF f
      <3> QED BY <2>1 DEF WindowType
    <2> QED BY <2>2
  <1>5. CASE win' = Exchanged(a, b, Hard(win[b].dev), Hard(win[a].dev))
    BY <1>1, <1>3, <1>5
  <1>6. CASE \E x, y \in BOOLEAN : win' = [win EXCEPT ![a].vpss = x, ![b].vpss = y]
    <2> PICK x \in BOOLEAN, y \in BOOLEAN : win' = [win EXCEPT ![a].vpss = x, ![b].vpss = y]
      BY <1>6, Zenon
    <2> QED BY <1>4, Zenon
  <1>7. \/ win' = Exchanged(a, b, Hard(win[b].dev), Hard(win[a].dev))
        \/ \E x, y \in BOOLEAN : win' = [win EXCEPT ![a].vpss = x, ![b].vpss = y]
    BY SwapFact, Zenon
  <1> QED BY <1>5, <1>6, <1>7

-----------------------------------------------------------------------------
(* Types.                                                                  *)

\* The initial state has the types.
LEMMA InitTypes == Init => TypeOK
  <1> SUFFICES ASSUME Init PROVE TypeOK
    OBVIOUS
  <1>1. setup \in SetupType
    BY DEF Init
  <1>2. attr \in [0 .. VPIP -> Sizes] /\ hdmi \in Sizes
    BY DEF Init, Sizes
  <1>3. win \in [Ids -> WindowType]
    BY NoWindowType DEF Init
  <1> QED BY <1>1, <1>2, <1>3, AllOffType DEF Init, TypeOK

\* Starting the system keeps the types.
LEMMA SystemTypes ==
    ASSUME TypeOK, NEW s \in Setups,
           InitSystem(s) \/ InitSystemFails(s) \/ InitSystemNoFb(s)
    PROVE  TypeOK'
  <1>1. CASE InitSystem(s)
    BY <1>1, AttrsFact, StartedFact, HdmiFact
       DEF InitSystem, TypeOK, FrameBuffers, SD0, SetupType
  <1>2. CASE InitSystemFails(s)
    <2>1. attr' \in [0 .. VPIP -> Sizes] /\ hdmi' \in Sizes
      BY <1>2, AttrsFact, HdmiFact DEF InitSystemFails, TypeOK
    <2> QED BY <1>2, <2>1, AllOffType DEF InitSystemFails, TypeOK
  <1>3. CASE InitSystemNoFb(s)
    <2>1. fb' \subseteq 0 .. SD0
      <3>1. FrameBuffers(s) \subseteq 0 .. SD0
        BY DEF FrameBuffers, SD0, SetupType
      <3> QED BY <1>3, <3>1 DEF InitSystemNoFb, TypeOK
    <2>2. attr' \in [0 .. VPIP -> Sizes] /\ hdmi' \in Sizes
      BY <1>3, AttrsFact, HdmiFact DEF InitSystemNoFb, TypeOK
    <2> QED BY <1>3, <2>1, <2>2, AllOffType DEF InitSystemNoFb, TypeOK
  <1> QED BY <1>1, <1>2, <1>3

\* Ending the system keeps the types, and so does a start that starts nothing.
LEMMA EndTypes == ASSUME TypeOK, DestroySystem \/ InitSystemNoPools PROVE TypeOK'
  <1>1. CASE DestroySystem
    <2>1. table' \subseteq Ids /\ win' \in [Ids -> WindowType]
      BY <1>1, NoWindowType DEF DestroySystem, TypeOK
    <2> QED BY <1>1, <2>1, AllOffType DEF DestroySystem, TypeOK
  <1>2. CASE InitSystemNoPools
    BY <1>2, AllOffType DEF InitSystemNoPools, TypeOK
  <1> QED BY <1>1, <1>2

\* Changing the setting keeps the types.
LEMMA SettingTypes ==
    ASSUME TypeOK, NEW d \in Devs,
           (\E m \in Modes : SetDevCombineMode(d, m)) \/ PipLayerBindToDev(d)
    PROVE  TypeOK'
  <1>1. CASE \E m \in Modes : SetDevCombineMode(d, m)
    <2> PICK m \in Modes : SetDevCombineMode(d, m)
      BY <1>1
    <2>1. [setup EXCEPT !.mode[d] = m] \in SetupType
      BY DEF TypeOK, SetupType
    <2>2. attr[d] \in Sizes /\ d \in Layers
      BY DEF TypeOK, Devs, VPIP, Layers
    <2>3. \A on \in SUBSET Layers : [lay EXCEPT !.on = on] \in LayerType
      BY DEF TypeOK, LayerType
    <2>4. \A l \in LayerType : [l EXCEPT !.part[d] = m] \in LayerType
      BY DEF LayerType
    <2>5. \A l \in LayerType : [l EXCEPT !.on = @ \cup {d}, !.size[d] = attr[d]] \in LayerType
      BY <2>2 DEF LayerType, Devs, VPIP
    <2>6. lay.on \ {d} \in SUBSET Layers
      BY DEF TypeOK, LayerType
    <2>7. lay' \in LayerType
      BY <2>3, <2>4, <2>5, <2>6 DEF SetDevCombineMode, TypeOK, StartLayer, StopLayer
    <2> QED BY <2>1, <2>7 DEF SetDevCombineMode, TypeOK, windows
  <1>2. CASE PipLayerBindToDev(d)
    <2>1. [setup EXCEPT !.pip = d] \in SetupType
      BY DEF TypeOK, SetupType
    <2>2. attr[VPIP] \in Sizes /\ VPIP \in Layers
      BY DEF TypeOK, Devs, VPIP, Layers
    <2>3. [lay EXCEPT !.on = @ \ {VPIP}] \in LayerType
      BY DEF TypeOK, LayerType
    <2>4. \A l \in LayerType, e \in {-1} \cup Devs : [l EXCEPT !.pip = e] \in LayerType
      BY DEF LayerType
    <2>5. \A l \in LayerType :
             [l EXCEPT !.on = @ \cup {VPIP}, !.size[VPIP] = attr[VPIP]] \in LayerType
      BY <2>2 DEF LayerType, VPIP
    <2> DEFINE stopped == [lay EXCEPT !.on = @ \ {VPIP}]
               unbound == [stopped EXCEPT !.pip = -1]
               bound   == [stopped EXCEPT !.pip = d]
               running == [bound EXCEPT !.on = @ \cup {VPIP}, !.size[VPIP] = attr[VPIP]]
    <2>6. lay' \in LayerType
      <3>1. lay' \in {lay, stopped, unbound, bound, running}
        BY <1>2 DEF PipLayerBindToDev, StartLayer, StopLayer
      <3>2. stopped \in LayerType /\ unbound \in LayerType /\ bound \in LayerType
        BY <2>3, <2>4
      <3>3. running \in LayerType
        BY <2>5, <3>2
      <3> HIDE DEF stopped, unbound, bound, running
      <3> QED BY <3>1, <3>2, <3>3 DEF TypeOK
    <2> QED BY <1>2, <2>1, <2>6 DEF PipLayerBindToDev, TypeOK, windows
  <1> QED BY <1>1, <1>2

\* The windows' calls keep the types.
LEMMA WindowTypes ==
    ASSUME TypeOK,
           \/ \E d \in Devs, base \in BOOLEAN : CreateChanWindow(d, base)
           \/ \E h \in Ids : Window(h)
           \/ \E a, b \in Ids : ChanWindowSwap(a, b)
    PROVE  TypeOK'
  <1>1. CASE \E d \in Devs, base \in BOOLEAN : CreateChanWindow(d, base)
    <2>1. PICK d \in Devs, base \in BOOLEAN : CreateChanWindow(d, base)
      BY <1>1
    <2>2. Min(Free) \in Ids
      BY <2>1, SmallestFree DEF CreateChanWindow, Free
    <2>3. [dev |-> d, base |-> base, show |-> TRUE, vpss |-> Hard(d),
           vo |-> Min(Free), busy |-> FALSE] \in WindowType
      BY <2>2 DEF WindowType, Hard
    <2>4. table' \subseteq Ids /\ torn' \subseteq Ids \cup {Analogue} /\ win' \in [Ids -> WindowType]
      BY <2>1, <2>2, <2>3 DEF CreateChanWindow, CreateWith, TypeOK
    <2> QED BY <2>1, <2>4 DEF CreateChanWindow, TypeOK, board
  <1>2. CASE \E h \in Ids : Window(h)
    <2> PICK h \in Ids : Window(h) BY <1>2
    <2>1. CASE DestroyChanWindow(h)
      BY <2>1, NoWindowType DEF DestroyChanWindow, TypeOK, board
    <2>2. CASE ShowChanWindow(h)
      <3>1. \A x \in BOOLEAN : [win EXCEPT ![h].show = x] \in [Ids -> WindowType]
        BY DEF TypeOK, WindowType
      <3>2. win' \in [Ids -> WindowType] /\ torn' \subseteq Ids \cup {Analogue}
        BY <2>2, <3>1 DEF ShowChanWindow, TypeOK
      <3> QED BY <2>2, <3>2 DEF ShowChanWindow, TypeOK, board
    <2>3. CASE ChanWindowOpenZoomIn(h) \/ ChanWindowCloseZoomIn(h)
      BY <2>3 DEF ChanWindowOpenZoomIn, ChanWindowCloseZoomIn, TypeOK, board
    <2>4. CASE OpenExtra(h) \/ CloseExtra(h)
      <3>1. \A x \in BOOLEAN : [win EXCEPT ![h].busy = x] \in [Ids -> WindowType]
        BY DEF TypeOK, WindowType
      <3>2. win' = win \/ \E x \in BOOLEAN : win' = [win EXCEPT ![h].busy = x]
        <4>1. CASE OpenExtra(h)
          BY <4>1 DEF OpenExtra
        <4>2. CASE CloseExtra(h)
          BY <4>2 DEF CloseExtra
        <4> QED BY <2>4, <4>1, <4>2
      <3>3. win' \in [Ids -> WindowType]
        BY <3>1, <3>2 DEF TypeOK
      <3>4. torn' = torn \/ torn' = torn \cup {h}
        BY <2>4 DEF OpenExtra, CloseExtra
      <3> QED BY <2>4, <3>3, <3>4 DEF OpenExtra, CloseExtra, TypeOK, board
    <2> QED BY <2>1, <2>2, <2>3, <2>4 DEF Window
  <1>3. CASE \E a, b \in Ids : ChanWindowSwap(a, b)
    <2> PICK a \in Ids, b \in Ids : ChanWindowSwap(a, b) BY <1>3
    <2>1. torn' \subseteq Ids \cup {Analogue}
      <3>1. \/ torn' = torn \cup {h \in {a, b} : ~win[h].show}
            \/ torn' = torn \cup {a, b, Analogue}
        BY Zenon DEF ChanWindowSwap
      <3> QED BY <3>1 DEF TypeOK
    <2>2. win' \in [Ids -> WindowType]
      BY SwappedTypes
    <2> QED BY <2>1, <2>2 DEF ChanWindowSwap, TypeOK, board
  <1> QED BY <1>1, <1>2, <1>3

\* Every reachable state has the types.
THEOREM TypeCorrect == Spec => []TypeOK
  <1>1. TypeOK /\ [Next]_vars => TypeOK'
    <2> SUFFICES ASSUME TypeOK, [Next]_vars PROVE TypeOK' OBVIOUS
    <2>1. CASE UNCHANGED vars
      BY <2>1 DEF vars, board, windows, TypeOK
    <2>2. CASE \E s \in Setups : InitSystem(s) \/ InitSystemFails(s) \/ InitSystemNoFb(s)
      BY <2>2, SystemTypes
    <2>3. CASE DestroySystem \/ InitSystemNoPools
      BY <2>3, EndTypes
    <2>4. CASE \E d \in Devs : (\E m \in Modes : SetDevCombineMode(d, m)) \/ PipLayerBindToDev(d)
      BY <2>4, SettingTypes
    <2>5. CASE Next /\ ~System
      BY <2>5, WindowTypes DEF Next
    <2> QED BY <2>1, <2>2, <2>3, <2>4, <2>5 DEF Next, System
  <1> QED BY InitTypes, <1>1, PTL DEF Spec

-----------------------------------------------------------------------------
(* Layers.                                                                 *)

\* Starting the system puts the layers as recorded, or leaves it off.
LEMMA StartLayers ==
    ASSUME TypeOK, NEW s \in Setups,
           InitSystem(s) \/ InitSystemFails(s) \/ InitSystemNoFb(s)
    PROVE  (Noted /\ LayerAsRecorded)'
  <1>1. CASE InitSystem(s)
    <2> s \in SetupType
      OBVIOUS
    <2>1. /\ lay' = Started(s) /\ setup' = s /\ isInit'
          /\ attr' = Attrs(s, (0 .. s.num - 1) \cup {VPIP})
          /\ hdmi' \in HdmiFormats(s.screen[s.num - 1])
      BY <1>1 DEF InitSystem
    <2>2. Noted'
      BY <2>1, AttrsFact, StartedFact DEF Noted
    <2>3. LayerAsRecorded'
      BY <2>1, StartedFact, HdmiFact DEF LayerAsRecorded
    <2> QED BY <2>2, <2>3
  <1>2. CASE InitSystemFails(s) \/ InitSystemNoFb(s)
    BY <1>2 DEF InitSystemFails, InitSystemNoFb, Noted, LayerAsRecorded
  <1> QED BY <1>1, <1>2

\* MSA_SetDevCombineMode keeps the layers as recorded, however far it gets.
LEMMA ModeLayers ==
    ASSUME TypeOK, Noted, LayerAsRecorded, NEW d \in Devs, NEW m \in Modes,
           SetDevCombineMode(d, m)
    PROVE  (Noted /\ LayerAsRecorded)'
  <1> DEFINE stopped == [lay EXCEPT !.on = @ \ {d}]
             parted  == [stopped EXCEPT !.part[d] = m]
             running == [parted EXCEPT !.on = @ \cup {d}, !.size[d] = attr[d]]
  <1>1. isInit /\ d < setup.num /\ UNCHANGED <<isInit, attr, hdmi>>
    BY DEF SetDevCombineMode, Ready
  <1>2. lay \in LayerType /\ setup \in SetupType
    BY DEF TypeOK
  <1>3. CASE lay' = running /\ setup' = [setup EXCEPT !.mode[d] = m]
    <2>1. /\ setup'.num = setup.num /\ setup'.screen = setup.screen
          /\ setup'.pip = setup.pip /\ setup'.mode = [setup.mode EXCEPT ![d] = m]
      BY <1>2, <1>3 DEF SetupType
    <2>2. /\ lay'.on = (lay.on \ {d}) \cup {d} /\ lay'.dev = lay.dev /\ lay'.pip = lay.pip
          /\ lay'.part = [lay.part EXCEPT ![d] = m]
          /\ lay'.size = [lay.size EXCEPT ![d] = attr[d]]
      BY <1>2, <1>3 DEF LayerType
    <2>3. \A e \in 0 .. setup.num - 1 : e \in Devs
      BY <1>2 DEF SetupType, Devs
    <2>4. d \in 0 .. setup.num - 1 /\ d \in 0 .. VPIP /\ VPIP # d
      BY <1>1, <1>2 DEF Devs, VPIP, SetupType
    <2>5. \A e \in 0 .. setup.num - 1 : e \in lay'.on =>
             /\ lay'.part[e] = setup'.mode[e] /\ lay'.size[e] = setup'.screen[e]
             /\ e \in lay'.dev
      BY <1>1, <1>2, <2>1, <2>2, <2>3, <2>4
         DEF Noted, LayerAsRecorded, LayerType, SetupType, Devs, VPIP
    <2>6. VPIP \in lay'.on => lay'.pip = setup'.pip
      BY <1>1, <2>1, <2>2, <2>4 DEF LayerAsRecorded
    <2> QED BY <1>1, <2>1, <2>2, <2>5, <2>6 DEF Noted, LayerAsRecorded
  <1>4. CASE lay' \in {lay, stopped, parted} /\ setup' = setup
    <2>1. lay' = lay \/ (/\ lay'.on = lay.on \ {d} /\ lay'.dev = lay.dev
                         /\ lay'.pip = lay.pip /\ lay'.size = lay.size
                         /\ \A e \in Devs \ {d} : lay'.part[e] = lay.part[e])
      BY <1>2, <1>4 DEF LayerType
    <2>2. \A e \in 0 .. setup.num - 1 : e \in Devs
      BY <1>2 DEF SetupType, Devs
    <2> QED BY <1>1, <1>4, <2>1, <2>2 DEF Noted, LayerAsRecorded
  <1> QED BY <1>3, <1>4 DEF SetDevCombineMode, StartLayer, StopLayer

\* MSA_PipLayerBindToDev keeps them, too.
LEMMA PipLayers ==
    ASSUME TypeOK, Noted, LayerAsRecorded, NEW d \in Devs, PipLayerBindToDev(d)
    PROVE  (Noted /\ LayerAsRecorded)'
  <1>1. isInit /\ d < setup.num /\ UNCHANGED <<isInit, attr, hdmi>>
    BY DEF PipLayerBindToDev, Ready
  <1>2. lay \in LayerType /\ setup \in SetupType
    BY DEF TypeOK
  <1>3. \A e \in 0 .. setup.num - 1 : e \in Devs /\ e # VPIP
    BY <1>2 DEF SetupType, Devs, VPIP
  <1>4. /\ setup'.num = setup.num /\ setup'.screen = setup.screen /\ setup'.mode = setup.mode
        /\ lay'.dev = lay.dev /\ lay'.part = lay.part
        /\ \A e \in Devs : lay'.size[e] = lay.size[e]
        /\ \A e \in Devs : e \in lay'.on => e \in lay.on
    <2> DEFINE stopped == [lay EXCEPT !.on = @ \ {VPIP}]
               unbound == [stopped EXCEPT !.pip = -1]
               bound   == [stopped EXCEPT !.pip = d]
               running == [bound EXCEPT !.on = @ \cup {VPIP}, !.size[VPIP] = attr[VPIP]]
               Same(l) == /\ l.dev = lay.dev /\ l.part = lay.part
                          /\ \A e \in Devs : l.size[e] = lay.size[e]
                          /\ \A e \in Devs : e \in l.on => e \in lay.on
    <2>1. lay' \in {lay, stopped, unbound, bound, running}
      BY DEF PipLayerBindToDev, StartLayer, StopLayer
    <2>2. Same(lay) /\ Same(stopped) /\ Same(unbound) /\ Same(bound)
      BY <1>2 DEF LayerType
    <2>3. Same(running)
      BY <1>2 DEF LayerType, Devs, VPIP
    <2>4. Same(lay')
      BY <2>1, <2>2, <2>3
    <2>5. setup' = setup \/ setup' = [setup EXCEPT !.pip = d]
      BY DEF PipLayerBindToDev
    <2> QED BY <1>2, <2>4, <2>5 DEF SetupType
  <1>5. VPIP \in lay'.on => lay'.pip = setup'.pip
    BY <1>1, <1>2, ZenonT(60) DEF PipLayerBindToDev, LayerAsRecorded, SetupType, LayerType, StartLayer, StopLayer
  <1> QED BY <1>1, <1>3, <1>4, <1>5 DEF Noted, LayerAsRecorded

\* A layer that runs is as the library has it on record.
THEOREM LayersAsRecorded == Spec => []LayerAsRecorded
  <1> DEFINE Inv == TypeOK /\ Noted /\ LayerAsRecorded
  <1>1. Init => Inv
    BY InitTypes DEF Init, Noted, LayerAsRecorded
  <1>2. Inv /\ TypeOK' /\ [Next]_vars => Inv'
    <2> SUFFICES ASSUME TypeOK, Noted, LayerAsRecorded, TypeOK', [Next]_vars
                 PROVE  (Noted /\ LayerAsRecorded)'
      OBVIOUS
    <2>1. CASE UNCHANGED board
      BY <2>1 DEF board, Noted, LayerAsRecorded
    <2>2. CASE \E s \in Setups : InitSystem(s) \/ InitSystemFails(s) \/ InitSystemNoFb(s)
      BY <2>2, StartLayers
    <2>3. CASE DestroySystem \/ InitSystemNoPools
      BY <2>3 DEF DestroySystem, InitSystemNoPools, Noted, LayerAsRecorded
    <2>4. CASE \E d \in Devs : (\E m \in Modes : SetDevCombineMode(d, m)) \/ PipLayerBindToDev(d)
      BY <2>4, ModeLayers, PipLayers
    <2>5. (\E h \in Ids : Window(h)) => UNCHANGED board
      BY Zenon DEF Window, DestroyChanWindow, ShowChanWindow, ChanWindowOpenZoomIn,
             ChanWindowCloseZoomIn, OpenExtra, CloseExtra
    <2>6. ASSUME NEW d \in Devs, NEW base \in BOOLEAN, CreateChanWindow(d, base)
          PROVE  UNCHANGED board
      BY <2>6 DEF CreateChanWindow, board
    <2>7. (\E a, b \in Ids : ChanWindowSwap(a, b)) => UNCHANGED board
      BY Zenon DEF ChanWindowSwap
    <2> QED BY <2>1, <2>2, <2>3, <2>4, <2>5, <2>6, <2>7 DEF Next, System, vars
  <1>3. Inv => LayerAsRecorded
    OBVIOUS
  <1> QED BY <1>1, <1>2, <1>3, TypeCorrect, PTL DEF Spec

-----------------------------------------------------------------------------
(* Windows.                                                                *)

\* What a window has goes by the mode of its device, and a window that
\* outlives its system counts as torn.
LEMMA WindowsStep ==
    ASSUME TypeOK, TypeOK', WindowAsMode, Outlived, [Next]_vars
    PROVE  (WindowAsMode /\ Outlived)'
  <1>1. CASE UNCHANGED vars
    BY <1>1 DEF vars, board, windows, WindowAsMode, Outlived, Hard
  <1>2. CASE \E s \in Setups : InitSystem(s) \/ InitSystemFails(s) \/ InitSystemNoFb(s)
    BY <1>2 DEF InitSystem, InitSystemFails, InitSystemNoFb, WindowAsMode, Outlived, Hard
  <1>3. CASE DestroySystem \/ InitSystemNoPools
    BY <1>3 DEF DestroySystem, InitSystemNoPools, WindowAsMode, Outlived
  <1>4. CASE \E d \in Devs, m \in Modes : SetDevCombineMode(d, m)
    BY <1>4 DEF SetDevCombineMode, HaveChanWindow, windows, WindowAsMode, Outlived
  <1>5. CASE \E d \in Devs : PipLayerBindToDev(d)
    BY <1>5 DEF PipLayerBindToDev, AllClosed, windows, WindowAsMode, Outlived
  <1>6. CASE \E d \in Devs, base \in BOOLEAN : CreateChanWindow(d, base)
    <2> PICK d \in Devs, base \in BOOLEAN : CreateChanWindow(d, base)
      BY <1>6
    <2> DEFINE h == Min(Free)
               w == [dev |-> d, base |-> base, show |-> TRUE, vpss |-> Hard(d),
                     vo |-> h, busy |-> FALSE]
    <2>1. UNCHANGED <<setup, isInit>> /\ isInit
      BY DEF CreateChanWindow, board, Ready
    <2>2. h \in Ids
      BY SmallestFree DEF CreateChanWindow, Free
    <2>3. CASE table' = table \cup {h} /\ win' = [win EXCEPT ![h] = w] /\ torn' = torn
      <3>1. \A g \in table \ {h} : win'[g] = win[g]
        BY <2>3 DEF TypeOK
      <3>2. win'[h].dev = d /\ (win'[h].vpss <=> Hard(d))
        BY <2>2, <2>3 DEF TypeOK
      <3>3. table' = table \cup {h} /\ torn' = torn
        BY <2>3
      <3> HIDE DEF h
      <3> QED BY <2>1, <3>1, <3>2, <3>3 DEF WindowAsMode, Outlived, Hard
    <2>4. CASE table' = table /\ win' = win /\ torn' = torn \cup {h}
      BY <2>1, <2>4 DEF WindowAsMode, Outlived, Hard
    <2> QED BY <2>3, <2>4 DEF CreateChanWindow, CreateWith
  <1>7. CASE \E h \in Ids : Window(h)
    <2> PICK h \in Ids : Window(h)
      BY <1>7
    <2>1. UNCHANGED <<setup, isInit>> /\ isInit
      BY DEF Window, DestroyChanWindow, ShowChanWindow, ChanWindowOpenZoomIn,
             ChanWindowCloseZoomIn, OpenExtra, CloseExtra, board, Ready
    <2>2. torn \subseteq torn' /\ table' \subseteq table
      BY DEF Window, DestroyChanWindow, ShowChanWindow, ChanWindowOpenZoomIn,
             ChanWindowCloseZoomIn, OpenExtra, CloseExtra
    <2>3. \A g \in table' : win'[g].vpss = win[g].vpss /\ win'[g].dev = win[g].dev
      BY DEF TypeOK, Window, DestroyChanWindow, ShowChanWindow, ChanWindowOpenZoomIn,
             ChanWindowCloseZoomIn, OpenExtra, CloseExtra, WindowType
    <2> QED BY <2>1, <2>2, <2>3 DEF WindowAsMode, Outlived, Hard
  <1>8. CASE \E a, b \in Ids : ChanWindowSwap(a, b)
    <2> PICK a \in Ids, b \in Ids : ChanWindowSwap(a, b)
      BY <1>8
    <2>1. UNCHANGED <<setup, isInit, table>> /\ isInit /\ a # b
      BY DEF ChanWindowSwap, board, Ready
    <2>2. CASE win' = Exchanged(a, b, Hard(win[b].dev), Hard(win[a].dev)) /\ torn \subseteq torn'
      <3>1. /\ win'[a].dev = win[b].dev /\ (win'[a].vpss <=> Hard(win[b].dev))
            /\ win'[b].dev = win[a].dev /\ (win'[b].vpss <=> Hard(win[a].dev))
        <4>1. win[a] \in WindowType /\ win[b] \in WindowType /\ DOMAIN win = Ids
          BY DEF TypeOK
        <4>2. /\ win'[a] = [win[b] EXCEPT !.show = win[a].show, !.vpss = Hard(win[b].dev)]
              /\ win'[b] = [win[a] EXCEPT !.show = win[b].show, !.vpss = Hard(win[a].dev)]
          BY <2>1, <2>2, <4>1 DEF Exchanged
        <4> QED BY <4>1, <4>2 DEF WindowType
      <3>2. \A g \in Ids \ {a, b} : win'[g] = win[g]
        BY <2>2 DEF Exchanged, TypeOK
      <3>3. table \subseteq Ids
        BY DEF TypeOK
      <3>4. torn \subseteq torn'
        BY <2>2
      <3> QED BY <2>1, <3>1, <3>2, <3>3, <3>4 DEF WindowAsMode, Outlived, Hard
    <2>3. CASE /\ a \in torn' /\ b \in torn' /\ torn \subseteq torn'
               /\ \E x, y \in BOOLEAN : win' = [win EXCEPT ![a].vpss = x, ![b].vpss = y]
      <3>1. \A g \in Ids \ {a, b} : win'[g] = win[g]
        BY <2>3 DEF TypeOK
      <3> QED BY <2>1, <2>3, <3>1 DEF WindowAsMode, Outlived, Hard, TypeOK
    <2> QED BY <2>2, <2>3, SwapFact
  <1> QED BY <1>1, <1>2, <1>3, <1>4, <1>5, <1>6, <1>7, <1>8 DEF Next, System

\* A window has a group exactly when its device is combined by hardware.
THEOREM WindowsAsMode == Spec => []WindowAsMode
  <1>1. Init => WindowAsMode /\ Outlived
    BY DEF Init, WindowAsMode, Outlived
  <1>2. TypeOK /\ TypeOK' /\ WindowAsMode /\ Outlived /\ [Next]_vars
        => (WindowAsMode /\ Outlived)'
    BY WindowsStep
  <1> QED BY <1>1, <1>2, TypeCorrect, PTL DEF Spec

-----------------------------------------------------------------------------
(* The pictures.  What each call may touch of the hardware is the numbers  *)
(* of its windows and their places.                                        *)

\* What a channel can be bound to, and the states of the channels.
Sources == {NoSource, SdFeed} \cup {Vpss(h) : h \in Ids} \cup {Vdec(h) : h \in Ids}

ChnType == [vo : SUBSET Places, src : [Places -> Sources], vpss : SUBSET Ids,
            vdec : SUBSET Ids, fed : SUBSET Ids, extra : SUBSET Ids,
            crop : SUBSET Ids, zoom : SUBSET Places]

\* The analogue channel has group 0's second picture or none.
ChnOK == chn \in ChnType /\ chn.src[Sd] \in {NoSource, SdFeed}

\* No two windows have one number of a channel, and windows that have been
\* swapped have each other's.
Numbered ==
    /\ \A g, h \in table : win[g].vo = win[h].vo => g = h
    /\ \A h \in Whole : win[h].vo \in table

\* The channel q is bound to a source of h.
Owned(h, q) == chn.src[q] \in {Vpss(h), Vdec(h)}

\* A binding that a window which is gone has left is of its number and at a
\* channel that does not run.
Bound ==
    \A h \in Ids \ torn, q \in Places : Owned(h, q) =>
       \/ h \in table /\ q = Place(h)
       \/ q[2] = h /\ q \notin chn.vo /\ \A g \in table : q # Place(g)

\* What a window that no call has torn has.
Stands(h) ==
    /\ h \in chn.vdec /\ win[h].dev < setup.num
    /\ win[h].vpss => h \in chn.vpss \cap chn.fed
    /\ ~win[h].vpss => h \notin chn.vpss \cup chn.fed \cup chn.crop /\ win[h].show
    /\ chn.src[Place(h)] = Source(h)
    /\ IF win[h].show THEN Place(h) \in chn.vo ELSE Place(h) \notin chn.vo \cup chn.zoom

\* All windows that no call has torn have what they need.
Standing == \A h \in Whole : Stands(h)

\* The channels that run are windows'.
OnlyWindows ==
    \A q \in (chn.vo \cup chn.zoom) \ {Sd} : q[2] \in torn \/ \E g \in table : q = Place(g)

\* A number without a window has no group, no decoder and no binding between
\* them.
Unused == \A h \in Ids \ (table \cup torn) : h \notin chn.vpss \cup chn.vdec \cup chn.fed \cup chn.crop

\* An encoder or an overlay keeps its window, unless its creation failed.
Extras == \A h \in chn.extra : h \in torn \/ (h \in table /\ win[h].busy)

\* Every device in use is combined by hardware.
AllHard == \A d \in 0 .. setup.num - 1 : Hard(d)

\* The analogue output has window 0's second picture.
Second == (0 \in Whole /\ Analogue \notin torn /\ AllHard) => Sd \in chn.vo /\ chn.src[Sd] = SdFeed

\* The inductive invariant: every channel that runs and every binding is some
\* window's, and every window has its own.
Pictures ==
    /\ ChnOK /\ Numbered /\ Bound /\ Standing /\ OnlyWindows /\ Unused /\ Extras /\ Second

\* c is what chn is, but for the numbers of H and the places of P.
Local(c, H, P) ==
    /\ c \in ChnType
    /\ \A h \in Ids \ H : /\ h \in c.vpss <=> h \in chn.vpss
                          /\ h \in c.vdec <=> h \in chn.vdec
                          /\ h \in c.fed <=> h \in chn.fed
                          /\ h \in c.crop <=> h \in chn.crop
    /\ \A q \in Places \ P : /\ q \in c.vo <=> q \in chn.vo
                             /\ q \in c.zoom <=> q \in chn.zoom
                             /\ c.src[q] = chn.src[q]
    /\ \A q \in P \ {Sd} : \/ c.src[q] \in {NoSource, chn.src[q]}
                           \/ \E h \in H : c.src[q] \in {Vpss(h), Vdec(h)}
    /\ c.src[Sd] \in {NoSource, SdFeed}
    /\ c.extra = chn.extra

\* The channels' places and sources are told apart.
LEMMA PlaceFacts ==
    /\ Sd \in Places
    /\ \A l \in {0, 1, VPIP}, k \in Ids : <<l, k>> \in Places /\ <<l, k>> # Sd
    /\ \A q \in Places \ {Sd} : q[1] \in {0, 1, VPIP} /\ q[2] \in Ids /\ q = <<q[1], q[2]>>
  BY DEF Sd, Places, VPIP, VSD0, Layers, Ids

\* Sources of different windows differ, and from the other two.
LEMMA SourceFacts ==
    /\ NoSource \in Sources /\ SdFeed \in Sources
    /\ \A h \in Ids : Vpss(h) \in Sources /\ Vdec(h) \in Sources
    /\ \A g, h \in Ids : Vpss(g) # Vdec(h)
    /\ \A g, h \in Ids : g # h => Vpss(g) # Vpss(h) /\ Vdec(g) # Vdec(h)
    /\ \A h \in Ids : {Vpss(h), Vdec(h)} \cap {NoSource, SdFeed} = {}
    /\ NoSource # SdFeed
  BY DEF Sources, NoSource, SdFeed, Vpss, Vdec

\* Nothing runs: a state of the channels.
LEMMA NoChannelsType == NoChannels \in ChnType
  BY SourceFacts DEF NoChannels, ChnType

\* The single steps of the vendor's library are local to the number that they
\* are told.
LEMMA GroupSteps ==
    ASSUME NEW c, NEW H \in SUBSET Ids, NEW P \in SUBSET Places, Local(c, H, P), NEW h \in H
    PROVE  /\ Local(StartVpss(c, h), H, P) /\ Local(StopVpss(c, h), H, P)
           /\ Local(StartVdec(c, h), H, P) /\ Local(StopVdec(c, h), H, P)
           /\ Local(FeedVpss(c, h), H, P) /\ Local(StarveVpss(c, h), H, P)
  <1>1. Local(StartVpss(c, h), H, P)
    BY DEF Local, ChnType, StartVpss
  <1>2. Local(StopVpss(c, h), H, P)
    BY DEF Local, ChnType, StopVpss
  <1>3. Local(StartVdec(c, h), H, P)
    BY DEF Local, ChnType, StartVdec
  <1>4. Local(StopVdec(c, h), H, P)
    BY DEF Local, ChnType, StopVdec
  <1>5. Local(FeedVpss(c, h), H, P)
    BY DEF Local, ChnType, FeedVpss
  <1>6. Local(StarveVpss(c, h), H, P)
    BY DEF Local, ChnType, StarveVpss
  <1> QED BY <1>1, <1>2, <1>3, <1>4, <1>5, <1>6

\* And at the place.
LEMMA PlaceSteps ==
    ASSUME NEW c, NEW H \in SUBSET Ids, NEW P \in SUBSET Places, Local(c, H, P), NEW p \in P
    PROVE  /\ Local(StartVoChn(c, p), H, P) /\ Local(StopVoChn(c, p), H, P)
           /\ \A s : Local(UnBindVo(c, p, s), H, P)
           /\ \A h \in H : p # Sd => Local(BindVo(c, p, Vpss(h)), H, P) /\ Local(BindVo(c, p, Vdec(h)), H, P)
           /\ p = Sd => Local(BindVo(c, p, SdFeed), H, P)
  <1>1. Local(StartVoChn(c, p), H, P)
    BY DEF Local, ChnType, StartVoChn
  <1>2. Local(StopVoChn(c, p), H, P)
    BY DEF Local, ChnType, StopVoChn
  <1>3. ASSUME NEW s, s \in Sources, p # Sd => s = NoSource \/ \E h \in H : s \in {Vpss(h), Vdec(h)},
               p = Sd => s \in {NoSource, SdFeed}
        PROVE  Local([c EXCEPT !.src[p] = s], H, P)
    <2>1. [c.src EXCEPT ![p] = s] \in [Places -> Sources]
      BY <1>3 DEF Local, ChnType
    <2>2. /\ [c EXCEPT !.src[p] = s] \in ChnType
          /\ [c EXCEPT !.src[p] = s].src = [c.src EXCEPT ![p] = s]
      BY <2>1 DEF Local, ChnType
    <2>3. \A q \in Places : [c EXCEPT !.src[p] = s].src[q] = IF q = p THEN s ELSE c.src[q]
      BY <2>2 DEF Local, ChnType
    <2>5. LET d == [c EXCEPT !.src[p] = s] IN
          /\ d.vo = c.vo /\ d.vpss = c.vpss /\ d.vdec = c.vdec /\ d.fed = c.fed
          /\ d.extra = c.extra /\ d.crop = c.crop /\ d.zoom = c.zoom
      BY DEF Local, ChnType
    <2> DEFINE d == [c EXCEPT !.src[p] = s]
    <2> HIDE DEF d
    <2>6. Local(d, H, P)
      BY <1>3, <2>2, <2>3, <2>5, PlaceFacts DEF Local, d
    <2> QED BY <2>6 DEF d
  <1>4. \A s : Local(UnBindVo(c, p, s), H, P)
    BY <1>3, SourceFacts DEF UnBindVo
  <1>5. \A h \in H : p # Sd => Local(BindVo(c, p, Vpss(h)), H, P) /\ Local(BindVo(c, p, Vdec(h)), H, P)
    BY <1>3, SourceFacts DEF BindVo
  <1>6. p = Sd => Local(BindVo(c, p, SdFeed), H, P)
    BY <1>3, SourceFacts DEF BindVo
  <1> QED BY <1>1, <1>2, <1>4, <1>5, <1>6

\* A call that touches only the numbers H and the places P leaves all other
\* windows their pictures.
LEMMA Frame ==
    ASSUME TypeOK, Pictures, UNCHANGED setup, TypeOK',
           NEW H \in SUBSET Ids, NEW P \in SUBSET Places, Local(chn', H, P),
           \A g \in Ids \ H : /\ g \in table' <=> g \in table
                              /\ g \in torn' <=> g \in torn
                              /\ win'[g] = win[g],
           torn \subseteq torn',
           \A h \in H \cap table : Place(h) \in P,
           \A g \in table \ H : Place(g) \notin P,
           \A h \in H \cap table' : Place(h)' \in P,
           \A q \in P \ {Sd} : q[2] \in H \/ \E g \in H \cap table : q = Place(g),
           Numbered', Second',
           \A h \in H \ torn', q \in P : Owned(h, q)' =>
              \/ h \in table' /\ q = Place(h)'
              \/ q[2] = h /\ q \notin chn'.vo /\ \A g \in table' : q # Place(g)',
           \A h \in H \cap table' : h \notin torn' => Stands(h)',
           \A q \in P \ {Sd} : q \in chn'.vo \cup chn'.zoom
              => q[2] \in torn' \/ \E g \in table' : q = Place(g)',
           \A h \in H \ (table' \cup torn') :
              h \notin chn'.vpss \cup chn'.vdec \cup chn'.fed \cup chn'.crop,
           \A h \in H \cap chn.extra : h \in torn' \/ (h \in table' /\ win'[h].busy)
    PROVE  Pictures'
  <1>1. \A g \in Ids \ H : Place(g)' = Place(g) /\ Source(g)' = Source(g)
    BY DEF Place, Source, PlaceLayer, ChanLayer, Hard
  <1>2. chn' \in ChnType /\ chn'.src[Sd] \in {NoSource, SdFeed} /\ chn'.extra = chn.extra
    BY DEF Local
  <1>3. table \subseteq Ids /\ table' \subseteq Ids
    BY DEF TypeOK
  <1>4. \A q \in Places \ P : /\ q \in chn'.vo <=> q \in chn.vo
                              /\ q \in chn'.zoom <=> q \in chn.zoom
                              /\ chn'.src[q] = chn.src[q]
    BY DEF Local
  <1>5. \A h \in Ids \ H : /\ h \in chn'.vpss <=> h \in chn.vpss
                           /\ h \in chn'.vdec <=> h \in chn.vdec
                           /\ h \in chn'.fed <=> h \in chn.fed
                           /\ h \in chn'.crop <=> h \in chn.crop
    BY DEF Local
  <1>6. \A q \in P \ {Sd} : \/ chn'.src[q] \in {NoSource, chn.src[q]}
                            \/ \E h \in H : chn'.src[q] \in {Vpss(h), Vdec(h)}
    BY DEF Local
  <1>7. chn \in ChnType /\ chn.src[Sd] \in {NoSource, SdFeed}
    BY DEF Pictures, ChnOK
  <1>8. \A g \in Ids : Place(g) \in Places /\ Place(g) # Sd
    <2>1. \A g \in Ids : win[g].vo \in Ids /\ win[g].dev \in Devs
      BY DEF TypeOK, WindowType
    <2>2. \A g \in Ids : PlaceLayer(win[g].dev, win[g].base) \in {0, 1, VPIP}
      BY <2>1 DEF PlaceLayer, ChanLayer, Devs
    <2> QED BY <2>1, <2>2, PlaceFacts DEF Place
  <1>9. \A g \in Ids : Place(g)' \in Places /\ Place(g)' # Sd
    <2>1. \A g \in Ids : win'[g].vo \in Ids /\ win'[g].dev \in Devs
      BY DEF TypeOK, WindowType
    <2>2. \A g \in Ids : PlaceLayer(win[g].dev, win[g].base)' \in {0, 1, VPIP}
      BY <2>1 DEF PlaceLayer, ChanLayer, Devs, Hard
    <2> QED BY <2>1, <2>2, PlaceFacts DEF Place
  <1>10. Bound'
    <2> SUFFICES ASSUME NEW h \in Ids \ torn', NEW q \in Places, Owned(h, q)'
                 PROVE  \/ h \in table' /\ q = Place(h)'
                        \/ q[2] = h /\ q \notin chn'.vo /\ \A g \in table' : q # Place(g)'
      BY DEF Bound
    <2>1. h \notin torn
      OBVIOUS
    <2>2. CASE q \notin P
      <3>1. Owned(h, q)
        BY <1>4, <2>2 DEF Owned
      <3>2. CASE h \in table /\ q = Place(h)
        <4>1. h \notin H
          BY <2>2, <3>2
        <4> QED BY <1>1, <3>2, <4>1
      <3>3. CASE q[2] = h /\ q \notin chn.vo /\ \A g \in table : q # Place(g)
        <4>1. \A g \in table' : q # Place(g)'
          BY <1>1, <1>3, <2>2, <3>3
        <4> QED BY <1>4, <2>2, <3>3, <4>1
      <3> QED BY <2>1, <3>1, <3>2, <3>3 DEF Pictures, Bound
    <2>3. CASE q \in P /\ h \notin H
      <3>1. q # Sd
        BY <1>2, SourceFacts DEF Owned
      <3>2. Owned(h, q)
        <4>1. chn'.src[q] \in {Vpss(h), Vdec(h)}
          BY DEF Owned
        <4>2. \A k \in H : chn'.src[q] \notin {Vpss(k), Vdec(k)}
          BY <2>3, <4>1, SourceFacts
        <4>3. chn'.src[q] = chn.src[q]
          BY <1>6, <2>3, <3>1, <4>1, <4>2, SourceFacts
        <4> QED BY <4>1, <4>3 DEF Owned
      <3>3. ~ (h \in table /\ q = Place(h))
        BY <2>3
      <3>4. q[2] = h /\ \A g \in table : q # Place(g)
        BY <2>1, <3>2, <3>3 DEF Pictures, Bound
      <3> QED BY <2>3, <3>1, <3>4
    <2> QED BY <2>2, <2>3
  <1>11. Standing'
    <2> SUFFICES ASSUME NEW h \in table', h \notin torn' PROVE Stands(h)'
      BY DEF Standing, Whole
    <2>1. CASE h \notin H
      <3>1. h \in Whole /\ h \in Ids /\ Place(h) \notin P
        BY <1>3, <2>1 DEF Whole
      <3>2. Stands(h)
        BY <3>1 DEF Pictures, Standing
      <3> QED BY <1>1, <1>4, <1>5, <1>8, <2>1, <3>1, <3>2 DEF Stands
    <2> QED BY <2>1
  <1>12. OnlyWindows'
    <2> SUFFICES ASSUME NEW q \in Places \ {Sd}, q \in chn'.vo \cup chn'.zoom
                 PROVE  q[2] \in torn' \/ \E g \in table' : q = Place(g)'
      BY <1>2 DEF OnlyWindows, ChnType
    <2>1. CASE q \notin P
      <3>1. q \in chn.vo \cup chn.zoom
        BY <1>4, <2>1
      <3>2. q[2] \in torn \/ \E g \in table : q = Place(g)
        BY <3>1 DEF Pictures, OnlyWindows
      <3>3. \A g \in table : q = Place(g) => g \in table' /\ q = Place(g)'
        BY <1>1, <1>3, <2>1
      <3> QED BY <3>2, <3>3
    <2> QED BY <2>1
  <1>13. Unused'
    <2> SUFFICES ASSUME NEW h \in Ids, h \notin table', h \notin torn', h \notin H
                 PROVE  h \notin chn'.vpss \cup chn'.vdec \cup chn'.fed \cup chn'.crop
      BY DEF Unused
    <2> QED BY <1>5 DEF Pictures, Unused
  <1>14. Extras'
    BY <1>2, <1>7 DEF Pictures, Extras, ChnType
  <1> QED BY <1>2, <1>10, <1>11, <1>12, <1>13, <1>14 DEF Pictures, ChnOK

\* Where the setting changes no window is open.
LEMMA Closed ==
    ASSUME TypeOK, Pictures, table = {}, UNCHANGED <<table, chn, win>>, torn' = torn
    PROVE  Pictures'
  <1>1. ChnOK'
    BY DEF Pictures, ChnOK
  <1>2. Numbered' /\ Standing' /\ Extras' /\ Second'
    BY DEF Pictures, Numbered, Standing, Extras, Second, Whole
  <1>3. Bound' /\ OnlyWindows'
    BY DEF Pictures, Bound, Owned, OnlyWindows
  <1>4. Unused'
    BY DEF Pictures, Unused
  <1> QED BY <1>1, <1>2, <1>3, <1>4 DEF Pictures

\* Where nothing runs every window is torn.
LEMMA Nothing ==
    ASSUME TypeOK, TypeOK', Numbered', chn' = NoChannels, table' \subseteq torn'
    PROVE  Pictures'
  <1>1. /\ NoChannels.vo = {} /\ NoChannels.zoom = {} /\ NoChannels.vpss = {} /\ NoChannels.vdec = {}
        /\ NoChannels.fed = {} /\ NoChannels.crop = {} /\ NoChannels.extra = {}
        /\ \A q \in Places : NoChannels.src[q] = NoSource
    BY DEF NoChannels
  <1>2. ChnOK'
    BY <1>1, NoChannelsType, PlaceFacts DEF ChnOK
  <1>3. Bound'
    BY <1>1, SourceFacts DEF Bound, Owned
  <1>4. Standing' /\ Second'
    BY DEF Standing, Second, Whole
  <1>5. OnlyWindows' /\ Unused' /\ Extras'
    BY <1>1 DEF OnlyWindows, Unused, Extras
  <1> QED BY <1>2, <1>3, <1>4, <1>5 DEF Pictures

\* A window's place is one of a high definition output.
LEMMA PlaceType ==
    ASSUME TypeOK
    PROVE  \A g \in Ids : /\ Place(g) \in Places /\ Place(g) # Sd
                          /\ Place(g)[2] = win[g].vo
  <1>1. \A g \in Ids : win[g].vo \in Ids /\ win[g].dev \in Devs
    BY DEF TypeOK, WindowType
  <1>2. \A g \in Ids : PlaceLayer(win[g].dev, win[g].base) \in {0, 1, VPIP}
    BY <1>1 DEF PlaceLayer, ChanLayer, Devs
  <1> QED BY <1>1, <1>2, PlaceFacts DEF Place

\* Starting and ending the system.
LEMMA SystemPictures ==
    ASSUME TypeOK, TypeOK', Pictures, Outlived, Outlived',
           \/ \E s \in Setups : InitSystem(s) \/ InitSystemFails(s) \/ InitSystemNoFb(s)
           \/ InitSystemNoPools
           \/ DestroySystem
    PROVE  Pictures'
  <1>1. CASE DestroySystem
    <2>1. chn' = NoChannels /\ table' \subseteq table /\ torn' = table'
      BY <1>1 DEF DestroySystem
    <2>2. \A h \in table' : win'[h] = win[h]
      BY <1>1 DEF DestroySystem, TypeOK
    <2>3. Numbered'
      BY <2>1, <2>2 DEF Pictures, Numbered, Whole
    <2> QED BY <2>1, <2>3, Nothing
  <1>2. CASE ~DestroySystem
    <2>1. chn' = NoChannels /\ UNCHANGED <<table, win, torn>> /\ ~isInit
      BY <1>2 DEF InitSystem, InitSystemFails, InitSystemNoFb, InitSystemNoPools
    <2>2. table' \subseteq torn'
      BY <2>1 DEF Outlived
    <2>3. Numbered'
      BY <2>1 DEF Pictures, Numbered, Whole
    <2> QED BY <2>1, <2>2, <2>3, Nothing
  <1> QED BY <1>1, <1>2

\* What only ends a magnification, or opens and closes an encoder, leaves the
\* pictures as they are.
LEMMA Quiet ==
    ASSUME TypeOK, TypeOK', Pictures, UNCHANGED <<setup, table>>, torn \subseteq torn',
           chn' \in ChnType, Extras',
           chn'.vo = chn.vo, chn'.src = chn.src, chn'.vpss = chn.vpss,
           chn'.vdec = chn.vdec, chn'.fed = chn.fed,
           chn'.crop \subseteq chn.crop, chn'.zoom \subseteq chn.zoom,
           \A g \in Ids : /\ win'[g].dev = win[g].dev /\ win'[g].base = win[g].base
                          /\ win'[g].show = win[g].show /\ win'[g].vpss = win[g].vpss
                          /\ win'[g].vo = win[g].vo
    PROVE  Pictures'
  <1>1. \A g \in Ids : Place(g)' = Place(g) /\ Source(g)' = Source(g)
    BY DEF Place, Source, PlaceLayer, ChanLayer, Hard
  <1>2. table \subseteq Ids
    BY DEF TypeOK
  <1>3. ChnOK'
    BY DEF Pictures, ChnOK
  <1>4. Numbered'
    BY <1>2 DEF Pictures, Numbered, Whole
  <1>5. Bound'
    BY <1>1, <1>2 DEF Pictures, Bound, Owned
  <1>6. Standing'
    <2> SUFFICES ASSUME NEW h \in Whole PROVE Stands(h)'
      BY DEF Standing, Whole
    <2>1. Stands(h) /\ h \in Ids
      BY <1>2 DEF Pictures, Standing, Whole
    <2> QED BY <1>1, <2>1 DEF Stands
  <1>7. OnlyWindows'
    <2>1. \A q \in (chn'.vo \cup chn'.zoom) \ {Sd} : q \in (chn.vo \cup chn.zoom) \ {Sd}
      OBVIOUS
    <2> QED BY <1>1, <1>2, <2>1 DEF Pictures, OnlyWindows
  <1>8. Unused' /\ Second'
    BY DEF Pictures, Unused, Second, Whole, AllHard, Hard
  <1> QED BY <1>3, <1>4, <1>5, <1>6, <1>7, <1>8 DEF Pictures

\* Magnifying a picture, and no longer.
LEMMA ZoomPictures ==
    ASSUME TypeOK, TypeOK', Pictures, WindowAsMode, NEW h \in Ids,
           ChanWindowOpenZoomIn(h) \/ ChanWindowCloseZoomIn(h)
    PROVE  Pictures'
  <1>1. UNCHANGED <<setup, table, win, torn>>
    BY DEF ChanWindowOpenZoomIn, ChanWindowCloseZoomIn, board
  <1>2. chn \in ChnType
    BY DEF Pictures, ChnOK
  <1>3. CASE ChanWindowCloseZoomIn(h)
    <2>1. \/ chn' = [chn EXCEPT !.crop = @ \ {h}] \/ chn' = chn
          \/ chn' = [chn EXCEPT !.zoom = @ \ {<<1, win[h].vo>>}]
      BY <1>3 DEF ChanWindowCloseZoomIn
    <2>2. /\ chn' \in ChnType /\ chn'.extra = chn.extra
          /\ chn'.vo = chn.vo /\ chn'.src = chn.src /\ chn'.vpss = chn.vpss
          /\ chn'.vdec = chn.vdec /\ chn'.fed = chn.fed
          /\ chn'.crop \subseteq chn.crop /\ chn'.zoom \subseteq chn.zoom
      BY <1>2, <2>1 DEF ChnType
    <2>3. Extras'
      BY <1>1, <2>2 DEF Pictures, Extras
    <2> QED BY <1>1, <2>2, <2>3, Quiet
  <1>4. CASE ChanWindowOpenZoomIn(h)
    <2> DEFINE P == {Place(h)}
    <2>1. h \in table /\ h \notin torn /\ Stands(h) /\ (win[h].vpss <=> Hard(win[h].dev))
      BY <1>4 DEF ChanWindowOpenZoomIn, Whole, Pictures, Standing, WindowAsMode
    <2>2. \/ win[h].vpss /\ chn' = [chn EXCEPT !.crop = @ \cup {h}]
          \/ ~win[h].vpss /\ chn' = [chn EXCEPT !.zoom = @ \cup {Place(h)}]
      BY <1>4, <2>1 DEF ChanWindowOpenZoomIn, Place, PlaceLayer
    <2>3. Place(h) \in Places /\ Place(h) # Sd
      BY PlaceType
    <2>4. /\ chn' \in ChnType /\ chn'.vo = chn.vo /\ chn'.src = chn.src /\ chn'.vpss = chn.vpss
          /\ chn'.vdec = chn.vdec /\ chn'.fed = chn.fed /\ chn'.extra = chn.extra
          /\ chn'.crop \subseteq chn.crop \cup {h}
          /\ chn.crop \subseteq chn'.crop /\ chn.zoom \subseteq chn'.zoom
          /\ ~win[h].vpss => chn'.crop = chn.crop
          /\ chn'.zoom \subseteq chn.zoom \cup {Place(h)}
          /\ win[h].vpss => chn'.zoom = chn.zoom
      BY <1>2, <2>2, <2>3 DEF ChnType
    <2>5. Local(chn', {h}, P)
      BY <2>4 DEF Local, Pictures, ChnOK
    <2>6. \A g \in Ids : Place(g)' = Place(g) /\ Source(g)' = Source(g)
      BY <1>1 DEF Place, Source, PlaceLayer, ChanLayer, Hard
    <2>7. \A g \in table \ {h} : Place(g) \notin P
      BY <2>1, PlaceType DEF Pictures, Numbered, TypeOK
    <2>8. Numbered' /\ Second'
      BY <1>1, <2>4 DEF Pictures, Numbered, Second, Whole, AllHard, Hard
    <2>9. Stands(h)'
      BY <1>1, <2>1, <2>4, <2>6 DEF Stands
    <2>10. \A q \in P : q \in chn'.vo \cup chn'.zoom
              => q[2] \in torn' \/ \E g \in table' : q = Place(g)'
      BY <1>1, <2>1, <2>6
    <2>11. \A q \in P : Owned(h, q)' => h \in table' /\ q = Place(h)'
      BY <1>1, <2>1, <2>6
    <2>12. \A g \in {h} \cap chn.extra : g \in torn' \/ (g \in table' /\ win'[g].busy)
      BY <1>1 DEF Pictures, Extras
    <2> HIDE DEF P
    <2>13. P \in SUBSET Places /\ Place(h) \in P /\ \A q \in P : q = Place(h)
      BY <2>3 DEF P
    <2> QED
      BY Frame, <1>1, <2>1, <2>5, <2>6, <2>7, <2>8, <2>9, <2>10, <2>11, <2>12, <2>13
  <1> QED BY <1>3, <1>4

\* Encoders and overlays.
LEMMA ExtraPictures ==
    ASSUME TypeOK, TypeOK', Pictures, NEW h \in Ids, OpenExtra(h) \/ CloseExtra(h)
    PROVE  Pictures'
  <1> DEFINE noted   == [win EXCEPT ![h].busy = TRUE]
             freed   == [win EXCEPT ![h].busy = FALSE]
             created == [chn EXCEPT !.extra = @ \cup {h}]
             ended   == [chn EXCEPT !.extra = @ \ {h}]
  <1>1. /\ UNCHANGED <<setup, table>> /\ h \in table
        /\ torn' = torn \/ torn' = torn \cup {h}
        /\ \/ chn' = created /\ (win' = noted \/ h \in torn')
           \/ chn' = ended /\ torn' = torn
           \/ chn' = chn /\ win' = win
        /\ win' \in {win, noted, freed}
    <2>1. CASE OpenExtra(h)
      BY <2>1 DEF OpenExtra, board, Whole
    <2>2. CASE CloseExtra(h)
      BY <2>2 DEF CloseExtra, board
    <2> QED BY <2>1, <2>2
  <1>2. chn \in ChnType /\ win \in [Ids -> WindowType]
    BY DEF Pictures, ChnOK, TypeOK
  <1>3. \A x \in BOOLEAN : LET w == [win EXCEPT ![h].busy = x] IN
          /\ \A g \in Ids : /\ w[g].dev = win[g].dev /\ w[g].base = win[g].base
                            /\ w[g].show = win[g].show /\ w[g].vpss = win[g].vpss
                            /\ w[g].vo = win[g].vo
          /\ \A g \in Ids \ {h} : w[g] = win[g]
          /\ w[h].busy = x
    BY <1>2 DEF WindowType
  <1>4. /\ \A g \in Ids : /\ win'[g].dev = win[g].dev /\ win'[g].base = win[g].base
                          /\ win'[g].show = win[g].show /\ win'[g].vpss = win[g].vpss
                          /\ win'[g].vo = win[g].vo
        /\ \A g \in Ids \ {h} : win'[g] = win[g]
        /\ win' = noted => win'[h].busy
    <2>1. noted[h].busy
      BY <1>3
    <2>2. ASSUME NEW w \in {win, noted, freed}
          PROVE  /\ \A g \in Ids : /\ w[g].dev = win[g].dev /\ w[g].base = win[g].base
                                  /\ w[g].show = win[g].show /\ w[g].vpss = win[g].vpss
                                  /\ w[g].vo = win[g].vo
                 /\ \A g \in Ids \ {h} : w[g] = win[g]
      <3>1. CASE w = win
        BY <3>1
      <3>2. CASE w = noted
        BY <1>3, <3>2
      <3>3. CASE w = freed
        BY <1>3, <3>3
      <3> QED BY <2>2, <3>1, <3>2, <3>3
    <2> HIDE DEF noted, freed
    <2> QED BY <1>1, <2>1, <2>2
  <1>5. ASSUME NEW x \in SUBSET Ids, NEW c, c = [chn EXCEPT !.extra = x]
        PROVE  /\ c \in ChnType /\ c.extra = x
               /\ c.vo = chn.vo /\ c.src = chn.src /\ c.vpss = chn.vpss
               /\ c.vdec = chn.vdec /\ c.fed = chn.fed
               /\ c.crop = chn.crop /\ c.zoom = chn.zoom
    BY <1>2, <1>5 DEF ChnType
  <1>6. /\ chn' \in ChnType
        /\ chn'.vo = chn.vo /\ chn'.src = chn.src /\ chn'.vpss = chn.vpss
        /\ chn'.vdec = chn.vdec /\ chn'.fed = chn.fed
        /\ chn'.crop = chn.crop /\ chn'.zoom = chn.zoom
        /\ chn' = created => chn'.extra = chn.extra \cup {h}
        /\ chn' = ended => chn'.extra = chn.extra \ {h}
    <2>1. chn.extra \cup {h} \in SUBSET Ids /\ chn.extra \ {h} \in SUBSET Ids
      BY <1>2 DEF ChnType
    <2>2. CASE chn' = created
      <3>1. chn' \in ChnType /\ chn'.extra = chn.extra \cup {h}
        BY <1>5, <2>1, <2>2
      <3>2. chn' = ended => chn'.extra = chn.extra \ {h}
        BY <1>5, <2>1
      <3>3. /\ chn'.vo = chn.vo /\ chn'.src = chn.src /\ chn'.vpss = chn.vpss
            /\ chn'.vdec = chn.vdec /\ chn'.fed = chn.fed
            /\ chn'.crop = chn.crop /\ chn'.zoom = chn.zoom
        BY <1>5, <2>1, <2>2
      <3> QED BY <3>1, <3>2, <3>3
    <2>3. CASE chn' = ended
      <3>1. chn' \in ChnType /\ chn'.extra = chn.extra \ {h}
        BY <1>5, <2>1, <2>3
      <3>2. chn' = created => chn'.extra = chn.extra \cup {h}
        BY <1>5, <2>1
      <3>3. /\ chn'.vo = chn.vo /\ chn'.src = chn.src /\ chn'.vpss = chn.vpss
            /\ chn'.vdec = chn.vdec /\ chn'.fed = chn.fed
            /\ chn'.crop = chn.crop /\ chn'.zoom = chn.zoom
        BY <1>5, <2>1, <2>3
      <3> QED BY <3>1, <3>2, <3>3
    <2>4. CASE chn' = chn
      <3>1. chn' = created => chn'.extra = chn.extra \cup {h}
        BY <1>5, <2>1
      <3>2. chn' = ended => chn'.extra = chn.extra \ {h}
        BY <1>5, <2>1
      <3> QED BY <1>2, <2>4, <3>1, <3>2
    <2> QED BY <1>1, <2>2, <2>3, <2>4
  <1> HIDE DEF noted, freed, created, ended
  <1>7. Extras'
    <2> SUFFICES ASSUME NEW g \in chn'.extra PROVE g \in torn' \/ (g \in table' /\ win'[g].busy)
      BY DEF Extras
    <2>1. g \in Ids
      BY <1>6 DEF ChnType
    <2>2. CASE g # h
      <3>1. g \in chn.extra
        BY <1>1, <1>6, <2>2
      <3> QED BY <1>1, <1>4, <2>1, <2>2, <3>1 DEF Pictures, Extras
    <2>3. CASE g = h
      BY <1>1, <1>4, <1>6, <2>3 DEF Pictures, Extras
    <2> QED BY <2>2, <2>3
  <1> QED BY <1>1, <1>4, <1>6, <1>7, Quiet

\* What the single steps change, and what they leave.
LEMMA GroupEffects ==
    ASSUME NEW c \in ChnType, NEW h
    PROVE  /\ StartVpss(c, h) = [c EXCEPT !.vpss = c.vpss \cup {h}]
           /\ StartVpss(c, h).vpss = c.vpss \cup {h} /\ StartVpss(c, h).fed = c.fed
           /\ StartVpss(c, h).vdec = c.vdec /\ StartVpss(c, h).crop = c.crop
           /\ StartVpss(c, h).vo = c.vo /\ StartVpss(c, h).src = c.src /\ StartVpss(c, h).zoom = c.zoom
           /\ StopVpss(c, h).vpss = c.vpss \ {h} /\ StopVpss(c, h).fed = c.fed
           /\ StopVpss(c, h).vdec = c.vdec /\ StopVpss(c, h).crop = c.crop \ {h}
           /\ StopVpss(c, h).vo = c.vo /\ StopVpss(c, h).src = c.src /\ StopVpss(c, h).zoom = c.zoom
           /\ StartVdec(c, h).vpss = c.vpss /\ StartVdec(c, h).fed = c.fed
           /\ StartVdec(c, h).vdec = c.vdec \cup {h} /\ StartVdec(c, h).crop = c.crop
           /\ StartVdec(c, h).vo = c.vo /\ StartVdec(c, h).src = c.src /\ StartVdec(c, h).zoom = c.zoom
           /\ StopVdec(c, h).vpss = c.vpss /\ StopVdec(c, h).fed = c.fed
           /\ StopVdec(c, h).vdec = c.vdec \ {h} /\ StopVdec(c, h).crop = c.crop
           /\ StopVdec(c, h).vo = c.vo /\ StopVdec(c, h).src = c.src /\ StopVdec(c, h).zoom = c.zoom
           /\ FeedVpss(c, h).vpss = c.vpss /\ FeedVpss(c, h).fed = c.fed \cup {h}
           /\ FeedVpss(c, h).vdec = c.vdec /\ FeedVpss(c, h).crop = c.crop
           /\ FeedVpss(c, h).vo = c.vo /\ FeedVpss(c, h).src = c.src /\ FeedVpss(c, h).zoom = c.zoom
           /\ StarveVpss(c, h).vpss = c.vpss /\ StarveVpss(c, h).fed = c.fed \ {h}
           /\ StarveVpss(c, h).vdec = c.vdec /\ StarveVpss(c, h).crop = c.crop
           /\ StarveVpss(c, h).vo = c.vo /\ StarveVpss(c, h).src = c.src /\ StarveVpss(c, h).zoom = c.zoom
  BY DEF ChnType, StartVpss, StopVpss, StartVdec, StopVdec, FeedVpss, StarveVpss

\* The same for the steps at a place.
LEMMA PlaceEffects ==
    ASSUME NEW c \in ChnType, NEW p \in Places
    PROVE  /\ StartVoChn(c, p).vo = c.vo \cup {p} /\ StartVoChn(c, p).zoom = c.zoom
           /\ StartVoChn(c, p).src = c.src /\ StartVoChn(c, p).vdec = c.vdec
           /\ StartVoChn(c, p).vpss = c.vpss /\ StartVoChn(c, p).fed = c.fed /\ StartVoChn(c, p).crop = c.crop
           /\ StopVoChn(c, p).vo = c.vo \ {p} /\ StopVoChn(c, p).zoom = c.zoom \ {p}
           /\ StopVoChn(c, p).src = c.src /\ StopVoChn(c, p).vdec = c.vdec
           /\ StopVoChn(c, p).vpss = c.vpss /\ StopVoChn(c, p).fed = c.fed /\ StopVoChn(c, p).crop = c.crop
           /\ \A s : /\ BindVo(c, p, s).vo = c.vo /\ BindVo(c, p, s).zoom = c.zoom
                     /\ BindVo(c, p, s).src[p] = s /\ BindVo(c, p, s).vdec = c.vdec
                     /\ \A q \in Places \ {p} : BindVo(c, p, s).src[q] = c.src[q]
                     /\ BindVo(c, p, s).vpss = c.vpss /\ BindVo(c, p, s).fed = c.fed /\ BindVo(c, p, s).crop = c.crop
           /\ \A s : /\ UnBindVo(c, p, s).vo = c.vo /\ UnBindVo(c, p, s).zoom = c.zoom
                     /\ UnBindVo(c, p, s).vdec = c.vdec
                     /\ UnBindVo(c, p, s).src[p] = (IF c.src[p] = s THEN NoSource ELSE c.src[p])
                     /\ \A q \in Places \ {p} : UnBindVo(c, p, s).src[q] = c.src[q]
                     /\ UnBindVo(c, p, s).vpss = c.vpss /\ UnBindVo(c, p, s).fed = c.fed /\ UnBindVo(c, p, s).crop = c.crop
  BY DEF ChnType, StartVoChn, StopVoChn, BindVo, UnBindVo

\* Nothing is touched yet.
LEMMA LocalSelf ==
    ASSUME Pictures PROVE \A H \in SUBSET Ids, P \in SUBSET Places : Local(chn, H, P)
  BY DEF Local, Pictures, ChnOK

\* What is local is a state of the channels.
LEMMA LocalType == ASSUME NEW c, NEW H, NEW P, Local(c, H, P) PROVE c \in ChnType
  BY DEF Local

\* A new window gets what it needs, and a number for which that failed is torn.
LEMMA CreatePictures ==
    ASSUME TypeOK, TypeOK', Pictures, NEW dev \in Devs, NEW base \in BOOLEAN,
           CreateChanWindow(dev, base)
    PROVE  Pictures'
  <1>0. Free # {} /\ Min(Free) \in Ids /\ Min(Free) \notin table
    BY SmallestFree DEF CreateChanWindow, Free
  <1> PICK h \in Ids : h \notin table /\ CreateWith(h, dev, base)
    BY <1>0 DEF CreateChanWindow
  <1> DEFINE p  == <<PlaceLayer(dev, base), h>>
             w  == [dev |-> dev, base |-> base, show |-> TRUE, vpss |-> Hard(dev),
                    vo |-> h, busy |-> FALSE]
             c1 == IF Hard(dev) THEN StartVpss(chn, h) ELSE chn
             c2 == StartVoChn(c1, p)
             c3 == IF Hard(dev) THEN BindVo(c2, p, Vpss(h)) ELSE c2
             c4 == IF h = 0 THEN StartVoChn(c3, Sd) ELSE c3
             c5 == IF h = 0 THEN BindVo(c4, Sd, SdFeed) ELSE c4
             c6 == StartVdec(c5, h)
             c7 == IF Hard(dev) THEN FeedVpss(c6, h) ELSE BindVo(c6, p, Vdec(h))
             Err3(c) == StopVpss(StopVoChn(StopVoChn(c, Sd), p), h)
             calls == << Call(Hard(dev), h \notin chn.vpss, chn),
                         Call(TRUE, p[1] \in lay.on, StopVpss(c1, h)),
                         Call(Hard(dev), MayBind(c2, p, Vpss(h)), StopVpss(c2, h)),
                         Call(h = 0, VSD0 \in lay.on, Err3(c3)),
                         Call(h = 0, MayBind(c4, Sd, SdFeed), Err3(c4)),
                         Call(TRUE, h \notin chn.vdec, c5),
                         Call(TRUE, Hard(dev) \/ MayBind(c6, p, Vdec(h)), c6) >>
             P == IF h = 0 THEN {p, Sd} ELSE {p}
  <1>1. /\ Free # {} /\ NothingSwapped /\ UNCHANGED setup /\ dev < setup.num
    BY DEF CreateChanWindow, board
  <1>2. h \in Ids /\ h \notin table
    OBVIOUS
  <1>11. \/ /\ chn' = c7
            /\ table' = table \cup {h} /\ win' = [win EXCEPT ![h] = w]
            /\ UNCHANGED <<torn, failures>>
         \/ /\ \E k \in DOMAIN calls : FailsAt(calls, k)
            /\ torn' = torn \cup {h}
            /\ UNCHANGED <<table, win>>
    BY Zenon DEF CreateWith
  <1>3. p \in Places /\ p # Sd /\ p[2] = h
    <2>1. PlaceLayer(dev, base) \in {0, 1, VPIP}
      BY DEF PlaceLayer, ChanLayer, Devs
    <2> QED BY <1>2, <2>1, PlaceFacts
  <1>4. P \in SUBSET Places /\ p \in P /\ (h = 0 => Sd \in P) /\ (\A q \in P : q = p \/ q = Sd)
        /\ (h # 0 => Sd \notin P)
    BY <1>3, PlaceFacts
  <1> HIDE DEF P, p
  <1> DEFINE L(c) == Local(c, {h}, P)
  <1>5. /\ \A c : L(c) => /\ L(StartVpss(c, h)) /\ L(StopVpss(c, h)) /\ L(StartVdec(c, h))
                          /\ L(FeedVpss(c, h)) /\ L(StartVoChn(c, p)) /\ L(StopVoChn(c, p))
                          /\ L(BindVo(c, p, Vpss(h))) /\ L(BindVo(c, p, Vdec(h)))
        /\ h = 0 => \A c : L(c) => /\ L(StartVoChn(c, Sd)) /\ L(StopVoChn(c, Sd))
                                   /\ L(BindVo(c, Sd, SdFeed))
    <2>1. {h} \in SUBSET Ids /\ h \in {h}
      BY <1>2
    <2> QED BY <1>3, <1>4, <2>1, GroupSteps, PlaceSteps
  <1>6. L(chn) /\ L(c1) /\ L(c2) /\ L(c3) /\ L(c4) /\ L(c5) /\ L(c6) /\ L(c7)
    <2>1. L(chn)
      BY <1>2, <1>4, LocalSelf
    <2> HIDE DEF L
    <2>2. L(c1)
      BY <1>5, <2>1
    <2>3. L(c2)
      BY <1>5, <2>2
    <2>4. L(c3)
      BY <1>5, <2>3
    <2>5. L(c4)
      BY <1>5, <2>4
    <2>6. L(c5)
      BY <1>5, <2>5
    <2>7. L(c6)
      BY <1>5, <2>6
    <2>8. L(c7)
      BY <1>5, <2>7
    <2> QED BY <2>1, <2>2, <2>3, <2>4, <2>5, <2>6, <2>7, <2>8
  <1>7. \A g \in table : g \in Ids /\ g # h /\ Place(g) \notin P
    <2>1. \A g \in table : g \in Ids /\ g # h
      BY <1>2 DEF TypeOK
    <2>2. \A g \in table : Place(g)[2] # h /\ Place(g) # Sd
      BY <1>1, <2>1, PlaceType DEF NothingSwapped
    <2> QED BY <1>3, <1>4, <2>1, <2>2
  <1>8. \A g \in {h} \cap chn.extra : g \in torn
    BY <1>2 DEF Pictures, Extras
  <1>9. CASE /\ chn' = c7 /\ table' = table \cup {h} /\ win' = [win EXCEPT ![h] = w]
             /\ torn' = torn
    <2>1. /\ \A g \in Ids \ {h} : win'[g] = win[g] /\ (g \in table' <=> g \in table)
          /\ win'[h] = w
      BY <1>2, <1>9 DEF TypeOK
    <2>2. Place(h)' = p /\ Source(h)' = (IF Hard(dev) THEN Vpss(h) ELSE Vdec(h))
      <3>1. win'[h].dev = dev /\ win'[h].base = base /\ win'[h].vo = h /\ win'[h].vpss = Hard(dev)
        BY <2>1
      <3>2. PlaceLayer(dev, base)' = PlaceLayer(dev, base)
        BY <1>1 DEF PlaceLayer, ChanLayer, Hard
      <3>3. PlaceLayer(win[h].dev, win[h].base)' = PlaceLayer(dev, base)
        BY <3>1, <3>2 DEF PlaceLayer, ChanLayer, Hard
      <3> QED BY <3>1, <3>3 DEF Place, Source, p
    <2>3. \A g \in table : Place(g)' = Place(g)
      BY <1>1, <1>7, <2>1 DEF Place, PlaceLayer, ChanLayer, Hard
    <2>4. Numbered'
      <3>1. \A g \in table : win'[g].vo = g
        BY <1>1, <1>7, <2>1 DEF NothingSwapped
      <3>2. win'[h].vo = h
        BY <2>1
      <3> HIDE DEF w
      <3> QED BY <1>9, <3>1, <3>2 DEF Numbered, Whole
    <2>5. /\ c7.vo = chn.vo \cup (IF h = 0 THEN {p, Sd} ELSE {p})
          /\ h \in c7.vdec
          /\ c7.src[p] = (IF Hard(dev) THEN Vpss(h) ELSE Vdec(h))
          /\ Hard(dev) => h \in c7.vpss \cap c7.fed
          /\ ~Hard(dev) => c7.vpss = chn.vpss /\ c7.fed = chn.fed /\ c7.crop = chn.crop
          /\ h = 0 => c7.src[Sd] = SdFeed
      <3>0. /\ chn \in ChnType /\ c1 \in ChnType /\ c2 \in ChnType /\ c3 \in ChnType
            /\ c4 \in ChnType /\ c5 \in ChnType /\ c6 \in ChnType /\ Sd \in Places
        BY <1>6, LocalType, PlaceFacts
      <3>1. /\ c1.vo = chn.vo /\ (Hard(dev) => h \in c1.vpss)
            /\ ~Hard(dev) => c1 = chn
        BY <3>0, GroupEffects
      <3> HIDE DEF c1
      <3>2. /\ c2.vo = chn.vo \cup {p} /\ (Hard(dev) => h \in c2.vpss)
            /\ ~Hard(dev) => c2.vpss = chn.vpss /\ c2.fed = chn.fed /\ c2.crop = chn.crop
        BY <1>3, <3>0, <3>1, PlaceEffects
      <3> HIDE DEF c2
      <3>3. /\ c3.vo = chn.vo \cup {p} /\ (Hard(dev) => h \in c3.vpss /\ c3.src[p] = Vpss(h))
            /\ ~Hard(dev) => c3.vpss = chn.vpss /\ c3.fed = chn.fed /\ c3.crop = chn.crop
        BY <1>3, <3>0, <3>2, PlaceEffects
      <3> HIDE DEF c3
      <3>4. /\ c4.vo = chn.vo \cup (IF h = 0 THEN {p, Sd} ELSE {p})
            /\ (Hard(dev) => h \in c4.vpss /\ c4.src[p] = Vpss(h))
            /\ ~Hard(dev) => c4.vpss = chn.vpss /\ c4.fed = chn.fed /\ c4.crop = chn.crop
        BY <3>0, <3>3, PlaceEffects
      <3> HIDE DEF c4
      <3>5. /\ c5.vo = chn.vo \cup (IF h = 0 THEN {p, Sd} ELSE {p})
            /\ (Hard(dev) => h \in c5.vpss /\ c5.src[p] = Vpss(h))
            /\ ~Hard(dev) => c5.vpss = chn.vpss /\ c5.fed = chn.fed /\ c5.crop = chn.crop
            /\ h = 0 => c5.src[Sd] = SdFeed
        BY <1>3, <3>0, <3>4, PlaceEffects
      <3> HIDE DEF c5
      <3>6. /\ c6.vo = chn.vo \cup (IF h = 0 THEN {p, Sd} ELSE {p})
            /\ (Hard(dev) => h \in c6.vpss /\ c6.src[p] = Vpss(h))
            /\ ~Hard(dev) => c6.vpss = chn.vpss /\ c6.fed = chn.fed /\ c6.crop = chn.crop
            /\ h = 0 => c6.src[Sd] = SdFeed
            /\ h \in c6.vdec
        BY <3>0, <3>5, GroupEffects
      <3> HIDE DEF c6
      <3>7. CASE Hard(dev)
        BY <3>0, <3>6, <3>7, GroupEffects
      <3>8. CASE ~Hard(dev)
        BY <1>3, <3>0, <3>6, <3>8, PlaceEffects
      <3> QED BY <3>7, <3>8
    <2> HIDE DEF c7
    <2>6. ASSUME h \notin torn PROVE Stands(h)'
      <3>1. h \notin chn.vpss \cup chn.fed \cup chn.crop
        BY <1>2, <2>6 DEF Pictures, Unused
      <3>2. win'[h].show /\ (win'[h].vpss <=> Hard(dev)) /\ win'[h].dev < setup'.num
        BY <1>1, <2>1
      <3>3. /\ p \in chn'.vo /\ h \in chn'.vdec /\ chn'.src[p] = Source(h)'
            /\ Hard(dev) => h \in chn'.vpss \cap chn'.fed
            /\ ~Hard(dev) => chn'.vpss = chn.vpss /\ chn'.fed = chn.fed /\ chn'.crop = chn.crop
        BY <1>9, <2>2, <2>5
      <3> QED BY <2>2, <3>1, <3>2, <3>3 DEF Stands
    <2>7. Second'
      <3>1. CASE h = 0
        BY <1>9, <2>5, <3>1 DEF Second
      <3>2. CASE h # 0
        <4>1. chn'.src[Sd] = chn.src[Sd] /\ (Sd \in chn'.vo <=> Sd \in chn.vo)
          BY <1>4, <1>6, <1>9, <3>2, PlaceFacts DEF Local
        <4> QED BY <1>1, <1>9, <3>2, <4>1 DEF Pictures, Second, Whole, AllHard, Hard
      <3> QED BY <3>1, <3>2
    <2>8. \A q \in P : Owned(h, q)' => h \in table' /\ q = Place(h)'
      <3>1. ~Owned(h, Sd)'
        <4>1. chn'.src[Sd] \in {NoSource, SdFeed}
          BY <1>6, <1>9 DEF Local
        <4> QED BY <1>2, <4>1, SourceFacts DEF Owned
      <3> QED BY <1>4, <1>9, <2>2, <3>1
    <2>9. \A q \in P \ {Sd} : q[2] \in torn' \/ \E g \in table' : q = Place(g)'
      BY <1>4, <1>9, <2>2
    <2>10. Local(chn', {h}, P) /\ {h} \in SUBSET Ids /\ h \in table'
      BY <1>2, <1>6, <1>9
    <2>11. Place(h)' \in P /\ \A q \in P \ {Sd} : q[2] = h
      BY <1>3, <1>4, <2>2
    <2> QED
      BY Frame, <1>1, <1>4, <1>7, <1>8, <1>9, <2>1, <2>4, <2>6, <2>7, <2>8, <2>9, <2>10, <2>11
  <1>10. CASE /\ \E k \in DOMAIN calls : FailsAt(calls, k)
              /\ torn' = torn \cup {h} /\ UNCHANGED <<table, win>>
    <2>1. Local(chn', {h}, P)
      <3>1. PICK k \in 1 .. 7 : calls[k].asked /\ chn' = calls[k].left
        <4>1. DOMAIN calls = 1 .. 7
          OBVIOUS
        <4> HIDE DEF calls
        <4>2. \A k : FailsAt(calls, k) => calls[k].asked /\ chn' = calls[k].left
          BY DEF FailsAt
        <4> QED BY <1>10, <4>1, <4>2
      <3>2. L(StopVpss(c1, h)) /\ L(StopVpss(c2, h))
        BY <1>5, <1>6
      <3>3. h = 0 => L(Err3(c3)) /\ L(Err3(c4))
        <4> HIDE DEF L
        <4>1. \A c : h = 0 /\ L(c) => L(StopVoChn(c, Sd))
          BY <1>5
        <4>2. \A c : h = 0 /\ L(c) => L(StopVoChn(StopVoChn(c, Sd), p))
          BY <1>5, <4>1
        <4>3. \A c : h = 0 /\ L(c) => L(Err3(c))
          BY <1>5, <4>2
        <4> QED BY <1>6, <4>3
      <3>4. CASE k \in {1, 2, 3}
        BY <1>6, <3>1, <3>2, <3>4 DEF Call
      <3>5. CASE k \in {4, 5}
        <4>1. h = 0
          <5>1. calls[4].asked = (h = 0) /\ calls[5].asked = (h = 0)
            <6> HIDE DEF c1, c2, c3, c4, c5, c6, Err3
            <6> QED BY DEF Call
          <5> HIDE DEF calls
          <5> QED BY <3>1, <3>5, <5>1
        <4> HIDE DEF L, c1, c2, c3, c4, Err3
        <4>2. chn' = Err3(c3) \/ chn' = Err3(c4)
          BY <3>1, <3>5 DEF Call
        <4>3. L(chn')
          BY <3>3, <4>1, <4>2
        <4> QED BY <4>3 DEF L
      <3>6. CASE k \in {6, 7}
        <4> HIDE DEF c5, c6
        <4> QED BY <1>6, <3>1, <3>6 DEF Call
      <3> QED BY <3>4, <3>5, <3>6
    <2>2. Numbered' /\ h \in torn' /\ torn \subseteq torn'
      BY <1>10 DEF Pictures, Numbered, Whole
    <2>3. Second'
      <3>1. CASE h = 0
        BY <1>10, <3>1 DEF Second, Whole
      <3>2. CASE h # 0
        <4>1. chn'.src[Sd] = chn.src[Sd] /\ (Sd \in chn'.vo <=> Sd \in chn.vo)
          BY <1>4, <2>1, <3>2, PlaceFacts DEF Local
        <4>2. Second /\ (AllHard' <=> AllHard) /\ (0 \in Whole' => 0 \in Whole)
              /\ (Analogue \in torn => Analogue \in torn')
          BY <1>1, <1>10 DEF Pictures, Whole, AllHard, Hard
        <4> QED BY <4>1, <4>2 DEF Second
      <3> QED BY <3>1, <3>2
    <2>4. \A q \in P \ {Sd} : q[2] = h
      BY <1>3, <1>4
    <2>5. {h} \in SUBSET Ids /\ h \notin table'
      BY <1>2, <1>10
    <2>6. \A g \in Ids \ {h} : g \in torn' <=> g \in torn
      BY <1>10
    <2> QED
      BY Frame, <1>1, <1>2, <1>4, <1>7, <1>8, <1>10, <2>1, <2>2, <2>3, <2>4, <2>5, <2>6
  <1> QED BY <1>9, <1>10, <1>11

\* The analogue output is as it was where only other numbers and places are
\* touched.
LEMMA SecondStays ==
    ASSUME Second, NEW H, NEW P \in SUBSET Places, Local(chn', H, P), Sd \notin P, UNCHANGED setup,
           torn \subseteq torn', 0 \in table' => 0 \in table
    PROVE  Second'
  <1>1. chn'.src[Sd] = chn.src[Sd] /\ (Sd \in chn'.vo <=> Sd \in chn.vo)
    BY PlaceFacts DEF Local
  <1>2. (AllHard' <=> AllHard) /\ (0 \in Whole' => 0 \in Whole)
    BY DEF Whole, AllHard, Hard
  <1> QED BY <1>1, <1>2 DEF Second

\* A window that is destroyed leaves nothing that runs, or its number is torn.
LEMMA DestroyPictures ==
    ASSUME TypeOK, TypeOK', Pictures, WindowAsMode, NEW h \in Ids, DestroyChanWindow(h)
    PROVE  Pictures'
  <1> DEFINE hard == Hard(win[h].dev)
             p  == Place(h)
             c1 == IF hard THEN StarveVpss(chn, h) ELSE UnBindVo(chn, p, Vdec(h))
             c2 == StopVdec(c1, h)
             c3 == IF ~hard \/ win[h].show THEN StopVoChn(c2, p) ELSE c2
             s1 == UnBindVo(c3, Sd, SdFeed)
             s2 == StopVoChn(s1, Sd)
             c4 == IF hard /\ h = 0 THEN StopVoChn(s2, <<p[1], 0>>) ELSE c3
             c5 == IF hard THEN StopVpss(c4, h) ELSE c4
             calls == << Call(TRUE, IF hard THEN win[h].vpss ELSE MayBind(chn, p, Vdec(h)), chn),
                         Call(TRUE, h \in chn.vdec, c1),
                         Call(hard /\ h = 0, MayBind(c3, Sd, SdFeed), c3) >>
             P == IF hard /\ h = 0 THEN {p, Sd} ELSE {p}
  <1>1. /\ h \in table /\ ~win[h].busy /\ NothingSwapped /\ UNCHANGED setup
        /\ table' = table \ {h} /\ win' = [win EXCEPT ![h] = NoWindow]
    BY DEF DestroyChanWindow, board, CheckEnableOp
  <1>2. \/ chn' = c5 /\ torn' = torn
        \/ /\ \E k \in DOMAIN calls : FailsAt(calls, k)
           /\ torn' = torn \cup {h}
    BY Zenon DEF DestroyChanWindow
  <1>3. p \in Places /\ p # Sd /\ p[2] = h /\ p = <<p[1], h>>
    <2>1. p \in Places /\ p # Sd /\ p[2] = h
      BY <1>1, PlaceType DEF NothingSwapped
    <2> QED BY <2>1, PlaceFacts
  <1>4. P \in SUBSET Places /\ p \in P /\ (hard /\ h = 0 => Sd \in P) /\ (\A q \in P : q = p \/ q = Sd)
        /\ (h # 0 => Sd \notin P)
    BY <1>3, PlaceFacts
  <1>5. \A g \in Ids \ {h} : win'[g] = win[g] /\ (g \in table' <=> g \in table)
    BY <1>1 DEF TypeOK
  <1>6. \A g \in table \ {h} : g \in Ids /\ Place(g) \notin P /\ Place(g)' = Place(g)
    <2>1. \A g \in table \ {h} : g \in Ids
      BY DEF TypeOK
    <2>2. \A g \in table \ {h} : Place(g)[2] # h /\ Place(g) # Sd
      BY <1>1, <2>1, PlaceType DEF NothingSwapped
    <2>3. \A g \in table \ {h} : Place(g)' = Place(g)
      BY <1>1, <1>5, <2>1 DEF Place, PlaceLayer, ChanLayer, Hard
    <2> QED BY <1>3, <1>4, <2>1, <2>2, <2>3
  <1> HIDE DEF P, p
  <1> DEFINE L(c) == Local(c, {h}, P)
  <1>7. /\ \A c : L(c) => /\ L(StarveVpss(c, h)) /\ L(StopVdec(c, h)) /\ L(StopVpss(c, h))
                          /\ L(StopVoChn(c, p)) /\ L(UnBindVo(c, p, Vdec(h)))
        /\ hard /\ h = 0 => \A c : L(c) => L(UnBindVo(c, Sd, SdFeed)) /\ L(StopVoChn(c, Sd))
    BY <1>4, GroupSteps, PlaceSteps
  <1>8. /\ L(chn) /\ L(c1) /\ L(c2) /\ L(c3) /\ L(c4) /\ L(c5)
        /\ hard /\ h = 0 => L(s1) /\ L(s2)
    <2>1. L(chn)
      BY <1>4, LocalSelf
    <2> HIDE DEF L
    <2>2. L(c1)
      BY <1>7, <2>1
    <2>3. L(c2)
      BY <1>7, <2>2
    <2>4. L(c3)
      BY <1>7, <2>3
    <2>5. hard /\ h = 0 => L(s1) /\ L(s2)
      BY <1>7, <2>4
    <2>6. L(c4)
      BY <1>3, <1>7, <2>4, <2>5
    <2>7. L(c5)
      BY <1>7, <2>6
    <2> QED BY <2>1, <2>2, <2>3, <2>4, <2>5, <2>6, <2>7
  <1>9. Numbered'
    <2>1. \A g \in table' : win'[g].vo = g
      BY <1>1, <1>5, <1>6 DEF NothingSwapped
    <2> QED BY <2>1 DEF Numbered, Whole
  <1>10. ASSUME torn \subseteq torn', L(chn') PROVE Second'
    <2>1. CASE h = 0
      BY <1>1, <2>1 DEF Second, Whole
    <2>2. CASE h # 0
      BY <1>1, <1>4, <1>10, <2>2, SecondStays DEF Pictures
    <2> QED BY <2>1, <2>2
  <1>11. {h} \in SUBSET Ids /\ h \notin table' /\ \A g \in {h} \cap chn.extra : g \in torn
    BY <1>1 DEF Pictures, Extras
  <1>12. Place(h) \in P /\ \A q \in P \ {Sd} : q[2] = h
    BY <1>3, <1>4 DEF p
  <1>13. CASE chn' = c5 /\ torn' = torn
    <2>1. h \notin torn => /\ p \notin c5.vo \cup c5.zoom
                           /\ h \notin c5.vpss \cup c5.vdec \cup c5.fed \cup c5.crop
      <3> SUFFICES ASSUME h \notin torn
                   PROVE  /\ p \notin c5.vo \cup c5.zoom
                          /\ h \notin c5.vpss \cup c5.vdec \cup c5.fed \cup c5.crop
        OBVIOUS
      <3>0. /\ chn \in ChnType /\ c1 \in ChnType /\ c2 \in ChnType /\ c3 \in ChnType
            /\ c4 \in ChnType /\ (hard /\ h = 0 => s1 \in ChnType /\ s2 \in ChnType) /\ Sd \in Places
        BY <1>8, LocalType, PlaceFacts
      <3>1. Stands(h) /\ (win[h].vpss <=> hard)
        BY <1>1 DEF Pictures, Standing, Whole, WindowAsMode
      <3> HIDE DEF hard
      <3>2. /\ hard => h \notin c1.fed
            /\ ~hard => c1.fed = chn.fed /\ c1.vpss = chn.vpss /\ c1.crop = chn.crop
            /\ c1.vo = chn.vo /\ c1.zoom = chn.zoom
        BY <1>3, <3>0, GroupEffects, PlaceEffects
      <3> HIDE DEF c1
      <3>3. /\ h \notin c2.vdec
            /\ c2.fed = c1.fed /\ c2.vpss = c1.vpss /\ c2.crop = c1.crop
            /\ c2.vo = c1.vo /\ c2.zoom = c1.zoom
        BY <3>0, GroupEffects
      <3> HIDE DEF c2
      <3>4. /\ h \notin c3.vdec
            /\ c3.fed = c1.fed /\ c3.vpss = c1.vpss /\ c3.crop = c1.crop
            /\ p \notin c3.vo \cup c3.zoom
        <4>1. CASE ~hard \/ win[h].show
          BY <1>3, <3>0, <3>3, <4>1, PlaceEffects
        <4>2. CASE ~(~hard \/ win[h].show)
          BY <3>1, <3>2, <3>3, <4>2 DEF Stands, p
        <4> QED BY <4>1, <4>2
      <3> HIDE DEF c3
      <3>5. /\ c4.vdec = c3.vdec /\ c4.fed = c3.fed /\ c4.vpss = c3.vpss /\ c4.crop = c3.crop
            /\ c4.vo \subseteq c3.vo /\ c4.zoom \subseteq c3.zoom
        <4>1. CASE hard /\ h = 0
          <5>1. /\ s1.vdec = c3.vdec /\ s1.fed = c3.fed /\ s1.vpss = c3.vpss /\ s1.crop = c3.crop
                /\ s1.vo = c3.vo /\ s1.zoom = c3.zoom /\ s1 \in ChnType
            BY <3>0, <4>1, PlaceEffects
          <5> HIDE DEF s1
          <5>2. /\ s2.vdec = s1.vdec /\ s2.fed = s1.fed /\ s2.vpss = s1.vpss /\ s2.crop = s1.crop
                /\ s2.vo \subseteq s1.vo /\ s2.zoom \subseteq s1.zoom /\ s2 \in ChnType
            BY <3>0, <4>1, <5>1, PlaceEffects
          <5> HIDE DEF s2
          <5>3. c4 = StopVoChn(s2, p)
            BY <1>3, <4>1
          <5> QED BY <1>3, <5>1, <5>2, <5>3, PlaceEffects
        <4> QED BY <4>1
      <3> HIDE DEF c4
      <3>6. CASE hard
        BY <3>0, <3>2, <3>4, <3>5, <3>6, GroupEffects
      <3>7. CASE ~hard
        BY <3>1, <3>2, <3>4, <3>5, <3>7 DEF Stands
      <3> QED BY <3>6, <3>7
    <2> HIDE DEF c5
    <2>2. \A q \in P : h \notin torn' /\ Owned(h, q)' =>
             q[2] = h /\ q \notin chn'.vo /\ \A g \in table' : q # Place(g)'
      <3>1. ~Owned(h, Sd)'
        <4>1. chn'.src[Sd] \in {NoSource, SdFeed}
          BY <1>8, <1>13 DEF Local
        <4> QED BY <4>1, SourceFacts DEF Owned
      <3>2. \A g \in table' : p # Place(g)'
        BY <1>1, <1>4, <1>6
      <3> QED BY <1>3, <1>4, <1>13, <2>1, <3>1, <3>2
    <2>3. \A q \in P \ {Sd} : q \in chn'.vo \cup chn'.zoom => q[2] \in torn'
      BY <1>3, <1>4, <1>13, <2>1
    <2>4. L(chn') /\ torn \subseteq torn' /\ \A g \in Ids \ {h} : g \in torn' <=> g \in torn
      BY <1>8, <1>13
    <2>5. h \notin torn' => h \notin chn'.vpss \cup chn'.vdec \cup chn'.fed \cup chn'.crop
      BY <1>13, <2>1
    <2> QED
      BY Frame, <1>1, <1>4, <1>5, <1>6, <1>9, <1>10, <1>11, <1>12, <2>2, <2>3, <2>4, <2>5
  <1>14. CASE /\ \E k \in DOMAIN calls : FailsAt(calls, k)
              /\ torn' = torn \cup {h}
    <2>1. L(chn')
      <3>1. PICK k \in 1 .. 3 : chn' = calls[k].left
        <4>1. DOMAIN calls = 1 .. 3
          OBVIOUS
        <4> HIDE DEF calls
        <4>2. \A k : FailsAt(calls, k) => chn' = calls[k].left
          BY DEF FailsAt
        <4> QED BY <1>14, <4>1, <4>2
      <3>2. chn' \in {chn, c1, c3}
        <4> HIDE DEF c1, c3
        <4> QED BY <3>1 DEF Call
      <3> HIDE DEF L
      <3> QED BY <1>8, <3>2
    <2>2. /\ L(chn') /\ torn \subseteq torn' /\ h \in torn'
          /\ \A g \in Ids \ {h} : g \in torn' <=> g \in torn
      BY <1>14, <2>1
    <2> QED
      BY Frame, <1>1, <1>4, <1>5, <1>6, <1>9, <1>10, <1>11, <1>12, <2>2
  <1> QED BY <1>2, <1>13, <1>14

\* A window that is hidden keeps its group and its binding; one that is shown
\* again gets its channel back.
LEMMA ShowPictures ==
    ASSUME TypeOK, TypeOK', Pictures, WindowAsMode, NEW h \in Ids, ShowChanWindow(h)
    PROVE  Pictures'
  <1> DEFINE p  == Place(h)
             c1 == StartVoChn(chn, p)
             P  == {p}
             L(c) == Local(c, {h}, P)
  <1>1. h \in table /\ Hard(win[h].dev) /\ UNCHANGED <<setup, table>>
    BY DEF ShowChanWindow, board
  <1>2. \/ /\ win[h].show /\ chn' = StopVoChn(chn, p)
           /\ win' = [win EXCEPT ![h].show = FALSE] /\ torn' = torn
        \/ /\ ~win[h].show /\ chn' = BindVo(c1, p, Vpss(h))
           /\ win' = [win EXCEPT ![h].show = TRUE] /\ torn' = torn
        \/ /\ chn' \in {chn, c1} /\ torn' = torn \cup {h}
           /\ win' = [win EXCEPT ![h].show = TRUE] \/ win' = win
    BY DEF ShowChanWindow
  <1>3. p \in Places /\ p # Sd /\ p[2] = win[h].vo
    BY PlaceType
  <1>4. /\ \A g \in Ids \ {h} : win'[g] = win[g]
        /\ \A g \in Ids : /\ win'[g].dev = win[g].dev /\ win'[g].base = win[g].base
                          /\ win'[g].vpss = win[g].vpss /\ win'[g].vo = win[g].vo
                          /\ win'[g].busy = win[g].busy
        /\ win' = [win EXCEPT ![h].show = FALSE] => ~win'[h].show
        /\ win' = [win EXCEPT ![h].show = TRUE] => win'[h].show
    BY <1>2 DEF TypeOK, WindowType
  <1>5. \A g \in Ids : Place(g)' = Place(g) /\ Source(g)' = Source(g)
    BY <1>1, <1>4 DEF Place, Source, PlaceLayer, ChanLayer, Hard
  <1> HIDE DEF p
  <1>6. \A g \in table : g \in Ids /\ (g # h => Place(g) # p)
    <2>1. \A g \in table : g \in Ids
      BY DEF TypeOK
    <2>2. \A g \in table : g # h => win[g].vo # win[h].vo
      BY <1>1 DEF Pictures, Numbered
    <2> QED BY <1>3, <2>1, <2>2, PlaceType
  <1>7. L(chn) /\ L(c1) /\ L(StopVoChn(chn, p)) /\ L(BindVo(c1, p, Vpss(h)))
    <2>1. P \in SUBSET Places /\ p \in P /\ {h} \in SUBSET Ids
      BY <1>3
    <2>2. L(chn)
      BY <2>1, LocalSelf
    <2> HIDE DEF P
    <2>3. L(c1) /\ L(StopVoChn(chn, p))
      BY <2>1, <2>2, PlaceSteps
    <2>4. L(BindVo(c1, p, Vpss(h)))
      <3> HIDE DEF c1
      <3> QED BY <1>3, <2>1, <2>3, PlaceSteps
    <2> QED BY <2>2, <2>3, <2>4
  <1>8. L(chn')
    <2> HIDE DEF L
    <2> QED BY <1>2, <1>7
  <1>9. torn \subseteq torn' /\ \A g \in Ids \ {h} : g \in torn' <=> g \in torn
    BY <1>2
  <1>10. Numbered'
    BY <1>1, <1>4, <1>6, <1>9 DEF Pictures, Numbered, Whole
  <1>11. Second'
    <2>1. P \in SUBSET Places /\ Sd \notin P
      BY <1>3
    <2> QED BY <1>1, <1>8, <1>9, <2>1, SecondStays DEF Pictures
  <1>12. h \notin torn' => Stands(h)'
    <2> SUFFICES ASSUME h \notin torn' PROVE Stands(h)'
      OBVIOUS
    <2>1. Stands(h) /\ win[h].vpss
      BY <1>1, <1>9 DEF Pictures, Standing, Whole, WindowAsMode
    <2>2. chn \in ChnType /\ c1 \in ChnType
      BY <1>7, LocalType
    <2>3. CASE /\ chn' = StopVoChn(chn, p) /\ ~win'[h].show
      <3>1. /\ p \notin chn'.vo \cup chn'.zoom /\ chn'.src = chn.src
            /\ chn'.vdec = chn.vdec /\ chn'.vpss = chn.vpss /\ chn'.fed = chn.fed
        BY <1>3, <2>2, <2>3, PlaceEffects
      <3> QED BY <1>1, <1>4, <1>5, <2>1, <2>3, <3>1 DEF Stands, p
    <2>4. CASE /\ chn' = BindVo(c1, p, Vpss(h)) /\ win'[h].show
      <3>1. /\ c1.vo = chn.vo \cup {p}
            /\ c1.vdec = chn.vdec /\ c1.vpss = chn.vpss /\ c1.fed = chn.fed
        BY <1>3, <2>2, PlaceEffects
      <3> HIDE DEF c1
      <3>2. /\ p \in chn'.vo /\ chn'.src[p] = Vpss(h)
            /\ chn'.vdec = chn.vdec /\ chn'.vpss = chn.vpss /\ chn'.fed = chn.fed
        BY <1>3, <2>2, <2>4, <3>1, PlaceEffects
      <3>3. Source(h)' = Vpss(h)
        BY <1>5, <2>1 DEF Source
      <3> QED BY <1>1, <1>4, <1>5, <2>1, <2>4, <3>2, <3>3 DEF Stands, p
    <2> QED BY <1>2, <1>4, <2>3, <2>4
  <1>13. \A q \in P : q = Place(h)' /\ q = Place(h)
    BY <1>5 DEF p
  <1>14. \A g \in {h} \cap chn.extra : g \in torn' \/ (g \in table' /\ win'[g].busy)
    <2>1. torn \subseteq torn'
      BY <1>2
    <2>2. h \in chn.extra => h \in torn \/ win[h].busy
      BY DEF Pictures, Extras
    <2> QED BY <1>1, <1>4, <2>1, <2>2
  <1>15. {h} \in SUBSET Ids /\ P \in SUBSET Places /\ Place(h) \in P /\ Place(h)' \in P /\ h \in table'
    BY <1>1, <1>3, <1>5 DEF p
  <1>16. \A g \in table \ {h} : Place(g) \notin P
    BY <1>6
  <1> HIDE DEF P
  <1> QED
    BY Frame, <1>1, <1>4, <1>6, <1>8, <1>9, <1>10, <1>11, <1>12, <1>13, <1>14, <1>15, <1>16

\* Sequences of states of the channels, the last of which counts.
LEMMA LastOf ==
    ASSUME NEW S, NEW s \in Seq(S), NEW t \in Seq(S), t # <<>>
    PROVE  s \o t \in Seq(S) /\ s \o t # <<>> /\ Last(s \o t) = Last(t)
  BY DEF Last

\* The first loop of a swap passes through local states.
LEMMA DownLocal ==
    ASSUME NEW c, NEW H \in SUBSET Ids, NEW P \in SUBSET Places, Local(c, H, P), NEW h \in H,
           <<GetChanLayer(h), win[h].vo>> \in P, Sd \in P
    PROVE  /\ TakeDown(c, h) \in Seq({d \in ChnType : Local(d, H, P)}) /\ TakeDown(c, h) # <<>>
           /\ Local(Last(TakeDown(c, h)), H, P)
  <1> DEFINE p  == <<GetChanLayer(h), win[h].vo>>
             c1 == UnBindVo(c, p, Source(h))
             c2 == IF win[h].vpss THEN StopVpss(StarveVpss(c1, h), h) ELSE c1
             c3 == StartVoChn(StopVoChn(c2, p), p)
             c4 == StartVoChn(StopVoChn(c3, Sd), Sd)
             L(d) == Local(d, H, P)
  <1>1. p \in P
    OBVIOUS
  <1> HIDE DEF p
  <1>2. L(c1)
    BY <1>1, PlaceSteps
  <1>3. L(c2)
    <2> HIDE DEF c1
    <2>1. L(StarveVpss(c1, h))
      BY <1>2, GroupSteps
    <2>2. L(StopVpss(StarveVpss(c1, h), h))
      BY <2>1, GroupSteps
    <2> QED BY <1>2, <2>2
  <1> HIDE DEF c2
  <1>4. L(StopVoChn(c2, p))
    BY <1>1, <1>3, PlaceSteps
  <1>5. L(c3)
    BY <1>1, <1>4, PlaceSteps
  <1> HIDE DEF c3
  <1>6. L(StopVoChn(c3, Sd))
    BY <1>5, PlaceSteps
  <1>7. L(c4)
    BY <1>6, PlaceSteps
  <1>8. TakeDown(c, h) = << c1, c2, StopVoChn(c2, p), StopVoChn(c3, Sd), c4 >>
    BY DEF TakeDown, p, c2, c3
  <1> HIDE DEF c1, c4
  <1>9. \A d : L(d) => d \in {e \in ChnType : Local(e, H, P)}
    BY LocalType
  <1> QED BY <1>2, <1>3, <1>4, <1>6, <1>7, <1>8, <1>9 DEF Last

\* So does the second.
LEMMA UpLocal ==
    ASSUME NEW c, NEW H \in SUBSET Ids, NEW P \in SUBSET Places, Local(c, H, P),
           NEW h \in H, NEW g, NEW first \in BOOLEAN,
           <<GetChanLayer(g), win[g].vo>> \in P \ {Sd}, Sd \in P
    PROVE  /\ PutUp(c, h, g, first) \in Seq({d \in ChnType : Local(d, H, P)})
           /\ PutUp(c, h, g, first) # <<>>
           /\ Local(Last(PutUp(c, h, g, first)), H, P)
  <1> DEFINE p  == <<GetChanLayer(g), win[g].vo>>
             c1 == StartVpss(c, h)
             c2 == BindVo(c1, p, Vpss(h))
             c3 == IF first THEN BindVo(c2, Sd, SdFeed) ELSE c2
             L(d) == Local(d, H, P)
  <1>1. p \in P /\ p # Sd
    OBVIOUS
  <1> HIDE DEF p
  <1>2. L(c1)
    BY GroupSteps
  <1> HIDE DEF c1
  <1>3. L(c2)
    BY <1>1, <1>2, PlaceSteps
  <1> HIDE DEF c2
  <1>4. L(c3)
    BY <1>3, PlaceSteps
  <1> HIDE DEF c3
  <1>5. L(FeedVpss(c3, h))
    BY <1>4, GroupSteps
  <1>6. L(BindVo(c, p, Vdec(h)))
    BY <1>1, PlaceSteps
  <1>7. PutUp(c, h, g, first) =
           IF Hard(win[g].dev) THEN << c1, c2, c3, FeedVpss(c3, h) >>
           ELSE << BindVo(c, p, Vdec(h)) >>
    BY DEF PutUp, p, c1, c2, c3
  <1>8. \A d : L(d) => d \in {e \in ChnType : Local(e, H, P)}
    BY LocalType
  <1> HIDE DEF L
  <1>9. CASE Hard(win[g].dev)
    <2>1. PutUp(c, h, g, first) = << c1, c2, c3, FeedVpss(c3, h) >>
      BY <1>7, <1>9
    <2> QED BY <1>2, <1>3, <1>4, <1>5, <1>8, <2>1 DEF Last, L
  <1>10. CASE ~Hard(win[g].dev)
    <2>1. PutUp(c, h, g, first) = << BindVo(c, p, Vdec(h)) >>
      BY <1>7, <1>10
    <2> QED BY <1>6, <1>8, <2>1 DEF Last, L
  <1> QED BY <1>9, <1>10

\* What the first loop leaves of a window.
LEMMA DownEffects ==
    ASSUME NEW c \in ChnType, NEW h \in Ids, NEW p \in Places, p # Sd,
           p = <<GetChanLayer(h), win[h].vo>>
    PROVE  LET d == Last(TakeDown(c, h)) IN
           /\ d \in ChnType /\ d.vdec = c.vdec /\ d.vo = c.vo \cup {p, Sd}
           /\ d.src[Sd] = c.src[Sd]
           /\ win[h].vpss => h \notin d.vpss \cup d.fed \cup d.crop
           /\ \A g : g # h \/ ~win[h].vpss =>
                /\ g \in d.vpss <=> g \in c.vpss
                /\ g \in d.fed <=> g \in c.fed
                /\ g \in d.crop <=> g \in c.crop
  <1> DEFINE c1 == UnBindVo(c, p, Source(h))
             c2 == IF win[h].vpss THEN StopVpss(StarveVpss(c1, h), h) ELSE c1
             c3 == StartVoChn(StopVoChn(c2, p), p)
             c4 == StartVoChn(StopVoChn(c3, Sd), Sd)
  <1>1. Last(TakeDown(c, h)) = c4
    <2>1. TakeDown(c, h) = << c1, c2, StopVoChn(c2, p), StopVoChn(c3, Sd), c4 >>
      BY DEF TakeDown
    <2> HIDE DEF c1, c2, c3, c4
    <2> QED BY <2>1 DEF Last
  <1>2. Sd \in Places
    BY PlaceFacts
  <1>3. /\ c1 \in ChnType /\ c1.vdec = c.vdec /\ c1.vo = c.vo /\ c1.src[Sd] = c.src[Sd]
        /\ c1.vpss = c.vpss /\ c1.fed = c.fed /\ c1.crop = c.crop
    <2>1. c1 \in ChnType
      BY SourceFacts DEF UnBindVo, ChnType
    <2> QED BY <1>2, <2>1, PlaceEffects
  <1> HIDE DEF c1
  <1>4. /\ c2 \in ChnType /\ c2.vdec = c.vdec /\ c2.vo = c.vo /\ c2.src[Sd] = c.src[Sd]
        /\ win[h].vpss => h \notin c2.vpss \cup c2.fed \cup c2.crop
        /\ \A g : g # h \/ ~win[h].vpss =>
             /\ g \in c2.vpss <=> g \in c.vpss
             /\ g \in c2.fed <=> g \in c.fed
             /\ g \in c2.crop <=> g \in c.crop
    BY <1>3 DEF StopVpss, StarveVpss, ChnType
  <1> HIDE DEF c2
  <1>5. /\ c3 \in ChnType /\ c3.vdec = c2.vdec /\ c3.vo = c2.vo \cup {p} /\ c3.src = c2.src
        /\ c3.vpss = c2.vpss /\ c3.fed = c2.fed /\ c3.crop = c2.crop
    BY <1>4 DEF StartVoChn, StopVoChn, ChnType
  <1> HIDE DEF c3
  <1>6. /\ c4 \in ChnType /\ c4.vdec = c3.vdec /\ c4.vo = c3.vo \cup {Sd} /\ c4.src = c3.src
        /\ c4.vpss = c3.vpss /\ c4.fed = c3.fed /\ c4.crop = c3.crop
    BY <1>2, <1>5 DEF StartVoChn, StopVoChn, ChnType
  <1> HIDE DEF c4
  <1> QED BY <1>1, <1>4, <1>5, <1>6

\* d is c after h has been put up at p, where the window g was.
Upped(d, c, h, g, p, first) ==
    /\ d \in ChnType /\ d.vdec = c.vdec /\ d.vo = c.vo /\ d.crop = c.crop
    /\ \A q \in Places \ {p, Sd} : d.src[q] = c.src[q]
    /\ IF Hard(win[g].dev)
       THEN /\ d.src[p] = Vpss(h) /\ d.src[Sd] = (IF first THEN SdFeed ELSE c.src[Sd])
            /\ d.vpss = c.vpss \cup {h} /\ d.fed = c.fed \cup {h}
       ELSE /\ d.src[p] = Vdec(h) /\ d.src[Sd] = c.src[Sd]
            /\ d.vpss = c.vpss /\ d.fed = c.fed

\* What the second gives it.
LEMMA UpEffects ==
    ASSUME NEW c \in ChnType, NEW h \in Ids, NEW g, NEW p \in Places, p # Sd, NEW first \in BOOLEAN,
           p = <<GetChanLayer(g), win[g].vo>>
    PROVE  Upped(Last(PutUp(c, h, g, first)), c, h, g, p, first)
  <1> DEFINE c1 == StartVpss(c, h)
             c2 == BindVo(c1, p, Vpss(h))
             c3 == IF first THEN BindVo(c2, Sd, SdFeed) ELSE c2
             c4 == FeedVpss(c3, h)
             v  == BindVo(c, p, Vdec(h))
  <1>0. Sd \in Places
    BY PlaceFacts
  <1>1. Last(PutUp(c, h, g, first)) = IF Hard(win[g].dev) THEN c4 ELSE v
    <2>1. PutUp(c, h, g, first) = IF Hard(win[g].dev) THEN << c1, c2, c3, c4 >> ELSE << v >>
      BY DEF PutUp
    <2> HIDE DEF c1, c2, c3, c4, v
    <2> QED BY <2>1 DEF Last
  <1>2. CASE Hard(win[g].dev)
    <2>1. /\ c1 \in ChnType /\ c1.vdec = c.vdec /\ c1.vo = c.vo /\ c1.src = c.src
          /\ c1.vpss = c.vpss \cup {h} /\ c1.fed = c.fed /\ c1.crop = c.crop
      BY DEF StartVpss, ChnType
    <2> HIDE DEF c1
    <2>2. /\ c2 \in ChnType /\ c2.vdec = c1.vdec /\ c2.vo = c1.vo
          /\ c2.src[p] = Vpss(h) /\ \A q \in Places \ {p} : c2.src[q] = c1.src[q]
          /\ c2.vpss = c1.vpss /\ c2.fed = c1.fed /\ c2.crop = c1.crop
      <3>1. c2 \in ChnType
        BY <2>1, SourceFacts DEF BindVo, ChnType
      <3> QED BY <2>1, <3>1, PlaceEffects
    <2> HIDE DEF c2
    <2>3. /\ c3 \in ChnType /\ c3.vdec = c2.vdec /\ c3.vo = c2.vo
          /\ c3.src[Sd] = (IF first THEN SdFeed ELSE c2.src[Sd])
          /\ \A q \in Places \ {Sd} : c3.src[q] = c2.src[q]
          /\ c3.vpss = c2.vpss /\ c3.fed = c2.fed /\ c3.crop = c2.crop
      <3>1. c3 \in ChnType
        BY <1>0, <2>2, SourceFacts DEF BindVo, ChnType
      <3> QED BY <1>0, <2>2, <3>1, PlaceEffects
    <2> HIDE DEF c3
    <2>4. /\ c4 \in ChnType /\ c4.vdec = c3.vdec /\ c4.vo = c3.vo /\ c4.src = c3.src
          /\ c4.vpss = c3.vpss /\ c4.fed = c3.fed \cup {h} /\ c4.crop = c3.crop
      BY <2>3 DEF FeedVpss, ChnType
    <2> HIDE DEF c4
    <2> QED BY <1>0, <1>1, <1>2, <2>1, <2>2, <2>3, <2>4 DEF Upped
  <1>3. CASE ~Hard(win[g].dev)
    <2>1. v \in ChnType
      BY SourceFacts DEF BindVo, ChnType
    <2>2. /\ v.vdec = c.vdec /\ v.vo = c.vo
          /\ v.src[p] = Vdec(h) /\ \A q \in Places \ {p} : v.src[q] = c.src[q]
          /\ v.vpss = c.vpss /\ v.fed = c.fed /\ v.crop = c.crop
      BY PlaceEffects
    <2> HIDE DEF v
    <2> QED BY <1>0, <1>1, <1>3, <2>1, <2>2 DEF Upped
  <1> QED BY <1>2, <1>3

\* In e the windows a and b have each other's place.
Swapped(e, a, b) ==
    /\ {a, b} \subseteq e.vdec /\ {Place(a), Place(b), Sd} \subseteq e.vo
    /\ IF Hard(win[b].dev)
       THEN /\ e.src[Place(b)] = Vpss(a) /\ a \in e.vpss \cap e.fed /\ e.src[Sd] = SdFeed
       ELSE e.src[Place(b)] = Vdec(a) /\ a \notin e.vpss \cup e.fed \cup e.crop
    /\ IF Hard(win[a].dev)
       THEN e.src[Place(a)] = Vpss(b) /\ b \in e.vpss \cap e.fed
       ELSE e.src[Place(a)] = Vdec(b) /\ b \notin e.vpss \cup e.fed \cup e.crop

\* After a swap each of the two has its source at the other's place.
LEMMA SwappedChannels ==
    ASSUME TypeOK, Pictures, WindowAsMode, NEW a \in Ids, NEW b \in Ids, a # b,
           a \in Whole, b \in Whole, AtItsPlace(a), AtItsPlace(b), NEW c \in ChnType,
           c.vdec = chn.vdec, c.vpss = chn.vpss, c.fed = chn.fed, c.crop = chn.crop
    PROVE  LET d == Last(TakeDown(Last(TakeDown(c, a)), b))
           IN Swapped(Last(PutUp(Last(PutUp(d, a, b, TRUE)), b, a, FALSE)), a, b)
  <1> DEFINE d1 == Last(TakeDown(c, a))
             d2 == Last(TakeDown(d1, b))
             u1 == Last(PutUp(d2, a, b, TRUE))
             u2 == Last(PutUp(u1, b, a, FALSE))
  <1>1. /\ Place(a) = <<GetChanLayer(a), win[a].vo>> /\ Place(b) = <<GetChanLayer(b), win[b].vo>>
        /\ Place(a) \in Places \ {Sd} /\ Place(b) \in Places \ {Sd} /\ Place(a) # Place(b)
    <2>1. Place(a) # Place(b)
      BY PlaceType DEF Whole, Pictures, Numbered
    <2> QED BY <2>1, PlaceType DEF AtItsPlace, Place
  <1>2. /\ Stands(a) /\ (win[a].vpss <=> Hard(win[a].dev))
        /\ Stands(b) /\ (win[b].vpss <=> Hard(win[b].dev))
    BY DEF Pictures, Standing, Whole, WindowAsMode
  <1>3. Sd \in Places
    BY PlaceFacts
  <1>4. \A h \in {a, b} : /\ h \in chn.vdec
                          /\ ~win[h].vpss => h \notin chn.vpss \cup chn.fed \cup chn.crop
    BY <1>2 DEF Stands
  <1> DEFINE A == Place(a)
             B == Place(b)
  <1> HIDE DEF A, B
  <1>5. /\ A \in Places /\ B \in Places /\ A # Sd /\ B # Sd /\ A # B
        /\ A = <<GetChanLayer(a), win[a].vo>> /\ B = <<GetChanLayer(b), win[b].vo>>
    BY <1>1 DEF A, B
  <1>6. /\ d1 \in ChnType /\ d1.vdec = c.vdec /\ d1.vo = c.vo \cup {A, Sd}
        /\ win[a].vpss => a \notin d1.vpss \cup d1.fed \cup d1.crop
        /\ \A g : g # a \/ ~win[a].vpss => /\ g \in d1.vpss <=> g \in c.vpss
                                           /\ g \in d1.fed <=> g \in c.fed
                                           /\ g \in d1.crop <=> g \in c.crop
    BY <1>5, DownEffects
  <1> HIDE DEF d1
  <1>7. /\ d2 \in ChnType /\ d2.vdec = d1.vdec /\ d2.vo = d1.vo \cup {B, Sd}
        /\ win[b].vpss => b \notin d2.vpss \cup d2.fed \cup d2.crop
        /\ \A g : g # b \/ ~win[b].vpss => /\ g \in d2.vpss <=> g \in d1.vpss
                                           /\ g \in d2.fed <=> g \in d1.fed
                                           /\ g \in d2.crop <=> g \in d1.crop
    <2>1. /\ d1 \in ChnType /\ B \in Places /\ B # Sd
          /\ B = <<GetChanLayer(b), win[b].vo>>
      BY <1>5, <1>6
    <2> QED BY <2>1, DownEffects
  <1> HIDE DEF d2
  <1>8. \A h \in {a, b} : h \notin d2.vpss \cup d2.fed \cup d2.crop
    BY <1>4, <1>6, <1>7
  <1>9. /\ u1 \in ChnType /\ u1.vdec = d2.vdec /\ u1.vo = d2.vo
        /\ IF Hard(win[b].dev)
           THEN /\ u1.src[B] = Vpss(a) /\ u1.src[Sd] = SdFeed
                /\ u1.vpss = d2.vpss \cup {a} /\ u1.fed = d2.fed \cup {a}
           ELSE u1.src[B] = Vdec(a) /\ u1.vpss = d2.vpss /\ u1.fed = d2.fed
        /\ u1.crop = d2.crop
    <2>1. /\ d2 \in ChnType /\ B \in Places /\ B # Sd /\ A \in Places \ {B, Sd}
          /\ B = <<GetChanLayer(b), win[b].vo>>
      BY <1>5, <1>7
    <2>2. Upped(u1, d2, a, b, B, TRUE)
      BY <2>1, UpEffects
    <2> HIDE DEF u1
    <2> QED BY <2>1, <2>2 DEF Upped
  <1> HIDE DEF u1
  <1>10. /\ u2 \in ChnType /\ u2.vdec = u1.vdec /\ u2.vo = u1.vo
         /\ u2.src[B] = u1.src[B] /\ u2.src[Sd] = u1.src[Sd]
         /\ IF Hard(win[a].dev)
            THEN /\ u2.src[A] = Vpss(b)
                 /\ u2.vpss = u1.vpss \cup {b} /\ u2.fed = u1.fed \cup {b}
            ELSE u2.src[A] = Vdec(b) /\ u2.vpss = u1.vpss /\ u2.fed = u1.fed
         /\ u2.crop = u1.crop
    <2>1. /\ u1 \in ChnType /\ A \in Places /\ A # Sd /\ B \in Places \ {A, Sd}
          /\ A = <<GetChanLayer(a), win[a].vo>>
      BY <1>5, <1>9
    <2>2. Upped(u2, u1, b, a, A, FALSE)
      BY <2>1, UpEffects
    <2> HIDE DEF u2
    <2> QED BY <2>1, <2>2 DEF Upped
  <1> HIDE DEF u2
  <1>11. /\ {a, b} \subseteq u2.vdec /\ {A, B, Sd} \subseteq u2.vo
    BY <1>4, <1>6, <1>7, <1>9, <1>10
  <1>12. /\ IF Hard(win[b].dev)
            THEN u2.src[B] = Vpss(a) /\ a \in u2.vpss \cap u2.fed /\ u2.src[Sd] = SdFeed
            ELSE u2.src[B] = Vdec(a) /\ a \notin u2.vpss \cup u2.fed \cup u2.crop
         /\ IF Hard(win[a].dev) THEN u2.src[A] = Vpss(b) /\ b \in u2.vpss \cap u2.fed
            ELSE u2.src[A] = Vdec(b) /\ b \notin u2.vpss \cup u2.fed \cup u2.crop
    BY <1>8, <1>9, <1>10
  <1>13. Swapped(u2, a, b)
    BY <1>11, <1>12 DEF A, B, Swapped
  <1> QED BY <1>13 DEF u2, u1, d2, d1

\* A swap exchanges two windows' pictures, or tears them and the analogue
\* output.
LEMMA SwapPictures ==
    ASSUME TypeOK, TypeOK', Pictures, WindowAsMode, NEW a \in Ids, NEW b \in Ids,
           ChanWindowSwap(a, b)
    PROVE  Pictures'
  <1> DEFINE c0    == UnBindVo(chn, Sd, SdFeed)
             c1    == StopVoChn(c0, Sd)
             down1 == TakeDown(c1, a)
             down2 == TakeDown(Last(down1), b)
             up1   == PutUp(Last(down2), a, b, TRUE)
             up2   == PutUp(Last(up1), b, a, FALSE)
             start == << chn, c1 >>
             way   == start \o down1 \o down2 \o up1 \o up2
             A == Place(a)
             B == Place(b)
             H == {a, b}
             P == {A, B, Sd}
             L(c) == Local(c, H, P)
             S == {c \in ChnType : Local(c, H, P)}
  <1>1. /\ a \in Whole /\ b \in Whole /\ a # b /\ ~win[a].busy /\ ~win[b].busy
        /\ AtItsPlace(a) /\ AtItsPlace(b) /\ UNCHANGED <<setup, table>>
    BY Zenon DEF ChanWindowSwap, CheckEnableOp, board
  <1>2. \/ /\ chn' = Last(way)
           /\ win' = Exchanged(a, b, Hard(win[b].dev), Hard(win[a].dev))
           /\ torn' = torn \cup {h \in {a, b} : ~win[h].show}
        \/ /\ \E k \in 1 .. Len(way) - 1 :
                /\ chn' = way[k]
                /\ win' = [win EXCEPT ![a].vpss = @ /\ a \in way[k].vpss,
                                      ![b].vpss = @ /\ b \in way[k].vpss]
           /\ torn' = torn \cup {a, b, Analogue}
    BY Zenon DEF ChanWindowSwap
  <1>3. /\ A = <<GetChanLayer(a), win[a].vo>> /\ B = <<GetChanLayer(b), win[b].vo>>
        /\ A \in Places \ {Sd} /\ B \in Places \ {Sd} /\ A # B
    <2>1. A # B
      BY <1>1, PlaceType DEF Whole, Pictures, Numbered
    <2> QED BY <1>1, <2>1, PlaceType DEF AtItsPlace, Place
  <1>4. H \in SUBSET Ids /\ P \in SUBSET Places /\ A \in P /\ B \in P /\ Sd \in P
    BY <1>3, PlaceFacts
  <1>5. a \in H /\ b \in H /\ \A h \in H : h = a \/ h = b
    OBVIOUS
  <1>6. \A q \in P \ {Sd} : q = A \/ q = B
    OBVIOUS
  <1> HIDE DEF H, P, way, A, B
  <1>7. L(chn) /\ L(c1)
    <2>1. L(chn)
      BY <1>4, LocalSelf
    <2>2. L(c0)
      BY <1>4, <2>1, PlaceSteps
    <2> HIDE DEF c0
    <2> QED BY <1>4, <2>1, <2>2, PlaceSteps
  <1>8. /\ way \in Seq(S) /\ Last(way) = Last(up2) /\ L(Last(way))
    <2>0. start \in Seq(S)
      BY <1>7, LocalType
    <2> HIDE DEF c1, start
    <2>1. down1 \in Seq(S) /\ down1 # <<>> /\ L(Last(down1))
      BY <1>3, <1>4, <1>5, <1>7, DownLocal
    <2> HIDE DEF down1
    <2>2. down2 \in Seq(S) /\ down2 # <<>> /\ L(Last(down2))
      BY <1>3, <1>4, <1>5, <2>1, DownLocal
    <2> HIDE DEF down2
    <2>3. up1 \in Seq(S) /\ up1 # <<>> /\ L(Last(up1))
      BY <1>3, <1>4, <1>5, <2>2, UpLocal
    <2> HIDE DEF up1
    <2>4. up2 \in Seq(S) /\ up2 # <<>> /\ L(Last(up2))
      BY <1>3, <1>4, <1>5, <2>3, UpLocal
    <2> HIDE DEF up2, S
    <2>5. start \o down1 \in Seq(S)
      BY <2>0, <2>1, LastOf
    <2>6. start \o down1 \o down2 \in Seq(S)
      BY <2>2, <2>5, LastOf
    <2>7. start \o down1 \o down2 \o up1 \in Seq(S)
      BY <2>3, <2>6, LastOf
    <2>8. way \in Seq(S) /\ Last(way) = Last(up2)
      BY <2>4, <2>7, LastOf DEF way
    <2> QED BY <2>4, <2>8
  <1>9. table \subseteq Ids /\ \A h \in table \ H : Place(h) \notin P
    <2>1. table \subseteq Ids
      BY DEF TypeOK
    <2>2. \A h \in table \ H : win[h].vo # win[a].vo /\ win[h].vo # win[b].vo
      BY <1>1, <1>5 DEF Pictures, Numbered, Whole
    <2> QED BY <1>6, <2>1, <2>2, PlaceType DEF A, B
  <1>10. a \in table /\ b \in table /\ a \notin torn /\ b \notin torn
    BY <1>1 DEF Whole
  <1>11. a \notin chn.extra /\ b \notin chn.extra
    BY <1>1, <1>10 DEF Pictures, Extras
  <1>12. CASE /\ chn' = Last(way)
              /\ win' = Exchanged(a, b, Hard(win[b].dev), Hard(win[a].dev))
              /\ torn' = torn \cup {h \in {a, b} : ~win[h].show}
    <2>1. /\ \A g \in Ids \ H : win'[g] = win[g]
          /\ win'[a] = [win[b] EXCEPT !.show = win[a].show, !.vpss = Hard(win[b].dev)]
          /\ win'[b] = [win[a] EXCEPT !.show = win[b].show, !.vpss = Hard(win[a].dev)]
      BY <1>1, <1>5, <1>12 DEF Exchanged, TypeOK
    <2>2. /\ win'[a].dev = win[b].dev /\ win'[a].base = win[b].base /\ win'[a].vo = win[b].vo
          /\ win'[a].show = win[a].show /\ (win'[a].vpss <=> Hard(win[b].dev))
          /\ win'[b].dev = win[a].dev /\ win'[b].base = win[a].base /\ win'[b].vo = win[a].vo
          /\ win'[b].show = win[b].show /\ (win'[b].vpss <=> Hard(win[a].dev))
      BY <2>1 DEF TypeOK, WindowType
    <2>3. Place(a)' = B /\ Place(b)' = A
      BY <1>1, <2>2 DEF A, B, Place, PlaceLayer, ChanLayer, Hard
    <2>4. /\ Source(a)' = (IF Hard(win[b].dev) THEN Vpss(a) ELSE Vdec(a))
          /\ Source(b)' = (IF Hard(win[a].dev) THEN Vpss(b) ELSE Vdec(b))
      BY <2>2 DEF Source
    <2>5. /\ torn \subseteq torn' /\ torn' \subseteq torn \cup H
          /\ a \notin torn' => win[a].show
          /\ b \notin torn' => win[b].show
      BY <1>5, <1>12
    <2>6. /\ {a, b} \subseteq chn'.vdec /\ {A, B, Sd} \subseteq chn'.vo
          /\ IF Hard(win[b].dev)
             THEN chn'.src[B] = Vpss(a) /\ a \in chn'.vpss \cap chn'.fed /\ chn'.src[Sd] = SdFeed
             ELSE chn'.src[B] = Vdec(a) /\ a \notin chn'.vpss \cup chn'.fed \cup chn'.crop
          /\ IF Hard(win[a].dev) THEN chn'.src[A] = Vpss(b) /\ b \in chn'.vpss \cap chn'.fed
             ELSE chn'.src[A] = Vdec(b) /\ b \notin chn'.vpss \cup chn'.fed \cup chn'.crop
      <3>1. /\ c1 \in ChnType /\ c1.vdec = chn.vdec /\ c1.vpss = chn.vpss
            /\ c1.fed = chn.fed /\ c1.crop = chn.crop
        <4>1. chn \in ChnType /\ Sd \in Places
          BY PlaceFacts DEF Pictures, ChnOK
        <4>2. /\ c0 \in ChnType /\ c0.vdec = chn.vdec /\ c0.vpss = chn.vpss
              /\ c0.fed = chn.fed /\ c0.crop = chn.crop
          <5>1. c0 \in ChnType
            BY <4>1, SourceFacts DEF UnBindVo, ChnType
          <5> QED BY <4>1, <5>1, PlaceEffects
        <4> HIDE DEF c0
        <4>3. c1 \in ChnType
          BY <1>7, LocalType
        <4> QED BY <4>1, <4>2, <4>3, PlaceEffects
      <3> HIDE DEF c1
      <3>2. chn' = Last(up2)
        BY <1>8, <1>12
      <3>3. Swapped(Last(up2), a, b)
        BY <1>1, <3>1, SwappedChannels
      <3> HIDE DEF up2
      <3>4. Swapped(chn', a, b)
        BY <3>2, <3>3
      <3> QED BY <3>4 DEF Swapped, A, B
    <2> HIDE DEF up2, up1, down2, down1
    <2>7. Numbered'
      <3>1. win[a].vo \in table /\ win[b].vo \in table
        BY <1>1 DEF Pictures, Numbered
      <3>2. \A h \in Whole' : h \in Whole
        BY <1>1, <2>5 DEF Whole
      <3>3. \A g, h \in table : win'[g].vo = win'[h].vo => g = h
        <4> DEFINE Other(g) == IF g = a THEN b ELSE IF g = b THEN a ELSE g
        <4>1. \A g \in table : Other(g) \in table /\ win'[g].vo = win[Other(g)].vo
          BY <1>5, <1>9, <1>10, <2>1, <2>2
        <4>2. \A g, h \in table : Other(g) = Other(h) => g = h
          BY <1>1
        <4> HIDE DEF Other
        <4> QED BY <4>1, <4>2 DEF Pictures, Numbered
      <3>4. \A h \in Whole : win'[h].vo \in table
        BY <1>5, <1>9, <2>1, <2>2, <3>1 DEF Pictures, Numbered, Whole
      <3> QED BY <1>1, <3>2, <3>3, <3>4 DEF Numbered
    <2>8. Second'
      <3>1. ASSUME AllHard' PROVE Hard(win[a].dev) /\ Hard(win[b].dev)
        <4>1. Stands(a) /\ Stands(b)
          BY <1>1 DEF Pictures, Standing
        <4>2. win[a].dev \in 0 .. setup.num - 1 /\ win[b].dev \in 0 .. setup.num - 1
          BY <4>1 DEF Stands, TypeOK, WindowType, SetupType, Devs
        <4>3. AllHard
          BY <1>1, <3>1 DEF AllHard, Hard
        <4> QED BY <4>2, <4>3 DEF AllHard
      <3> QED BY <2>6, <3>1 DEF Second
    <2>9. \A h \in H \ torn', q \in P : Owned(h, q)' => h \in table' /\ q = Place(h)'
      <3>1. \A h \in H, q \in P : q = Sd => ~Owned(h, q)'
        <4>1. chn'.src[Sd] \in {NoSource, SdFeed}
          BY <1>8, <1>12 DEF Local
        <4> QED BY <1>4, <4>1, SourceFacts DEF Owned
      <3>2. /\ \A q \in P : q = B => ~Owned(b, q)'
            /\ \A q \in P : q = A => ~Owned(a, q)'
        <4>1. chn'.src[B] \in {Vpss(a), Vdec(a)} /\ chn'.src[A] \in {Vpss(b), Vdec(b)}
          BY <2>6
        <4> QED BY <1>1, <4>1, SourceFacts DEF Owned
      <3> QED BY <1>1, <1>5, <1>6, <1>10, <2>3, <3>1, <3>2
    <2>10. \A h \in H \cap table' : h \notin torn' => Stands(h)'
      <3>1. win[a].dev < setup.num /\ win[b].dev < setup.num
        BY <1>1 DEF Pictures, Standing, Stands
      <3>2. a \notin torn' => Stands(a)'
        BY <1>1, <2>2, <2>3, <2>4, <2>5, <2>6, <3>1 DEF Stands
      <3>3. b \notin torn' => Stands(b)'
        BY <1>1, <2>2, <2>3, <2>4, <2>5, <2>6, <3>1 DEF Stands
      <3> QED BY <1>5, <3>2, <3>3
    <2>11. \A q \in P \ {Sd} : \E g \in table' : q = Place(g)'
      BY <1>1, <1>6, <1>10, <2>3
    <2>12. \A q \in P \ {Sd} : \E g \in H \cap table : q = Place(g)
      BY <1>5, <1>6, <1>10 DEF A, B
    <2>13. /\ Local(chn', H, P)
           /\ \A g \in Ids \ H : /\ g \in table' <=> g \in table
                                 /\ g \in torn' <=> g \in torn
      BY <1>1, <1>8, <1>12, <2>5
    <2>14. /\ \A h \in H \cap table : Place(h) \in P
           /\ \A h \in H \cap table' : Place(h)' \in P
      BY <1>4, <1>5, <2>3 DEF A, B
    <2>15. H \cap chn.extra = {} /\ H \ (table' \cup torn') = {}
      BY <1>1, <1>5, <1>10, <1>11
    <2> QED
      BY Frame, <1>1, <1>4, <1>9, <2>1, <2>5, <2>7, <2>8, <2>9, <2>10, <2>11, <2>12, <2>13, <2>14, <2>15
  <1>13. CASE /\ \E k \in 1 .. Len(way) - 1 :
                   /\ chn' = way[k]
                   /\ win' = [win EXCEPT ![a].vpss = @ /\ a \in way[k].vpss,
                                         ![b].vpss = @ /\ b \in way[k].vpss]
              /\ torn' = torn \cup {a, b, Analogue}
    <2>1. PICK k \in 1 .. Len(way) - 1 :
             /\ chn' = way[k]
             /\ win' = [win EXCEPT ![a].vpss = @ /\ a \in way[k].vpss,
                                   ![b].vpss = @ /\ b \in way[k].vpss]
      BY <1>13
    <2>2. Local(chn', H, P)
      <3>1. way[k] \in S
        BY <1>8, <2>1
      <3> QED BY <2>1, <3>1
    <2>3. /\ \A g \in Ids \ H : win'[g] = win[g]
          /\ \A g \in Ids : /\ win'[g].dev = win[g].dev /\ win'[g].base = win[g].base
                            /\ win'[g].vo = win[g].vo
      <3> DEFINE x == win[a].vpss /\ a \in way[k].vpss
                 y == win[b].vpss /\ b \in way[k].vpss
      <3>1. win' = [win EXCEPT ![a].vpss = x, ![b].vpss = y]
        BY <1>1, <2>1 DEF TypeOK
      <3> HIDE DEF x, y
      <3> QED BY <1>5, <3>1 DEF TypeOK, WindowType
    <2>4. \A g \in Ids : Place(g)' = Place(g)
      BY <1>1, <2>3 DEF Place, PlaceLayer, ChanLayer, Hard
    <2>5. a \in torn' /\ b \in torn' /\ Analogue \in torn' /\ torn \subseteq torn'
      BY <1>13
    <2>6. Analogue \notin Ids
      BY DEF Analogue, Ids
    <2>7. \A g \in Ids \ H : /\ g \in table' <=> g \in table
                             /\ g \in torn' <=> g \in torn
      BY <1>1, <1>5, <1>13, <2>6
    <2>8. Numbered' /\ Second'
      BY <1>1, <1>9, <2>3, <2>5 DEF Pictures, Numbered, Second, Whole
    <2>9. H \subseteq torn' /\ H \cap chn.extra = {}
      BY <1>5, <1>11, <2>5
    <2>10. /\ \A h \in H \cap table : Place(h) \in P
           /\ \A h \in H \cap table' : Place(h)' \in P
           /\ \A q \in P \ {Sd} : \E g \in H \cap table : q = Place(g)
      BY <1>4, <1>5, <1>6, <1>9, <1>10, <2>4 DEF A, B
    <2>11. \A q \in P \ {Sd} : \E g \in table' : q = Place(g)'
      BY <1>1, <1>9, <2>4, <2>10
    <2> QED
      BY Frame, <1>1, <1>4, <1>9, <2>2, <2>3, <2>5, <2>7, <2>8, <2>9, <2>10, <2>11
  <1> QED BY <1>2, <1>12, <1>13

\* Every step keeps the pictures.
LEMMA PicturesStep ==
    ASSUME TypeOK, TypeOK', WindowAsMode, Outlived, Outlived', Pictures, [Next]_vars
    PROVE  Pictures'
  <1>1. CASE UNCHANGED vars
    <2>1. UNCHANGED <<setup, chn, table, win, torn>>
      BY <1>1 DEF vars, board, windows
    <2> QED BY <2>1 DEF Pictures, ChnOK, Numbered, Bound, Owned, Standing, Stands, OnlyWindows,
               Unused, Extras, Second, AllHard, Whole, Place, PlaceLayer, ChanLayer, Hard, Source
  <1>2. CASE \/ \E s \in Setups : InitSystem(s) \/ InitSystemFails(s) \/ InitSystemNoFb(s)
             \/ InitSystemNoPools \/ DestroySystem
    BY <1>2, SystemPictures
  <1>3. CASE \E d \in Devs : (\E m \in Modes : SetDevCombineMode(d, m)) \/ PipLayerBindToDev(d)
    <2>1. table = {} /\ UNCHANGED <<table, chn, win>> /\ torn' = torn
      BY <1>3 DEF SetDevCombineMode, PipLayerBindToDev, HaveChanWindow, AllClosed, windows
    <2> QED BY <2>1, Closed
  <1>4. CASE \E d \in Devs, base \in BOOLEAN : CreateChanWindow(d, base)
    BY <1>4, CreatePictures
  <1>5. CASE \E h \in Ids : Window(h)
    BY <1>5, DestroyPictures, ShowPictures, ZoomPictures, ExtraPictures DEF Window
  <1>6. CASE \E a, b \in Ids : ChanWindowSwap(a, b)
    BY <1>6, SwapPictures
  <1> QED BY <1>1, <1>2, <1>3, <1>4, <1>5, <1>6 DEF Next, System

\* The pictures are the windows' in every reachable state.
LEMMA PicturesAlways == Spec => [](TypeOK /\ WindowAsMode /\ Pictures)
  <1>1. Init => WindowAsMode /\ Outlived /\ Pictures
    <2> SUFFICES ASSUME Init PROVE WindowAsMode /\ Outlived /\ Pictures
      OBVIOUS
    <2>1. /\ table = {} /\ torn = {} /\ chn = NoChannels
      BY DEF Init
    <2>2. /\ NoChannels.vo = {} /\ NoChannels.zoom = {} /\ NoChannels.vpss = {} /\ NoChannels.vdec = {}
          /\ NoChannels.fed = {} /\ NoChannels.crop = {} /\ NoChannels.extra = {}
          /\ \A q \in Places : NoChannels.src[q] = NoSource
      BY DEF NoChannels
    <2>3. ChnOK
      BY <2>1, <2>2, NoChannelsType, PlaceFacts DEF ChnOK
    <2>4. Bound
      BY <2>1, <2>2, SourceFacts DEF Bound, Owned
    <2>5. Numbered /\ Standing /\ OnlyWindows /\ Unused /\ Extras /\ Second
      BY <2>1, <2>2 DEF Numbered, Standing, OnlyWindows, Unused, Extras, Second, Whole
    <2> QED BY <2>1, <2>3, <2>4, <2>5 DEF Pictures, WindowAsMode, Outlived
  <1>2. TypeOK /\ TypeOK' /\ WindowAsMode /\ Outlived /\ Pictures /\ [Next]_vars
        => (WindowAsMode /\ Outlived /\ Pictures)'
    BY WindowsStep, PicturesStep
  <1> QED BY <1>1, <1>2, TypeCorrect, PTL DEF Spec

\* A window that is shown has its picture at its place and nowhere else, and
\* window 0 is on the analogue output as long as no swap has failed.
THEOREM ShownAreDisplayed == Spec => []ShownIsDisplayed
  <1>1. TypeOK /\ WindowAsMode /\ Pictures => ShownIsDisplayed
    <2> SUFFICES ASSUME TypeOK, WindowAsMode, Pictures, NEW h \in Whole, win[h].show
                 PROVE  /\ ShownAt(h, Place(h))
                        /\ (h = 0 /\ Analogue \notin torn /\ AllHard)
                             => Sd \in chn.vo /\ chn.src[Sd] = SdFeed
      BY DEF ShownIsDisplayed, Whole, AllHard
    <2>1. Stands(h) /\ h \in Ids /\ h \notin torn
      BY DEF Pictures, Standing, Whole, TypeOK
    <2>2. chn.vo \subseteq Places
      BY DEF Pictures, ChnOK, ChnType
    <2>3. ASSUME NEW q \in chn.vo \ {Sd}, chn.src[q] = Source(h) PROVE q = Place(h)
      <3>1. q \in Places /\ Owned(h, q)
        BY <2>2, <2>3 DEF Owned, Source
      <3> QED BY <2>1, <3>1 DEF Pictures, Bound
    <2>4. ShownAt(h, Place(h))
      BY <2>1, <2>3 DEF ShownAt, Stands
    <2>5. (h = 0 /\ Analogue \notin torn /\ AllHard) => Sd \in chn.vo /\ chn.src[Sd] = SdFeed
      BY DEF Pictures, Second
    <2> QED BY <2>4, <2>5
  <1> QED BY <1>1, PicturesAlways, PTL

\* A number without a window, for which no call has failed, has nothing
\* running, cropped or magnified, no encoder and no overlay, and its group is
\* bound to no place of another number.
THEOREM NothingIsLeftRunning == Spec => []NothingLeftRunning
  <1>1. TypeOK /\ Pictures => NothingLeftRunning
    <2> SUFFICES ASSUME TypeOK, Pictures,
                        NEW h \in Ids \ (table \cup torn \cup {win[g].vo : g \in table \cap torn})
                 PROVE  /\ h \notin chn.vpss \cup chn.vdec \cup chn.fed \cup chn.extra \cup chn.crop
                        /\ \A l \in Layers \ {VSD0} : <<l, h>> \notin chn.vo \cup chn.zoom
                        /\ \A q \in Places : chn.src[q] \in {Vpss(h), Vdec(h)} => q[2] = h
      BY DEF NothingLeftRunning
    <2>1. h \notin chn.vpss \cup chn.vdec \cup chn.fed \cup chn.crop
      BY DEF Pictures, Unused
    <2>2. h \notin chn.extra
      BY DEF Pictures, Extras
    <2>3. ASSUME NEW l \in Layers \ {VSD0}, <<l, h>> \in chn.vo \cup chn.zoom PROVE FALSE
      <3>1. <<l, h>> # Sd
        BY DEF Sd
      <3>2. PICK g \in table : <<l, h>> = Place(g)
        BY <2>3, <3>1 DEF Pictures, OnlyWindows
      <3>3. g \in Ids /\ win[g].vo = h
        BY <3>2, PlaceType DEF TypeOK
      <3>4. g \in Whole => h \in table
        BY <3>3 DEF Pictures, Numbered
      <3> QED BY <3>3, <3>4 DEF Whole
    <2>4. \A q \in Places : chn.src[q] \in {Vpss(h), Vdec(h)} => q[2] = h
      BY DEF Pictures, Bound, Owned
    <2> QED BY <2>1, <2>2, <2>3, <2>4
  <1> QED BY <1>1, PicturesAlways, PTL
=============================================================================
