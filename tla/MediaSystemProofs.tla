-------------------------- MODULE MediaSystemProofs --------------------------
(***************************************************************************)
(* The safety properties of MediaSystem, proved for any number of streams  *)
(* and channels; three of them for every set of failures that leaves       *)
(* nothing behind that contradicts them, the others whatever fails.        *)
(***************************************************************************)
EXTENDS MediaSystem, WellFoundedInduction, TLAPS

\* where windows are being destroyed, or have been
Ends == {"end_2", "end_1", "end", "crashed"}

\* where overlay and encoder are taken down
TakingDown == {"osd_off", "enc_off", "join", "stop", "down"}

\* The supervisor's place, and the life of the others within its own.
PlaceInv ==
    /\ pc = "start" => ~isInit /\ table = {}
    /\ pc \notin {"start", "end_1", "end", "crashed"} => isInit
    /\ pc \in TakingDown \cup {"starting", "osd_on"} => i \in Streams /\ handle[i] # Null
    /\ pc \in {"start", "init"} => /\ osdPc = "none" /\ keyPc = "none"
                                  /\ \A s \in Streams : ~open[s]
    /\ pc \in Ends => osdPc \in {"none", "gone"}
    /\ osdPc = "draw" => handle[osdIdx] # Null
    /\ keyPc \in {"restore", "hide"} => show_chan < StreamNum

\* Handles name channels, each stream its own, until windows are destroyed;
\* frames are on connections, if a close waits for them, and end_4 closes one
\* connection after the other.
HandleInv ==
    /\ \A s \in Streams :
          /\ status[s] # "UNINIT" \/ open[s] => handle[s] # Null
          /\ feed[s] => handle[s] # Null
          /\ ~ForcedClose /\ feed[s] => open[s]
          /\ pc \notin Ends /\ handle[s] # Null => handle[s] \in table
          /\ pc \in Ends => ~open[s]
          /\ (pc = "end_4" \/ (pc \in TakingDown /\ open[i])) /\ s < i => ~open[s]
    /\ \A s, r \in Streams : handle[s] = handle[r] /\ handle[s] # Null => s = r

\* A stream that is linked is connected, until end_4 closes all.
LinkInv ==
    /\ pc \in {"starting", "osd_on"} => status[i] = "GETVD"
    /\ pc \in {"start", "init", "loop", "starting", "osd_on"}
          \/ (pc \in TakingDown /\ ~open[i]) =>
       \A s \in Streams : status[s] \in {"LINKED", "GETVD", "WORDWELL"} => open[s]

\* A worker belongs to the encoder of a stream that is connected or is being
\* taken down; it runs under its flag, or is being joined.
WorkerInv ==
    /\ \A h \in Ids : worker[h] # "none" =>
          /\ h \in table /\ chan[h].venc /\ On("venc", h)
          /\ chan[h].flag = "1" \/ (pc = "join" /\ handle[i] = h)
          /\ \E s \in Streams :
                /\ handle[s] = h
                /\ open[s] \/ (pc \in {"osd_off", "enc_off", "join"} /\ i = s)
    /\ pc \in {"stop", "down"} => worker[handle[i]] = "none"
    /\ \A s \in Streams :
             (/\ handle[s] # Null /\ worker[handle[s]] # "none"
              /\ \/ pc \in {"loop", "starting", "osd_on"}
                 \/ pc \in TakingDown /\ ~open[i])
             => encode_create[s] \/ (pc # "loop" /\ s = i)

\* No encoder and no overlay is left without a record of it.
KeepsRecords == MayFail \cap {"RecvPic", "AttachRgn"} = {}

\* A channel in the table has its pipe and its decoder; encoders and overlays
\* that run are those of channels in the table, which know of them, unless a
\* creation may leave one without a record.
PipeInv ==
    /\ ~isInit => hw = {}
    /\ isInit => \A h \in table : On("vpss", h) /\ On("vdec", h)
    /\ KeepsRecords =>
          \A h \in Ids : /\ On("venc", h) => chan[h].venc /\ h \in table
                         /\ On("rgn", h) => chan[h].osd /\ h \in table

IInv == TypeOK /\ PlaceInv /\ HandleInv /\ LinkInv /\ WorkerInv /\ PipeInv

-----------------------------------------------------------------------------
(* What the calls do.                                                      *)

\* Of the numbers that are free there is a smallest.
LEMMA SmallestFree ==
    ASSUME Free # {} PROVE Min(Free) \in Free
  <1>1. Free \subseteq Nat
    BY MediaAssumption DEF Free, Ids
  <1>2. PICK x \in Free : \A y \in Free : ~ <<y, x>> \in OpToRel(<, Nat)
    BY <1>1, NatLessThanWellFounded, WFMin
  <1>3. \A a \in Nat, b \in Nat : b < a => <<b, a>> \in OpToRel(<, Nat)
    BY DEF OpToRel
  <1>4. \A y \in Free : x \in Nat /\ y \in Nat /\ ~ (y < x)
    BY <1>1, <1>2, <1>3
  <1>5. \A y \in Free : x =< y
    BY <1>4
  <1> QED
    BY <1>5 DEF Min

\* The parts of a number are hardware of that number.
LEMMA Parts ==
    ASSUME NEW h \in Ids
    PROVE  /\ Window(h) \subseteq Kinds \X {h}
           /\ Pipe(h) \subseteq Window(h) /\ Place(h) \subseteq Window(h)
           /\ Sd(h) \subseteq Window(h) /\ Decoder(h) \subseteq Window(h)
           /\ Encoder(h) \subseteq Kinds \X {h} /\ Overlay(h) \subseteq Kinds \X {h}
           /\ Kinds \X {h} \subseteq Kinds \X Ids
           /\ <<"vpss", h>> \in Window(h) /\ <<"vdec", h>> \in Window(h)
           /\ <<"venc", h>> \notin Window(h) /\ <<"rgn", h>> \notin Window(h)
  BY DEF Window, Pipe, Place, Sd, Decoder, Encoder, Overlay, Kinds

\* A call that shows, hides or moves windows and leaves everything else alone.
OnlyScreen ==
    /\ UNCHANGED <<isInit, table, alloc>>
    /\ chan' \in [Ids -> Channels]
    /\ \A g \in Ids : /\ chan'[g].vdec = chan[g].vdec /\ chan'[g].venc = chan[g].venc
                      /\ chan'[g].osd = chan[g].osd /\ chan'[g].flag = chan[g].flag
    /\ hw' \subseteq Kinds \X Ids /\ bound' \subseteq Kinds \X Ids
    /\ \A g \in Ids, kind \in Kinds \ {"vo"} :
          /\ <<kind, g>> \in hw' <=> <<kind, g>> \in hw
          /\ <<kind, g>> \in bound' <=> <<kind, g>> \in bound

\* MSA_ShowChanWindow and MAS_ChanWindowSet are such calls.
LEMMA ScreenCalls ==
    ASSUME TypeOK, NEW h \in Ids, NEW w \in {"own", "full"},
           Show(h) \/ Hide(h) \/ WindowSet(h, w) \/ Refused
    PROVE  OnlyScreen
  <1> USE DEF TypeOK
  <1>1. /\ \A x \in BOOLEAN : [chan EXCEPT ![h].show = x] \in [Ids -> Channels]
        /\ [chan EXCEPT ![h].win = w] \in [Ids -> Channels]
    BY DEF Channels
  <1>2. Place(h) \subseteq Kinds \X Ids
    BY Parts
  <1>3. ASSUME NEW x \in BOOLEAN, NEW g \in Ids
        PROVE  LET c == [chan EXCEPT ![h].show = x] IN
               /\ c[g].vdec = chan[g].vdec /\ c[g].venc = chan[g].venc
               /\ c[g].osd = chan[g].osd /\ c[g].flag = chan[g].flag
    BY DEF Channels
  <1>4. ASSUME NEW g \in Ids
        PROVE  LET c == [chan EXCEPT ![h].win = w] IN
               /\ c[g].vdec = chan[g].vdec /\ c[g].venc = chan[g].venc
               /\ c[g].osd = chan[g].osd /\ c[g].flag = chan[g].flag
    BY DEF Channels
  <1>5. /\ \E x \in BOOLEAN : chan' \in {chan, [chan EXCEPT ![h].show = x],
                                         [chan EXCEPT ![h].win = w]}
        /\ UNCHANGED <<isInit, table, alloc>>
    BY DEF Show, Hide, WindowSet, Refused, channels
  <1>6. /\ hw' \in {hw, hw \cup Place(h), hw \ Place(h)}
        /\ bound' \in {bound, bound \cup Place(h), bound \ Place(h)}
    BY DEF Show, Hide, WindowSet, Refused, device, Bind, UnBind
  <1>7. \A g \in Ids, kind \in Kinds \ {"vo"} : <<kind, g>> \notin Place(h)
    BY DEF Place
  <1>8. chan' \in [Ids -> Channels]
    BY <1>1, <1>5
  <1>9. \A g \in Ids : /\ chan'[g].vdec = chan[g].vdec /\ chan'[g].venc = chan[g].venc
                       /\ chan'[g].osd = chan[g].osd /\ chan'[g].flag = chan[g].flag
    <2>1. CASE chan' = chan
      BY <2>1
    <2>2. ASSUME NEW x \in BOOLEAN, chan' = [chan EXCEPT ![h].show = x]
          PROVE  \A g \in Ids : /\ chan'[g].vdec = chan[g].vdec
                                /\ chan'[g].venc = chan[g].venc
                                /\ chan'[g].osd = chan[g].osd
                                /\ chan'[g].flag = chan[g].flag
      BY <1>3, <2>2
    <2>3. CASE chan' = [chan EXCEPT ![h].win = w]
      BY <1>4, <2>3
    <2> QED
      BY <1>5, <2>1, <2>2, <2>3
  <1>10. hw' \subseteq Kinds \X Ids /\ bound' \subseteq Kinds \X Ids
    BY <1>2, <1>6
  <1>11. \A g \in Ids, kind \in Kinds \ {"vo"} :
            /\ <<kind, g>> \in hw' <=> <<kind, g>> \in hw
            /\ <<kind, g>> \in bound' <=> <<kind, g>> \in bound
    BY <1>6, <1>7
  <1> QED
    BY <1>5, <1>8, <1>9, <1>10, <1>11 DEF OnlyScreen

\* A call of the key thread is one of them, and it crashes the process only once
\* windows have been destroyed.
LEMMA KeyCallEffect ==
    ASSUME IInv, NEW s \in Streams, NEW w \in {"own", "full"},
           \/ KeyCall(s, Show(handle[s])) \/ KeyCall(s, Hide(handle[s]))
           \/ KeyCall(s, WindowSet(handle[s], w))
    PROVE  /\ OnlyScreen
           /\ ~isInit => hw' = hw
           /\ pc' = pc \/ (pc' = "crashed" /\ pc \in Ends)
  <1> USE DEF IInv, TypeOK
  <1>1. Refused => OnlyScreen
    BY DEF Refused, OnlyScreen, channels, device
  <1>2. CASE ~isInit \/ handle[s] = Null
    BY <1>1, <1>2 DEF KeyCall, Refused, device
  <1>3. CASE isInit /\ handle[s] # Null /\ handle[s] \notin alloc
    BY <1>1, <1>3 DEF KeyCall, HandleInv
  <1>4. CASE isInit /\ handle[s] # Null /\ handle[s] \in alloc
    <2>1. handle[s] \in Ids
      BY <1>4
    <2> QED
      BY <1>4, <2>1, ScreenCalls DEF KeyCall
  <1> QED
    BY <1>2, <1>3, <1>4

\* What a step of the key thread leaves alone.
LEMMA KeyEffect ==
    ASSUME IInv, KeyThread
    PROVE  /\ OnlyScreen
           /\ ~isInit => hw' = hw
           /\ pc' = pc \/ (pc' = "crashed" /\ pc \in Ends)
           /\ UNCHANGED <<OpLock, worker, streams, run, i, feed, drawer>>
           /\ keyPc' \in {"none", "idle", "restore", "show", "hide"}
           /\ keyPc = "none" <=> keyPc' = "none"
           /\ key' \in 0 .. StreamNum /\ k' \in 0 .. StreamNum
           /\ show_chan' \in 0 .. StreamNum
           /\ keyPc' \in {"restore", "hide"} => show_chan' < StreamNum
  <1> USE MediaAssumption DEF IInv, TypeOK, notKeys, streams, drawer
  <1>1. ASSUME UNCHANGED channels, UNCHANGED device PROVE OnlyScreen
    BY <1>1 DEF OnlyScreen, channels, device
  <1>2. \A s \in 0 .. StreamNum : s < StreamNum => s \in Streams
    BY DEF Streams
  <1>3. ASSUME NEW c \in Keys, KeyPress(c) PROVE UNCHANGED <<channels, device, notKeys, pc>>
    BY <1>3 DEF KeyPress
  <1>4. ASSUME NEW c \in Keys, KeyPress(c)
        PROVE  /\ keyPc = "idle" /\ keyPc' \in {"restore", "show"}
               /\ keyPc' = "restore" => show_chan < StreamNum
               /\ key' \in 0 .. StreamNum /\ k' = 0 /\ show_chan' = show_chan
    BY <1>4 DEF KeyPress
  <1>5. CASE \E c \in Keys : KeyPress(c)
    BY <1>1, <1>3, <1>4, <1>5 DEF device
  <1>6. CASE KeyRestore
    BY <1>2, <1>6, KeyCallEffect DEF KeyRestore, PlaceInv
  <1>7. CASE KeyShow
    BY <1>2, <1>7, KeyCallEffect DEF KeyShow
  <1>8. CASE KeyShown
    BY <1>1, <1>8 DEF KeyShown, device
  <1>9. CASE KeyHide
    <2>1. CASE k = show_chan
      BY <1>1, <1>9, <2>1 DEF KeyHide, Refused, device, PlaceInv
    <2>2. CASE k # show_chan
      BY <1>2, <1>9, <2>2, KeyCallEffect DEF KeyHide, PlaceInv
    <2> QED
      BY <2>1, <2>2
  <1>10. CASE KeyFull
    BY <1>2, <1>10, KeyCallEffect DEF KeyFull, PlaceInv
  <1>11. CASE KeyAfterEnd
    BY <1>1, <1>11 DEF KeyAfterEnd, keys, device, Ends
  <1> QED
    BY <1>5, <1>6, <1>7, <1>8, <1>9, <1>10, <1>11 DEF KeyThread

\* A frame that is delivered crashes the process only once windows have been
\* destroyed.
LEMMA SendEffect ==
    ASSUME IInv, NEW s \in Streams, SendDecData(s)
    PROVE  /\ pc' = pc \/ (pc' = "crashed" /\ pc \in Ends)
           /\ feed' = [feed EXCEPT ![s] = FALSE]
           /\ UNCHANGED <<isInit, table, alloc, chan, hw, bound, OpLock, worker, streams,
                          run, i, drawer, keys>>
  BY DEF SendDecData, Set, IInv, TypeOK, HandleInv, others, channels, device

\* A window that is created gets a number that was free.
LEMMA CreateEffect ==
    ASSUME NEW s \in Streams, Created(s)
    PROVE  \E h \in Ids \ table :
              /\ table' = table \cup {h} /\ alloc' = alloc \cup {h}
              /\ chan' = [chan EXCEPT ![h] = NewChannel]
              /\ handle' = [handle EXCEPT ![s] = h]
              /\ hw' = hw \cup Window(h) /\ Window(h) \cap hw = {}
              /\ bound' = bound \cup Place(h) \cup Sd(h) \cup Pipe(h)
              /\ isInit' = isInit
  <1>1. Min(Free) \in Ids \ table
    BY SmallestFree DEF Created, Free
  <1> QED
    BY <1>1 DEF Created, Set, Bind

\* One that fails leaves hardware at most, and no encoder and no overlay.
LEMMA CreateFailsEffect ==
    ASSUME TypeOK, CreateFails
    PROVE  /\ UNCHANGED channels
           /\ hw \subseteq hw' /\ hw' \subseteq Kinds \X Ids
           /\ bound' \subseteq Kinds \X Ids
           /\ \A g \in Ids : /\ <<"venc", g>> \in hw' => <<"venc", g>> \in hw
                             /\ <<"rgn", g>> \in hw' => <<"rgn", g>> \in hw
  <1>1. CASE Refused
    BY <1>1 DEF Refused, device, TypeOK
  <1>2. CASE ~Refused
    <2>1. Free # {} /\ UNCHANGED channels
      BY <1>2 DEF CreateFails
    <2>2. PICK h \in Free : h = Min(Free)
      BY <2>1, SmallestFree
    <2>3. h \in Ids
      BY DEF Free
    <2>4. PICK site \in MayFail : /\ \E part \in Left(h, site) : hw' = hw \cup part
                                  /\ bound' = bound \cup LeftBound(h, site)
      BY <1>2, <2>2 DEF CreateFails, Bind
    <2>5. /\ \A part \in Left(h, site) : part \subseteq Window(h)
          /\ LeftBound(h, site) \subseteq Window(h)
      BY <2>3, Parts DEF Left, LeftBound
    <2>6. Window(h) \subseteq Kinds \X Ids
      BY <2>3, Parts
    <2>7. \A g \in Ids : <<"venc", g>> \notin Window(h) /\ <<"rgn", g>> \notin Window(h)
      BY <2>3 DEF Window, Pipe, Place, Sd, Decoder
    <2> QED
      BY <2>1, <2>4, <2>5, <2>6, <2>7 DEF TypeOK
  <1> QED
    BY <1>1, <1>2

\* A window that is destroyed had no encoder and no overlay, and nothing
\* happens to the others.
LEMMA DestroyEffect ==
    ASSUME TypeOK, NEW h \in alloc, Destroy(h)
    PROVE  /\ isInit' = isInit
           /\ table' \subseteq alloc' /\ alloc' \subseteq alloc /\ table' \subseteq table
           /\ table \ {h} \subseteq table'
           /\ chan' \in [Ids -> Channels] /\ hw' \subseteq hw /\ bound' \subseteq bound
           /\ h \in table' => hw' = hw /\ chan' = chan
           /\ table' # table => ~chan[h].venc /\ ~chan[h].osd
           /\ \A g \in Ids : /\ chan'[g].venc = chan[g].venc
                                     \/ (g = h /\ ~chan[h].venc /\ ~chan'[h].venc)
                             /\ chan'[g].osd = chan[g].osd
                                     \/ (g = h /\ ~chan[h].osd /\ ~chan'[h].osd)
                             /\ g # h => chan'[g] = chan[g]
           /\ \A g \in Ids, kind \in Kinds :
                 g # h \/ kind \in {"venc", "rgn"} =>
                    (<<kind, g>> \in hw' <=> <<kind, g>> \in hw)
  <1> USE DEF TypeOK
  <1>1. CASE h \notin table \/ ~MayDestroy(h)
    BY <1>1 DEF Destroy, Refused, channels, device
  <1>2. CASE h \in table /\ MayDestroy(h)
    <2>1. /\ table' = table \ {h} /\ isInit' = isInit
          /\ alloc' \in {alloc, alloc \ {h}}
          /\ chan' \in {chan, [chan EXCEPT ![h].vdec = FALSE],
                        [chan EXCEPT ![h] = NewChannel]}
          /\ hw' \in {hw, hw \ (Place(h) \cup Decoder(h)), hw \ Window(h)}
          /\ bound' \in {bound, bound \ Pipe(h), bound \ (Pipe(h) \cup Sd(h))}
      BY <1>2 DEF Destroy, device, UnBind, Set
    <2>2. ~chan[h].venc /\ ~chan[h].osd
      BY <1>2 DEF MayDestroy
    <2>3. h \in Ids /\ NewChannel \in Channels /\ ~NewChannel.venc /\ ~NewChannel.osd
      BY DEF NewChannel, Channels
    <2>4. \A c \in {chan, [chan EXCEPT ![h].vdec = FALSE], [chan EXCEPT ![h] = NewChannel]} :
            /\ c \in [Ids -> Channels]
            /\ \A g \in Ids : /\ c[g].venc = chan[g].venc
                                     \/ (g = h /\ ~chan[h].venc /\ ~c[h].venc)
                              /\ c[g].osd = chan[g].osd
                                     \/ (g = h /\ ~chan[h].osd /\ ~c[h].osd)
                              /\ g # h => c[g] = chan[g]
      <3>1. [chan EXCEPT ![h].vdec = FALSE] \in [Ids -> Channels]
        <4>1. [chan[h] EXCEPT !.vdec = FALSE] \in Channels
          BY <2>3 DEF Channels
        <4>2. [chan EXCEPT ![h] = [chan[h] EXCEPT !.vdec = FALSE]] \in [Ids -> Channels]
          BY <2>3, <4>1
        <4> QED BY <4>2
      <3>2. /\ chan[h] \in Channels
            /\ [chan EXCEPT ![h].vdec = FALSE][h].venc = chan[h].venc
            /\ [chan EXCEPT ![h].vdec = FALSE][h].osd = chan[h].osd
        BY <2>3 DEF Channels
      <3> QED
        BY <2>2, <2>3, <3>1, <3>2
    <2>5. \A g \in Ids, kind \in Kinds : g # h \/ kind \in {"venc", "rgn"} =>
             <<kind, g>> \notin Window(h)
      BY <2>3 DEF Window, Pipe, Place, Sd, Decoder
    <2>6. Place(h) \cup Decoder(h) \subseteq Window(h)
      BY <2>3, Parts
    <2> QED
      BY <2>1, <2>2, <2>4, <2>5, <2>6
  <1> QED
    BY <1>1, <1>2

\* Channel h gets these values, and the others are left alone.
Becomes(h, venc, flag, osd) ==
    /\ chan' \in [Ids -> Channels]
    /\ \A g \in Ids : g # h => chan'[g] = chan[g]
    /\ chan'[h].venc = venc /\ chan'[h].flag = flag /\ chan'[h].osd = osd
    /\ chan'[h].vdec = chan[h].vdec /\ chan'[h].show = chan[h].show
    /\ chan'[h].win = chan[h].win

\* What the updates of a channel do.
LEMMA Fields ==
    ASSUME TypeOK, NEW h \in Ids
    PROVE  /\ chan' = [chan EXCEPT ![h].osd = TRUE] =>
                 Becomes(h, chan[h].venc, chan[h].flag, TRUE)
           /\ chan' = [chan EXCEPT ![h].osd = FALSE] =>
                 Becomes(h, chan[h].venc, chan[h].flag, FALSE)
           /\ chan' = [chan EXCEPT ![h].venc = TRUE] =>
                 Becomes(h, TRUE, chan[h].flag, chan[h].osd)
           /\ chan' = [chan EXCEPT ![h].venc = TRUE, ![h].flag = "0"] =>
                 Becomes(h, TRUE, "0", chan[h].osd)
           /\ chan' = [chan EXCEPT ![h].venc = TRUE, ![h].flag = "1"] =>
                 Becomes(h, TRUE, "1", chan[h].osd)
           /\ chan' = [chan EXCEPT ![h].flag = "0"] =>
                 Becomes(h, chan[h].venc, "0", chan[h].osd)
           /\ chan' = [chan EXCEPT ![h].venc = FALSE, ![h].flag = "unset"] =>
                 Becomes(h, FALSE, "unset", chan[h].osd)
  <1>0. chan \in [Ids -> Channels]
    BY DEF TypeOK
  <1> USE <1>0 DEF Channels, Becomes
  <1>1. ASSUME NEW x \in BOOLEAN, chan' = [chan EXCEPT ![h].osd = x]
        PROVE  Becomes(h, chan[h].venc, chan[h].flag, x)
    BY <1>1
  <1>2. ASSUME chan' = [chan EXCEPT ![h].venc = TRUE]
        PROVE  Becomes(h, TRUE, chan[h].flag, chan[h].osd)
    BY <1>2
  <1>3. ASSUME chan' = [chan EXCEPT ![h].venc = TRUE, ![h].flag = "0"]
        PROVE  Becomes(h, TRUE, "0", chan[h].osd)
    <2> DEFINE c == [chan EXCEPT ![h].venc = TRUE]
    <2>1. /\ c \in [Ids -> Channels]
          /\ \A g \in Ids : g # h => c[g] = chan[g]
          /\ c[h].venc = TRUE /\ c[h].osd = chan[h].osd
          /\ c[h].vdec = chan[h].vdec /\ c[h].show = chan[h].show
          /\ c[h].win = chan[h].win
      OBVIOUS
    <2>2. chan' = [c EXCEPT ![h].flag = "0"]
      BY <1>3
    <2> HIDE DEF c
    <2> QED
      BY <2>1, <2>2
  <1>4. ASSUME chan' = [chan EXCEPT ![h].venc = TRUE, ![h].flag = "1"]
        PROVE  Becomes(h, TRUE, "1", chan[h].osd)
    <2> DEFINE c == [chan EXCEPT ![h].venc = TRUE]
    <2>1. /\ c \in [Ids -> Channels]
          /\ \A g \in Ids : g # h => c[g] = chan[g]
          /\ c[h].venc = TRUE /\ c[h].osd = chan[h].osd
          /\ c[h].vdec = chan[h].vdec /\ c[h].show = chan[h].show
          /\ c[h].win = chan[h].win
      OBVIOUS
    <2>2. chan' = [c EXCEPT ![h].flag = "1"]
      BY <1>4
    <2> HIDE DEF c
    <2> QED
      BY <2>1, <2>2
  <1>5. ASSUME chan' = [chan EXCEPT ![h].flag = "0"]
        PROVE  Becomes(h, chan[h].venc, "0", chan[h].osd)
    BY <1>5
  <1>6. ASSUME chan' = [chan EXCEPT ![h].venc = FALSE, ![h].flag = "unset"]
        PROVE  Becomes(h, FALSE, "unset", chan[h].osd)
    <2> DEFINE c == [chan EXCEPT ![h].venc = FALSE]
    <2>1. /\ c \in [Ids -> Channels]
          /\ \A g \in Ids : g # h => c[g] = chan[g]
          /\ c[h].venc = FALSE /\ c[h].osd = chan[h].osd
          /\ c[h].vdec = chan[h].vdec /\ c[h].show = chan[h].show
          /\ c[h].win = chan[h].win
      OBVIOUS
    <2>2. chan' = [c EXCEPT ![h].flag = "unset"]
      BY <1>6
    <2> HIDE DEF c
    <2> QED
      BY <2>1, <2>2
  <1> HIDE DEF Becomes
  <1> QED
    BY <1>1, <1>2, <1>3, <1>4, <1>5, <1>6

\* The three ways in which rtspc_init deals with a stream.
LEMMA InitStreamEffect ==
    ASSUME IInv, InitStream
    PROVE  /\ i \in Streams /\ pc = "init" /\ isInit
           /\ UNCHANGED <<OpLock, worker, open, encode_create, run, feed, drawer, keys, isInit>>
           /\ \/ /\ \E h \in Ids \ table :
                       /\ table' = table \cup {h} /\ alloc' = alloc \cup {h}
                       /\ chan' = [chan EXCEPT ![h] = NewChannel]
                       /\ handle' = [handle EXCEPT ![i] = h]
                       /\ hw' = hw \cup Window(h) /\ Window(h) \cap hw = {}
                       /\ bound' = bound \cup Place(h) \cup Sd(h) \cup Pipe(h)
                 /\ status' = [status EXCEPT ![i] = "UNLINK"]
                 /\ i' = i + 1 /\ pc' = pc
              \/ i' = i + 1 /\ UNCHANGED <<table, alloc, chan, hw, bound, pc, status, handle>>
              \/ /\ pc' = "end_2" /\ UNCHANGED <<table, alloc, chan, i, status, handle>>
                 /\ hw \subseteq hw' /\ hw' \subseteq Kinds \X Ids
                 /\ bound' \subseteq Kinds \X Ids
                 /\ \A g \in Ids : /\ <<"venc", g>> \in hw' => <<"venc", g>> \in hw
                                   /\ <<"rgn", g>> \in hw' => <<"rgn", g>> \in hw
  <1>1. i \in Streams /\ pc = "init" /\ isInit
    BY MediaAssumption DEF InitStream, Streams, IInv, TypeOK, PlaceInv
  <1>2. ASSUME Created(i), status' = Set(status, i, "UNLINK"), i' = i + 1, pc' = pc
        PROVE  /\ isInit' = isInit
               /\ \E h \in Ids \ table :
                       /\ table' = table \cup {h} /\ alloc' = alloc \cup {h}
                       /\ chan' = [chan EXCEPT ![h] = NewChannel]
                       /\ handle' = [handle EXCEPT ![i] = h]
                       /\ hw' = hw \cup Window(h) /\ Window(h) \cap hw = {}
                       /\ bound' = bound \cup Place(h) \cup Sd(h) \cup Pipe(h)
               /\ status' = [status EXCEPT ![i] = "UNLINK"]
    BY <1>1, <1>2, CreateEffect DEF Set
  <1>3. CASE i' = i + 1 /\ Refused /\ UNCHANGED <<pc, status, handle>>
    BY <1>1, <1>3 DEF InitStream, Refused, channels, device
  <1>4. CASE CreateFails /\ pc' = "end_2" /\ UNCHANGED <<i, status, handle>>
    BY <1>1, <1>4, CreateFailsEffect DEF InitStream, IInv, channels
  <1> QED
    BY <1>1, <1>2, <1>3, <1>4 DEF InitStream

-----------------------------------------------------------------------------
(* The invariant, one part after the other: what each action does to it.   *)

\* Streams and counts.
LEMMA Numbers ==
    /\ 0 \in Streams /\ 0 \in 0 .. StreamNum /\ StreamNum - 1 \in 0 .. StreamNum
    /\ \A s \in Streams : s \in 0 .. StreamNum /\ s + 1 \in 0 .. StreamNum
  BY MediaAssumption DEF Streams

\* The types.
LEMMA TypeStep ==
    ASSUME IInv, Next
    PROVE  TypeOK'
  <1> USE MediaAssumption DEF IInv, TypeOK, Becomes, channels, device, streams,
            supervisor, drawer, keys, others, notKeys
  <1>1. CASE InitSystem
    BY <1>1 DEF InitSystem
  <1>2. CASE InitStream
    <2>1. NewChannel \in Channels
      BY DEF NewChannel, Channels
    <2>2. \A h \in Ids : Window(h) \cup Place(h) \cup Sd(h) \cup Pipe(h) \subseteq Kinds \X Ids
      BY Parts
    <2>3. i \in Streams /\ UNCHANGED <<OpLock, worker, open, encode_create, run, feed,
                                      drawer, keys, isInit>>
      BY <1>2, InitStreamEffect
    <2>4. i + 1 \in 0 .. StreamNum
      BY <2>3, Numbers
    <2>5. ASSUME NEW h \in Ids \ table, table' = table \cup {h}, alloc' = alloc \cup {h},
                 chan' = [chan EXCEPT ![h] = NewChannel],
                 handle' = [handle EXCEPT ![i] = h], hw' = hw \cup Window(h),
                 bound' = bound \cup Place(h) \cup Sd(h) \cup Pipe(h),
                 status' = [status EXCEPT ![i] = "UNLINK"], i' = i + 1, pc' = pc
          PROVE  TypeOK'
      <3>1. chan' \in [Ids -> Channels] /\ handle' \in [Streams -> Ids \cup {Null}]
        BY <2>1, <2>5
      <3>2. hw' \subseteq Kinds \X Ids /\ bound' \subseteq Kinds \X Ids
        BY <2>2, <2>5
      <3> QED
        BY <2>3, <2>4, <2>5, <3>1, <3>2
    <2>6. CASE i' = i + 1 /\ UNCHANGED <<table, alloc, chan, hw, bound, pc, status, handle>>
      BY <2>3, <2>4, <2>6
    <2>7. CASE /\ pc' = "end_2" /\ UNCHANGED <<table, alloc, chan, i, status, handle>>
               /\ hw' \subseteq Kinds \X Ids /\ bound' \subseteq Kinds \X Ids
      BY <2>3, <2>7
    <2> QED
      BY <1>2, <2>5, <2>6, <2>7, InitStreamEffect
  <1>3. CASE StartThreads
    BY <1>3 DEF StartThreads
  <1>4. ASSUME NEW s \in Streams, VisitUnlink(s) PROVE TypeOK'
    BY <1>4 DEF VisitUnlink, Visit, Set
  <1>5. ASSUME NEW s \in Streams, VisitLinked(s) PROVE TypeOK'
    BY <1>5 DEF VisitLinked, Visit, Set
  <1>6. ASSUME NEW s \in Streams, VisitGetVd(s) PROVE TypeOK'
    <2>1. handle[s] \in Ids
      BY <1>6 DEF HandleInv, VisitGetVd, Visit
    <2>2. /\ i' = s /\ pc' \in {"abort", "osd_on", "starting"}
          /\ OpLock' \in {OpLock, "supervisor"}
          /\ worker' \in {worker, [worker EXCEPT ![handle[s]] = "new"]}
          /\ hw' \in {hw, hw \cup Encoder(handle[s])}
          /\ bound' \in {bound, bound \cup Encoder(handle[s])}
          /\ UNCHANGED <<isInit, table, alloc>>
      BY <1>6 DEF VisitGetVd, BindEncoder, Bind, CreateRefused, CreateLeaves, Refused, Set
    <2>3. chan' \in [Ids -> Channels]
      BY <1>6, <2>1, Fields DEF VisitGetVd, CreateRefused, CreateLeaves, Refused
    <2>4. Encoder(handle[s]) \subseteq Kinds \X Ids
      BY <2>1, Parts
    <2> QED
      BY <1>6, <2>1, <2>2, <2>3, <2>4, Numbers DEF VisitGetVd
  <1>7. ASSUME NEW s \in Streams, VisitWordwell(s) PROVE TypeOK'
    BY <1>7 DEF VisitWordwell, Visit, Set
  <1>8. ASSUME NEW s \in Streams, VisitLinkDown(s) PROVE TypeOK'
    BY <1>8 DEF VisitLinkDown, Visit, Set, Streams
  <1>9. CASE CreateOsd
    <2>1. handle[i] \in Ids /\ i \in Streams
      BY <1>9 DEF PlaceInv, CreateOsd, TakingDown
    <2>2. CASE OsdCreated(handle[i])
      <3>1. chan' \in [Ids -> Channels]
        BY <2>1, <2>2, Fields DEF OsdCreated
      <3>2. hw' = hw \cup Overlay(handle[i]) /\ Overlay(handle[i]) \subseteq Kinds \X Ids
        BY <2>1, <2>2, Parts DEF OsdCreated
      <3>3. UNCHANGED <<isInit, table, alloc, bound>>
        BY <2>2 DEF OsdCreated
      <3>4. /\ encode_create' \in {encode_create, [encode_create EXCEPT ![i] = TRUE]}
            /\ status' \in {status, [status EXCEPT ![i] = "WORDWELL"]}
            /\ pc' \in {"loop", "abort"} /\ i' = 0
            /\ UNCHANGED <<OpLock, worker, open, handle, run, feed, drawer, keys>>
        BY <1>9 DEF CreateOsd, Set
      <3>5. hw' \subseteq Kinds \X Ids
        BY <3>2
      <3>6. /\ encode_create' \in [Streams -> BOOLEAN]
            /\ status' \in [Streams -> {"UNINIT", "UNLINK", "LINKED", "GETVD",
                                      "WORDWELL", "LINKDOWN"}]
        BY <2>1, <3>4
      <3> QED
        BY <2>1, <3>1, <3>3, <3>4, <3>5, <3>6, Numbers
    <2>3. CASE Refused
      BY <1>9, <2>1, <2>3, Numbers DEF CreateOsd, Refused, Set, OsdCreated
    <2>4. CASE CreateLeaves(chan[handle[i]].osd, Overlay(handle[i]), "AttachRgn")
      <3>1. hw' = hw \cup Overlay(handle[i]) /\ UNCHANGED <<isInit, table, alloc, chan, bound>>
        BY <2>4 DEF CreateLeaves
      <3>2. hw' \subseteq Kinds \X Ids
        BY <2>1, <3>1, Parts
      <3>3. /\ encode_create' \in {encode_create, [encode_create EXCEPT ![i] = TRUE]}
            /\ status' \in {status, [status EXCEPT ![i] = "WORDWELL"]}
            /\ pc' \in {"loop", "abort"} /\ i' = 0
            /\ UNCHANGED <<OpLock, worker, open, handle, run, feed, drawer, keys>>
        BY <1>9 DEF CreateOsd, Set
      <3>4. /\ encode_create' \in [Streams -> BOOLEAN]
            /\ status' \in [Streams -> {"UNINIT", "UNLINK", "LINKED", "GETVD",
                                      "WORDWELL", "LINKDOWN"}]
        BY <2>1, <3>3
      <3> QED
        BY <2>1, <3>1, <3>2, <3>3, <3>4, Numbers
    <2> QED
      BY <1>9, <2>2, <2>3, <2>4 DEF CreateOsd, CreateRefused
  <1>10. CASE DestroyOsd
    <2>1. handle[i] \in Ids
      BY <1>10 DEF PlaceInv, DestroyOsd, TakingDown
    <2> QED
      BY <1>10, <2>1, Fields DEF DestroyOsd, Refused, OsdDestroyed, Overlay, Kinds
  <1>11. CASE DestroyEncode
    <2>1. handle[i] \in Ids
      BY <1>11 DEF PlaceInv, DestroyEncode, TakingDown
    <2> QED
      BY <1>11, <2>1, Fields DEF DestroyEncode, Refused, Kinds
  <1>12. CASE Down
    <2>1. i \in Streams
      BY <1>12 DEF Down, PlaceInv, TakingDown
    <2>2. CASE open[i]
      BY <1>12, <2>1, <2>2, Numbers DEF Down, Set
    <2>3. CASE ~open[i]
      BY <1>12, <2>1, <2>3, Numbers DEF Down, Set
    <2> QED
      BY <2>2, <2>3
  <1>13. CASE WorkerStarted
    BY <1>13 DEF WorkerStarted
  <1>14. CASE JoinWorker
    BY <1>14 DEF JoinWorker, Set
  <1>15. CASE StopEncode
    <2>1. handle[i] \in Ids
      BY <1>15 DEF PlaceInv, StopEncode, TakingDown
    <2> QED
      BY <1>15, <2>1, Fields DEF StopEncode, Refused, Encoder, Kinds
  <1>16. CASE LeaveLoop
    BY <1>16 DEF LeaveLoop
  <1>17. CASE End4
    BY <1>17 DEF End4
  <1>18. CASE JoinOsd
    BY <1>18 DEF JoinOsd
  <1>19. CASE Unwind
    <2>1. CASE handle[i] \in alloc
      BY <1>19, <2>1, DestroyEffect DEF Unwind
    <2>2. CASE handle[i] \notin alloc
      BY <1>19, <2>2 DEF Unwind, Refused
    <2> QED
      BY <2>1, <2>2
  <1>20. CASE Unwound
    BY <1>20 DEF Unwound
  <1>21. CASE DestroySystem
    BY <1>21 DEF DestroySystem
  <1>22. CASE Stop_rtspclient
    BY <1>22 DEF Stop_rtspclient
  <1>23. ASSUME NEW h \in Ids, WorkerStart(h) PROVE TypeOK'
    BY <1>23 DEF WorkerStart, Set
  <1>24. ASSUME NEW h \in Ids, WorkerLoop(h) PROVE TypeOK'
    BY <1>24 DEF WorkerLoop, Set
  <1>25. ASSUME NEW h \in Ids, WorkerFetch(h) PROVE TypeOK'
    BY <1>25 DEF WorkerFetch, Set
  <1>26. ASSUME NEW s \in Streams, Frame(s) PROVE TypeOK'
    BY <1>26 DEF Frame, Set
  <1>27. ASSUME NEW s \in Streams, SendDecData(s) PROVE TypeOK'
    <2>1. /\ pc' \in {pc, "crashed"} /\ feed' = [feed EXCEPT ![s] = FALSE]
          /\ UNCHANGED <<isInit, table, alloc, chan, hw, bound, OpLock, worker, streams,
                         run, i, drawer, keys>>
      BY <1>27, SendEffect
    <2> QED
      BY <2>1
  <1>28. ASSUME NEW s \in Streams, OsdMessage(s) PROVE TypeOK'
    BY <1>28 DEF OsdMessage
  <1>29. CASE OsdDraw
    BY <1>29 DEF OsdDraw, Streams
  <1>30. CASE OsdLeave
    BY <1>30 DEF OsdLeave
  <1>31. CASE KeyThread
    BY <1>31, KeyEffect DEF OnlyScreen
  <1> QED
    BY <1>1, <1>2, <1>3, <1>4, <1>5, <1>6, <1>7, <1>8, <1>9, <1>10, <1>11,
       <1>12, <1>13, <1>14, <1>15, <1>16, <1>17, <1>18, <1>19, <1>20, <1>21,
       <1>22, <1>23, <1>24, <1>25, <1>26, <1>27, <1>28, <1>29, <1>30, <1>31
       DEF Next, Supervisor, Holder, Worker, Receiver, OsdThread

\* The supervisor's place.
LEMMA PlaceStep ==
    ASSUME IInv, Next
    PROVE  PlaceInv'
  <1> USE MediaAssumption DEF IInv, TypeOK, PlaceInv, TakingDown, Ends, channels,
            device, streams, supervisor, drawer, keys, others, notKeys
  <1>1. CASE InitSystem
    BY <1>1 DEF InitSystem
  <1>2. CASE InitStream
    <2>1. pc' \in {"init", "end_2"}
      BY <1>2, InitStreamEffect DEF InitStream
    <2> QED
      BY <1>2, <2>1, InitStreamEffect
  <1>3. CASE StartThreads
    BY <1>3 DEF StartThreads
  <1>4. ASSUME NEW s \in Streams, VisitUnlink(s) PROVE PlaceInv'
    BY <1>4 DEF VisitUnlink, Visit, Set
  <1>5. ASSUME NEW s \in Streams, VisitLinked(s) PROVE PlaceInv'
    BY <1>5 DEF VisitLinked, Visit, Set
  <1>6. ASSUME NEW s \in Streams, VisitGetVd(s) PROVE PlaceInv'
    <2>1. isInit' = isInit /\ pc' \in {"abort", "osd_on", "starting"} /\ i' = s
      BY <1>6 DEF VisitGetVd, CreateRefused, CreateLeaves, Refused
    <2>2. pc = "loop" /\ handle[s] # Null /\ UNCHANGED <<streams, drawer, keys>>
      BY <1>6 DEF VisitGetVd, Visit, HandleInv
    <2> QED
      BY <2>1, <2>2
  <1>7. ASSUME NEW s \in Streams, VisitWordwell(s) PROVE PlaceInv'
    BY <1>7 DEF VisitWordwell, Visit, Set
  <1>8. ASSUME NEW s \in Streams, VisitLinkDown(s) PROVE PlaceInv'
    BY <1>8 DEF VisitLinkDown, Visit, HandleInv
  <1>9. CASE CreateOsd
    <2>1. isInit' = isInit /\ pc' \in {"loop", "abort"}
      BY <1>9 DEF CreateOsd, OsdCreated, CreateRefused, CreateLeaves, Refused
    <2>2. pc = "osd_on" /\ UNCHANGED <<handle, open, drawer, keys>>
      BY <1>9 DEF CreateOsd
    <2> QED
      BY <2>1, <2>2
  <1>10. CASE DestroyOsd
    <2>1. isInit' = isInit
      BY <1>10 DEF DestroyOsd, OsdDestroyed, Refused
    <2>2. pc = "osd_off" /\ pc' = "enc_off" /\ UNCHANGED <<streams, run, i, drawer, keys>>
      BY <1>10 DEF DestroyOsd
    <2> QED
      BY <2>1, <2>2
  <1>11. CASE DestroyEncode
    BY <1>11 DEF DestroyEncode
  <1>12. CASE Down
    BY <1>12 DEF Down, Set
  <1>13. CASE WorkerStarted
    BY <1>13 DEF WorkerStarted
  <1>14. CASE JoinWorker
    BY <1>14 DEF JoinWorker, Set
  <1>15. CASE StopEncode
    BY <1>15 DEF StopEncode, Encoder, Refused
  <1>16. CASE LeaveLoop
    BY <1>16 DEF LeaveLoop
  <1>17. CASE End4
    BY <1>17, Numbers DEF End4, HandleInv, Streams
  <1>18. CASE JoinOsd
    BY <1>18 DEF JoinOsd
  <1>19. CASE Unwind
    <2>1. isInit' = isInit
      BY <1>19, DestroyEffect DEF Unwind, Refused
    <2> QED
      BY <1>19, <2>1 DEF Unwind
  <1>20. CASE Unwound
    BY <1>20 DEF Unwound
  <1>21. CASE DestroySystem
    BY <1>21 DEF DestroySystem
  <1>22. CASE Stop_rtspclient
    BY <1>22 DEF Stop_rtspclient
  <1>23. ASSUME NEW h \in Ids, WorkerStart(h) PROVE PlaceInv'
    BY <1>23 DEF WorkerStart, Set
  <1>24. ASSUME NEW h \in Ids, WorkerLoop(h) PROVE PlaceInv'
    BY <1>24 DEF WorkerLoop, Set
  <1>25. ASSUME NEW h \in Ids, WorkerFetch(h) PROVE PlaceInv'
    BY <1>25 DEF WorkerFetch, Set
  <1>26. ASSUME NEW s \in Streams, Frame(s) PROVE PlaceInv'
    BY <1>26 DEF Frame, Set
  <1>27. ASSUME NEW s \in Streams, SendDecData(s) PROVE PlaceInv'
    BY <1>27, SendEffect
  <1>28. ASSUME NEW s \in Streams, OsdMessage(s) PROVE PlaceInv'
    BY <1>28 DEF OsdMessage, HandleInv
  <1>29. CASE OsdDraw
    BY <1>29 DEF OsdDraw
  <1>30. CASE OsdLeave
    BY <1>30 DEF OsdLeave
  <1>31. CASE KeyThread
    BY <1>31, KeyEffect DEF OnlyScreen
  <1> QED
    BY <1>1, <1>2, <1>3, <1>4, <1>5, <1>6, <1>7, <1>8, <1>9, <1>10, <1>11,
       <1>12, <1>13, <1>14, <1>15, <1>16, <1>17, <1>18, <1>19, <1>20, <1>21,
       <1>22, <1>23, <1>24, <1>25, <1>26, <1>27, <1>28, <1>29, <1>30, <1>31
       DEF Next, Supervisor, Holder, Worker, Receiver, OsdThread

\* Handles.
LEMMA HandleStep ==
    ASSUME IInv, Next
    PROVE  HandleInv'
  <1> USE MediaAssumption DEF IInv, TypeOK, HandleInv, TakingDown, Ends, channels,
            device, streams, supervisor, drawer, keys, others, notKeys
  <1>1. CASE InitSystem
    BY <1>1 DEF InitSystem, PlaceInv
  <1>2. CASE InitStream
    <2>1. pc = "init" /\ i \in Streams /\ (\A s \in Streams : ~open[s])
      BY <1>2, InitStreamEffect DEF PlaceInv
    <2>2. CASE UNCHANGED <<table, status, handle>> /\ pc' \in {"init", "end_2"}
      BY <1>2, <2>1, <2>2, InitStreamEffect
    <2>3. ASSUME NEW h \in Ids \ table, table' = table \cup {h},
                 handle' = [handle EXCEPT ![i] = h],
                 status' = [status EXCEPT ![i] = "UNLINK"], pc' = pc
          PROVE  HandleInv'
      <3>1. Null \notin Ids
        BY DEF Ids, Null
      <3>2. \A s \in Streams : /\ handle'[s] = IF s = i THEN h ELSE handle[s]
                               /\ s # i => status'[s] = status[s]
        BY <2>3
      <3>3. \A s \in Streams : handle[s] # Null => handle[s] \in table
        BY <2>1
      <3>4. UNCHANGED <<open, feed>>
        BY <1>2, InitStreamEffect
      <3> QED
        BY <2>1, <2>3, <3>1, <3>2, <3>3, <3>4
    <2> QED
      BY <1>2, <2>1, <2>2, <2>3, InitStreamEffect
  <1>3. CASE StartThreads
    BY <1>3 DEF StartThreads
  <1>4. ASSUME NEW s \in Streams, VisitUnlink(s) PROVE HandleInv'
    BY <1>4 DEF VisitUnlink, Visit, Set
  <1>5. ASSUME NEW s \in Streams, VisitLinked(s) PROVE HandleInv'
    BY <1>5 DEF VisitLinked, Visit, Set
  <1>6. ASSUME NEW s \in Streams, VisitGetVd(s) PROVE HandleInv'
    <2>1. table' = table /\ pc = "loop" /\ pc' \in {"abort", "osd_on", "starting"}
      BY <1>6 DEF VisitGetVd, Visit, CreateRefused, CreateLeaves, Refused
    <2> QED
      BY <1>6, <2>1 DEF VisitGetVd
  <1>7. ASSUME NEW s \in Streams, VisitWordwell(s) PROVE HandleInv'
    BY <1>7 DEF VisitWordwell, Visit, Set
  <1>8. ASSUME NEW s \in Streams, VisitLinkDown(s) PROVE HandleInv'
    BY <1>8 DEF VisitLinkDown, Visit, Closes, Set
  <1>9. CASE CreateOsd
    <2>1. table' = table /\ pc' \in {"loop", "abort"} /\ UNCHANGED <<open, handle, feed>>
      BY <1>9 DEF CreateOsd, OsdCreated, CreateRefused, CreateLeaves, Refused
    <2>2. /\ pc = "osd_on" /\ status'[i] \in {status[i], "WORDWELL"}
          /\ \A s \in Streams : s # i => status'[s] = status[s]
      BY <1>9 DEF CreateOsd, Set
    <2> QED
      BY <2>1, <2>2 DEF PlaceInv
  <1>10. CASE DestroyOsd
    <2>1. table' = table
      BY <1>10 DEF DestroyOsd, OsdDestroyed, Refused
    <2> QED
      BY <1>10, <2>1 DEF DestroyOsd
  <1>11. CASE DestroyEncode
    BY <1>11 DEF DestroyEncode
  <1>12. CASE Down
    <2>1. i \in Streams /\ handle[i] # Null
      BY <1>12 DEF Down, PlaceInv
    <2>2. CASE open[i]
      BY <1>12, <2>1, <2>2 DEF Down, Closes, Set, Streams
    <2>3. CASE ~open[i]
      BY <1>12, <2>1, <2>3 DEF Down, Set
    <2> QED
      BY <2>2, <2>3
  <1>13. CASE WorkerStarted
    BY <1>13 DEF WorkerStarted
  <1>14. CASE JoinWorker
    BY <1>14 DEF JoinWorker, Set
  <1>15. CASE StopEncode
    BY <1>15 DEF StopEncode, Encoder, Refused
  <1>16. CASE LeaveLoop
    BY <1>16 DEF LeaveLoop, Streams
  <1>17. CASE End4
    BY <1>17 DEF End4, Streams
  <1>18. CASE JoinOsd
    BY <1>18 DEF JoinOsd, Streams
  <1>19. CASE Unwind
    BY <1>19 DEF Unwind
  <1>20. CASE Unwound
    BY <1>20 DEF Unwound
  <1>21. CASE DestroySystem
    BY <1>21 DEF DestroySystem
  <1>22. CASE Stop_rtspclient
    BY <1>22 DEF Stop_rtspclient
  <1>23. ASSUME NEW h \in Ids, WorkerStart(h) PROVE HandleInv'
    BY <1>23 DEF WorkerStart, Set
  <1>24. ASSUME NEW h \in Ids, WorkerLoop(h) PROVE HandleInv'
    BY <1>24 DEF WorkerLoop, Set
  <1>25. ASSUME NEW h \in Ids, WorkerFetch(h) PROVE HandleInv'
    BY <1>25 DEF WorkerFetch, Set
  <1>26. ASSUME NEW s \in Streams, Frame(s) PROVE HandleInv'
    BY <1>26 DEF Frame, Set
  <1>27. ASSUME NEW s \in Streams, SendDecData(s) PROVE HandleInv'
    BY <1>27, SendEffect
  <1>28. ASSUME NEW s \in Streams, OsdMessage(s) PROVE HandleInv'
    BY <1>28 DEF OsdMessage
  <1>29. CASE OsdDraw
    BY <1>29 DEF OsdDraw
  <1>30. CASE OsdLeave
    BY <1>30 DEF OsdLeave
  <1>31. CASE KeyThread
    BY <1>31, KeyEffect DEF OnlyScreen
  <1> QED
    BY <1>1, <1>2, <1>3, <1>4, <1>5, <1>6, <1>7, <1>8, <1>9, <1>10, <1>11,
       <1>12, <1>13, <1>14, <1>15, <1>16, <1>17, <1>18, <1>19, <1>20, <1>21,
       <1>22, <1>23, <1>24, <1>25, <1>26, <1>27, <1>28, <1>29, <1>30, <1>31
       DEF Next, Supervisor, Holder, Worker, Receiver, OsdThread

\* Links.
LEMMA LinkStep ==
    ASSUME IInv, Next
    PROVE  LinkInv'
  <1> USE MediaAssumption DEF IInv, TypeOK, LinkInv, TakingDown, Ends, channels, device,
            streams, supervisor, drawer, keys, others, notKeys
  <1>1. CASE InitSystem
    BY <1>1 DEF InitSystem
  <1>2. CASE InitStream
    BY <1>2, InitStreamEffect DEF PlaceInv
  <1>3. CASE StartThreads
    BY <1>3 DEF StartThreads
  <1>4. ASSUME NEW s \in Streams, VisitUnlink(s) PROVE LinkInv'
    BY <1>4 DEF VisitUnlink, Visit, Set
  <1>5. ASSUME NEW s \in Streams, VisitLinked(s) PROVE LinkInv'
    BY <1>5 DEF VisitLinked, Visit, Set
  <1>6. ASSUME NEW s \in Streams, VisitGetVd(s) PROVE LinkInv'
    <2>1. pc' \in {"abort", "starting", "osd_on"} /\ i' = s
      BY <1>6 DEF VisitGetVd
    <2> QED
      BY <1>6, <2>1 DEF VisitGetVd, Visit
  <1>7. ASSUME NEW s \in Streams, VisitWordwell(s) PROVE LinkInv'
    BY <1>7 DEF VisitWordwell, Visit, Set
  <1>8. ASSUME NEW s \in Streams, VisitLinkDown(s) PROVE LinkInv'
    BY <1>8 DEF VisitLinkDown, Visit, Set
  <1>9. CASE CreateOsd
    <2>1. i \in Streams
      BY <1>9 DEF CreateOsd, PlaceInv
    <2> QED
      BY <1>9, <2>1 DEF CreateOsd, Set
  <1>10. CASE DestroyOsd
    BY <1>10 DEF DestroyOsd, OsdDestroyed, Overlay, Refused
  <1>11. CASE DestroyEncode
    BY <1>11 DEF DestroyEncode
  <1>12. CASE Down
    <2>1. i \in Streams
      BY <1>12 DEF Down, PlaceInv
    <2> QED
      BY <1>12, <2>1 DEF Down, Set
  <1>13. CASE WorkerStarted
    BY <1>13 DEF WorkerStarted
  <1>14. CASE JoinWorker
    BY <1>14 DEF JoinWorker, Set
  <1>15. CASE StopEncode
    BY <1>15 DEF StopEncode, Encoder, Refused
  <1>16. CASE LeaveLoop
    BY <1>16 DEF LeaveLoop
  <1>17. CASE End4
    BY <1>17 DEF End4
  <1>18. CASE JoinOsd
    BY <1>18 DEF JoinOsd
  <1>19. CASE Unwind
    BY <1>19 DEF Unwind, Refused
  <1>20. CASE Unwound
    BY <1>20 DEF Unwound
  <1>21. CASE DestroySystem
    BY <1>21 DEF DestroySystem
  <1>22. CASE Stop_rtspclient
    BY <1>22 DEF Stop_rtspclient
  <1>23. ASSUME NEW h \in Ids, WorkerStart(h) PROVE LinkInv'
    BY <1>23 DEF WorkerStart, Set
  <1>24. ASSUME NEW h \in Ids, WorkerLoop(h) PROVE LinkInv'
    BY <1>24 DEF WorkerLoop, Set
  <1>25. ASSUME NEW h \in Ids, WorkerFetch(h) PROVE LinkInv'
    BY <1>25 DEF WorkerFetch, Set
  <1>26. ASSUME NEW s \in Streams, Frame(s) PROVE LinkInv'
    BY <1>26 DEF Frame, Set
  <1>27. ASSUME NEW s \in Streams, SendDecData(s) PROVE LinkInv'
    BY <1>27, SendEffect
  <1>28. ASSUME NEW s \in Streams, OsdMessage(s) PROVE LinkInv'
    BY <1>28 DEF OsdMessage
  <1>29. CASE OsdDraw
    BY <1>29 DEF OsdDraw
  <1>30. CASE OsdLeave
    BY <1>30 DEF OsdLeave
  <1>31. CASE KeyThread
    BY <1>31, KeyEffect DEF OnlyScreen
  <1> QED
    BY <1>1, <1>2, <1>3, <1>4, <1>5, <1>6, <1>7, <1>8, <1>9, <1>10, <1>11,
       <1>12, <1>13, <1>14, <1>15, <1>16, <1>17, <1>18, <1>19, <1>20, <1>21,
       <1>22, <1>23, <1>24, <1>25, <1>26, <1>27, <1>28, <1>29, <1>30, <1>31
       DEF Next, Supervisor, Holder, Worker, Receiver, OsdThread

\* Workers.
LEMMA WorkerStep ==
    ASSUME IInv, Next
    PROVE  WorkerInv'
  <1> USE MediaAssumption DEF IInv, TypeOK, WorkerInv, TakingDown, Ends, On, channels,
            device, streams, supervisor, drawer, keys, others, notKeys
  <1>1. CASE InitSystem
    BY <1>1 DEF InitSystem
  <1>2. CASE InitStream
    <2>1. \A s \in Streams : ~open[s]
      BY <1>2, InitStreamEffect DEF PlaceInv
    <2>2. \A h \in Ids : worker[h] = "none"
      BY <1>2, <2>1, InitStreamEffect
    <2>3. /\ worker' = worker /\ pc' \in {"init", "end_2"}
          /\ \A s \in Streams : handle'[s] \in Ids \cup {Null}
      BY <1>2, InitStreamEffect
    <2> QED
      BY <2>2, <2>3
  <1>3. CASE StartThreads
    <2>1. \A h \in Ids : worker[h] = "none"
      BY <1>3 DEF StartThreads, PlaceInv
    <2> QED
      BY <1>3, <2>1 DEF StartThreads
  <1>4. ASSUME NEW s \in Streams, VisitUnlink(s) PROVE WorkerInv'
    BY <1>4 DEF VisitUnlink, Visit, Set
  <1>5. ASSUME NEW s \in Streams, VisitLinked(s) PROVE WorkerInv'
    BY <1>5 DEF VisitLinked, Visit, Set
  <1>6. ASSUME NEW s \in Streams, VisitGetVd(s) PROVE WorkerInv'
    <2> DEFINE h == handle[s]
    <2>1. /\ h \in table /\ h \in Ids /\ pc = "loop" /\ open[s]
          /\ \A r \in Streams : handle[r] = h => r = s
      BY <1>6 DEF VisitGetVd, Visit, HandleInv, LinkInv
    <2>2. CASE UNCHANGED <<table, chan, worker>> /\ hw \subseteq hw' /\ pc' = "abort"
      <3>1. UNCHANGED streams
        BY <1>6 DEF VisitGetVd
      <3> QED
        BY <2>1, <2>2, <3>1
    <2>3. CASE ~(UNCHANGED <<table, chan, worker>> /\ hw \subseteq hw' /\ pc' = "abort")
      <3>1. ~chan[h].venc /\ table' = table /\ hw' = hw \cup Encoder(h) /\ i' = s
        BY <1>6, <2>3 DEF VisitGetVd, CreateRefused, CreateLeaves, Refused
      <3>2. worker[h] = "none"
        BY <2>1, <3>1
      <3>3. <<"venc", h>> \in hw' /\ hw \subseteq hw'
        BY <3>1 DEF Encoder
      <3>4. UNCHANGED streams
        BY <1>6 DEF VisitGetVd
      <3>5. CASE worker' = worker /\ pc' \in {"abort", "osd_on"}
        <4>1. \A g \in Ids : g # h => chan'[g] = chan[g]
          BY <1>6, <2>1, <2>3, Fields DEF VisitGetVd, CreateRefused, CreateLeaves, Refused,
             Becomes
        <4> QED
          BY <2>1, <3>1, <3>2, <3>3, <3>4, <3>5, <4>1
      <3>6. CASE /\ chan' = [chan EXCEPT ![h].venc = TRUE, ![h].flag = "1"]
                 /\ worker' = [worker EXCEPT ![h] = "new"] /\ pc' = "starting"
        <4>1. Becomes(h, TRUE, "1", chan[h].osd)
          BY <2>1, <3>6, Fields
        <4> QED
          BY <2>1, <3>1, <3>2, <3>3, <3>4, <3>6, <4>1 DEF Becomes
      <3> QED
        BY <1>6, <2>3, <3>1, <3>5, <3>6 DEF VisitGetVd, CreateRefused, CreateLeaves, Refused,
           Set
    <2> QED
      BY <2>2, <2>3
  <1>7. ASSUME NEW s \in Streams, VisitWordwell(s) PROVE WorkerInv'
    BY <1>7 DEF VisitWordwell, Visit, Set
  <1>8. ASSUME NEW s \in Streams, VisitLinkDown(s) PROVE WorkerInv'
    <2>1. pc = "loop" /\ UNCHANGED <<table, chan, hw, worker, handle, encode_create>>
      BY <1>8 DEF VisitLinkDown, Visit
    <2>2. open'[s] = FALSE /\ \A r \in Streams : r # s => open'[r] = open[r]
      BY <1>8 DEF VisitLinkDown, Set
    <2>3. CASE encode_create[s]
      <3>1. pc' = "osd_off" /\ i' = s
        BY <1>8, <2>3 DEF VisitLinkDown
      <3> QED
        BY <2>1, <2>2, <3>1
    <2>4. CASE ~encode_create[s]
      <3>1. pc' = "loop" /\ i' = i
        BY <1>8, <2>1, <2>4 DEF VisitLinkDown
      <3>2. handle[s] # Null => worker[handle[s]] = "none"
        BY <2>1, <2>4
      <3>3. Null \notin Ids
        BY DEF Ids, Null
      <3> QED
        BY <2>1, <2>2, <3>1, <3>2, <3>3
    <2> QED
      BY <2>3, <2>4
  <1>9. CASE CreateOsd
    <2>1. i \in Streams /\ handle[i] \in Ids /\ pc = "osd_on"
      BY <1>9 DEF CreateOsd, PlaceInv, TakingDown
    <2>2. /\ UNCHANGED <<table, worker, handle, open>> /\ hw \subseteq hw'
          /\ \A h \in Ids : /\ chan'[h].venc = chan[h].venc
                            /\ chan'[h].flag = chan[h].flag
      <3>1. UNCHANGED <<worker, handle, open>>
        BY <1>9 DEF CreateOsd
      <3>2. CASE Refused
        BY <3>1, <3>2 DEF Refused
      <3>3. CASE OsdCreated(handle[i])
        <4>1. chan' = [chan EXCEPT ![handle[i]].osd = TRUE]
          BY <3>3 DEF OsdCreated
        <4>2. Becomes(handle[i], chan[handle[i]].venc, chan[handle[i]].flag, TRUE)
          BY <2>1, <4>1, Fields
        <4> QED
          BY <3>1, <3>3, <4>2 DEF OsdCreated, Becomes
      <3>4. CASE CreateLeaves(chan[handle[i]].osd, Overlay(handle[i]), "AttachRgn")
        BY <3>1, <3>4 DEF CreateLeaves
      <3> QED
        BY <1>9, <3>2, <3>3, <3>4 DEF CreateOsd, CreateRefused
    <2>3. \/ pc' = "loop" /\ encode_create' = [encode_create EXCEPT ![i] = TRUE]
          \/ pc' = "abort" /\ encode_create' = encode_create
      BY <1>9 DEF CreateOsd, Set
    <2> QED
      BY <2>1, <2>2, <2>3
  <1>10. CASE DestroyOsd
    <2>1. i \in Streams /\ handle[i] \in Ids /\ pc = "osd_off" /\ pc' = "enc_off"
      BY <1>10 DEF DestroyOsd, PlaceInv, TakingDown
    <2>2. /\ UNCHANGED <<table, worker, handle, open, encode_create, i>>
          /\ \A h \in Ids : /\ chan'[h].venc = chan[h].venc
                            /\ chan'[h].flag = chan[h].flag
      <3>1. UNCHANGED <<worker, handle, open, encode_create, i>>
        BY <1>10 DEF DestroyOsd
      <3>2. CASE Refused
        BY <3>1, <3>2 DEF Refused
      <3>3. CASE OsdDestroyed(handle[i])
        <4>1. chan' = [chan EXCEPT ![handle[i]].osd = FALSE]
          BY <3>3 DEF OsdDestroyed
        <4>2. Becomes(handle[i], chan[handle[i]].venc, chan[handle[i]].flag, FALSE)
          BY <2>1, <4>1, Fields
        <4> QED
          BY <3>1, <3>3, <4>2 DEF OsdDestroyed, Becomes
      <3> QED
        BY <1>10, <3>2, <3>3 DEF DestroyOsd
    <2>3. \A h \in Ids : <<"venc", h>> \in hw => <<"venc", h>> \in hw'
      BY <1>10 DEF DestroyOsd, OsdDestroyed, Refused, Overlay
    <2> QED
      BY <2>1, <2>2, <2>3
  <1>11. CASE DestroyEncode
    <2>1. i \in Streams /\ handle[i] \in Ids /\ pc = "enc_off"
      BY <1>11 DEF DestroyEncode, PlaceInv, TakingDown
    <2>2. UNCHANGED <<table, worker, handle, open, encode_create, i, hw>>
      BY <1>11 DEF DestroyEncode
    <2>3. CASE pc' = "down" /\ ~chan[handle[i]].venc /\ chan' = chan
      <3>1. worker[handle[i]] = "none"
        BY <2>1, <2>3
      <3> QED
        BY <2>1, <2>2, <2>3, <3>1
    <2>4. CASE pc' = "join" /\ chan' = [chan EXCEPT ![handle[i]].flag = "0"]
      <3>1. Becomes(handle[i], chan[handle[i]].venc, "0", chan[handle[i]].osd)
        BY <2>1, <2>4, Fields
      <3> QED
        BY <2>1, <2>2, <2>4, <3>1 DEF Becomes
    <2>5. CASE pc' = "stop" /\ chan[handle[i]].flag # "1" /\ chan' = chan
      <3>1. worker[handle[i]] = "none"
        BY <2>1, <2>5
      <3> QED
        BY <2>1, <2>2, <2>5, <3>1
    <2> QED
      BY <1>11, <2>3, <2>4, <2>5 DEF DestroyEncode
  <1>12. CASE Down
    BY <1>12 DEF Down, Set
  <1>13. CASE WorkerStarted
    BY <1>13 DEF WorkerStarted
  <1>14. CASE JoinWorker
    <2>1. i \in Streams /\ handle[i] \in Ids
      BY <1>14 DEF JoinWorker, PlaceInv, TakingDown
    <2>2. \A h \in Ids : worker'[h] = IF h = handle[i] THEN "none" ELSE worker[h]
      BY <1>14, <2>1 DEF JoinWorker, Set
    <2>3. /\ UNCHANGED <<table, chan, hw, handle, open, encode_create, i>>
          /\ pc = "join" /\ pc' = "stop"
      BY <1>14 DEF JoinWorker
    <2> QED
      BY <2>1, <2>2, <2>3
  <1>15. CASE StopEncode
    BY <1>15 DEF StopEncode, Encoder, Refused
  <1>16. CASE LeaveLoop
    BY <1>16 DEF LeaveLoop
  <1>17. CASE End4
    BY <1>17 DEF End4
  <1>18. CASE JoinOsd
    BY <1>18 DEF JoinOsd
  <1>19. CASE Unwind
    <2>1. \A h \in Ids : worker[h] = "none"
      BY <1>19 DEF Unwind, HandleInv
    <2> QED
      BY <1>19, <2>1 DEF Unwind
  <1>20. CASE Unwound
    BY <1>20 DEF Unwound
  <1>21. CASE DestroySystem
    <2>1. \A h \in Ids : worker[h] = "none"
      BY <1>21 DEF DestroySystem, HandleInv
    <2> QED
      BY <1>21, <2>1 DEF DestroySystem
  <1>22. CASE Stop_rtspclient
    BY <1>22 DEF Stop_rtspclient
  <1>23. ASSUME NEW h \in Ids, WorkerStart(h) PROVE WorkerInv'
    BY <1>23 DEF WorkerStart, Set
  <1>24. ASSUME NEW h \in Ids, WorkerLoop(h) PROVE WorkerInv'
    BY <1>24 DEF WorkerLoop, Set
  <1>25. ASSUME NEW h \in Ids, WorkerFetch(h) PROVE WorkerInv'
    BY <1>25 DEF WorkerFetch, Set
  <1>26. ASSUME NEW s \in Streams, Frame(s) PROVE WorkerInv'
    BY <1>26 DEF Frame, Set
  <1>27. ASSUME NEW s \in Streams, SendDecData(s) PROVE WorkerInv'
    BY <1>27, SendEffect
  <1>28. ASSUME NEW s \in Streams, OsdMessage(s) PROVE WorkerInv'
    BY <1>28 DEF OsdMessage
  <1>29. CASE OsdDraw
    BY <1>29 DEF OsdDraw
  <1>30. CASE OsdLeave
    BY <1>30 DEF OsdLeave
  <1>31. CASE KeyThread
    BY <1>31, KeyEffect DEF OnlyScreen, Kinds
  <1> QED
    BY <1>1, <1>2, <1>3, <1>4, <1>5, <1>6, <1>7, <1>8, <1>9, <1>10, <1>11,
       <1>12, <1>13, <1>14, <1>15, <1>16, <1>17, <1>18, <1>19, <1>20, <1>21,
       <1>22, <1>23, <1>24, <1>25, <1>26, <1>27, <1>28, <1>29, <1>30, <1>31
       DEF Next, Supervisor, Holder, Worker, Receiver, OsdThread

\* Pipes.
LEMMA PipeStep ==
    ASSUME IInv, Next
    PROVE  PipeInv'
  <1> USE MediaAssumption DEF IInv, TypeOK, PipeInv, On, channels, device, streams,
            supervisor, drawer, keys, others, notKeys
  <1>1. CASE InitSystem
    BY <1>1 DEF InitSystem, PlaceInv
  <1>2. CASE InitStream
    <2>1. pc = "init" /\ i \in Streams /\ isInit /\ isInit'
      BY <1>2, InitStreamEffect
    <2>2. ASSUME NEW h \in Ids \ table, table' = table \cup {h},
                 chan' = [chan EXCEPT ![h] = NewChannel], hw' = hw \cup Window(h)
          PROVE  PipeInv'
      <3>1. \A g \in Ids : <<"venc", g>> \notin Window(h) /\ <<"rgn", g>> \notin Window(h)
        BY DEF Window, Pipe, Place, Sd, Decoder
      <3>2. <<"vpss", h>> \in Window(h) /\ <<"vdec", h>> \in Window(h)
        BY Parts
      <3>3. \A g \in Ids : g # h => chan'[g] = chan[g]
        BY <2>2
      <3>4. KeepsRecords => ~(<<"venc", h>> \in hw) /\ ~(<<"rgn", h>> \in hw)
        BY <2>2
      <3>5. pc' # "start"
        BY <1>2, <2>1 DEF InitStream
      <3> QED
        BY <2>1, <2>2, <3>1, <3>2, <3>3, <3>4, <3>5
    <2>3. CASE UNCHANGED <<table, chan, hw>>
      BY <2>1, <2>3
    <2>4. CASE /\ UNCHANGED <<table, chan>> /\ hw \subseteq hw'
               /\ \A g \in Ids : /\ <<"venc", g>> \in hw' => <<"venc", g>> \in hw
                                 /\ <<"rgn", g>> \in hw' => <<"rgn", g>> \in hw
      BY <2>1, <2>4
    <2> QED
      BY <1>2, <2>2, <2>3, <2>4, InitStreamEffect
  <1>3. CASE StartThreads
    BY <1>3 DEF StartThreads
  <1>4. ASSUME NEW s \in Streams, VisitUnlink(s) PROVE PipeInv'
    BY <1>4 DEF VisitUnlink, Visit, Set
  <1>5. ASSUME NEW s \in Streams, VisitLinked(s) PROVE PipeInv'
    BY <1>5 DEF VisitLinked, Visit, Set
  <1>6. ASSUME NEW s \in Streams, VisitGetVd(s) PROVE PipeInv'
    <2> DEFINE h == handle[s]
    <2>1. h \in table /\ h \in Ids /\ isInit
      BY <1>6 DEF VisitGetVd, Visit, HandleInv, PlaceInv, Ends
    <2>2. UNCHANGED <<isInit, table>>
      BY <1>6 DEF VisitGetVd, CreateRefused, CreateLeaves, Refused
    <2>3. CASE UNCHANGED <<chan, hw>>
      BY <2>1, <2>2, <2>3
    <2>4. CASE CreateLeaves(chan[h].venc, Encoder(h), "RecvPic")
      BY <2>1, <2>2, <2>4 DEF CreateLeaves, Fails, KeepsRecords
    <2>5. CASE ~UNCHANGED <<chan, hw>> /\ ~CreateLeaves(chan[h].venc, Encoder(h), "RecvPic")
      <3>1. hw' = hw \cup Encoder(h)
        BY <1>6, <2>5 DEF VisitGetVd, CreateRefused, Refused
      <3>2. \E f : Becomes(h, TRUE, f, chan[h].osd)
        BY <1>6, <2>1, <2>5, Fields DEF VisitGetVd, CreateRefused, Refused
      <3> QED
        BY <2>1, <2>2, <3>1, <3>2 DEF Becomes, Encoder
    <2> QED
      BY <2>3, <2>4, <2>5
  <1>7. ASSUME NEW s \in Streams, VisitWordwell(s) PROVE PipeInv'
    BY <1>7 DEF VisitWordwell, Visit, Set
  <1>8. ASSUME NEW s \in Streams, VisitLinkDown(s) PROVE PipeInv'
    BY <1>8 DEF VisitLinkDown, Visit, Set
  <1>9. CASE CreateOsd
    <2>1. handle[i] \in table /\ isInit
      BY <1>9 DEF CreateOsd, PlaceInv, HandleInv, TakingDown, Ends
    <2>2. CASE Refused
      BY <2>1, <2>2 DEF Refused
    <2>3. CASE OsdCreated(handle[i])
      <3>1. chan' = [chan EXCEPT ![handle[i]].osd = TRUE]
        BY <2>3 DEF OsdCreated
      <3>2. Becomes(handle[i], chan[handle[i]].venc, chan[handle[i]].flag, TRUE)
        BY <2>1, <3>1, Fields
      <3> QED
        BY <2>1, <2>3, <3>2 DEF OsdCreated, Overlay, Becomes
    <2>4. CASE CreateLeaves(chan[handle[i]].osd, Overlay(handle[i]), "AttachRgn")
      BY <2>1, <2>4 DEF CreateLeaves, Fails, KeepsRecords
    <2> QED
      BY <1>9, <2>2, <2>3, <2>4 DEF CreateOsd, CreateRefused
  <1>10. CASE DestroyOsd
    <2>1. handle[i] \in table /\ isInit
      BY <1>10 DEF DestroyOsd, PlaceInv, HandleInv, TakingDown, Ends
    <2>2. CASE Refused
      BY <2>1, <2>2 DEF Refused
    <2>3. CASE OsdDestroyed(handle[i])
      <3>1. chan' = [chan EXCEPT ![handle[i]].osd = FALSE]
        BY <2>3 DEF OsdDestroyed
      <3>2. Becomes(handle[i], chan[handle[i]].venc, chan[handle[i]].flag, FALSE)
        BY <2>1, <3>1, Fields
      <3> QED
        BY <2>1, <2>3, <3>2 DEF OsdDestroyed, Overlay, Becomes
    <2> QED
      BY <1>10, <2>2, <2>3 DEF DestroyOsd
  <1>11. CASE DestroyEncode
    <2>1. handle[i] \in table /\ isInit
      BY <1>11 DEF DestroyEncode, PlaceInv, HandleInv, TakingDown, Ends
    <2>2. UNCHANGED <<isInit, table, hw>>
      BY <1>11 DEF DestroyEncode
    <2>3. CASE chan' = chan
      BY <2>1, <2>2, <2>3
    <2>4. CASE chan' = [chan EXCEPT ![handle[i]].flag = "0"]
      <3>1. Becomes(handle[i], chan[handle[i]].venc, "0", chan[handle[i]].osd)
        BY <2>1, <2>4, Fields
      <3> QED
        BY <2>1, <2>2, <3>1 DEF Becomes
    <2> QED
      BY <1>11, <2>3, <2>4 DEF DestroyEncode
  <1>12. CASE Down
    BY <1>12 DEF Down, Set
  <1>13. CASE WorkerStarted
    BY <1>13 DEF WorkerStarted
  <1>14. CASE JoinWorker
    BY <1>14 DEF JoinWorker, Set
  <1>15. CASE StopEncode
    <2>1. handle[i] \in table /\ isInit
      BY <1>15 DEF StopEncode, PlaceInv, HandleInv, TakingDown, Ends
    <2>2. UNCHANGED <<isInit, table>>
      BY <1>15 DEF StopEncode, Refused
    <2>3. CASE UNCHANGED <<chan, hw>>
      BY <2>1, <2>2, <2>3
    <2>4. CASE /\ hw' = hw \ Encoder(handle[i])
               /\ chan' = [chan EXCEPT ![handle[i]].venc = FALSE,
                                       ![handle[i]].flag = "unset"]
      <3>1. Becomes(handle[i], FALSE, "unset", chan[handle[i]].osd)
        BY <2>1, <2>4, Fields
      <3> QED
        BY <2>1, <2>2, <2>4, <3>1 DEF Becomes, Encoder
    <2> QED
      BY <1>15, <2>3, <2>4 DEF StopEncode, Refused
  <1>16. CASE LeaveLoop
    BY <1>16 DEF LeaveLoop
  <1>17. CASE End4
    BY <1>17 DEF End4
  <1>18. CASE JoinOsd
    BY <1>18 DEF JoinOsd
  <1>19. CASE Unwind
    <2>1. CASE handle[i] \in alloc
      <3>1. Destroy(handle[i])
        BY <1>19, <2>1 DEF Unwind
      <3> DEFINE h == handle[i]
      <3>2. /\ isInit' = isInit /\ table' \subseteq table /\ table \ {h} \subseteq table'
            /\ hw' \subseteq hw /\ (h \in table' => hw' = hw)
            /\ table' # table => ~chan[h].venc /\ ~chan[h].osd
        BY <2>1, <3>1, DestroyEffect
      <3>3. \A g \in Ids : /\ chan'[g].venc = chan[g].venc
                                   \/ (g = h /\ ~chan[h].venc /\ ~chan'[h].venc)
                           /\ chan'[g].osd = chan[g].osd
                                   \/ (g = h /\ ~chan[h].osd /\ ~chan'[h].osd)
        BY <2>1, <3>1, DestroyEffect
      <3>4. \A g \in Ids, kind \in Kinds : g # h =>
                   (<<kind, g>> \in hw' <=> <<kind, g>> \in hw)
        BY <2>1, <3>1, DestroyEffect
      <3>5. isInit /\ h \in Ids /\ pc' = pc /\ pc # "start"
        BY <1>19, <2>1 DEF Unwind, PlaceInv
      <3>6. \A g \in table' : <<"vpss", g>> \in hw' /\ <<"vdec", g>> \in hw'
        <4>1. ASSUME NEW g \in table', g # h PROVE <<"vpss", g>> \in hw' /\ <<"vdec", g>> \in hw'
          BY <3>2, <3>4, <3>5, <4>1 DEF Kinds
        <4>2. h \in table' => <<"vpss", h>> \in hw' /\ <<"vdec", h>> \in hw'
          BY <3>2, <3>5
        <4> QED
          BY <4>1, <4>2
      <3>7. KeepsRecords =>
               \A g \in Ids : /\ <<"venc", g>> \in hw' => chan'[g].venc /\ g \in table'
                              /\ <<"rgn", g>> \in hw' => chan'[g].osd /\ g \in table'
        <4> HAVE KeepsRecords
        <4> TAKE g \in Ids
        <4>1. <<"venc", g>> \in hw' => chan[g].venc /\ g \in table
          BY <3>2
        <4>2. <<"rgn", g>> \in hw' => chan[g].osd /\ g \in table
          BY <3>2
        <4>3. g \in table /\ g \notin table' => ~chan[g].venc /\ ~chan[g].osd
          BY <3>2
        <4>4. chan[g].venc => chan'[g].venc
          BY <3>3
        <4>5. chan[g].osd => chan'[g].osd
          BY <3>3
        <4> QED
          BY <4>1, <4>2, <4>3, <4>4, <4>5
      <3> QED
        BY <3>2, <3>5, <3>6, <3>7
    <2>2. CASE handle[i] \notin alloc
      BY <1>19, <2>2 DEF Unwind, Refused
    <2> QED
      BY <2>1, <2>2
  <1>20. CASE Unwound
    BY <1>20 DEF Unwound
  <1>21. CASE DestroySystem
    BY <1>21 DEF DestroySystem
  <1>22. CASE Stop_rtspclient
    BY <1>22 DEF Stop_rtspclient
  <1>23. ASSUME NEW h \in Ids, WorkerStart(h) PROVE PipeInv'
    BY <1>23 DEF WorkerStart, Set
  <1>24. ASSUME NEW h \in Ids, WorkerLoop(h) PROVE PipeInv'
    BY <1>24 DEF WorkerLoop, Set
  <1>25. ASSUME NEW h \in Ids, WorkerFetch(h) PROVE PipeInv'
    BY <1>25 DEF WorkerFetch, Set
  <1>26. ASSUME NEW s \in Streams, Frame(s) PROVE PipeInv'
    BY <1>26 DEF Frame, Set
  <1>27. ASSUME NEW s \in Streams, SendDecData(s) PROVE PipeInv'
    BY <1>27, SendEffect
  <1>28. ASSUME NEW s \in Streams, OsdMessage(s) PROVE PipeInv'
    BY <1>28 DEF OsdMessage
  <1>29. CASE OsdDraw
    BY <1>29 DEF OsdDraw
  <1>30. CASE OsdLeave
    BY <1>30 DEF OsdLeave
  <1>31. CASE KeyThread
    <2>1. /\ UNCHANGED <<isInit, table>> /\ (~isInit => hw' = hw)
          /\ \A g \in Ids : /\ chan'[g].venc = chan[g].venc /\ chan'[g].osd = chan[g].osd
          /\ \A g \in Ids, kind \in Kinds \ {"vo"} : <<kind, g>> \in hw' <=> <<kind, g>> \in hw
      BY <1>31, KeyEffect DEF OnlyScreen
    <2> QED
      BY <2>1 DEF Kinds
  <1> QED
    BY <1>1, <1>2, <1>3, <1>4, <1>5, <1>6, <1>7, <1>8, <1>9, <1>10, <1>11,
       <1>12, <1>13, <1>14, <1>15, <1>16, <1>17, <1>18, <1>19, <1>20, <1>21,
       <1>22, <1>23, <1>24, <1>25, <1>26, <1>27, <1>28, <1>29, <1>30, <1>31
       DEF Next, Supervisor, Holder, Worker, Receiver, OsdThread

\* The invariant holds of every behaviour, whatever vendor calls may fail and
\* whether a close waits or not; its parts say what each of them changes.
THEOREM MediaInvariant == Spec => []IInv
  <1>1. Init => IInv
    <2> SUFFICES ASSUME Init PROVE IInv
      OBVIOUS
    <2>1. TypeOK
      <3>1. NewChannel \in Channels
        BY DEF NewChannel, Channels
      <3>2. StreamNum \in 0 .. StreamNum
        BY MediaAssumption
      <3>3. chan \in [Ids -> Channels] /\ handle \in [Streams -> Ids \cup {Null}]
        BY <3>1 DEF Init
      <3>4. osdIdx \in Streams /\ {i, key, k, show_chan} \subseteq 0 .. StreamNum
        BY <3>2, Numbers DEF Init
      <3> QED
        BY <3>3, <3>4 DEF Init, TypeOK
    <2>2. PlaceInv /\ HandleInv /\ LinkInv
      BY DEF Init, PlaceInv, HandleInv, LinkInv, TakingDown, Ends
    <2>3. WorkerInv /\ PipeInv
      BY <2>1 DEF Init, WorkerInv, PipeInv, On, TakingDown, TypeOK
    <2> QED
      BY <2>1, <2>2, <2>3 DEF IInv
  <1>2. IInv /\ [Next]_vars => IInv'
    <2>1. IInv /\ Next => IInv'
      BY TypeStep, PlaceStep, HandleStep, LinkStep, WorkerStep, PipeStep DEF IInv
    <2>2. IInv /\ UNCHANGED vars => IInv'
      <3> USE DEF vars, channels, device, streams, supervisor, drawer, keys
      <3>1. TypeOK /\ UNCHANGED vars => TypeOK'
        BY DEF TypeOK
      <3>2. PlaceInv /\ HandleInv /\ LinkInv /\ UNCHANGED vars =>
                PlaceInv' /\ HandleInv' /\ LinkInv'
        BY DEF PlaceInv, HandleInv, LinkInv
      <3>3. WorkerInv /\ PipeInv /\ UNCHANGED vars => WorkerInv' /\ PipeInv'
        BY DEF WorkerInv, PipeInv, On
      <3> QED
        BY <3>1, <3>2, <3>3 DEF IInv
    <2> QED
      BY <2>1, <2>2
  <1> QED
    BY <1>1, <1>2, PTL DEF Spec

\* The variables keep their types.
THEOREM TypeCorrect == Spec => []TypeOK
  <1>1. IInv => TypeOK
    BY DEF IInv
  <1> QED
    BY <1>1, MediaInvariant, PTL

\* The overlay thread, and a receiver if a close waits for its frame, finds the
\* window whose handle it has taken, whatever vendor calls fail.
THEOREM HandlesStayLive == Spec => []HandlesLive
  <1>1. IInv => HandlesLive
    BY DEF IInv, HandlesLive, PlaceInv, HandleInv, Ends, TypeOK
  <1> QED
    BY <1>1, MediaInvariant, PTL

\* A worker fetches from an encoder that is there, whatever vendor calls fail:
\* it is joined, with the flag down, before the encoder is stopped.
THEOREM WorkersAreJoined == Spec => []WorkerFetchesFromEncoder
  <1>1. IInv => WorkerFetchesFromEncoder
    BY DEF IInv, WorkerFetchesFromEncoder, WorkerInv
  <1> QED
    BY <1>1, MediaInvariant, PTL

\* An encoder or an overlay that runs has its pipe and its decoder, whatever
\* vendor calls fail but the two that leave one without a record of it:
\* MSA_DestroyChanWindow looks at the records before it destroys.
THEOREM PipesOutliveTheirUsers == KeepsRecords => (Spec => []NothingOnADeadPipe)
  <1> SUFFICES ASSUME KeepsRecords PROVE Spec => []NothingOnADeadPipe
    OBVIOUS
  <1>1. IInv => NothingOnADeadPipe
    BY DEF IInv, NothingOnADeadPipe, PipeInv, On, TypeOK
  <1> QED
    BY <1>1, MediaInvariant, PTL

-----------------------------------------------------------------------------
(* What the channels and the screen say, when vendor calls do not fail at  *)
(* the places that the two properties except.                              *)

\* The calls after whose failure hardware and channels differ do not fail.
NothingIsLeft ==
    MayFail \cap {"StartGrp", "BindVo", "CreateDec", "BindDec", "UnbindDec", "StopDec",
                  "UnbindSd", "SetStart", "SetBind", "RecvPic", "BindVenc",
                  "AttachRgn"} = {}

\* What runs for number h is what its channel says, and has its source; a
\* place keeps its source while it is hidden.
Told(h) ==
    IF h \in table
    THEN /\ On("vpss", h) /\ On("vdec", h) /\ chan[h].vdec
         /\ On("venc", h) <=> chan[h].venc
         /\ On("rgn", h) <=> chan[h].osd
         /\ On("vo", h) <=> chan[h].show
         /\ <<"vpss", h>> \in bound /\ <<"vo", h>> \in bound
         /\ On("venc", h) => <<"venc", h>> \in bound
         /\ On("sd", h) => h = 0 /\ <<"sd", h>> \in bound
    ELSE \A kind \in Kinds : ~On(kind, h)

ToldInv == alloc = table /\ (isInit => \A h \in Ids : Told(h))

\* A window is always put back and shown when it is asked to be.
ScreenObeys == MayFail \cap {"ShowStart", "SetUnbind", "SetStart", "SetBind"} = {}

\* What the key thread has made of the window of stream s so far.
ScreenOf(s) ==
    /\ keyPc \in {"none", "idle", "restore"} =>
          /\ Chan(s).show <=> show_chan \in {s, StreamNum}
          /\ Chan(s).win = IF show_chan = s THEN "full" ELSE "own"
    /\ keyPc \in {"show", "hide"} => Chan(s).win = "own"
    /\ keyPc = "show" /\ s < k => Chan(s).show
    /\ keyPc = "hide" => (Chan(s).show <=> s >= k \/ s = show_chan)

ScreenInv ==
    pc \notin Ends =>
       /\ keyPc = "none" => show_chan = StreamNum
       /\ keyPc = "restore" => k = 0
       /\ \A s \in Streams : handle[s] \in table => ScreenOf(s)

\* The three calls do what they are called for.
LEMMA CallsObey ==
    ASSUME TypeOK, ScreenObeys, NEW h \in Ids, NEW w \in {"own", "full"}
    PROVE  /\ Show(h) => chan'[h].show /\ chan'[h].win = chan[h].win
           /\ Hide(h) => ~chan'[h].show /\ chan'[h].win = chan[h].win
           /\ WindowSet(h, w) /\ chan[h].show => chan'[h].show /\ chan'[h].win = w
           /\ Show(h) \/ Hide(h) \/ WindowSet(h, w) =>
                 \A g \in Ids : g # h => chan'[g] = chan[g]
  <1>0. chan \in [Ids -> Channels]
    BY DEF TypeOK
  <1>1. ASSUME Show(h)
        PROVE  /\ chan'[h].show /\ chan'[h].win = chan[h].win
               /\ \A g \in Ids : g # h => chan'[g] = chan[g]
    <2>1. (chan[h].show /\ chan' = chan) \/ chan' = [chan EXCEPT ![h].show = TRUE]
      BY <1>1 DEF Show, Refused, channels, ScreenObeys, Fails
    <2> QED
      BY <1>0, <2>1 DEF Channels
  <1>2. ASSUME Hide(h)
        PROVE  /\ ~chan'[h].show /\ chan'[h].win = chan[h].win
               /\ \A g \in Ids : g # h => chan'[g] = chan[g]
    <2>1. (~chan[h].show /\ chan' = chan) \/ chan' = [chan EXCEPT ![h].show = FALSE]
      BY <1>2 DEF Hide, Refused, channels
    <2> QED
      BY <1>0, <2>1 DEF Channels
  <1>3. ASSUME WindowSet(h, w)
        PROVE  /\ chan[h].show => chan'[h].show /\ chan'[h].win = w
               /\ \A g \in Ids : g # h => chan'[g] = chan[g]
    <2>1. \/ ~chan[h].show /\ chan' = chan
          \/ chan[h].show /\ chan' = [chan EXCEPT ![h].win = w]
      BY <1>3 DEF WindowSet, Refused, channels, ScreenObeys, Fails
    <2> QED
      BY <1>0, <2>1 DEF Channels
  <1> QED
    BY <1>1, <1>2, <1>3

\* A call of the key thread while the windows are there is a call for a
\* stream that has one, or changes nothing.
LEMMA KeyCallIsMade ==
    ASSUME IInv, ScreenObeys, pc' \notin Ends, keyPc # "none", NEW s \in Streams, NEW call,
           KeyCall(s, call)
    PROVE  /\ pc \notin Ends
           /\ \/ handle[s] \in table /\ handle[s] \in Ids /\ call
              \/ handle[s] \notin table /\ UNCHANGED <<table, chan>>
  <1>1. Null \notin table
    BY DEF IInv, TypeOK, Ids, Null
  <1>2. pc' = pc
    BY DEF KeyCall, Ends
  <1>3. isInit
    BY <1>2 DEF IInv, PlaceInv, Ends
  <1>4. handle[s] # Null => handle[s] \in table /\ handle[s] \in alloc /\ handle[s] \in Ids
    BY <1>2 DEF IInv, HandleInv, TypeOK
  <1> QED
    BY <1>1, <1>2, <1>3, <1>4 DEF KeyCall, Refused, channels

\* A step of the key thread.
LEMMA KeyScreen ==
    ASSUME IInv, ScreenObeys, ScreenInv, KeyThread
    PROVE  ScreenInv'
  <1> SUFFICES ASSUME pc' \notin Ends PROVE ScreenInv'
    BY DEF ScreenInv
  <1> USE MediaAssumption DEF ScreenInv, ScreenOf, Chan
  <1>1. /\ UNCHANGED <<table, handle>> /\ (keyPc = "none" <=> keyPc' = "none")
        /\ pc' = pc /\ (keyPc \in {"restore", "hide"} => show_chan < StreamNum)
    BY KeyEffect DEF OnlyScreen, streams, Ends, IInv, PlaceInv
  <1>2. \A s \in 0 .. StreamNum : s < StreamNum => s \in Streams
    BY DEF Streams
  <1>3. /\ k \in 0 .. StreamNum /\ show_chan \in 0 .. StreamNum /\ key \in 0 .. StreamNum
        /\ Streams \subseteq Int /\ \A s \in Streams : 0 =< s /\ s < StreamNum
    BY DEF IInv, TypeOK, Streams
  <1>4. /\ table \subseteq Ids
        /\ \A s, r \in Streams : handle[s] = handle[r] /\ handle[s] \in table => s = r
    BY DEF IInv, TypeOK, HandleInv, Ids, Null
  <1>5. TypeOK
    BY DEF IInv
  <1>6. CASE \E c \in Keys : KeyPress(c)
    <2>1. /\ keyPc = "idle" /\ k' = 0 /\ UNCHANGED <<chan, show_chan>>
          /\ keyPc' = IF show_chan < StreamNum THEN "restore" ELSE "show"
      BY <1>6 DEF KeyPress, channels
    <2>2. show_chan < StreamNum \/ show_chan = StreamNum
      BY <1>3
    <2> QED
      BY <1>1, <1>3, <2>1, <2>2
  <1>7. CASE KeyRestore
    <2>1. /\ keyPc = "restore" /\ keyPc' = "show" /\ k' = 0 /\ show_chan \in Streams
          /\ KeyCall(show_chan, WindowSet(handle[show_chan], "own"))
      BY <1>1, <1>2, <1>3, <1>7 DEF KeyRestore
    <2>2. \A s \in Streams : s # show_chan /\ handle[s] \in table => Chan(s).win = "own"
      BY <1>1, <2>1
    <2>3. CASE handle[show_chan] \in table /\ handle[show_chan] \in Ids
                   /\ WindowSet(handle[show_chan], "own")
      <3>1. Chan(show_chan).show
        BY <1>1, <2>1, <2>3
      <3>2. /\ chan'[handle[show_chan]].win = "own"
            /\ \A g \in Ids : g # handle[show_chan] => chan'[g] = chan[g]
        BY <1>5, <2>3, <3>1, CallsObey
      <3> QED
        BY <1>1, <1>3, <1>4, <2>1, <2>2, <3>2
    <2>4. CASE handle[show_chan] \notin table /\ UNCHANGED <<table, chan>>
      BY <1>1, <1>3, <2>1, <2>2, <2>4
    <2> QED
      BY <2>1, <2>3, <2>4, KeyCallIsMade
  <1>8. CASE KeyShow
    <2>1. /\ keyPc = "show" /\ keyPc' = "show" /\ k' = k + 1 /\ k \in Streams
          /\ KeyCall(k, Show(handle[k]))
      BY <1>2, <1>3, <1>8 DEF KeyShow
    <2>2. \A s \in Streams : s < k + 1 => s = k \/ s < k
      <3>1. k \in Int /\ \A s \in Streams : s \in Int
        BY <1>3
      <3> QED
        BY <3>1
    <2>3. CASE handle[k] \in table /\ handle[k] \in Ids /\ Show(handle[k])
      <3>1. /\ chan'[handle[k]].show /\ chan'[handle[k]].win = chan[handle[k]].win
            /\ \A g \in Ids : g # handle[k] => chan'[g] = chan[g]
        BY <1>5, <2>3, CallsObey
      <3> QED
        BY <1>1, <1>4, <2>1, <2>3, <2>2, <3>1
    <2>4. CASE handle[k] \notin table /\ UNCHANGED <<table, chan>>
      BY <1>1, <2>1, <2>4, <2>2
    <2> QED
      BY <2>1, <2>3, <2>4, KeyCallIsMade
  <1>9. CASE KeyShown
    <2>1. /\ keyPc = "show" /\ k = StreamNum /\ show_chan' = key /\ k' = 0 /\ chan' = chan
          /\ keyPc' = IF key < StreamNum THEN "hide" ELSE "idle"
      BY <1>9 DEF KeyShown, channels
    <2>2. \A s \in Streams : handle[s] \in table => Chan(s).win = "own" /\ Chan(s).show
      BY <1>1, <1>3, <2>1
    <2>3. key < StreamNum \/ key = StreamNum
      BY <1>3
    <2>4. \A s \in Streams : s >= 0 /\ s # StreamNum
      BY MediaAssumption DEF Streams
    <2> QED
      BY <1>1, <2>1, <2>2, <2>3, <2>4
  <1>10. CASE KeyHide
    <2>1. /\ keyPc = "hide" /\ keyPc' = "hide" /\ k' = k + 1 /\ k \in Streams
          /\ show_chan' = show_chan
      BY <1>2, <1>3, <1>10 DEF KeyHide
    <2>2. \A s \in Streams : /\ s >= k + 1 => s # k /\ s >= k
                             /\ s >= k => s = k \/ s >= k + 1
      BY <1>3
    <2>3. CASE UNCHANGED chan /\ (k = show_chan \/ handle[k] \notin table)
      BY <1>1, <2>1, <2>2, <2>3
    <2>4. CASE k # show_chan /\ handle[k] \in table /\ handle[k] \in Ids /\ Hide(handle[k])
      <3>1. /\ ~chan'[handle[k]].show /\ chan'[handle[k]].win = chan[handle[k]].win
            /\ \A g \in Ids : g # handle[k] => chan'[g] = chan[g]
        BY <1>5, <2>4, CallsObey
      <3> QED
        BY <1>1, <1>3, <1>4, <2>1, <2>2, <2>4, <3>1
    <2>5. CASE k = show_chan
      BY <1>10, <2>3, <2>5 DEF KeyHide, Refused, channels
    <2>6. CASE k # show_chan
      <3>1. KeyCall(k, Hide(handle[k]))
        BY <1>10, <2>6 DEF KeyHide
      <3> QED
        BY <2>1, <2>3, <2>4, <2>6, <3>1, KeyCallIsMade
    <2> QED
      BY <2>5, <2>6
  <1>11. CASE KeyFull
    <2>1. /\ keyPc = "hide" /\ keyPc' = "idle" /\ k = StreamNum /\ show_chan \in Streams
          /\ KeyCall(show_chan, WindowSet(handle[show_chan], "full"))
          /\ show_chan' = show_chan
      BY <1>1, <1>2, <1>3, <1>11 DEF KeyFull
    <2>2. \A s \in Streams : /\ handle[s] \in table =>
                                   Chan(s).win = "own" /\ (Chan(s).show <=> s = show_chan)
                             /\ s # StreamNum
      BY <1>1, <1>3, <2>1
    <2>3. CASE handle[show_chan] \in table /\ handle[show_chan] \in Ids
                   /\ WindowSet(handle[show_chan], "full")
      <3>1. Chan(show_chan).show
        BY <2>1, <2>2, <2>3
      <3>2. /\ chan'[handle[show_chan]].win = "full" /\ chan'[handle[show_chan]].show
            /\ \A g \in Ids : g # handle[show_chan] => chan'[g] = chan[g]
        BY <1>5, <2>3, <3>1, CallsObey
      <3> QED
        BY <1>1, <1>4, <2>1, <2>2, <3>2
    <2>4. CASE handle[show_chan] \notin table /\ UNCHANGED <<table, chan>>
      BY <1>1, <2>1, <2>2, <2>4
    <2> QED
      BY <2>1, <2>3, <2>4, KeyCallIsMade
  <1>12. CASE KeyAfterEnd
    BY <1>12 DEF KeyAfterEnd, Ends
  <1> QED
    BY <1>6, <1>7, <1>8, <1>9, <1>10, <1>11, <1>12 DEF KeyThread

\* The steps that change channels otherwise leave alone what is on the screen.
LEMMA ScreenUntouched ==
    ASSUME IInv,
           \/ \E s \in Streams : VisitGetVd(s)
           \/ CreateOsd \/ DestroyOsd \/ DestroyEncode \/ StopEncode
    PROVE  /\ UNCHANGED <<table, handle, keyPc, k, show_chan>> /\ pc \notin Ends
           /\ \A g \in Ids : /\ chan'[g].show = chan[g].show /\ chan'[g].win = chan[g].win
                             /\ chan'[g].vdec = chan[g].vdec
  <1> USE DEF IInv, keys, streams
  <1>1. ASSUME NEW h \in Ids, NEW x, NEW f, NEW o, Becomes(h, x, f, o)
        PROVE  \A g \in Ids : /\ chan'[g].show = chan[g].show /\ chan'[g].win = chan[g].win
                              /\ chan'[g].vdec = chan[g].vdec
    BY <1>1 DEF Becomes
  <1>2. ASSUME NEW s \in Streams, VisitGetVd(s)
        PROVE  /\ UNCHANGED <<table, handle, keyPc, k, show_chan>> /\ pc \notin Ends
               /\ chan' = chan \/ \E h \in Ids : \E x, f, o : Becomes(h, x, f, o)
    <2>1. handle[s] \in Ids /\ pc = "loop"
      BY <1>2 DEF VisitGetVd, Visit, HandleInv, TypeOK
    <2> QED
      BY <1>2, <2>1, Fields DEF VisitGetVd, CreateRefused, CreateLeaves, Refused, channels, Ends
  <1>3. ASSUME CreateOsd
        PROVE  /\ UNCHANGED <<table, handle, keyPc, k, show_chan>> /\ pc \notin Ends
               /\ chan' = chan \/ \E h \in Ids : \E x, f, o : Becomes(h, x, f, o)
    <2>1. handle[i] \in Ids
      BY <1>3 DEF CreateOsd, PlaceInv, TypeOK
    <2> QED
      BY <1>3, <2>1, Fields DEF CreateOsd, OsdCreated, CreateRefused, CreateLeaves, Refused,
         channels, Ends
  <1>4. ASSUME DestroyOsd
        PROVE  /\ UNCHANGED <<table, handle, keyPc, k, show_chan>> /\ pc \notin Ends
               /\ chan' = chan \/ \E h \in Ids : \E x, f, o : Becomes(h, x, f, o)
    <2>1. handle[i] \in Ids
      BY <1>4 DEF DestroyOsd, PlaceInv, TypeOK, TakingDown
    <2> QED
      BY <1>4, <2>1, Fields DEF DestroyOsd, OsdDestroyed, Refused, channels, Ends
  <1>5. ASSUME DestroyEncode
        PROVE  /\ UNCHANGED <<table, handle, keyPc, k, show_chan>> /\ pc \notin Ends
               /\ chan' = chan \/ \E h \in Ids : \E x, f, o : Becomes(h, x, f, o)
    <2>1. handle[i] \in Ids
      BY <1>5 DEF DestroyEncode, PlaceInv, TypeOK, TakingDown
    <2> QED
      BY <1>5, <2>1, Fields DEF DestroyEncode, Ends
  <1>6. ASSUME StopEncode
        PROVE  /\ UNCHANGED <<table, handle, keyPc, k, show_chan>> /\ pc \notin Ends
               /\ chan' = chan \/ \E h \in Ids : \E x, f, o : Becomes(h, x, f, o)
    <2>1. handle[i] \in Ids
      BY <1>6 DEF StopEncode, PlaceInv, TypeOK, TakingDown
    <2> QED
      BY <1>6, <2>1, Fields DEF StopEncode, Refused, channels, Ends
  <1> QED
    BY <1>1, <1>2, <1>3, <1>4, <1>5, <1>6

\* The screen.
LEMMA ScreenStep ==
    ASSUME IInv, ScreenObeys, ScreenInv, Next
    PROVE  ScreenInv'
  <1> USE MediaAssumption DEF IInv, ScreenInv, ScreenOf, Chan, Ends, channels, device,
            streams, supervisor, drawer, keys, others, notKeys
  <1>1. CASE InitSystem
    BY <1>1 DEF InitSystem, PlaceInv
  <1>2. CASE InitStream
    <2>1. /\ i \in Streams /\ keyPc = "none" /\ pc = "init" /\ pc \notin Ends
          /\ UNCHANGED <<keyPc, k, show_chan>>
      BY <1>2, InitStreamEffect DEF IInv, PlaceInv
    <2>2. ASSUME NEW h \in Ids \ table, table' = table \cup {h},
                 chan' = [chan EXCEPT ![h] = NewChannel],
                 handle' = [handle EXCEPT ![i] = h]
          PROVE  ScreenInv'
      <3>1. \A g \in Ids : chan'[g] = IF g = h THEN NewChannel ELSE chan[g]
        BY <2>2 DEF TypeOK
      <3>2. \A s \in Streams : handle'[s] = IF s = i THEN h ELSE handle[s]
        BY <2>2 DEF TypeOK
      <3>3. NewChannel.show /\ NewChannel.win = "own"
        BY DEF NewChannel
      <3>4. StreamNum \notin Streams /\ show_chan = StreamNum
        BY <2>1 DEF Streams
      <3>5. \A s \in Streams :
               s # i => handle[s] = h \/ (handle'[s] \in table' => handle[s] \in table)
        BY <2>2, <3>2
      <3>6. \A s \in Streams : handle[s] # h
        BY <2>1, <2>2 DEF HandleInv, Ids, Null
      <3> QED
        BY <2>1, <2>2, <3>1, <3>2, <3>3, <3>4, <3>5, <3>6
    <2>3. CASE UNCHANGED <<table, chan, handle>>
      BY <2>1, <2>3
    <2> QED
      BY <1>2, <2>1, <2>2, <2>3, InitStreamEffect
  <1>3. CASE StartThreads
    BY <1>3 DEF StartThreads, PlaceInv
  <1>4. ASSUME NEW s \in Streams, VisitUnlink(s) PROVE ScreenInv'
    BY <1>4 DEF VisitUnlink, Visit, Set
  <1>5. ASSUME NEW s \in Streams, VisitLinked(s) PROVE ScreenInv'
    BY <1>5 DEF VisitLinked, Visit, Set
  <1>6. ASSUME NEW s \in Streams, VisitGetVd(s) PROVE ScreenInv'
    BY <1>6, ScreenUntouched DEF TypeOK
  <1>7. ASSUME NEW s \in Streams, VisitWordwell(s) PROVE ScreenInv'
    BY <1>7 DEF VisitWordwell, Visit, Set
  <1>8. ASSUME NEW s \in Streams, VisitLinkDown(s) PROVE ScreenInv'
    BY <1>8 DEF VisitLinkDown, Visit, Set
  <1>9. CASE CreateOsd
    BY <1>9, ScreenUntouched DEF TypeOK
  <1>10. CASE DestroyOsd
    BY <1>10, ScreenUntouched DEF TypeOK
  <1>11. CASE DestroyEncode
    BY <1>11, ScreenUntouched DEF TypeOK
  <1>12. CASE Down
    BY <1>12 DEF Down, Set
  <1>13. CASE WorkerStarted
    BY <1>13 DEF WorkerStarted
  <1>14. CASE JoinWorker
    BY <1>14 DEF JoinWorker, Set
  <1>15. CASE StopEncode
    BY <1>15, ScreenUntouched DEF TypeOK
  <1>16. CASE LeaveLoop
    BY <1>16 DEF LeaveLoop
  <1>17. CASE End4
    BY <1>17 DEF End4
  <1>18. CASE JoinOsd
    BY <1>18 DEF JoinOsd
  <1>19. CASE Unwind
    BY <1>19 DEF Unwind
  <1>20. CASE Unwound
    BY <1>20 DEF Unwound
  <1>21. CASE DestroySystem
    BY <1>21 DEF DestroySystem
  <1>22. CASE Stop_rtspclient
    BY <1>22 DEF Stop_rtspclient
  <1>23. ASSUME NEW h \in Ids, WorkerStart(h) PROVE ScreenInv'
    BY <1>23 DEF WorkerStart, Set
  <1>24. ASSUME NEW h \in Ids, WorkerLoop(h) PROVE ScreenInv'
    BY <1>24 DEF WorkerLoop, Set
  <1>25. ASSUME NEW h \in Ids, WorkerFetch(h) PROVE ScreenInv'
    BY <1>25 DEF WorkerFetch, Set
  <1>26. ASSUME NEW s \in Streams, Frame(s) PROVE ScreenInv'
    BY <1>26 DEF Frame, Set
  <1>27. ASSUME NEW s \in Streams, SendDecData(s) PROVE ScreenInv'
    BY <1>27, SendEffect
  <1>28. ASSUME NEW s \in Streams, OsdMessage(s) PROVE ScreenInv'
    BY <1>28 DEF OsdMessage
  <1>29. CASE OsdDraw
    BY <1>29 DEF OsdDraw
  <1>30. CASE OsdLeave
    BY <1>30 DEF OsdLeave
  <1>31. CASE KeyThread
    BY <1>31, KeyScreen
  <1> QED
    BY <1>1, <1>2, <1>3, <1>4, <1>5, <1>6, <1>7, <1>8, <1>9, <1>10, <1>11,
       <1>12, <1>13, <1>14, <1>15, <1>16, <1>17, <1>18, <1>19, <1>20, <1>21,
       <1>22, <1>23, <1>24, <1>25, <1>26, <1>27, <1>28, <1>29, <1>30, <1>31
       DEF Next, Supervisor, Holder, Worker, Receiver, OsdThread

\* When show_win has returned, the screen shows what was asked for, as long as
\* windows can be shown and moved.
THEOREM ScreenFollowsTheKeys == ScreenObeys => (Spec => []ScreenIsAsAsked)
  <1> SUFFICES ASSUME ScreenObeys PROVE Spec => []ScreenIsAsAsked
    OBVIOUS
  <1>1. Init => ScreenInv
    BY DEF Init, ScreenInv, Ends
  <1>2. IInv /\ ScreenInv /\ [Next]_vars => ScreenInv'
    <2>1. UNCHANGED vars /\ ScreenInv => ScreenInv'
      BY DEF vars, channels, streams, supervisor, keys, ScreenInv, ScreenOf, Chan
    <2> QED
      BY <2>1, ScreenStep
  <1>3. IInv /\ ScreenInv => ScreenIsAsAsked
    <2> SUFFICES ASSUME IInv, ScreenInv, keyPc = "idle", pc \notin Ends,
                        NEW s \in Streams, handle[s] \in table
                 PROVE  /\ Chan(s).show = (show_chan \in {s, StreamNum})
                        /\ Chan(s).win = IF show_chan = s THEN "full" ELSE "own"
      BY DEF ScreenIsAsAsked, Ends
    <2>1. ScreenOf(s)
      BY DEF ScreenInv
    <2>2. Chan(s) \in Channels
      BY DEF IInv, TypeOK, Chan
    <2>3. Chan(s).show \in BOOLEAN
      BY <2>2 DEF Channels
    <2>4. /\ Chan(s).show <=> show_chan \in {s, StreamNum}
          /\ Chan(s).win = IF show_chan = s THEN "full" ELSE "own"
      BY <2>1 DEF ScreenOf
    <2> QED
      BY <2>3, <2>4
  <1>4. (ScreenObeys /\ Spec) => []ScreenInv
    BY <1>1, <1>2, MediaInvariant, PTL DEF Spec
  <1> QED
    BY <1>3, <1>4, MediaInvariant, PTL

\* What is told of a number stays true while nothing of it changes.
LEMMA ToldAsBefore ==
    ASSUME NEW g \in Ids, Told(g), g \in table <=> g \in table',
           chan'[g].vdec = chan[g].vdec, chan'[g].venc = chan[g].venc,
           chan'[g].osd = chan[g].osd, chan'[g].show = chan[g].show,
           \A kind \in Kinds : /\ <<kind, g>> \in hw' <=> <<kind, g>> \in hw
                               /\ <<kind, g>> \in bound => <<kind, g>> \in bound'
    PROVE  Told(g)'
  BY DEF Told, On, Kinds

\* The parts of a number are nobody else's.
LEMMA PartsApart ==
    ASSUME NEW h \in Ids, NEW g \in Ids, g # h, NEW kind \in Kinds
    PROVE  /\ <<kind, g>> \notin Window(h) /\ <<kind, g>> \notin Pipe(h)
           /\ <<kind, g>> \notin Place(h) /\ <<kind, g>> \notin Sd(h)
           /\ <<kind, g>> \notin Encoder(h) /\ <<kind, g>> \notin Overlay(h)
  BY DEF Window, Pipe, Place, Sd, Decoder, Encoder, Overlay

\* A window that cannot be created leaves no hardware running.
LEMMA CreateFailsClean ==
    ASSUME CreateFails, NothingIsLeft
    PROVE  UNCHANGED <<table, alloc, chan, isInit, hw>> /\ bound \subseteq bound'
  <1>1. CASE Refused
    BY <1>1 DEF Refused, channels, device
  <1>2. CASE ~Refused
    <2>1. UNCHANGED channels
      BY <1>2 DEF CreateFails
    <2>2. PICK site \in MayFail : /\ \E part \in Left(Min(Free), site) : hw' = hw \cup part
                                  /\ bound' = bound \cup LeftBound(Min(Free), site)
      BY <1>2 DEF CreateFails, Bind
    <2>3. site \notin {"StartGrp", "BindVo", "CreateDec", "BindDec"}
      BY DEF NothingIsLeft
    <2>4. Left(Min(Free), site) = {{}}
      BY <2>3 DEF Left
    <2> QED
      BY <2>1, <2>2, <2>4 DEF channels
  <1> QED
    BY <1>1, <1>2

\* A window that is destroyed takes all that ran for it along.
LEMMA DestroyClean ==
    ASSUME TypeOK, NothingIsLeft, NEW h \in alloc, Destroy(h)
    PROVE  \/ UNCHANGED <<table, alloc, chan, hw, bound, isInit>>
           \/ /\ h \in table /\ ~chan[h].venc /\ ~chan[h].osd
              /\ table' = table \ {h} /\ alloc' = alloc \ {h} /\ isInit' = isInit
              /\ chan' = [chan EXCEPT ![h] = NewChannel]
              /\ hw' = hw \ Window(h) /\ bound' = bound \ (Pipe(h) \cup Sd(h))
  <1>1. CASE h \notin table \/ ~MayDestroy(h)
    BY <1>1 DEF Destroy, Refused, channels, device
  <1>2. CASE h \in table /\ MayDestroy(h)
    BY <1>2 DEF Destroy, Fails, NothingIsLeft, UnBind, Set, MayDestroy
  <1> QED
    BY <1>1, <1>2

\* The key thread's calls keep what is told true.
LEMMA ScreenTold ==
    ASSUME TypeOK, NothingIsLeft, ToldInv, NEW h \in table, NEW w \in {"own", "full"}, isInit,
           Show(h) \/ Hide(h) \/ WindowSet(h, w)
    PROVE  ToldInv'
  <1>0. chan \in [Ids -> Channels] /\ h \in Ids
    BY DEF TypeOK
  <1>1. UNCHANGED <<isInit, table, alloc>>
    BY DEF Show, Hide, WindowSet, Refused, channels
  <1>2. \A g \in Ids : /\ chan'[g].vdec = chan[g].vdec /\ chan'[g].venc = chan[g].venc
                       /\ chan'[g].osd = chan[g].osd
                       /\ g # h => chan'[g] = chan[g]
    <2>1. \/ chan' = chan \/ chan' = [chan EXCEPT ![h].show = TRUE]
          \/ chan' = [chan EXCEPT ![h].show = FALSE] \/ chan' = [chan EXCEPT ![h].win = w]
      BY DEF Show, Hide, WindowSet, Refused, channels
    <2>2. CASE chan' = chan
      BY <2>2
    <2>3. CASE chan' = [chan EXCEPT ![h].show = TRUE]
      BY <1>0, <2>3 DEF Channels
    <2>4. CASE chan' = [chan EXCEPT ![h].show = FALSE]
      BY <1>0, <2>4 DEF Channels
    <2>5. CASE chan' = [chan EXCEPT ![h].win = w]
      BY <1>0, <2>5 DEF Channels
    <2> QED
      BY <2>1, <2>2, <2>3, <2>4, <2>5
  <1>3. /\ hw' \in {hw, hw \cup Place(h), hw \ Place(h)} /\ bound \subseteq bound'
    BY DEF Show, Hide, WindowSet, Refused, device, Bind, Fails, NothingIsLeft
  <1>4. Told(h) /\ \A g \in Ids : Told(g)
    BY <1>0 DEF ToldInv
  <1>5. <<"vo", h>> \in hw' <=> chan'[h].show
    <2>1. Place(h) = {<<"vo", h>>}
      BY DEF Place
    <2>2. <<"vo", h>> \in hw <=> chan[h].show
      BY <1>4 DEF Told, On
    <2>3. CASE Refused
      BY <2>2, <2>3 DEF Refused, channels, device
    <2>4. CASE Show(h) /\ ~Refused
      <3>1. chan' = [chan EXCEPT ![h].show = TRUE] /\ hw' = hw \cup Place(h)
        BY <2>4 DEF Show
      <3>2. chan'[h].show
        BY <1>0, <3>1 DEF Channels
      <3> QED
        BY <2>1, <3>1, <3>2
    <2>5. CASE Hide(h) /\ ~Refused
      <3>1. chan' = [chan EXCEPT ![h].show = FALSE] /\ hw' = hw \ Place(h)
        BY <2>5 DEF Hide
      <3>2. ~chan'[h].show
        BY <1>0, <3>1 DEF Channels
      <3> QED
        BY <2>1, <3>1, <3>2
    <2>6. CASE WindowSet(h, w) /\ ~Refused
      <3>1. chan' = [chan EXCEPT ![h].win = w] /\ hw' = hw \cup Place(h) /\ chan[h].show
        BY <2>6 DEF WindowSet, Fails, NothingIsLeft
      <3>2. chan'[h].show = chan[h].show
        BY <1>0, <3>1 DEF Channels
      <3> QED
        BY <2>1, <3>1, <3>2
    <2> QED
      BY <2>3, <2>4, <2>5, <2>6
  <1>6. \A kind \in Kinds \ {"vo"}, g \in Ids : <<kind, g>> \in hw' <=> <<kind, g>> \in hw
    BY <1>0, <1>3 DEF Place
  <1>7. Told(h)'
    BY <1>0, <1>1, <1>2, <1>3, <1>4, <1>5, <1>6 DEF Told, On, Kinds
  <1>8. ASSUME NEW g \in Ids, g # h PROVE Told(g)'
    <2>1. \A kind \in Kinds : <<kind, g>> \in hw' <=> <<kind, g>> \in hw
      BY <1>0, <1>3, <1>8, PartsApart
    <2> QED
      BY <1>1, <1>2, <1>3, <1>4, <1>8, <2>1, ToldAsBefore
  <1> QED
    BY <1>1, <1>7, <1>8 DEF ToldInv

LEMMA ToldSame ==
    ASSUME ToldInv, UNCHANGED <<isInit, table, alloc, chan, hw, bound>>
    PROVE  ToldInv'
  BY DEF ToldInv, Told, On

\* A step of the key thread.
LEMMA KeyTold ==
    ASSUME IInv, NothingIsLeft, ToldInv, KeyThread
    PROVE  ToldInv'
  <1> USE DEF channels, device, IInv
  <1>1. Refused => ToldInv'
    BY ToldSame DEF Refused
  <1>2. ASSUME NEW s \in Streams, NEW w \in {"own", "full"},
               \/ KeyCall(s, Show(handle[s])) \/ KeyCall(s, Hide(handle[s]))
               \/ KeyCall(s, WindowSet(handle[s], w))
        PROVE  ToldInv'
    <2>1. CASE ~isInit \/ handle[s] = Null \/ handle[s] \notin alloc
      BY <1>1, <1>2, <2>1 DEF KeyCall
    <2>2. CASE isInit /\ handle[s] # Null /\ handle[s] \in alloc
      <3>1. Show(handle[s]) \/ Hide(handle[s]) \/ WindowSet(handle[s], w)
        BY <1>2, <2>2 DEF KeyCall
      <3>2. handle[s] \in table
        BY <2>2 DEF ToldInv
      <3> QED
        BY <2>2, <3>1, <3>2, ScreenTold
    <2> QED
      BY <2>1, <2>2
  <1>3. \A s \in 0 .. StreamNum : s < StreamNum => s \in Streams
    BY MediaAssumption DEF Streams
  <1>4. /\ k \in 0 .. StreamNum /\ show_chan \in 0 .. StreamNum
        /\ keyPc \in {"restore", "hide"} => show_chan < StreamNum
    BY DEF TypeOK, PlaceInv
  <1>5. CASE (\E c \in Keys : KeyPress(c)) \/ KeyShown \/ KeyAfterEnd
    BY <1>5, ToldSame DEF KeyPress, KeyShown, KeyAfterEnd
  <1>6. CASE KeyRestore
    BY <1>2, <1>3, <1>4, <1>6 DEF KeyRestore
  <1>7. CASE KeyShow
    BY <1>2, <1>3, <1>4, <1>7 DEF KeyShow
  <1>8. CASE KeyHide
    BY <1>1, <1>2, <1>3, <1>4, <1>8 DEF KeyHide
  <1>9. CASE KeyFull
    BY <1>2, <1>3, <1>4, <1>9 DEF KeyFull
  <1> QED
    BY <1>5, <1>6, <1>7, <1>8, <1>9 DEF KeyThread

\* An encoder or an overlay comes or goes, with its channel's word.
LEMMA EncoderTold ==
    ASSUME IInv, ToldInv, NEW h \in table, isInit, UNCHANGED <<isInit, table, alloc>>,
           NEW x \in BOOLEAN, NEW f, Becomes(h, x, f, chan[h].osd),
           hw' = IF x THEN hw \cup Encoder(h) ELSE hw \ Encoder(h),
           bound' = IF x THEN bound \cup Encoder(h) ELSE bound
    PROVE  ToldInv'
  <1>1. h \in Ids /\ \A g \in Ids : Told(g)
    BY DEF IInv, TypeOK, ToldInv
  <1>2. Told(h)'
    <2>1. \A kind \in Kinds \ {"venc"} : /\ <<kind, h>> \in hw' <=> <<kind, h>> \in hw
                                         /\ <<kind, h>> \in bound => <<kind, h>> \in bound'
      BY DEF Encoder
    <2>2. /\ <<"venc", h>> \in hw' <=> x
          /\ x => <<"venc", h>> \in bound'
      BY DEF Encoder
    <2> QED
      BY <1>1, <2>1, <2>2 DEF Told, On, Becomes, Kinds
  <1>3. ASSUME NEW g \in Ids, g # h PROVE Told(g)'
    <2>1. \A kind \in Kinds : /\ <<kind, g>> \in hw' <=> <<kind, g>> \in hw
                              /\ <<kind, g>> \in bound => <<kind, g>> \in bound'
      BY <1>1, <1>3, PartsApart
    <2> QED
      BY <1>1, <1>3, <2>1, ToldAsBefore DEF Becomes
  <1> QED
    BY <1>2, <1>3 DEF ToldInv

LEMMA OverlayTold ==
    ASSUME IInv, ToldInv, NEW h \in table, isInit, UNCHANGED <<isInit, table, alloc, bound>>,
           NEW x \in BOOLEAN, Becomes(h, chan[h].venc, chan[h].flag, x),
           hw' = IF x THEN hw \cup Overlay(h) ELSE hw \ Overlay(h)
    PROVE  ToldInv'
  <1>1. h \in Ids /\ \A g \in Ids : Told(g)
    BY DEF IInv, TypeOK, ToldInv
  <1>2. Told(h)'
    <2>1. \A kind \in Kinds \ {"rgn"} : <<kind, h>> \in hw' <=> <<kind, h>> \in hw
      BY DEF Overlay
    <2>2. <<"rgn", h>> \in hw' <=> x
      BY DEF Overlay
    <2> QED
      BY <1>1, <2>1, <2>2 DEF Told, On, Becomes, Kinds
  <1>3. ASSUME NEW g \in Ids, g # h PROVE Told(g)'
    <2>1. \A kind \in Kinds : <<kind, g>> \in hw' <=> <<kind, g>> \in hw
      BY <1>1, <1>3, PartsApart
    <2> QED
      BY <1>1, <1>3, <2>1, ToldAsBefore DEF Becomes
  <1> QED
    BY <1>2, <1>3 DEF ToldInv

\* What is told.
LEMMA ToldStep ==
    ASSUME IInv, NothingIsLeft, ToldInv, Next
    PROVE  ToldInv'
  <1> USE MediaAssumption DEF IInv, channels, device, streams, supervisor, drawer, keys,
            others, notKeys
  <1>1. CASE InitSystem
    BY <1>1 DEF InitSystem, IInv, PlaceInv, PipeInv, TypeOK, ToldInv, Told, On
  <1>2. CASE InitStream
    <2>1. isInit /\ isInit' /\ \A g \in Ids : Told(g)
      BY <1>2, InitStreamEffect DEF ToldInv
    <2>2. CASE Created(i)
      <3>1. i \in Streams
        BY <1>2, InitStreamEffect
      <3>2. PICK h \in Ids \ table :
              /\ table' = table \cup {h} /\ alloc' = alloc \cup {h}
              /\ chan' = [chan EXCEPT ![h] = NewChannel]
              /\ hw' = hw \cup Window(h)
              /\ bound' = bound \cup Place(h) \cup Sd(h) \cup Pipe(h)
        BY <2>2, <3>1, CreateEffect
      <3>3. \A g \in Ids : chan'[g] = IF g = h THEN NewChannel ELSE chan[g]
        BY <3>2 DEF TypeOK
      <3>4. \A kind \in Kinds : <<kind, h>> \notin hw
        BY <2>1, <3>2 DEF Told, On
      <3>5. Told(h)'
        <4>1. /\ <<"vpss", h>> \in hw' /\ <<"vdec", h>> \in hw' /\ <<"vo", h>> \in hw'
              /\ <<"venc", h>> \notin hw' /\ <<"rgn", h>> \notin hw'
              /\ <<"sd", h>> \in hw' => h = 0 /\ <<"sd", h>> \in bound'
              /\ <<"vpss", h>> \in bound' /\ <<"vo", h>> \in bound'
          BY <3>2, <3>4 DEF Window, Pipe, Place, Sd, Decoder, Kinds
        <4>2. /\ NewChannel.vdec /\ NewChannel.show
              /\ ~NewChannel.venc /\ ~NewChannel.osd
          BY DEF NewChannel
        <4> QED
          BY <3>2, <3>3, <4>1, <4>2 DEF Told, On
      <3>6. ASSUME NEW g \in Ids, g # h PROVE Told(g)'
        <4>1. \A kind \in Kinds : /\ <<kind, g>> \in hw' <=> <<kind, g>> \in hw
                                  /\ <<kind, g>> \in bound => <<kind, g>> \in bound'
          BY <3>2, <3>6, PartsApart
        <4> QED
          BY <2>1, <3>2, <3>3, <3>6, <4>1, ToldAsBefore
      <3> QED
        BY <3>2, <3>5, <3>6 DEF ToldInv
    <2>3. CASE Refused
      BY <2>3, ToldSame DEF Refused
    <2>4. CASE CreateFails
      <3>1. UNCHANGED <<table, alloc, chan, isInit, hw>> /\ bound \subseteq bound'
        BY <2>4, CreateFailsClean
      <3> QED
        BY <2>1, <3>1 DEF ToldInv, Told, On
    <2> QED
      BY <1>2, <2>2, <2>3, <2>4 DEF InitStream
  <1>3. CASE StartThreads
    BY <1>3, ToldSame DEF StartThreads
  <1>4. ASSUME NEW s \in Streams, VisitUnlink(s) PROVE ToldInv'
    BY <1>4, ToldSame DEF VisitUnlink
  <1>5. ASSUME NEW s \in Streams, VisitLinked(s) PROVE ToldInv'
    BY <1>5, ToldSame DEF VisitLinked
  <1>6. ASSUME NEW s \in Streams, VisitGetVd(s) PROVE ToldInv'
    <2> DEFINE h == handle[s]
    <2>1. h \in table /\ h \in Ids /\ isInit
      BY <1>6 DEF VisitGetVd, Visit, HandleInv, PlaceInv, Ends, TypeOK
    <2>2. CASE Refused
      BY <2>2, ToldSame DEF Refused
    <2>3. CASE ~Refused
      <3>1. /\ hw' = hw \cup Encoder(h) /\ bound' = bound \cup Encoder(h)
            /\ UNCHANGED <<isInit, table, alloc>>
        BY <1>6, <2>3 DEF VisitGetVd, BindEncoder, Bind, CreateRefused, CreateLeaves, Fails,
           NothingIsLeft
      <3>2. \E f \in {"0", "1"} : Becomes(h, TRUE, f, chan[h].osd)
        BY <1>6, <2>1, <2>3, Fields DEF VisitGetVd, CreateRefused, CreateLeaves, Fails,
           NothingIsLeft
      <3> QED
        BY <2>1, <3>1, <3>2, EncoderTold
    <2> QED
      BY <2>2, <2>3
  <1>7. ASSUME NEW s \in Streams, VisitWordwell(s) PROVE ToldInv'
    BY <1>7, ToldSame DEF VisitWordwell
  <1>8. ASSUME NEW s \in Streams, VisitLinkDown(s) PROVE ToldInv'
    BY <1>8, ToldSame DEF VisitLinkDown
  <1>9. CASE CreateOsd
    <2>1. handle[i] \in table /\ handle[i] \in Ids /\ isInit
      BY <1>9 DEF CreateOsd, PlaceInv, HandleInv, TakingDown, Ends, TypeOK
    <2>2. CASE Refused
      BY <2>2, ToldSame DEF Refused
    <2>3. CASE OsdCreated(handle[i])
      <3>1. Becomes(handle[i], chan[handle[i]].venc, chan[handle[i]].flag, TRUE)
        BY <2>1, <2>3, Fields DEF OsdCreated
      <3> QED
        BY <2>1, <2>3, <3>1, OverlayTold DEF OsdCreated
    <2> QED
      BY <1>9, <2>2, <2>3 DEF CreateOsd, CreateRefused, CreateLeaves, Fails, NothingIsLeft
  <1>10. CASE DestroyOsd
    <2>1. handle[i] \in table /\ handle[i] \in Ids /\ isInit
      BY <1>10 DEF DestroyOsd, PlaceInv, HandleInv, TakingDown, Ends, TypeOK
    <2>2. CASE Refused
      BY <2>2, ToldSame DEF Refused
    <2>3. CASE OsdDestroyed(handle[i])
      <3>1. Becomes(handle[i], chan[handle[i]].venc, chan[handle[i]].flag, FALSE)
        BY <2>1, <2>3, Fields DEF OsdDestroyed
      <3> QED
        BY <2>1, <2>3, <3>1, OverlayTold DEF OsdDestroyed
    <2> QED
      BY <1>10, <2>2, <2>3 DEF DestroyOsd
  <1>11. CASE DestroyEncode
    <2>1. handle[i] \in Ids
      BY <1>11 DEF DestroyEncode, PlaceInv, TakingDown, TypeOK
    <2>2. UNCHANGED <<isInit, table, alloc, hw, bound>>
      BY <1>11 DEF DestroyEncode
    <2>3. CASE chan' = chan
      BY <2>2, <2>3, ToldSame
    <2>4. CASE chan' = [chan EXCEPT ![handle[i]].flag = "0"]
      <3>1. Becomes(handle[i], chan[handle[i]].venc, "0", chan[handle[i]].osd)
        BY <2>1, <2>4, Fields
      <3>2. ASSUME NEW g \in Ids, Told(g) PROVE Told(g)'
        BY <2>2, <3>1, <3>2, ToldAsBefore DEF Becomes
      <3> QED
        BY <2>2, <3>2 DEF ToldInv
    <2> QED
      BY <1>11, <2>3, <2>4 DEF DestroyEncode
  <1>12. CASE Down
    BY <1>12, ToldSame DEF Down
  <1>13. CASE WorkerStarted
    BY <1>13, ToldSame DEF WorkerStarted
  <1>14. CASE JoinWorker
    BY <1>14, ToldSame DEF JoinWorker
  <1>15. CASE StopEncode
    <2>1. handle[i] \in table /\ handle[i] \in Ids /\ isInit
      BY <1>15 DEF StopEncode, PlaceInv, HandleInv, TakingDown, Ends, TypeOK
    <2>2. CASE Refused
      BY <2>2, ToldSame DEF Refused
    <2>3. CASE ~Refused
      <3>1. /\ hw' = hw \ Encoder(handle[i]) /\ UNCHANGED <<isInit, table, alloc, bound>>
            /\ chan' = [chan EXCEPT ![handle[i]].venc = FALSE,
                                    ![handle[i]].flag = "unset"]
        BY <1>15, <2>3 DEF StopEncode
      <3>2. Becomes(handle[i], FALSE, "unset", chan[handle[i]].osd)
        BY <2>1, <3>1, Fields
      <3> QED
        BY <2>1, <3>1, <3>2, EncoderTold
    <2> QED
      BY <2>2, <2>3
  <1>16. CASE LeaveLoop
    BY <1>16, ToldSame DEF LeaveLoop
  <1>17. CASE End4
    BY <1>17, ToldSame DEF End4
  <1>18. CASE JoinOsd
    BY <1>18, ToldSame DEF JoinOsd
  <1>19. CASE Unwind
    <2>1. CASE ~(handle[i] \in alloc)
      BY <1>19, <2>1, ToldSame DEF Unwind, Refused
    <2>2. CASE handle[i] \in alloc
      <3>1. PICK h \in Ids : h = handle[i] /\ h \in alloc /\ Destroy(h)
        BY <1>19, <2>2 DEF Unwind, TypeOK
      <3>2. CASE UNCHANGED <<table, alloc, chan, hw, bound, isInit>>
        BY <3>2, ToldSame
      <3>3. CASE /\ h \in table /\ ~chan[h].venc /\ ~chan[h].osd
                 /\ table' = table \ {h} /\ alloc' = alloc \ {h} /\ isInit' = isInit
                 /\ chan' = [chan EXCEPT ![h] = NewChannel]
                 /\ hw' = hw \ Window(h) /\ bound' = bound \ (Pipe(h) \cup Sd(h))
        <4>1. isInit /\ \A g \in Ids : Told(g)
          BY <1>19, <3>3 DEF ToldInv, Unwind, PlaceInv
        <4>2. Told(h)'
          <5>1. <<"venc", h>> \notin hw /\ <<"rgn", h>> \notin hw /\ (<<"sd", h>> \in hw => h = 0)
            BY <3>3, <4>1 DEF Told, On
          <5>2. \A kind \in Kinds : <<kind, h>> \notin hw'
            BY <3>3, <5>1 DEF Window, Pipe, Place, Sd, Decoder, Kinds
          <5> QED
            BY <3>3, <5>2 DEF Told, On
        <4>3. ASSUME NEW g \in Ids, g # h PROVE Told(g)'
          <5>1. \A kind \in Kinds : /\ <<kind, g>> \in hw' <=> <<kind, g>> \in hw
                                    /\ <<kind, g>> \in bound => <<kind, g>> \in bound'
            BY <3>3, <4>1, <4>3, PartsApart
          <5>2. chan'[g] = chan[g]
            BY <3>3, <4>3
          <5> QED
            BY <3>3, <4>1, <4>3, <5>1, <5>2, ToldAsBefore
        <4> QED
          BY <3>3, <4>2, <4>3 DEF ToldInv
      <3> QED
        BY <3>1, <3>2, <3>3, DestroyClean
    <2> QED
      BY <2>1, <2>2
  <1>20. CASE Unwound
    BY <1>20, ToldSame DEF Unwound
  <1>21. CASE DestroySystem
    BY <1>21 DEF DestroySystem, ToldInv
  <1>22. CASE Stop_rtspclient
    BY <1>22, ToldSame DEF Stop_rtspclient
  <1>23. ASSUME NEW h \in Ids, WorkerStart(h) PROVE ToldInv'
    BY <1>23, ToldSame DEF WorkerStart
  <1>24. ASSUME NEW h \in Ids, WorkerLoop(h) PROVE ToldInv'
    BY <1>24, ToldSame DEF WorkerLoop
  <1>25. ASSUME NEW h \in Ids, WorkerFetch(h) PROVE ToldInv'
    BY <1>25, ToldSame DEF WorkerFetch
  <1>26. ASSUME NEW s \in Streams, Frame(s) PROVE ToldInv'
    BY <1>26, ToldSame DEF Frame
  <1>27. ASSUME NEW s \in Streams, SendDecData(s) PROVE ToldInv'
    BY <1>27, ToldSame DEF SendDecData
  <1>28. ASSUME NEW s \in Streams, OsdMessage(s) PROVE ToldInv'
    BY <1>28, ToldSame DEF OsdMessage
  <1>29. CASE OsdDraw
    BY <1>29, ToldSame DEF OsdDraw
  <1>30. CASE OsdLeave
    BY <1>30, ToldSame DEF OsdLeave
  <1>31. CASE KeyThread
    BY <1>31, KeyTold
  <1> QED
    BY <1>1, <1>2, <1>3, <1>4, <1>5, <1>6, <1>7, <1>8, <1>9, <1>10, <1>11,
       <1>12, <1>13, <1>14, <1>15, <1>16, <1>17, <1>18, <1>19, <1>20, <1>21,
       <1>22, <1>23, <1>24, <1>25, <1>26, <1>27, <1>28, <1>29, <1>30, <1>31
       DEF Next, Supervisor, Holder, Worker, Receiver, OsdThread

\* Between two calls the channels name what runs and nothing else runs, as long
\* as no vendor call fails that leaves something behind.
THEOREM ChannelsTellHardware == NothingIsLeft => (Spec => []HandlesTellHardware)
  <1> SUFFICES ASSUME NothingIsLeft PROVE Spec => []HandlesTellHardware
    OBVIOUS
  <1>1. Init => ToldInv
    BY DEF Init, ToldInv
  <1>2. IInv /\ ToldInv /\ [Next]_vars => ToldInv'
    <2>1. UNCHANGED vars /\ ToldInv => ToldInv'
      BY ToldSame DEF vars, channels, device
    <2> QED
      BY <2>1, ToldStep
  <1>3. IInv /\ ToldInv => HandlesTellHardware
    <2> SUFFICES ASSUME IInv, ToldInv, isInit, NEW h \in Ids
                 PROVE  IF h \in table
                        THEN /\ On("vpss", h)
                             /\ On("vdec", h) = chan[h].vdec
                             /\ On("venc", h) = chan[h].venc
                             /\ On("rgn", h) = chan[h].osd
                             /\ On("vo", h) = chan[h].show
                             /\ \A part \in Pipe(h) \cup Place(h) \cup Sd(h) \cup Encoder(h) :
                                    part \in hw => part \in bound
                        ELSE \A kind \in Kinds : ~On(kind, h)
      BY DEF HandlesTellHardware
    <2>1. Told(h)
      BY DEF ToldInv
    <2>2. CASE h \notin table
      BY <2>1, <2>2 DEF Told
    <2>3. CASE h \in table
      <3>1. {chan[h].vdec, chan[h].venc, chan[h].osd, chan[h].show} \subseteq BOOLEAN
        BY DEF IInv, TypeOK, Channels
      <3>2. /\ On("vpss", h) /\ On("vdec", h) /\ chan[h].vdec
            /\ On("venc", h) <=> chan[h].venc
            /\ On("rgn", h) <=> chan[h].osd
            /\ On("vo", h) <=> chan[h].show
        BY <2>1, <2>3 DEF Told
      <3>3. /\ On("vdec", h) = chan[h].vdec /\ On("venc", h) = chan[h].venc
            /\ On("rgn", h) = chan[h].osd /\ On("vo", h) = chan[h].show
        <4>1. \A a, b \in BOOLEAN : (a <=> b) => a = b
          OBVIOUS
        <4>2. /\ On("vdec", h) \in BOOLEAN /\ On("venc", h) \in BOOLEAN
              /\ On("rgn", h) \in BOOLEAN /\ On("vo", h) \in BOOLEAN
          BY DEF On
        <4>3. On("vdec", h) = chan[h].vdec
          BY <3>1, <3>2, <4>1, <4>2
        <4>4. On("venc", h) = chan[h].venc
          BY <3>1, <3>2, <4>1, <4>2
        <4>5. On("rgn", h) = chan[h].osd
          BY <3>1, <3>2, <4>1, <4>2
        <4>6. On("vo", h) = chan[h].show
          BY <3>1, <3>2, <4>1, <4>2
        <4> QED
          BY <4>3, <4>4, <4>5, <4>6
      <3>4. \A part \in Pipe(h) \cup Place(h) \cup Sd(h) \cup Encoder(h) :
                part \in hw => part \in bound
        BY <2>1, <2>3 DEF Told, On, Pipe, Place, Sd, Encoder
      <3> QED
        BY <2>3, <3>2, <3>3, <3>4
    <2> QED
      BY <2>2, <2>3
  <1>4. (NothingIsLeft /\ Spec) => []ToldInv
    BY <1>1, <1>2, MediaInvariant, PTL DEF Spec
  <1> QED
    BY <1>3, <1>4, MediaInvariant, PTL
==============================================================================
