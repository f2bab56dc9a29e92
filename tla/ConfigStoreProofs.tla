-------------------------- MODULE ConfigStoreProofs --------------------------
(***************************************************************************)
(* What the configuration server keeps, for every choice of keys, names    *)
(* and bounds: the settings between requests are in their files, but for   *)
(* those of a file whose writing has failed, and a loss of power costs     *)
(* those of a file that was moved to its place and not yet written back;   *)
(* every other one comes back as it was or as the interrupted request      *)
(* asked.                                                                  *)
(***************************************************************************)
EXTENDS ConfigStore, WellFoundedInduction, TLAPS

-----------------------------------------------------------------------------
(* Facts about the tables.                                                 *)

\* The keys with code of their own are not among the settings.
LEMMA OwnCodeIsNoSetting == Settings \cap OwnCodeKeys = {}
  BY DEF Settings, OwnCodeKeys, EncSettings, RateSettings, RoiSettings, ImageSettings,
         OsdSettings, NetSettings, PortSettings, UpnpSettings, DdnsSettings, WfSettings,
         PtzSettings, MdSettings, AlarmSettings, ScheduleSettings, AreaSettings,
         SnapSettings, FtpSettings, SmtpSettings, MaskSettings, TimeSettings,
         CloudSettings, RecSettings

\* The names that the tables use are files.
LEMMA TheFiles ==
    Files = {"ENC_0", "ENC_1", "ENC_FW", "IMAGE_ATTR", "OVERLAY", "INFRARED", "NET",
             "PORT", "UPNP", "WF", "DDNS", "PTZCOM", "MD", "USER", "SNAPTIMER", "FTP",
             "SMTP", "VIDMASK", "SYS", "SYS_TIMER", "PTZ_PRESET", "CLOUD", "REC"}
<1>1. Len(File_array) = 23
  BY DEF File_array
<1>2. 1 .. 23 = {1, 2, 3, 4, 5, 6, 7, 8, 9, 10, 11, 12, 13, 14, 15, 16, 17, 18, 19, 20, 21,
                 22, 23}
  OBVIOUS
<1> QED
  BY <1>1, <1>2 DEF Files, File_array

\* Every key is kept in one of the files, whatever the channel.
LEMMA FileOfIsFile ==
    ASSUME NEW k, NEW m \in BOOLEAN
    PROVE  FileOf(k, m) \in Files
  BY TheFiles DEF FileOf

\* nettype, which a new MAC address clears, lives in the same file as the MAC.
LEMMA NettypeFile ==
    ASSUME NEW m
    PROVE  FileOf("net_nettype", m) = "NET"
<1>1. /\ "net_nettype" \in NetSettings
      /\ "net_nettype" \notin ChannelKeys \cup ImageSettings \cup OsdSettings
                              \cup PortSettings \cup UpnpSettings \cup DdnsSettings
      /\ "net_nettype" \notin WfSettings \cup PtzSettings \cup MdSettings \cup SnapSettings
                              \cup FtpSettings \cup SmtpSettings
      /\ "net_nettype" \notin MaskSettings \cup TimeSettings \cup CloudSettings
                              \cup RecSettings \cup {"time_systime"}
  BY DEF ChannelKeys, EncSettings, RateSettings, RoiSettings, ImageSettings, OsdSettings,
         NetSettings, PortSettings, UpnpSettings, DdnsSettings, WfSettings, PtzSettings,
         MdSettings, AlarmSettings, ScheduleSettings, AreaSettings, SnapSettings,
         FtpSettings, SmtpSettings, MaskSettings, TimeSettings, CloudSettings, RecSettings
<1> QED
  BY <1>1 DEF FileOf

\* The addresses live there, too.
LEMMA AddressFile ==
    ASSUME NEW k \in AddressKeys, NEW m
    PROVE  FileOf(k, m) = "NET"
<1>1. /\ k \in NetSettings \cup {"net_ip", "net_macaddr"}
      /\ k \notin ChannelKeys \cup ImageSettings \cup OsdSettings
  BY DEF AddressKeys, ChannelKeys, EncSettings, RateSettings, RoiSettings, ImageSettings,
         OsdSettings
<1>2. k \notin PortSettings \cup UpnpSettings \cup DdnsSettings \cup WfSettings
               \cup PtzSettings \cup MdSettings \cup SnapSettings
  BY DEF AddressKeys, PortSettings, UpnpSettings, DdnsSettings, WfSettings, PtzSettings,
         MdSettings, AlarmSettings, ScheduleSettings, AreaSettings, SnapSettings
<1>3. k \notin FtpSettings \cup SmtpSettings \cup MaskSettings \cup TimeSettings
               \cup CloudSettings \cup RecSettings \cup {"time_systime"}
  BY DEF AddressKeys, FtpSettings, SmtpSettings, MaskSettings, TimeSettings, CloudSettings,
         RecSettings
<1> QED
  BY <1>1, <1>2, <1>3 DEF FileOf

\* if.cfg is none of the server's files, and do_reset starts with a file that
\* has no defaults.
LEMMA NameFacts == /\ IfCfgFile \notin Files
                   /\ reset_table[1] \in {"ENC_0", "ENC_1"} /\ reset_table[1] \notin HasDefault
  BY TheFiles DEF IfCfgFile, reset_table, HasDefault

\* What a cell is made of.
LEMMA CellFacts ==
    /\ \A k \in StoredKeys \cap (Keys \cup AddressKeys), m \in BOOLEAN :
          Cell(k, m) \in Cells /\ Cell(k, m)[1] = k /\ Cell(k, m)[2] = FileOf(k, m)
    /\ \A c \in Cells : c[1] \in StoredKeys /\ c[2] \in Files
    /\ \A c \in Cells : c[1] = "net_nettype" => c[2] = "NET"
<1>1. ASSUME NEW k \in StoredKeys \cap (Keys \cup AddressKeys), NEW m \in BOOLEAN
      PROVE  Cell(k, m) \in Cells /\ Cell(k, m)[1] = k /\ Cell(k, m)[2] = FileOf(k, m)
  BY DEF Cells, Cell
<1>2. ASSUME NEW c \in Cells
      PROVE  c[1] \in StoredKeys /\ c[2] \in Files /\ (c[1] = "net_nettype" => c[2] = "NET")
  <2>1. PICK k \in StoredKeys \cap (Keys \cup AddressKeys), m \in BOOLEAN : c = <<k, FileOf(k, m)>>
    BY <1>2 DEF Cells, Cell
  <2> QED
    BY <2>1, FileOfIsFile, NettypeFile
<1> QED
  BY <1>1, <1>2

\* The settings that are promised: where they live and what they are not.
LEMMA DurableFacts ==
    /\ Durable \subseteq Cells
    /\ \A c \in Durable : /\ c[1] \in Settings /\ c[1] \notin OwnCodeKeys
                          /\ c[2] \in HasDefault /\ c[2] \in Loaded
                          /\ c[2] # "ENC_0" /\ c[2] # "ENC_1"
    /\ HasDefault = Loaded
  BY OwnCodeIsNoSetting DEF Durable, Loaded, HasDefault

\* The indices that a request starts with are in their ranges.
LEMMA FreshRanges == 0 \in 0 .. USER_MAX /\ -1 \in -1 .. USER_MAX /\ -1 \in -1 .. 9
  BY ConfigAssumption DEF ConfigAssumption

\* What FindUser answers: a place of the table, or one past the last.
LEMMA FindUserRange ==
    ASSUME NEW n
    PROVE  FindUser(n) \in 0 .. USER_MAX
<1>1. CASE \E s \in Slots : users[s].name = n
  <2> DEFINE Here == {s \in Slots : users[s].name = n}
  <2>1. Here \subseteq Nat /\ Here # {}
    BY <1>1, ConfigAssumption DEF ConfigAssumption, Slots
  <2>2. PICK t \in Here : \A r \in Here : ~ (<<r, t>> \in OpToRel(<, Nat))
    BY <2>1, NatLessThanWellFounded, WFMin
  <2>3. \A r \in 0 .. t - 1 : users[r].name # n
    <3>1. \A r \in Nat, q \in Nat : r < q => <<r, q>> \in OpToRel(<, Nat)
      BY DEF OpToRel
    <3>2. ASSUME NEW r \in 0 .. t - 1, users[r].name = n
          PROVE  FALSE
      <4>1. t \in Nat /\ t \in Slots /\ r \in Slots /\ r \in Nat /\ r < t
        BY ConfigAssumption DEF ConfigAssumption, Slots
      <4>2. r \in Here
        BY <3>2, <4>1
      <4> QED
        BY <4>1, <4>2, <3>1, <2>2
    <3> QED
      BY <3>2
  <2>4. (CHOOSE s \in Slots : users[s].name = n /\ \A r \in 0 .. s - 1 : users[r].name # n)
           \in Slots
    BY <2>2, <2>3
  <2>5. FindUser(n) \in Slots
    BY <1>1, <2>4 DEF FindUser
  <2> QED
    BY <2>5, ConfigAssumption DEF ConfigAssumption, Slots
<1>2. CASE ~ \E s \in Slots : users[s].name = n
  <2>1. FindUser(n) = USER_MAX
    BY <1>2 DEF FindUser
  <2> QED
    BY <2>1, ConfigAssumption DEF ConfigAssumption
<1> QED
  BY <1>1, <1>2

-----------------------------------------------------------------------------
(* The invariants.                                                         *)

\* The ranges of the variables that the properties are about.  do_reset never
\* gets past the first file of its table, which has no defaults.
Typed ==
    /\ mem \in [Cells -> Values]
    /\ flash \in [Cells -> Values \cup {Gone}]
    /\ ifCfg \in [ip : Values, mac : Values]
    /\ unsettled \subseteq Files \cup {IfCfgFile}
    /\ short \subseteq Files \cup {IfCfgFile}
    /\ eth0 \in Values
    /\ main \in BOOLEAN
    /\ pc \in {"idle", "parse", "reset", "reread", "write", "move", "reboot", "down"}
    /\ index \in -1 .. 9 /\ i \in 0 .. USER_MAX /\ index1 \in -1 .. USER_MAX
    /\ marks \subseteq Files
    /\ resetAt = 1
    /\ done \in [Cells -> Values]
    /\ asked \in [Cells -> SUBSET Values]
    /\ pc = "move" => tmp.file \in marks /\ tmp.cells \in [CellsOf(tmp.file) -> Values]

\* A setting that differs from its file has it marked, or the last write of the
\* file has failed; the copy on its way to the file is what memory holds.
Marking ==
    /\ pc \in {"idle", "reboot", "down"} => marks = {}
    /\ \A c \in Durable :
          /\ pc # "down" => Read(c) = mem[c] \/ c[2] \in marks \cup short
          /\ pc = "move" /\ c[2] = tmp.file => tmp.cells[c] = mem[c]

\* A file is marked only for something that the request has asked for.
AskedFor(f) == f = "USER" \/ \E c \in CellsOf(f) : asked[c] # {}

Justified == \A f \in marks : AskedFor(f)

\* Memory, and a file whose last write has not failed, hold what the last
\* finished request left or what the present one has asked for.
Origin ==
    \A c \in Durable :
       /\ c[2] \notin short => Read(c) \in {done[c]} \cup asked[c]
       /\ pc # "down" => mem[c] \in {done[c]} \cup asked[c]
       /\ pc \in {"idle", "reboot"} => mem[c] = done[c]

IInv == Typed /\ Marking /\ Justified /\ Origin

-----------------------------------------------------------------------------
(* The steps.                                                              *)

\* A pair that leaves memory and the history alone, marks files if anything, and
\* stays in the request or enters do_reset.
LEMMA NoMemoryStep ==
    ASSUME IInv, pc = "parse", pc' \in {"parse", "reset"},
           UNCHANGED <<mem, files, eth0, resetAt, done, asked>>,
           main' \in BOOLEAN, index' \in -1 .. 9, i' \in 0 .. USER_MAX,
           index1' \in -1 .. USER_MAX, marks \subseteq marks',
           marks' \subseteq marks \cup {"USER"}
    PROVE  IInv'
<1> USE DEF files
<1>1. Typed'
  BY TheFiles DEF IInv, Typed
<1>2. Marking'
  BY DEF IInv, Marking, Read
<1>3. Justified'
  BY DEF IInv, Justified, AskedFor, CellsOf
<1>4. Origin'
  BY DEF IInv, Origin, Read
<1> QED
  BY <1>1, <1>2, <1>3, <1>4 DEF IInv

\* A pair that changes one place in memory: a promised setting is marked and its
\* value remembered as asked for.
LEMMA OnePlaceStep ==
    ASSUME IInv, pc = "parse", pc' = "parse", NEW k \in StoredKeys \cap Keys,
           NEW v \in Values, mem' = [mem EXCEPT ![Cell(k, main)] = v],
           k \in Settings => FileOf(k, main) \in marks',
           \/ k \notin Settings /\ UNCHANGED <<asked, marks>>
           \/ asked' = [asked EXCEPT ![Cell(k, main)] = @ \cup {v}],
           UNCHANGED <<files, eth0, resetAt, done, main, index, i, index1>>,
           marks \subseteq marks', marks' \subseteq marks \cup {FileOf(k, main)}
    PROVE  IInv'
<1> USE DEF files
<1>1. Cell(k, main) \in Cells /\ Cell(k, main)[1] = k /\ Cell(k, main)[2] = FileOf(k, main)
  BY CellFacts DEF IInv, Typed
<1>2. Typed'
  BY <1>1, CellFacts DEF IInv, Typed
<1>3. \A c \in Durable : /\ c \in Cells
                         /\ c # Cell(k, main) => mem'[c] = mem[c]
                         /\ c = Cell(k, main) => mem'[c] = v /\ k \in Settings
                         /\ asked[c] \subseteq asked'[c]
  BY <1>1, DurableFacts DEF IInv, Typed
<1>4. Marking'
  BY <1>1, <1>3 DEF IInv, Marking, Read
<1>5. \A c \in Durable : c = Cell(k, main) => v \in asked'[c]
  BY <1>1, <1>3 DEF IInv, Typed
<1>6. Justified'
  <2>1. \A c \in Cells : asked[c] \subseteq asked'[c]
    BY <1>1 DEF IInv, Typed
  <2>2. \/ marks' = marks
        \/ marks' \subseteq marks \cup {FileOf(k, main)} /\ v \in asked'[Cell(k, main)]
    BY <1>1 DEF IInv, Typed
  <2>3. Cell(k, main) \in CellsOf(FileOf(k, main))
    BY <1>1 DEF CellsOf
  <2> QED
    BY <2>1, <2>2, <2>3 DEF IInv, Justified, AskedFor, CellsOf
<1>7. Origin'
  BY <1>3, <1>5 DEF IInv, Origin, Read
<1> QED
  BY <1>2, <1>4, <1>6, <1>7 DEF IInv

\* The pairs that set the mode of those behind them, or change nothing.
LEMMA ModePairs ==
    ASSUME IInv, TypePair \/ ChannelPair \/ RegionPair \/ IndexPair \/ PresetsPair
                 \/ OtherPair \/ RebootPair \/ ResetPair
    PROVE  IInv'
<1> SUFFICES /\ pc = "parse" /\ pc' \in {"parse", "reset"}
             /\ UNCHANGED <<mem, files, eth0, resetAt, done, asked>>
             /\ main' \in BOOLEAN /\ index' \in -1 .. 9 /\ i' \in 0 .. USER_MAX
             /\ index1' \in -1 .. USER_MAX /\ marks \subseteq marks'
             /\ marks' \subseteq marks \cup {"USER"}
  BY NoMemoryStep
<1> USE ConfigAssumption
    DEF ConfigAssumption, IInv, Typed, Pair, SomeKey, Stays, memory, files, locals
<1>1. CASE TypePair
  BY <1>1 DEF TypePair
<1>2. CASE ChannelPair
  BY <1>2 DEF ChannelPair
<1>3. CASE RegionPair
  BY <1>3 DEF RegionPair
<1>4. CASE IndexPair
  BY <1>4 DEF IndexPair
<1>5. CASE PresetsPair
  BY <1>5 DEF PresetsPair
<1>6. CASE OtherPair
  BY <1>6 DEF OtherPair
<1>7. CASE RebootPair
  BY <1>7 DEF RebootPair
<1>8. CASE ResetPair
  BY <1>8 DEF ResetPair
<1> QED
  BY <1>1, <1>2, <1>3, <1>4, <1>5, <1>6, <1>7, <1>8

\* The pairs about the user table.
LEMMA UserPairs ==
    ASSUME IInv, NEW n, NEW k, NEW v, UserNamePair(n) \/ UserDataPair(k, v)
    PROVE  IInv'
<1> SUFFICES /\ pc = "parse" /\ pc' \in {"parse", "reset"}
             /\ UNCHANGED <<mem, files, eth0, resetAt, done, asked>>
             /\ main' \in BOOLEAN /\ index' \in -1 .. 9 /\ i' \in 0 .. USER_MAX
             /\ index1' \in -1 .. USER_MAX /\ marks \subseteq marks'
             /\ marks' \subseteq marks \cup {"USER"}
  BY NoMemoryStep
<1> USE DEF IInv, Typed, Pair, SomeKey, Stays, memory, files, locals
<1>1. CASE UserNamePair(n)
  <2>1. i' \in {FindUser(NoName), FindUser(n), i} /\ index1' = i'
    BY <1>1 DEF UserNamePair
  <2>2. i' \in 0 .. USER_MAX /\ index1' \in -1 .. USER_MAX
    BY <2>1, FindUserRange, ConfigAssumption DEF ConfigAssumption
  <2> QED
    BY <1>1, <2>2 DEF UserNamePair
<1>2. CASE UserDataPair(k, v)
  BY <1>2, TheFiles DEF UserDataPair
<1> QED
  BY <1>1, <1>2

\* The pairs of one setting, and those of the keys with code of their own.
LEMMA StoredPairs ==
    ASSUME IInv, NEW k, NEW v \in Values,
           \/ SettingPair(k, v)
           \/ k \in QuietKeys \cap Keys /\ QuietPair(k, v)
           \/ IpPair(v)
           \/ DevtypePair(v)
    PROVE  IInv'
<1> USE DEF Pair, SomeKey, Stays, memory, files, locals
<1>1. main \in BOOLEAN /\ marks \subseteq Files
  BY DEF IInv, Typed
<1>2. CASE SettingPair(k, v)
  <2>1. k \in StoredKeys \cap Keys
    BY <1>2 DEF SettingPair, StoredKeys
  <2>2. FileOf(k, main) \in Files
    BY <1>1, FileOfIsFile
  <2> QED
    BY <1>1, <1>2, <2>1, <2>2, OnePlaceStep DEF SettingPair, Assign, Marked
<1>3. CASE k \in QuietKeys \cap Keys /\ QuietPair(k, v)
  <2>1. k \in StoredKeys \cap Keys /\ k \notin Settings
    BY <1>3, OwnCodeIsNoSetting DEF QuietKeys, StoredKeys, OwnCodeKeys
  <2>2. FileOf(k, main) \in Files
    BY <1>1, FileOfIsFile
  <2> QED
    BY <1>1, <1>3, <2>1, <2>2, OnePlaceStep DEF QuietPair, Assign
<1>4. CASE IpPair(v)
  <2>1. "net_ip" \in StoredKeys \cap Keys /\ "net_ip" \notin Settings
    BY <1>4, OwnCodeIsNoSetting DEF IpPair, StoredKeys, OwnCodeKeys
  <2>2. FileOf("net_ip", main) = "NET"
    BY AddressFile DEF AddressKeys
  <2> QED
    BY <1>1, <1>4, <2>1, <2>2, OnePlaceStep DEF IpPair, IpSet, Assign, Fill
<1>5. CASE DevtypePair(v)
  <2>1. "sys_devtype" \in StoredKeys \cap Keys /\ "sys_devtype" \notin Settings
    BY <1>5, OwnCodeIsNoSetting DEF DevtypePair, StoredKeys, OwnCodeKeys
  <2> QED
    BY <1>1, <1>5, <2>1, OnePlaceStep DEF DevtypePair, Fill
<1> QED
  BY <1>2, <1>3, <1>4, <1>5

\* The pair of the MAC address, which also clears nettype: the mark it sets is
\* that of the file which holds both.
LEMMA MacStep ==
    ASSUME IInv, NEW v \in Values, MacPair(v)
    PROVE  IInv'
<1> USE DEF Pair, SomeKey, Stays, memory, files, locals
<1>1. main \in BOOLEAN /\ marks \subseteq Files /\ "NET" \in Files
  BY TheFiles DEF IInv, Typed
<1>2. "net_macaddr" \in StoredKeys \cap Keys /\ "net_macaddr" \notin Settings
  BY OwnCodeIsNoSetting DEF MacPair, StoredKeys, OwnCodeKeys
<1>3. CASE type = "get" /\ Fill(Cell("net_macaddr", main), v) /\ UNCHANGED <<marks, ifChanged>>
  BY <1>1, <1>2, <1>3, OnePlaceStep DEF MacPair, Fill
<1>4. CASE ~ (type = "get" /\ Fill(Cell("net_macaddr", main), v)
              /\ UNCHANGED <<marks, ifChanged>>)
  <2>1. /\ mem' = [c \in Cells |-> IF c[1] = "net_macaddr" THEN v
                                   ELSE IF c[1] = "net_nettype" THEN 0 ELSE mem[c]]
        /\ asked' = [c \in Cells |-> IF c[1] = "net_macaddr" THEN asked[c] \cup {v}
                                     ELSE IF c[1] = "net_nettype" THEN asked[c] \cup {0}
                                     ELSE asked[c]]
        /\ marks' = marks \cup {"NET"}
        /\ pc = "parse" /\ pc' = "parse"
        /\ UNCHANGED <<flash, ifCfg, unsettled, short, eth0, main, index, i, index1, done, tmp,
                       resetAt>>
    BY <1>4 DEF MacPair
  <2>2. \A c \in Durable : /\ c \in Cells /\ c[1] # "net_macaddr"
                           /\ c[1] = "net_nettype" => c[2] = "NET"
    BY <1>2, CellFacts, DurableFacts
  <2>3. \A c \in Durable : /\ c[1] # "net_nettype" => mem'[c] = mem[c] /\ asked'[c] = asked[c]
                           /\ c[1] = "net_nettype" => mem'[c] = 0 /\ asked'[c] = asked[c] \cup {0}
    BY <2>1, <2>2
  <2>4. Typed'
    BY <1>1, <2>1 DEF IInv, Typed, Values
  <2>5. Marking'
    BY <2>1, <2>2, <2>3 DEF IInv, Marking, Read
  <2>6. Justified'
    <3>1. Cell("net_macaddr", main) \in CellsOf("NET") /\ Cell("net_macaddr", main)[1] = "net_macaddr"
      BY <1>1, <1>2, CellFacts, AddressFile DEF CellsOf, AddressKeys
    <3>2. asked'[Cell("net_macaddr", main)] # {}
      BY <2>1, <3>1 DEF CellsOf
    <3>3. \A c \in Cells : asked[c] \subseteq asked'[c]
      BY <2>1
    <3> QED
      BY <2>1, <3>1, <3>2, <3>3 DEF IInv, Justified, AskedFor, CellsOf
  <2>7. Origin'
    BY <2>1, <2>3 DEF IInv, Origin, Read
  <2> QED
    BY <2>4, <2>5, <2>6, <2>7 DEF IInv
<1> QED
  BY <1>3, <1>4

\* The two halves of do_reset's loop, about a file that has no defaults: none of
\* the promised settings lives there.
LEMMA ResetSteps ==
    ASSUME IInv, DefaultSetting \/ ReadBack
    PROVE  IInv'
<1> DEFINE f == reset_table[resetAt]
<1>0. f \notin HasDefault
  BY NameFacts DEF IInv, Typed
<1>1. CASE DefaultSetting
  <2>1. /\ pc = "reset" /\ pc' = "reread"
        /\ flash' = [c \in Cells |-> IF c[2] = f THEN Gone ELSE flash[c]]
        /\ asked' = [c \in Cells |-> IF c[2] = f THEN asked[c] \cup {0} ELSE asked[c]]
        /\ UNCHANGED <<mem, ifCfg, unsettled, short, eth0, main, index, i, index1, marks,
                       resetAt, done>>
    BY <1>0, <1>1 DEF DefaultSetting, memory, locals
  <2>2. \A c \in Durable : c \in Cells /\ flash'[c] = flash[c] /\ asked'[c] = asked[c]
    BY <1>0, <2>1, DurableFacts
  <2>3. \A c \in Cells : asked[c] \subseteq asked'[c]
    BY <2>1
  <2>4. Typed'
    BY <2>1 DEF IInv, Typed, Values
  <2>5. Marking' /\ Origin'
    BY <2>1, <2>2 DEF IInv, Marking, Origin, Read
  <2>6. Justified'
    BY <2>1, <2>3 DEF IInv, Justified, AskedFor, CellsOf
  <2> QED
    BY <2>4, <2>5, <2>6 DEF IInv
<1>2. CASE ReadBack
  <2>1. /\ pc = "reread" /\ pc' = "reset"
        /\ UNCHANGED <<mem, flash, ifCfg, unsettled, short, eth0, main, index, i, index1,
                       marks, resetAt, done, asked>>
    BY <1>0, <1>2 DEF ReadBack, files, history
  <2>2. Typed' /\ Marking'
    BY <2>1 DEF IInv, Typed, Marking, Read
  <2>3. Justified' /\ Origin'
    BY <2>1 DEF IInv, Justified, AskedFor, CellsOf, Origin, Read
  <2> QED
    BY <2>2, <2>3 DEF IInv
<1> QED
  BY <1>1, <1>2

\* The steps of a request before its pairs and behind them.
LEMMA RequestSteps ==
    ASSUME IInv, NEW f, Receive \/ EndOfPairs \/ WriteTmp(f) \/ MoveTmp \/ Finish
    PROVE  IInv'
<1> USE DEF memory, files, locals, history
<1>1. CASE Receive
  <2>1. Typed'
    BY <1>1 DEF Receive, IInv, Typed
  <2>2. Marking' /\ Justified'
    BY <1>1 DEF Receive, IInv, Marking, Justified, Read
  <2>3. \A c \in Durable : (c[2] \notin short => Read(c) = mem[c]) /\ mem[c] = done[c]
    BY <1>1 DEF Receive, IInv, Marking, Origin
  <2>4. Origin'
    BY <1>1, <2>3 DEF Receive, Origin, Read
  <2> QED
    BY <2>1, <2>2, <2>4 DEF IInv
<1>2. CASE EndOfPairs
  <2>1. Cell("net_ip", main) \in Cells /\ Cell("net_macaddr", main) \in Cells
    BY CellFacts DEF IInv, Typed, AddressKeys, StoredKeys, OwnCodeKeys
  <2>2. /\ pc = "parse" /\ pc' = "write"
        /\ ifCfg' \in [ip : Values, mac : Values]
        /\ unsettled' \subseteq Files \cup {IfCfgFile} /\ short' \subseteq Files \cup {IfCfgFile}
        /\ \A g \in Files : g \in short <=> g \in short'
        /\ UNCHANGED <<mem, flash, eth0, main, index, i, index1, marks, resetAt, done, asked>>
    BY <1>2, <2>1, NameFacts DEF EndOfPairs, IInv, Typed
  <2>3. Typed'
    BY <2>2 DEF IInv, Typed
  <2>4. Marking' /\ Origin'
    BY <2>2, CellFacts, DurableFacts DEF IInv, Marking, Origin, Read
  <2>5. Justified'
    BY <2>2 DEF IInv, Justified, AskedFor, CellsOf
  <2> QED
    BY <2>3, <2>4, <2>5 DEF IInv
<1>3. CASE WriteTmp(f)
  <2>1. \A c \in Durable : c[2] = f => c \in CellsOf(f)
    BY DurableFacts DEF CellsOf
  <2>2. tmp'.file = f /\ tmp'.cells = [c \in CellsOf(f) |-> mem[c]]
    BY <1>3 DEF WriteTmp
  <2>3. f \in marks
    BY <1>3 DEF WriteTmp, NextMarked
  <2>4. Typed'
    BY <1>3, <2>2, <2>3 DEF WriteTmp, IInv, Typed, CellsOf
  <2>5. Marking'
    BY <1>3, <2>1, <2>2 DEF WriteTmp, IInv, Marking, Read
  <2>6. Justified' /\ Origin'
    BY <1>3 DEF WriteTmp, IInv, Justified, AskedFor, CellsOf, Origin, Read
  <2> QED
    BY <2>4, <2>5, <2>6 DEF IInv
<1>4. CASE MoveTmp
  <2>1. /\ pc = "move" /\ pc' = "write" /\ marks' = marks \ {tmp.file}
        /\ UNCHANGED <<mem, ifCfg, eth0, main, index, i, index1, resetAt, done, asked>>
    BY <1>4 DEF MoveTmp, Unmarked
  <2>2. tmp.file \in Files /\ tmp.cells \in [CellsOf(tmp.file) -> Values]
    BY <2>1 DEF IInv, Typed
  <2>3. /\ flash' \in [Cells -> Values \cup {Gone}]
        /\ unsettled' = unsettled \cup {tmp.file}
        /\ short' \in {short \ {tmp.file}, short \cup {tmp.file}}
        /\ \A c \in Cells : c[2] # tmp.file => flash'[c] = flash[c]
        /\ tmp.file \notin short' => \A c \in CellsOf(tmp.file) : flash'[c] = tmp.cells[c]
    <3>1. CASE Put(tmp.file, tmp.cells)
      BY <2>2, <3>1 DEF Put, CellsOf, IInv, Typed
    <3>2. CASE PutFails(tmp.file, tmp.cells)
      BY <2>2, <3>2 DEF PutFails, CellsOf, IInv, Typed
    <3> QED
      BY <1>4, <3>1, <3>2 DEF MoveTmp
  <2>4. Typed'
    BY <2>1, <2>2, <2>3 DEF IInv, Typed
  <2>5. \A c \in Durable : /\ c \in Cells /\ mem[c] # Gone
                           /\ c[2] # tmp.file => /\ flash'[c] = flash[c]
                                                 /\ c[2] \in short' <=> c[2] \in short
                           /\ c[2] = tmp.file => flash'[c] = mem[c] \/ c[2] \in short'
    BY <2>1, <2>2, <2>3, DurableFacts DEF CellsOf, IInv, Marking, Typed, Values, Gone
  <2>6. Marking'
    BY <2>1, <2>5 DEF IInv, Marking, Read
  <2>7. Justified'
    BY <2>1 DEF IInv, Justified, AskedFor, CellsOf
  <2>8. Origin'
    BY <2>1, <2>5 DEF IInv, Origin, Read
  <2> QED
    BY <2>4, <2>6, <2>7, <2>8 DEF IInv
<1>5. CASE Finish
  <2>1. marks = {}
    BY <1>5 DEF Finish, NoneMarked, IInv, Typed, Files
  <2>2. /\ pc = "write" /\ pc' \in {"idle", "reboot"} /\ done' = mem
        /\ marks' = {} /\ main' = FALSE /\ index' = -1 /\ i' = 0 /\ index1' = -1
        /\ asked' = [c \in Cells |-> {}]
        /\ UNCHANGED <<mem, flash, ifCfg, unsettled, short, eth0, resetAt>>
    BY <1>5 DEF Finish, Fresh
  <2>3. Typed'
    BY <2>2, FreshRanges DEF IInv, Typed
  <2>4. Marking' /\ Justified'
    BY <2>1, <2>2 DEF IInv, Marking, Justified, Read
  <2>5. \A c \in Durable : c[2] \notin short => Read(c) = mem[c]
    BY <2>1, <2>2 DEF IInv, Marking
  <2>6. Origin'
    BY <2>2, <2>5 DEF Origin, Read
  <2> QED
    BY <2>3, <2>4, <2>6 DEF IInv
<1> QED
  BY <1>1, <1>2, <1>3, <1>4, <1>5

\* A restart leaves the contents of every settled file as they are.
LEMMA RestartFinds ==
    ASSUME Restart, flash \in [Cells -> Values \cup {Gone}]
    PROVE  /\ flash' \in [Cells -> Values \cup {Gone}]
           /\ unsettled' \subseteq unsettled
           /\ \A c \in Cells : c[2] \notin unsettled => flash'[c] = flash[c]
<1>1. PICK anew \in SUBSET (unsettled \cap Loaded) :
          /\ flash' \in {[c \in Cells |-> IF c[2] \in anew THEN 0 ELSE found[c]] : found \in Found}
          /\ unsettled' = anew
  BY DEF Restart
<1>2. PICK found \in Found : flash' = [c \in Cells |-> IF c[2] \in anew THEN 0 ELSE found[c]]
  BY <1>1
<1> DEFINE lost == {c \in Cells : c[2] \in unsettled}
<1>3. PICK left \in [lost -> Values \cup {Gone}] :
          found = [c \in Cells |-> IF c \in lost THEN left[c] ELSE flash[c]]
  BY DEF Found
<1>4. /\ \A c \in Cells : found[c] \in Values \cup {Gone}
      /\ \A c \in Cells : c[2] \notin unsettled => found[c] = flash[c]
  BY <1>3
<1>5. 0 \in Values
  BY DEF Values
<1> QED
  BY <1>1, <1>2, <1>4, <1>5

\* The steps of the others: the RTSP client, the kernel and the power.
LEMMA OtherSteps ==
    ASSUME IInv, NEW f, SetImageHw \/ WriteBack(f) \/ GoDown \/ Restart
    PROVE  IInv'
<1> USE DEF memory, files, locals, history
<1>1. CASE SetImageHw
  <2>1. \A c \in Durable : mem'[c] = mem[c]
    BY <1>1, DurableFacts DEF SetImageHw
  <2>2. Typed'
    BY <1>1 DEF SetImageHw, IInv, Typed, Values
  <2>3. Marking'
    BY <1>1, <2>1 DEF SetImageHw, IInv, Marking, Read
  <2>4. Justified'
    BY <1>1 DEF SetImageHw, IInv, Justified, AskedFor, CellsOf
  <2>5. Origin'
    BY <1>1, <2>1 DEF SetImageHw, IInv, Origin, Read
  <2> QED
    BY <2>2, <2>3, <2>4, <2>5 DEF IInv
<1>2. CASE WriteBack(f)
  <2>1. Typed' /\ Marking'
    BY <1>2 DEF WriteBack, IInv, Typed, Marking, Read
  <2>2. Justified' /\ Origin'
    BY <1>2 DEF WriteBack, IInv, Justified, AskedFor, CellsOf, Origin, Read
  <2> QED
    BY <2>1, <2>2 DEF IInv
<1>3. CASE GoDown
  <2>1. /\ pc' = "down" /\ marks' = {} /\ main' = FALSE
        /\ index' = -1 /\ i' = 0 /\ index1' = -1
        /\ mem' = [c \in Cells |-> 0]
        /\ UNCHANGED <<flash, ifCfg, unsettled, short, eth0, resetAt, done, asked>>
    BY <1>3 DEF GoDown, Fresh
  <2>2. Typed'
    BY <2>1, FreshRanges DEF IInv, Typed, Values
  <2>3. Marking' /\ Justified' /\ Origin'
    BY <2>1 DEF IInv, Marking, Justified, Origin, Read
  <2> QED
    BY <2>2, <2>3 DEF IInv
<1>4. CASE Restart
  <2>1. /\ pc = "down" /\ pc' = "idle" /\ done' = mem' /\ short' = {} /\ eth0' = ifCfg'.ip
        /\ mem' = [c \in Cells |-> IF c[2] \in Loaded THEN Read(c)' ELSE 0]
        /\ ifCfg' \in [ip : Values, mac : Values]
        /\ asked' = [c \in Cells |-> {}]
        /\ UNCHANGED <<main, index, i, index1, marks, resetAt>>
    BY <1>4 DEF Restart, IInv, Typed
  <2>2. flash' \in [Cells -> Values \cup {Gone}] /\ unsettled' \subseteq unsettled
    BY <1>4, RestartFinds DEF IInv, Typed
  <2>3. \A c \in Cells : Read(c)' \in Values
    BY <2>2 DEF Read, Values
  <2>4. Typed'
    BY <2>1, <2>2, <2>3 DEF IInv, Typed, Values
  <2>5. \A c \in Durable : mem'[c] = Read(c)'
    BY <2>1, DurableFacts
  <2>6. Marking' /\ Justified'
    BY <2>1, <2>5 DEF IInv, Marking, Justified
  <2>7. Origin'
    BY <2>1, <2>5 DEF Origin
  <2> QED
    BY <2>4, <2>6, <2>7 DEF IInv
<1> QED
  BY <1>1, <1>2, <1>3, <1>4

-----------------------------------------------------------------------------
(* The theorems.                                                           *)

\* The invariant holds in the end: IInv is inductive.
LEMMA Inductive == Spec => []IInv
<1>1. Init => IInv
  <2> SUFFICES ASSUME Init PROVE IInv
    OBVIOUS
  <2>1. Typed
    BY FreshRanges DEF Init, Typed, Values
  <2>2. Marking /\ Justified /\ Origin
    BY DurableFacts DEF Init, Marking, Justified, Origin, Read, Gone
  <2> QED
    BY <2>1, <2>2 DEF IInv
<1>2. IInv /\ [Next]_vars => IInv'
  <2> SUFFICES ASSUME IInv, [Next]_vars PROVE IInv'
    OBVIOUS
  <2>1. CASE SomePair
    <3>1. CASE TypePair \/ ChannelPair \/ RegionPair \/ IndexPair \/ PresetsPair
               \/ OtherPair \/ RebootPair \/ ResetPair
      BY <3>1, ModePairs
    <3>2. CASE \/ \E n \in Names : UserNamePair(n)
               \/ \E k \in {"user_password", "user_group"}, v \in Values : UserDataPair(k, v)
      BY <3>2, UserPairs
    <3>3. CASE \E v \in Values : MacPair(v)
      BY <3>3, MacStep
    <3>4. CASE \/ \E k \in Settings \cap Keys, v \in Values : SettingPair(k, v)
               \/ \E k \in QuietKeys \cap Keys, v \in Values : QuietPair(k, v)
               \/ \E v \in Values : IpPair(v) \/ DevtypePair(v)
      BY <3>4, StoredPairs
    <3> QED
      BY <2>1, <3>1, <3>2, <3>3, <3>4 DEF SomePair
  <2>2. CASE DefaultSetting \/ ReadBack
    BY <2>2, ResetSteps
  <2>3. CASE Receive \/ EndOfPairs \/ (\E f \in Files : WriteTmp(f)) \/ MoveTmp \/ Finish
    BY <2>3, RequestSteps
  <2>4. CASE \/ SetImageHw \/ GoDown \/ Restart
             \/ \E f \in Files \cup {IfCfgFile} : WriteBack(f)
    BY <2>4, OtherSteps
  <2>5. CASE UNCHANGED vars
    <3> USE <2>5 DEF vars, memory, files, locals, history
    <3>1. Typed' /\ Marking'
      BY DEF IInv, Typed, Marking, Read
    <3>2. Justified' /\ Origin'
      BY DEF IInv, Justified, AskedFor, CellsOf, Origin, Read
    <3> QED
      BY <3>1, <3>2 DEF IInv
  <2> QED
    BY <2>1, <2>2, <2>3, <2>4, <2>5 DEF Next, Process
<1> QED
  BY <1>1, <1>2, PTL DEF Spec

\* The variables keep their ranges; in particular the place in the user table
\* never gets beyond the one past the last.
THEOREM TypeCorrect == Spec => []TypeOK
<1>1. IInv => TypeOK
  BY DEF IInv, Typed, TypeOK
<1> QED
  BY <1>1, Inductive, PTL

\* Between requests every promised setting is in its file as it is in memory,
\* unless the last write of that file has failed, whatever the keys, the order of
\* the pairs and the length of the requests.
THEOREM SettingsSaved == Spec => []Saved
<1>1. IInv => Saved
  BY DEF IInv, Marking, Saved
<1> QED
  BY <1>1, Inductive, PTL

\* A power failure, whenever it comes, costs no settings but those of a file
\* moved to its place and not written back, or whose last write has failed: a
\* restart brings every other one back as the last finished request left it or
\* as the interrupted one asked for.  And a request moves only files of which it
\* has asked to change something.
THEOREM PowerFailureCostsOnlyUnsettled == Spec => NothingElseLost
<1>1. IInv /\ [Next]_vars =>
         [/\ pc = "down" /\ pc' = "idle" =>
               \A c \in Durable : c[2] \notin unsettled \cup short =>
                   mem'[c] \in {done[c]} \cup asked[c]
          /\ pc = "move" /\ pc' = "write" =>
               tmp.file = "USER" \/ \E c \in CellsOf(tmp.file) : asked[c] # {}]_vars
  <2> SUFFICES ASSUME IInv, Next
               PROVE  /\ pc = "down" /\ pc' = "idle" =>
                            \A c \in Durable : c[2] \notin unsettled \cup short =>
                                mem'[c] \in {done[c]} \cup asked[c]
                      /\ pc = "move" => AskedFor(tmp.file)
    BY DEF AskedFor
  <2>1. ASSUME pc = "down", pc' = "idle", NEW c \in Durable, c[2] \notin unsettled \cup short
        PROVE  mem'[c] \in {done[c]} \cup asked[c]
    <3>1. Restart
      BY <2>1 DEF Next, Process, SomePair, Pair, SomeKey, TypePair, ChannelPair, RegionPair, IndexPair,
             SettingPair, QuietPair, IpPair, MacPair, DevtypePair, UserNamePair,
             UserDataPair, PresetsPair, OtherPair, RebootPair, ResetPair, DefaultSetting,
             ReadBack, EndOfPairs, WriteTmp, MoveTmp, Finish, Receive, SetImageHw, GoDown,
             WriteBack
    <3>2. c \in Cells /\ c[2] \in Loaded
      BY DurableFacts
    <3>3. flash'[c] = flash[c]
      BY <2>1, <3>1, <3>2, RestartFinds DEF IInv, Typed
    <3>4. mem'[c] = Read(c)
      BY <3>1, <3>2, <3>3 DEF Restart, Read
    <3> QED
      BY <2>1, <3>4 DEF IInv, Origin
  <2>2. pc = "move" => AskedFor(tmp.file)
    BY DEF IInv, Typed, Justified
  <2> QED
    BY <2>1, <2>2
<1> QED
  BY <1>1, Inductive, PTL DEF Spec, NothingElseLost

-----------------------------------------------------------------------------
(* The address, of which there are two copies.                             *)

\* the place of the address in memory
Addr == <<"net_ip", "NET">>

\* The address has one place, whatever the channel, and no other key shares it.
LEMMA AddrFacts ==
    /\ Addr \in Cells /\ Addr[1] = "net_ip" /\ Addr[2] = "NET"
    /\ \A m \in BOOLEAN : Cell("net_ip", m) = Addr
    /\ \A c \in Cells : c[1] = "net_ip" => c = Addr
<1>1. ASSUME NEW m PROVE FileOf("net_ip", m) = "NET"
  BY AddressFile DEF AddressKeys
<1>2. \A m \in BOOLEAN : Cell("net_ip", m) = Addr
  BY <1>1 DEF Cell, Addr
<1>3. Addr \in Cells
  <2>1. "net_ip" \in StoredKeys \cap (Keys \cup AddressKeys) /\ TRUE \in BOOLEAN
    BY DEF StoredKeys, OwnCodeKeys, AddressKeys
  <2>2. Cell("net_ip", TRUE) \in Cells
    BY <2>1, CellFacts, Zenon
  <2> QED
    BY <1>2, <2>2
<1>4. ASSUME NEW c \in Cells, c[1] = "net_ip" PROVE c = Addr
  <2>1. PICK k \in StoredKeys \cap (Keys \cup AddressKeys), m \in BOOLEAN : c = <<k, FileOf(k, m)>>
    BY <1>4 DEF Cells, Cell
  <2> QED
    BY <1>1, <1>4, <2>1 DEF Addr
<1> QED
  BY <1>2, <1>3, <1>4 DEF Addr

\* While the pairs are taken an address that was asked for has both its copies
\* still to be written; after them if.cfg has it, and the file has it or is
\* marked, unless a write has failed.  Between requests nothing is asked for.
AddressInv ==
    /\ pc \in {"idle", "reboot"} => asked[Addr] = {}
    /\ pc \in {"parse", "reset", "reread"} /\ asked[Addr] # {} =>
          ifChanged /\ "NET" \in marks
    /\ pc \in {"write", "move"} /\ asked[Addr] # {} =>
          /\ IfCfgFile \in short \/ ifCfg.ip = mem[Addr]
          /\ "NET" \in marks \cup short \/ flash[Addr] = mem[Addr]
    /\ pc = "move" /\ tmp.file = "NET" => tmp.cells[Addr] = mem[Addr]

\* A pair asks for an address only together with both its copies, and takes no
\* mark away.
LEMMA AddressPairs ==
    ASSUME IInv, AddressInv, SomePair
    PROVE  AddressInv'
<1> USE DEF Pair, SomeKey, Stays, memory, files, locals
<1>0. SUFFICES /\ pc = "parse" /\ pc' \in {"parse", "reset"}
               /\ ifChanged => ifChanged'
               /\ marks \subseteq marks'
               /\ asked'[Addr] # {} => asked[Addr] # {} \/ (ifChanged' /\ "NET" \in marks')
  BY DEF AddressInv
<1>1. asked \in [Cells -> SUBSET Values] /\ main \in BOOLEAN
  BY DEF AddressInv, IInv, Typed
<1>2. ASSUME NEW k, k # "net_ip" PROVE Cell(k, main) # Addr
  BY <1>2 DEF Cell, Addr
<1>3. "net_ip" \notin Settings \cup QuietKeys
  BY OwnCodeIsNoSetting DEF OwnCodeKeys, QuietKeys
<1>4. CASE TypePair \/ ChannelPair \/ RegionPair \/ IndexPair \/ PresetsPair
           \/ OtherPair \/ RebootPair \/ ResetPair
  BY <1>1, <1>4 DEF TypePair, ChannelPair, RegionPair, IndexPair, PresetsPair, OtherPair,
                    RebootPair, ResetPair
<1>5. ASSUME NEW k \in Settings \cap Keys, NEW v \in Values, SettingPair(k, v)
      PROVE  /\ pc = "parse" /\ pc' = "parse" /\ UNCHANGED ifChanged
             /\ marks \subseteq marks' /\ asked'[Addr] = asked[Addr]
  BY <1>1, <1>2, <1>3, <1>5 DEF SettingPair, Assign
<1>6. ASSUME NEW k \in QuietKeys \cap Keys, NEW v \in Values, QuietPair(k, v)
      PROVE  /\ pc = "parse" /\ pc' = "parse" /\ UNCHANGED ifChanged
             /\ marks \subseteq marks' /\ asked'[Addr] = asked[Addr]
  BY <1>1, <1>2, <1>3, <1>6 DEF QuietPair, Assign
<1>7. ASSUME NEW v \in Values, IpPair(v)
      PROVE  /\ pc = "parse" /\ pc' = "parse"
             /\ marks \subseteq marks' /\ (ifChanged => ifChanged')
             /\ asked' = asked \/ (ifChanged' /\ "NET" \in marks')
  BY <1>7 DEF IpPair, IpSet, Fill
<1>8. ASSUME NEW v \in Values, MacPair(v)
      PROVE  /\ pc = "parse" /\ pc' = "parse"
             /\ marks \subseteq marks' /\ (ifChanged => ifChanged')
             /\ asked' = asked \/ (ifChanged' /\ "NET" \in marks')
  BY <1>8 DEF MacPair, Fill
<1>9. ASSUME NEW v \in Values, DevtypePair(v)
      PROVE  /\ pc = "parse" /\ pc' = "parse"
             /\ UNCHANGED <<ifChanged, marks, asked>>
  BY <1>9 DEF DevtypePair, Fill
<1>10. ASSUME NEW n \in Names, UserNamePair(n)
       PROVE  /\ pc = "parse" /\ pc' = "parse"
              /\ UNCHANGED <<ifChanged, marks, asked>>
  BY <1>10 DEF UserNamePair
<1>11. ASSUME NEW k \in {"user_password", "user_group"}, NEW v \in Values, UserDataPair(k, v)
       PROVE  /\ pc = "parse" /\ pc' = "parse" /\ UNCHANGED <<ifChanged, asked>>
              /\ marks \subseteq marks'
  BY <1>11 DEF UserDataPair
<1> QED
  BY <1>1, <1>4, <1>5, <1>6, <1>7, <1>8, <1>9, <1>10, <1>11 DEF SomePair

\* The rest of a request, and the others' steps.
LEMMA AddressRest ==
    ASSUME IInv, AddressInv,
           \/ DefaultSetting \/ ReadBack \/ EndOfPairs \/ MoveTmp \/ Finish
           \/ (\E f \in Files : WriteTmp(f))
           \/ Receive \/ SetImageHw \/ GoDown \/ Restart
           \/ (\E f \in Files \cup {IfCfgFile} : WriteBack(f))
    PROVE  AddressInv'
<1> USE AddrFacts DEF AddressInv, memory, files, locals, history
<1>1. reset_table[resetAt] # "NET" /\ reset_table[resetAt] \notin HasDefault
  BY NameFacts DEF IInv, Typed
<1>2. CASE DefaultSetting
  <2>1. asked'[Addr] = asked[Addr]
    BY <1>1, <1>2 DEF DefaultSetting
  <2> QED
    BY <1>2, <2>1 DEF DefaultSetting
<1>3. CASE ReadBack
  BY <1>1, <1>3 DEF ReadBack
<1>4. CASE EndOfPairs
  <2>1. Cell("net_ip", main) = Addr
    BY DEF IInv, Typed
  <2> QED
    BY <1>4, <2>1 DEF EndOfPairs
<1>5. ASSUME NEW f \in Files, WriteTmp(f) PROVE AddressInv'
  <2>1. f = "NET" => Addr \in CellsOf(f)
    BY DEF CellsOf
  <2> QED
    BY <1>5, <2>1 DEF WriteTmp
<1>6. CASE MoveTmp
  <2>1. /\ pc = "move" /\ pc' = "write" /\ marks' = marks \ {tmp.file}
        /\ UNCHANGED <<mem, ifCfg, asked>>
    BY <1>6 DEF MoveTmp, Unmarked
  <2>2. tmp.file \in Files
    BY <2>1 DEF IInv, Typed
  <2>3. IfCfgFile \in short => IfCfgFile \in short'
    BY <1>6, <2>2, NameFacts DEF MoveTmp, Put, PutFails
  <2>4. CASE tmp.file = "NET"
    <3>1. Addr \in CellsOf(tmp.file)
      BY <2>4 DEF CellsOf
    <3>2. flash'[Addr] = tmp.cells[Addr] \/ "NET" \in short'
      BY <1>6, <2>4, <3>1 DEF MoveTmp, Put, PutFails
    <3> QED
      BY <2>1, <2>3, <2>4, <3>2
  <2>5. CASE tmp.file # "NET"
    <3>1. flash'[Addr] = flash[Addr] /\ ("NET" \in short => "NET" \in short')
      <4>1. CASE Put(tmp.file, tmp.cells)
        BY <2>5, <4>1 DEF Put
      <4>2. CASE PutFails(tmp.file, tmp.cells)
        BY <2>5, <4>2 DEF PutFails
      <4> QED
        BY <1>6, <4>1, <4>2 DEF MoveTmp
    <3> QED
      BY <2>1, <2>3, <2>5, <3>1
  <2> QED
    BY <2>4, <2>5
<1>7. CASE Finish
  BY <1>7 DEF Finish
<1>8. CASE Receive
  BY <1>8 DEF Receive
<1>9. CASE SetImageHw
  <2>1. mem'[Addr] = mem[Addr]
    BY <1>9 DEF SetImageHw, ImageHw
  <2> QED
    BY <1>9, <2>1 DEF SetImageHw
<1>10. CASE GoDown
  BY <1>10 DEF GoDown
<1>11. CASE Restart
  BY <1>11 DEF Restart
<1>12. ASSUME NEW f, WriteBack(f) PROVE AddressInv'
  BY <1>12 DEF WriteBack
<1> QED
  BY <1>2, <1>3, <1>4, <1>5, <1>6, <1>7, <1>8, <1>9, <1>10, <1>11, <1>12

\* A request that asks for another address leaves the same one in if.cfg and in
\* the NET file, whatever else it asks for and whatever interface it reads, if
\* neither of the two writes fails.
THEOREM BothCopiesAgree == Spec => AddressesAgree
<1>1. Init => AddressInv
  BY AddrFacts DEF Init, AddressInv
<1>2. IInv /\ AddressInv /\ [Next]_vars => AddressInv'
  <2>1. AddressInv /\ UNCHANGED vars => AddressInv'
    BY DEF AddressInv, vars, memory, files, locals, history
  <2> QED
    BY <2>1, AddressPairs, AddressRest DEF Next, Process
<1>3. IInv /\ AddressInv /\ [Next]_vars =>
         [pc = "write" /\ pc' \in {"idle", "reboot"} /\ {"NET", IfCfgFile} \cap short = {} =>
            \A c \in Cells : c[1] = "net_ip" /\ asked[c] # {} => ifCfg'.ip = flash'[c]]_vars
  <2> SUFFICES ASSUME IInv, AddressInv, Next, NEW c \in Cells, c[1] = "net_ip",
                      asked[c] # {}, pc = "write", pc' \in {"idle", "reboot"},
                      {"NET", IfCfgFile} \cap short = {}
               PROVE  ifCfg'.ip = flash'[c]
    OBVIOUS
  <2>1. Finish
    BY DEF Next, Process, SomePair, Pair, SomeKey, TypePair, ChannelPair, RegionPair,
           IndexPair, SettingPair, QuietPair, IpPair, MacPair, DevtypePair, UserNamePair,
           UserDataPair, PresetsPair, OtherPair, RebootPair, ResetPair, DefaultSetting,
           ReadBack, EndOfPairs, WriteTmp, MoveTmp, Receive, SetImageHw, GoDown, Restart,
           WriteBack, memory, locals
  <2>2. "NET" \notin marks
    BY <2>1 DEF Finish, NoneMarked, IInv, Typed, Files
  <2>3. c = Addr
    BY AddrFacts
  <2> QED
    BY <2>1, <2>2, <2>3 DEF Finish, AddressInv, files
<1> QED
  BY <1>1, <1>2, <1>3, Inductive, PTL DEF Spec, AddressesAgree
=============================================================================
