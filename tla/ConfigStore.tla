----------------------------- MODULE ConfigStore -----------------------------
(***************************************************************************)
(* The configuration server (processMsg): the configuration in memory, its *)
(* files on flash, and what a request does to both.  A request is a list   *)
(* of key=value pairs taken one after the other; a pair may set the mode   *)
(* of those behind it (Get or Set, the channel, an index), change memory   *)
(* and mark the file as changed, or ask for a reboot.  Behind the last     *)
(* pair the network script and then the marked files are written, one      *)
(* after the other, and the board reboots if that was asked for.           *)
(* The board may lose power at any point; init_system then loads the files *)
(* again.                                                                  *)
(*                                                                         *)
(* There is one server and it takes one request at a time (av_server), so  *)
(* the only other party is the RTSP client, which enters the size of a new *)
(* picture into the encoder's settings (set_image_hw) with no lock.        *)
(*                                                                         *)
(* Of the values that a key can take the model tells two apart; the entry  *)
(* that an index selects is left out, and a request keeps its indices in   *)
(* the tables, which the code does not check everywhere.  The replies are  *)
(* left out.                                                               *)
(*                                                                         *)
(* Every file is written to /tmp and moved to its place by mv, which       *)
(* copies from one file system to another.  Nobody looks at the results    *)
(* and nothing is flushed, so that a write may fail half way (short), and  *)
(* a loss of power may find the copy in any state until the kernel has     *)
(* written it back (unsettled).                                            *)
(***************************************************************************)
EXTENDS ConfigKeys, Integers, FiniteSets

CONSTANTS Keys,         \* the keys that the requests name
          Names,        \* user names
          USER_MAX,     \* the places in the user table
          MaxPairs,     \* bound: the pairs of all requests
          MaxShort      \* bound: the files whose last write has failed

ASSUME NamesAssumption == "" \notin Names

ASSUME ConfigAssumption ==
    /\ USER_MAX \in Nat
    /\ MaxPairs \in Nat
    /\ MaxShort \in Nat

Values == {0, 1}

\* the keys that have a place in memory
OwnCodeKeys == {"bit_rate", "ip_interval", "net_ip", "net_macaddr", "time_systime",
                "sys_devtype"}

StoredKeys == Settings \cup OwnCodeKeys

\* a place in memory: the key and the file it is written to
Cell(k, main) == <<k, FileOf(k, main)>>

\* the addresses have their place in any case, since gen_if_cfg takes them from it
AddressKeys == {"net_ip", "net_macaddr"}

Cells == {Cell(k, main) : k \in StoredKeys \cap (Keys \cup AddressKeys), main \in BOOLEAN}

Slots == 0 .. USER_MAX - 1
NoName == ""
NoUser == [name |-> NoName, pw |-> 0]

\* what a file that has been unlinked, or is cut short, holds of a setting
Gone == -1

\* what gen_if_cfg writes
IfCfgFile == "if.cfg"

VARIABLES mem, users,                  \* the configuration in memory
          flash, userFile, ifCfg,      \* the files: settings, users, if.cfg
          unsettled,                   \* the files moved and not yet written back
          short,                       \* history: those whose last write has failed
          eth0,                        \* the address of the interface
          \* the request
          pc, pairs,
          type, main, region, index,   \* cmd_type and yl_set, channel = MAIN_STREAM_CHN,
                                       \* osd_region in range, index
          i, index1,                   \* the place in the user table
          marks, ifChanged, reboot,    \* file_changed_flag, if_cfg, reboot
          tmp,                         \* /tmp/writeconf.tmp, when it is complete
          resetAt,                     \* do_reset's place in its table
          \* history
          done, doneUsers, asked       \* memory after the last finished request; the
                                       \* values that this one has asked for

memory  == <<mem, users>>
files   == <<flash, userFile, ifCfg, unsettled, short>>
locals  == <<type, main, region, index, i, index1, marks, ifChanged, reboot>>
history == <<done, doneUsers, asked>>
vars == <<memory, files, eth0, pc, pairs, locals, tmp, resetAt, history>>

-----------------------------------------------------------------------------
(* Places and files.                                                       *)

CellsOf(f) == {c \in Cells : c[2] = f}

\* the settings that the server promises to keep: those of the files that are
\* loaded again, but for the address keys, which a Get overwrites
Durable == {c \in Cells : c[1] \in Settings /\ c[2] \in Loaded}

\* the next file of the loop
NextMarked(f) ==
    \E n \in 1 .. Len(File_array) : /\ File_array[n] = f /\ f \in marks
                                    /\ \A m \in 1 .. n - 1 : File_array[m] \notin marks

NoneMarked == \A n \in 1 .. Len(File_array) : File_array[n] \notin marks

\* what is read of a setting into memory that holds zeros, as at the start
Read(c) == IF flash[c] = Gone THEN 0 ELSE flash[c]

\* A file gets new contents by way of /tmp and mv.  Only a loss of power can
\* see the copy half done, and Restart says what it sees.
Put(f, new) ==
    /\ unsettled' = unsettled \cup {f} /\ short' = short \ {f}
    /\ flash' = [c \in Cells |-> IF c[2] = f THEN new[c] ELSE flash[c]]

\* Or /tmp or the flash is full: some of it is there, or the file as it was
PutFails(f, new) ==
    /\ Cardinality(short \cup {f}) <= MaxShort                   \* bound
    /\ unsettled' = unsettled \cup {f} /\ short' = short \cup {f}
    /\ flash' \in {flash} \cup
         {[c \in Cells |-> IF c[2] # f THEN flash[c]
                           ELSE IF c \in kept THEN new[c] ELSE Gone] : kept \in SUBSET CellsOf(f)}

-----------------------------------------------------------------------------
(* Pairs.                                                                  *)

\* a pair of the request, and one whose key is k
SomeKey == /\ pc = "parse" /\ pairs > 0
           /\ pairs' = pairs - 1
           /\ UNCHANGED <<files, eth0, tmp, done, doneUsers>>

Pair(k) == k \in Keys /\ SomeKey

Stays == UNCHANGED <<pc, resetAt>>

\* memory takes what was read elsewhere
Fill(c, v) == mem' = [mem EXCEPT ![c] = v] /\ UNCHANGED asked

\* memory takes the value, and the history remembers that it was asked for
Assign(c, v) == /\ mem' = [mem EXCEPT ![c] = v]
                /\ asked' = [asked EXCEPT ![c] = @ \cup {v}]

\* e_TYPE: 0 is Get, 1 is Set, more is a Set that does not mark the bit rate
TypePair ==
    /\ Pair("TYPE")
    /\ type' \in {"get", "set", "yl_set"}
    /\ UNCHANGED <<memory, main, region, index, i, index1, marks, ifChanged, reboot, asked>>
    /\ Stays

Setting == type \in {"set", "yl_set"}

ChannelPair ==
    /\ Pair("Chn")
    /\ main' \in BOOLEAN
    /\ UNCHANGED <<memory, type, region, index, i, index1, marks, ifChanged, reboot, asked>>
    /\ Stays

RegionPair ==
    /\ Pair("osd_region")
    /\ region' \in BOOLEAN
    /\ UNCHANGED <<memory, type, main, index, i, index1, marks, ifChanged, reboot, asked>>
    /\ Stays

\* index serves as motion area, mask area, access point and user operation
IndexPair ==
    /\ \/ Pair("md_area") /\ index' \in 0 .. 3
       \/ Pair("vdmask_NO") /\ index' \in 0 .. 2
       \/ Pair("wfsearch_accesspoints") /\ type = "get" /\ index' \in 0 .. 9
       \/ Pair("user_opt_type") /\ Setting /\ index' \in 0 .. 2
    /\ UNCHANGED <<memory, type, main, region, i, index1, marks, ifChanged, reboot, asked>>
    /\ Stays

\* a setting is looked at only when the index it needs was given
Selected(k) ==
    /\ k \in OsdSettings  => region
    /\ k \in AreaSettings => index \in 0 .. 3
    /\ k \in MaskSettings => index \in 0 .. 2

\* a mutation of Marked: the marks of the cloud settings forgotten
MarkedButCloud(k) == IF k \in CloudSettings THEN {} ELSE {FileOf(k, main)}

\* the file that a changed setting marks
Marked(k) == {FileOf(k, main)}

SettingPair(k, v) ==
    /\ k \in Settings
    /\ Pair(k)
    /\ Setting /\ Selected(k) /\ mem[Cell(k, main)] # v
    /\ Assign(Cell(k, main), v)
    /\ marks' = marks \cup Marked(k)
    /\ reboot' = (reboot \/ k \in CloudSettings)
    /\ UNCHANGED <<users, type, main, region, index, i, index1, ifChanged>>
    /\ Stays

QuietKeys == {"bit_rate", "ip_interval", "time_systime"}

\* e_bit_rate under yl_set, e_ip_interval and e_time_systime change memory only
QuietPair(k, v) ==
    /\ Pair(k)
    /\ Setting /\ mem[Cell(k, main)] # v
    /\ Assign(Cell(k, main), v)
    /\ marks' = IF k = "bit_rate" /\ type = "set" THEN marks \cup {FileOf(k, main)} ELSE marks
    /\ UNCHANGED <<users, type, main, region, index, i, index1, ifChanged, reboot>>
    /\ Stays

\* a mutation of IpSet: if.cfg is left to a change of the MAC
IpSetFileOnly(v) == /\ Assign(Cell("net_ip", main), v) /\ marks' = marks \cup {"NET"}
                    /\ UNCHANGED ifChanged

\* e_net_ip on Set
IpSet(v) == /\ Assign(Cell("net_ip", main), v) /\ marks' = marks \cup {"NET"}
            /\ ifChanged' = TRUE

\* on Get memory takes the address that the interface has
IpPair(v) ==
    /\ Pair("net_ip")
    /\ \/ Setting /\ mem[Cell("net_ip", main)] # v /\ IpSet(v)
       \/ /\ type = "get" /\ v = eth0
          /\ Fill(Cell("net_ip", main), v)
          /\ UNCHANGED <<marks, ifChanged>>
    /\ UNCHANGED <<users, type, main, region, index, i, index1, reboot>>
    /\ Stays

\* e_net_macaddr: sscanf stores four bytes for each of the six, so that the
\* last one clears nettype, which lies behind them.  On Get memory takes the
\* interface's, which no script ever changes (0).
MacPair(v) ==
    /\ Pair("net_macaddr")
    /\ \/ /\ Setting /\ mem[Cell("net_macaddr", main)] # v
          /\ mem' = [c \in Cells |-> IF c[1] = "net_macaddr" THEN v
                                     ELSE IF c[1] = "net_nettype" THEN 0 ELSE mem[c]]
          /\ asked' = [c \in Cells |-> IF c[1] = "net_macaddr" THEN asked[c] \cup {v}
                                       ELSE IF c[1] = "net_nettype" THEN asked[c] \cup {0}
                                       ELSE asked[c]]
          /\ marks' = marks \cup {"NET"}
          /\ ifChanged' = TRUE
       \/ /\ type = "get" /\ v = 0
          /\ Fill(Cell("net_macaddr", main), v)
          /\ UNCHANGED <<marks, ifChanged>>
    /\ UNCHANGED <<users, type, main, region, index, i, index1, reboot>>
    /\ Stays

\* e_sys_devtype: on Get memory takes what the picture's width says
DevtypePair(v) ==
    /\ Pair("sys_devtype") /\ type = "get"
    /\ Fill(Cell("sys_devtype", main), v)
    /\ UNCHANGED <<users, type, main, region, index, i, index1, marks, ifChanged, reboot>>
    /\ Stays

\* a mutation of FindUser: a loop that runs one too far
FindUserTooFar(n) ==
    IF \E s \in Slots : users[s].name = n
    THEN CHOOSE s \in Slots : users[s].name = n /\ \A r \in 0 .. s - 1 : users[r].name # n
    ELSE USER_MAX + 1

\* the loops over the user table: the first place with this name (no name: the
\* first free place), or one past the last
FindUser(n) ==
    IF \E s \in Slots : users[s].name = n
    THEN CHOOSE s \in Slots : users[s].name = n /\ \A r \in 0 .. s - 1 : users[r].name # n
    ELSE USER_MAX

\* e_user_name.  The table is changed here, but it is the password or the
\* group that marks the file.  Without an operation i is what it was.
UserNamePair(n) ==
    LET free == FindUser(NoName)
        here == FindUser(n)
        Name(s, new) == IF s \in Slots THEN [users EXCEPT ![s].name = new] ELSE users
    IN  /\ Pair("user_name")
        /\ \/ Setting /\ index = 0 /\ i' = free /\ users' = Name(free, n)      \* ADD_USER
           \/ Setting /\ index = 1 /\ i' = here /\ users' = Name(here, NoName) \* DEL_USER
           \/ Setting /\ index = 2 /\ i' = here /\ UNCHANGED users             \* MODIFY_USER
           \/ Setting /\ index \notin 0 .. 2 /\ UNCHANGED <<i, users>>
           \/ type = "get" /\ i' = here /\ UNCHANGED users
           \/ type = "none" /\ UNCHANGED <<i, users>>
        /\ index1' = i'
        /\ UNCHANGED <<mem, type, main, region, index, marks, ifChanged, reboot, asked>>
        /\ Stays

\* e_user_password, e_user_group: an entry outside the table is not the table's
UserDataPair(k, v) ==
    /\ k \in {"user_password", "user_group"}
    /\ Pair(k) /\ Setting
    /\ users' = IF index1 \in Slots THEN [users EXCEPT ![index1].pw = v] ELSE users
    /\ marks' = marks \cup {"USER"}
    /\ UNCHANGED <<mem, type, main, region, index, i, index1, ifChanged, reboot, asked>>
    /\ Stays

\* e_ptz_allpresets counts its presets with i
PresetsPair ==
    /\ Pair("ptz_allpresets") /\ type = "get"
    /\ i' = USER_MAX
    /\ UNCHANGED <<memory, type, main, region, index, index1, marks, ifChanged, reboot, asked>>
    /\ Stays

\* a pair that changes nothing: an answered key, a key that is not for this
\* type of request, a value that is there already
OtherPair ==
    /\ SomeKey
    /\ UNCHANGED <<memory, locals, asked>>
    /\ Stays

RebootPair ==
    /\ Pair("reboot") /\ Setting
    /\ reboot' = TRUE
    /\ UNCHANGED <<memory, type, main, region, index, i, index1, marks, ifChanged, asked>>
    /\ Stays

\* e_reset enters do_reset
ResetPair ==
    /\ Pair("reset") /\ Setting
    /\ pc' = "reset" /\ resetAt' = 1
    /\ UNCHANGED <<memory, locals, asked>>

-----------------------------------------------------------------------------
(* do_reset.                                                               *)

\* default_setting: the file is written anew, or unlinked when it has no defaults
DefaultSetting ==
    LET f == reset_table[resetAt]
    IN  /\ pc = "reset"
        /\ IF f \in HasDefault
           THEN LET zeros == [c \in CellsOf(f) |-> 0] IN Put(f, zeros) \/ PutFails(f, zeros)
           ELSE /\ flash' = [c \in Cells |-> IF c[2] = f THEN Gone ELSE flash[c]]
                /\ UNCHANGED <<unsettled, short>>
        /\ asked' = [c \in Cells |-> IF c[2] = f THEN asked[c] \cup {0} ELSE asked[c]]
        /\ pc' = "reread"
        /\ UNCHANGED <<memory, userFile, ifCfg, eth0, pairs, locals, tmp, resetAt,
                       done, doneUsers>>

\* read_cfg_file: a file that cannot be opened is tried again from its
\* defaults, and one that is short leaves the rest of memory as it is
ReadBack ==
    LET f == reset_table[resetAt]
    IN  /\ pc = "reread"
        /\ IF f \notin HasDefault
           THEN pc' = "reset" /\ UNCHANGED <<mem, resetAt, reboot>>
           ELSE /\ mem' = [c \in Cells |-> IF c[2] = f /\ flash[c] # Gone THEN flash[c]
                                           ELSE mem[c]]
                /\ IF resetAt = Len(reset_table)
                   THEN pc' = "parse" /\ reboot' = TRUE /\ UNCHANGED resetAt
                   ELSE pc' = "reset" /\ resetAt' = resetAt + 1 /\ UNCHANGED reboot
        /\ UNCHANGED <<users, files, eth0, pairs, type, main, region, index, i,
                       index1, marks, ifChanged, tmp, history>>

-----------------------------------------------------------------------------
(* The rest of a request.                                                  *)

Fresh == /\ type' = "none" /\ main' = FALSE /\ region' = FALSE
         /\ index' = -1 /\ i' = 0 /\ index1' = -1
         /\ marks' = {} /\ ifChanged' = FALSE /\ reboot' = FALSE

\* av_server has read a message.  A reboot takes its time, and the server goes on
\* for as long.
Receive ==
    /\ pc \in {"idle", "reboot"} /\ pairs > 0                     \* bound
    /\ pc' = "parse"
    /\ UNCHANGED <<memory, files, eth0, pairs, locals, tmp, resetAt, history>>

\* the last pair, and gen_if_cfg if an address has changed, by way of mv, too
EndOfPairs ==
    /\ pc = "parse"
    /\ LET new == [ip |-> mem[Cell("net_ip", main)], mac |-> mem[Cell("net_macaddr", main)]]
       IN \/ ~ifChanged /\ UNCHANGED <<ifCfg, unsettled, short>>
          \/ /\ ifChanged /\ unsettled' = unsettled \cup {IfCfgFile}
             /\ \/ ifCfg' = new /\ short' = short \ {IfCfgFile}
                \/ /\ Cardinality(short \cup {IfCfgFile}) <= MaxShort    \* bound
                   /\ ifCfg' \in {ifCfg, new} /\ short' = short \cup {IfCfgFile}
    /\ pc' = "write"
    /\ UNCHANGED <<memory, flash, userFile, eth0, pairs, locals, tmp, resetAt, history>>

NoTmp == [file |-> "", cells |-> [c \in {} |-> 0], users |-> [s \in {} |-> NoUser]]

\* write_cfg_file: the contents go to /tmp/writeconf.tmp ...
WriteTmp(f) ==
    /\ pc = "write" /\ NextMarked(f)
    /\ tmp' = [file |-> f, cells |-> [c \in CellsOf(f) |-> mem[c]], users |-> users]
    /\ pc' = "move"
    /\ UNCHANGED <<memory, files, eth0, pairs, locals, resetAt, history>>

\* a mutation of Unmarked: all marks are cleared with the first file
AllUnmarked == {}

\* CLR_FILE_CHANGED
Unmarked == marks \ {tmp.file}

\* ... which is then moved to its place; the mark is taken away in any case
MoveTmp ==
    /\ pc = "move"
    /\ \/ /\ Put(tmp.file, tmp.cells)
          /\ userFile' = IF tmp.file = "USER" THEN tmp.users ELSE userFile
       \/ /\ PutFails(tmp.file, tmp.cells)
          /\ userFile' \in {userFile} \cup
               {[s \in Slots |-> IF s \in kept THEN tmp.users[s] ELSE NoUser] :
                  kept \in IF tmp.file = "USER" THEN SUBSET Slots ELSE {}}
    /\ marks' = Unmarked
    /\ tmp' = NoTmp
    /\ pc' = "write"
    /\ UNCHANGED <<memory, ifCfg, eth0, pairs, type, main, region, index, i, index1,
                   ifChanged, reboot, resetAt, history>>

\* all written: the reply, or the reboot; the locals end and start afresh
Finish ==
    /\ pc = "write" /\ NoneMarked
    /\ pc' = IF reboot THEN "reboot" ELSE "idle"
    /\ Fresh
    /\ done' = mem /\ doneUsers' = users
    /\ asked' = [c \in Cells |-> {}]
    /\ UNCHANGED <<memory, files, eth0, pairs, tmp, resetAt>>

\* the memory that set_image_hw leaves: only the main channel's encoder settings
ImageHw == {"Stream_enable", "enc_type", "bit_rate"}

\* set_image_hw, called by the RTSP client
SetImageHw ==
    /\ pc # "down"
    /\ mem' = [c \in Cells |-> IF c[1] \in ImageHw /\ c[2] = "ENC_0" THEN 1 ELSE mem[c]]
    /\ mem' # mem
    /\ UNCHANGED <<users, files, eth0, pc, pairs, locals, tmp, resetAt, history>>

\* /sbin/reboot, or power lost at any point: memory is gone (users stands for the
\* table that was, until Restart)
GoDown ==
    /\ pc # "down"
    /\ pc' = "down"
    /\ Fresh
    /\ tmp' = NoTmp
    /\ mem' = [c \in Cells |-> 0]
    /\ UNCHANGED <<users, files, eth0, pairs, resetAt, history>>

\* the kernel writes a file back to flash
WriteBack(f) ==
    /\ pc # "down"
    /\ f \in unsettled /\ unsettled' = unsettled \ {f}
    /\ UNCHANGED <<memory, flash, userFile, ifCfg, short, eth0, pc, pairs, locals,
                   tmp, resetAt, history>>

\* What the flash holds after a loss of power: a file that was unsettled has
\* each of its settings as it was or as it was to be, or not at all
Found == LET lost == {c \in Cells : c[2] \in unsettled}
         IN {[c \in Cells |-> IF c \in lost THEN left[c] ELSE flash[c]] :
               left \in [lost -> Values \cup {Gone}]}

UserType == [name : Names \cup {NoName}, pw : Values]

\* if.sh gives the interface the address of if.cfg; init_system loads the files
\* of its table over the zeros that memory starts with, and writes those that
\* are missing anew from their defaults, by way of mv again (that these writes
\* succeed is assumed)
Restart ==
    /\ pc = "down"
    /\ \E anew \in SUBSET (unsettled \cap Loaded) :
         /\ flash' \in {[c \in Cells |-> IF c[2] \in anew THEN 0 ELSE found[c]] : found \in Found}
         /\ unsettled' = anew
    /\ mem' = [c \in Cells |-> IF c[2] \in Loaded THEN Read(c)' ELSE 0]
    /\ userFile' \in IF "USER" \in unsettled THEN [Slots -> UserType] ELSE {userFile}
    /\ users' = userFile'
    /\ ifCfg' \in IF IfCfgFile \in unsettled THEN [ip : Values, mac : Values] ELSE {ifCfg}
    /\ eth0' = ifCfg'.ip
    /\ short' = {}
    /\ done' = mem' /\ doneUsers' = users'
    /\ asked' = [c \in Cells |-> {}]
    /\ pc' = "idle"
    /\ UNCHANGED <<pairs, locals, tmp, resetAt>>

-----------------------------------------------------------------------------
\* the defaults are on flash and loaded; the first place of the user table is
\* taken (by one of the names, whichever)
Init ==
    /\ mem = [c \in Cells |-> 0] /\ flash = mem
    /\ \E n \in Names : users = [s \in Slots |-> IF s = 0 THEN [name |-> n, pw |-> 0] ELSE NoUser]
    /\ userFile = users
    /\ ifCfg = [ip |-> 0, mac |-> 0]
    /\ unsettled = {} /\ short = {}
    /\ eth0 = 0
    /\ pc = "idle" /\ pairs = MaxPairs
    /\ type = "none" /\ main = FALSE /\ region = FALSE
    /\ index = -1 /\ i = 0 /\ index1 = -1
    /\ marks = {} /\ ifChanged = FALSE /\ reboot = FALSE
    /\ tmp = NoTmp
    /\ resetAt = 1
    /\ done = mem /\ doneUsers = users
    /\ asked = [c \in Cells |-> {}]

SomePair ==
    \/ TypePair \/ ChannelPair \/ RegionPair \/ IndexPair
    \/ \E k \in Settings \cap Keys, v \in Values : SettingPair(k, v)
    \/ \E k \in QuietKeys \cap Keys, v \in Values : QuietPair(k, v)
    \/ \E v \in Values : IpPair(v) \/ MacPair(v) \/ DevtypePair(v)
    \/ \E n \in Names : UserNamePair(n)
    \/ \E k \in {"user_password", "user_group"}, v \in Values : UserDataPair(k, v)
    \/ PresetsPair \/ OtherPair \/ RebootPair \/ ResetPair

\* what the server does on its own once it has a request
Process == \/ SomePair \/ DefaultSetting \/ ReadBack \/ EndOfPairs
           \/ \E f \in Files : WriteTmp(f)
           \/ MoveTmp \/ Finish

Next == \/ Receive \/ Process \/ SetImageHw \/ GoDown \/ Restart
        \/ \E f \in Files \cup {IfCfgFile} : WriteBack(f)

Spec == Init /\ [][Next]_vars

\* the server goes on with a request for as long as it has power, and a request ends
FairSpec == Spec /\ WF_vars(Process) /\ WF_vars(EndOfPairs)

-----------------------------------------------------------------------------
(* Properties.                                                             *)

TypeOK ==
    /\ mem \in [Cells -> Values]
    /\ flash \in [Cells -> Values \cup {Gone}]
    /\ pc \in {"idle", "parse", "reset", "reread", "write", "move", "reboot", "down"}
    /\ index \in -1 .. 9 /\ i \in 0 .. USER_MAX /\ index1 \in -1 .. USER_MAX
    /\ marks \subseteq Files
    /\ short \subseteq Files \cup {IfCfgFile} /\ unsettled \subseteq Files \cup {IfCfgFile}

\* Between requests, and before a reboot that was asked for, every setting that
\* the server promises to keep is on flash as it is in memory: no pair changes
\* one without marking its file, and the loop behind the pairs forgets none.
\* Of this a write that fails takes only the settings of its own file.
Saved == pc \in {"idle", "reboot"} =>
             \A c \in Durable : c[2] \notin short => Read(c) = mem[c]

\* A loss of power can cost the settings of a file that has been moved to its
\* place and not written back, since mv copies it there, and a write that fails
\* those of its file; a request does that only to files of which it has asked to
\* change something.  Every other setting comes back, whenever the power fails,
\* as the last finished request left it or as the interrupted one asked for.
NothingElseLost ==
    [][/\ pc = "down" /\ pc' = "idle" =>
            \A c \in Durable : c[2] \notin unsettled \cup short =>
                mem'[c] \in {done[c]} \cup asked[c]
       /\ pc = "move" /\ pc' = "write" =>
            tmp.file = "USER" \/ \E c \in CellsOf(tmp.file) : asked[c] # {}]_vars

\* A request that asks for another address, whatever else it asks for, leaves
\* the same one in if.cfg, which the boot script goes by, and in the NET file,
\* which the server goes by, if neither of the two writes fails.
AddressesAgree ==
    [][pc = "write" /\ pc' \in {"idle", "reboot"} /\ {"NET", IfCfgFile} \cap short = {} =>
         \A c \in Cells : c[1] = "net_ip" /\ asked[c] # {} => ifCfg'.ip = flash'[c]]_vars

\* A request to restore the initial settings comes to its end.
ResetEnds == (pc \in {"reset", "reread"}) ~> (pc \in {"idle", "reboot", "down"})

\* When the board restarts between two requests, with the user file settled, a
\* user whom a finished request has deleted does not come back.
DeletedUserStaysDeleted ==
    [][pc = "down" /\ pc' = "idle" /\ users = doneUsers /\ "USER" \notin unsettled \cup short =>
         \A n \in Names : (\A s \in Slots : users[s].name # n)
                             => (\A s \in Slots : users'[s].name # n)]_vars
=============================================================================
