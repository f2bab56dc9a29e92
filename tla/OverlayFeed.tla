------------------------------ MODULE OverlayFeed ------------------------------
(***************************************************************************)
(* The texts on the pictures: what the packages of the serial line         *)
(* (com_receiver_func) and the clock (check_client) send from the board    *)
(* server to the overlay thread of the AV server (osd_pic_receive), over   *)
(* one local connection and through a ring of bytes.  A piece of a message *)
(* stands for the bytes of its header or those of its text.                *)
(***************************************************************************)
EXTENDS Integers, SequencesExt

CONSTANTS LastChannel,  \* of the encoders that texts name, 0 to this
          RingPieces,   \* sizeof osd_buf, in pieces
          ReadPieces,   \* sizeof osd_buf_tmp, in pieces
          MaxNet,       \* bound: the pieces sent and not read
          MaxCommands,  \* bound: the packages
          MaxStops      \* bound: how often the AV server ends

ASSUME FeedAssumption ==
    /\ LastChannel \in Nat /\ RingPieces \in Nat \ {0} /\ ReadPieces \in Nat \ {0}
    /\ MaxNet \in Nat /\ MaxCommands \in Nat /\ MaxStops \in Nat

VARIABLES
    clock,      \* ch1_time_osd, ch2_time_osd
    clockFits,  \* date_y and time_y name rows within the pictures
    timeSet,    \* set_time_flag
    sock,       \* g_char_socket, and what has come in on it
    alive,      \* the board server runs
    net,        \* the pieces in the connection
    up,         \* the AV server runs
    ring,       \* osd_buf from start_i to end_i
    pc,         \* osd_pic_receive waits in select, or takes messages
    works,      \* get_stream_video_width is not zero
    shown,      \* the pieces of the message drawn last
    commands, stops   \* counts for the bounds

board == <<clock, clockFits, timeSet>>
link == <<sock, alive, net>>
server == <<up, ring, pc, shown>>
counts == <<commands, stops>>
vars == <<board, link, server, works, counts>>

Channels == 0 .. LastChannel

\* The headers of messages for the channels of C, and those of s that lie in T.
Header(C) == [chn : C, fits : BOOLEAN, text : BOOLEAN, part : {"header"}]

Only(s, T) == FlattenSeq([k \in DOMAIN s |-> IF s[k] \in T THEN <<s[k]>> ELSE << >>])

\* Not shown yet: every message whose header is in the ring or the connection.
InTransit == Only(ring \o net, Header(Channels))

Queue == INSTANCE OverlayQueue WITH queue <- InTransit, shown <- shown

Text(c, fits) == [chn |-> c, fits |-> fits, text |-> TRUE, part |-> "header"]
Blank(c)      == [chn |-> c, fits |-> TRUE, text |-> FALSE, part |-> "header"]

-----------------------------------------------------------------------------
\* osd_callback for each of ms, one behind the other: it connects where there is
\* no connection.  A send to a server that has ended is lost; it is answered by a
\* reset, and the send behind it by SIGPIPE, which nobody catches; but a server
\* that ended with pieces unread has sent the reset itself, and osd_callback
\* closes the connection.
Sends(ms) ==
    /\ sock' = IF up /\ ms # << >> THEN "live" ELSE "none"
    /\ net' = IF up THEN net \o FlattenSeq([k \in DOMAIN ms |-> Queue!Pieces(ms[k])]) ELSE net
    /\ UNCHANGED alive

osd_callback(ms) ==
    /\ ms # << >>
    /\ \/ sock \in {"none", "live"} /\ Sends(ms)
       \/ sock = "reset" /\ Sends(Tail(ms))
       \/ sock = "closed" /\ sock' = "broken" /\ alive' = (Len(ms) = 1) /\ UNCHANGED net
       \/ sock = "broken" /\ alive' = FALSE /\ UNCHANGED <<sock, net>>
    /\ Len(net') <= MaxNet

\* channel 0 before channel 1
InOrder == [k \in 1 .. LastChannel + 1 |-> k - 1]

\* the date and the time of each channel
EveryClock == [fits \in BOOLEAN |->
                 FlattenSeq([k \in DOMAIN InOrder |-> <<Text(InOrder[k], fits), Text(InOrder[k], fits)>>])]
EveryText  == [fits \in BOOLEAN |-> [k \in DOMAIN InOrder |-> Text(InOrder[k], fits)]]
EveryBlank == [k \in DOMAIN InOrder |-> Blank(InOrder[k])]

\* those of ms for the channels of C
For(C, ms) == Only(ms, Header(C))

\* A package, carried out: C are the channels that its command names.
Command == alive /\ commands < MaxCommands /\ commands' = commands + 1
           /\ UNCHANGED <<server, works, stops>>

SetRows(fits) ==                       \* 0x10
    /\ Command
    /\ clockFits' = fits
    /\ UNCHANGED <<clock, timeSet, link>>

SetTime ==                             \* 0x20
    /\ Command
    /\ timeSet' = TRUE
    /\ UNCHANGED <<clock, clockFits, link>>

ClearRow(C) ==                        \* 0x30 to 0x32
    /\ Command
    /\ osd_callback(For(C, EveryBlank))
    /\ UNCHANGED board

DrawText(C, fits) ==                  \* 0x40 to 0x42
    /\ Command
    /\ osd_callback(For(C, EveryText[fits]))
    /\ UNCHANGED board

ClockOn(C) ==                         \* 0x80 to 0x82
    /\ Command
    /\ clock' = [c \in Channels |-> clock[c] \/ c \in C]
    /\ UNCHANGED <<clockFits, timeSet, link>>

ClockOff(C) ==
    /\ Command
    /\ clock' = [c \in Channels |-> clock[c] /\ c \notin C]
    /\ osd_callback(For(C, EveryClock[clockFits]))
    /\ UNCHANGED <<clockFits, timeSet>>

\* the timer of one second
check_client ==
    /\ alive
    /\ osd_callback(For({c \in Channels : clock[c] /\ timeSet}, EveryClock[clockFits]))
    /\ UNCHANGED <<board, server, works, counts>>

-----------------------------------------------------------------------------
\* KeepsOld: a mutant that drops only what finds no place
KeepsOld(r, n) == r \o SubSeq(net, 1, IF n < RingPieces - Len(r) THEN n ELSE RingPieces - 1 - Len(r))

\* A read of n pieces behind r: where end_i meets start_i the ring counts as
\* empty, and the rest of the read is dropped.
Received(r, n) == IF Len(r) + n >= RingPieces THEN << >> ELSE r \o SubSeq(net, 1, n)

\* StaysAtHead: a mutant that moves start_i only once a message is drawn
StaysAtHead(r, n) == r

\* the ring behind a message that is refused
Behind(r, n) == SubSeq(r, n + 1, Len(r))

Read ==
    /\ up /\ pc = "select"
    /\ \E n \in 1 .. Len(net) :
          /\ n <= ReadPieces
          /\ ring' = Received(ring, n)
          /\ net' = SubSeq(net, n + 1, Len(net))
    /\ pc' = "take"
    /\ UNCHANGED <<board, sock, alive, up, shown, works, counts>>

\* the pieces that the header at start_i asks for
Wanted == IF ring[1].text THEN 2 ELSE 1

\* what is at start_i: a message, or what an overflow has left of one
Complete == ring # << >> /\ ring[1].part = "header" /\ Len(ring) >= Wanted
Stray    == ring # << >> /\ ring[1].part # "header"

TakeEnds ==
    /\ up /\ pc = "take" /\ ~Stray /\ ~Complete
    /\ pc' = "select"
    /\ UNCHANGED <<board, link, up, ring, shown, works, counts>>

SkipByte ==
    /\ up /\ pc = "take" /\ Stray
    /\ ring' = Tail(ring)
    /\ UNCHANGED <<board, link, up, pc, shown, works, counts>>

MayDraw(m) == works[m.chn] /\ m.fits

Refuse ==
    /\ up /\ pc = "take" /\ Complete /\ ~MayDraw(ring[1])
    /\ ring' = Behind(ring, Wanted)
    /\ pc' = "select"
    /\ UNCHANGED <<board, link, up, shown, works, counts>>

Draw ==
    /\ up /\ pc = "take" /\ Complete /\ MayDraw(ring[1])
    /\ shown' = SubSeq(ring, 1, Wanted)
    /\ ring' = SubSeq(ring, Wanted + 1, Len(ring))
    /\ UNCHANGED <<board, link, up, pc, works, counts>>

\* rtsp_client takes a stream up or down
StreamChanges(c) ==
    /\ works' = [works EXCEPT ![c] = ~@]
    /\ UNCHANGED <<board, link, server, counts>>

\* The AV server ends, with all it holds, and comes up again.
ServerEnds ==
    /\ up /\ stops < MaxStops /\ stops' = stops + 1
    /\ up' = FALSE /\ ring' = << >> /\ pc' = "select" /\ net' = << >>
    /\ sock' \in (IF sock # "live" THEN {sock}
                  ELSE IF net # << >> THEN {"reset"} ELSE {"reset", "closed"})
    /\ UNCHANGED <<board, alive, shown, works, commands>>

ServerStarts ==
    /\ ~up /\ up' = TRUE
    /\ UNCHANGED <<board, link, ring, pc, shown, works, counts>>

Init ==
    /\ clock = [c \in Channels |-> FALSE] /\ clockFits = TRUE /\ timeSet = FALSE
    /\ sock = "none" /\ alive = TRUE /\ net = << >>
    /\ up = FALSE /\ ring = << >> /\ pc = "select" /\ shown = << >>
    /\ works = [c \in Channels |-> FALSE]
    /\ commands = 0 /\ stops = 0

\* both channels, or one of them
Named == {Channels} \cup {{c} : c \in Channels}

Package ==
    \/ SetTime
    \/ \E fits \in BOOLEAN : SetRows(fits)
    \/ \E C \in Named : ClearRow(C) \/ ClockOn(C) \/ ClockOff(C)
    \/ \E C \in Named, fits \in BOOLEAN : DrawText(C, fits)

osd_pic_receive == Read \/ TakeEnds \/ SkipByte \/ Refuse \/ Draw

Next ==
    \/ Package \/ check_client
    \/ osd_pic_receive
    \/ ServerEnds \/ ServerStarts
    \/ \E c \in Channels : StreamChanges(c)

\* The timer goes on, and the overlay thread runs while there is work.
Fairness == WF_vars(check_client) /\ WF_vars(osd_pic_receive)

Spec == Init /\ [][Next]_vars /\ Fairness

-----------------------------------------------------------------------------
(* Properties.                                                             *)

\* However the reads cut them, whatever is refused, and when the ring runs
\* over: what is drawn are whole messages, each at most once and in the order
\* in which they were sent.
QueueSpec == Queue!Spec

\* A channel whose clock is on and whose stream works gets its clock again and
\* again, though the other stream's messages stop the thread at every turn and
\* fill the ring with what waits behind them.
ClockIsDrawn ==
    \A c \in Channels :
        <>[](alive /\ up /\ clock[c] /\ timeSet /\ clockFits /\ works[c])
          => []<><<Draw /\ ring[1].chn = c>>_vars
=============================================================================
