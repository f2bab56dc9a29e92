----------------------------- MODULE SelfServer ------------------------------
(***************************************************************************)
(* The upload server of the board (selfserver.c) on its event loop         *)
(* (eventloop.c): a listening socket, at most one client, and a timer of   *)
(* one second.  A client announces a file with its length and checksum and *)
(* sends it; when all of it is there the next tick compares the checksums, *)
(* answers, and starts the update if they agree.                           *)
(*                                                                         *)
(* epoll_wait returns the sources that are ready, in any order, and their  *)
(* handlers run one after the other.  The client's socket is edge          *)
(* triggered: it is ready when something new has come, not when something  *)
(* is left.  Sockets block: a handler that wants more than has come keeps  *)
(* the whole loop waiting.                                                 *)
(*                                                                         *)
(* Peers send blocks: an announcement, a piece of a file, or another       *)
(* command.  What a block says is chosen when the server reads it, as      *)
(* nobody looks at it before.  Left out are the answers, the values of     *)
(* settings, and which checksums agree.                                    *)
(***************************************************************************)
EXTENDS Naturals, Sequences, FiniteSets, SequencesExt

CONSTANTS Conns,       \* connections, each used once
          Files,       \* files that peers upload
          FileLen,     \* their lengths in blocks
          NoConn,      \* no connection, client_fd = 0
          MaxSend      \* bound: the blocks that all peers send together

ASSUME ServerAssumption ==
    /\ NoConn \notin Conns /\ {"server", "timer"} \cap Conns = {}
    /\ FileLen \in [Files -> Nat]
    /\ MaxSend \in Nat

\* cmdtype 2 is an update and 4 an image
Types == {2, 4}

\* no checksum, and one that no file has
NoSum == "none"

VARIABLES \* the peers and the network
          status,                  \* of a connection: "new", "open" or "closed"
          sent,                    \* how many blocks have been sent
          inbuf, part, eof,        \* what has come: blocks, part of one more, the end
          pending,                 \* the listen queue
          \* the kernel's side of the event loop
          edge,                    \* the client's socket has news
          timer,                   \* "armed", "due" or "off"
          \* the process
          pc, batch,               \* where it is, and the events still to be handled
          client_fd, client_source,
          fp, tmp,                 \* is the file open; the blocks in TMP_UPDATE_FILE
          len_filedata, md5_r, file_type, g_check_update,
          \* history
          owner, opened            \* who announced last; did fopen succeed

peers   == <<status, sent, inbuf, part, eof, pending>>
kernel  == <<edge, timer>>
upload  == <<fp, tmp, len_filedata, md5_r, file_type, g_check_update>>
history == <<owner, opened>>
vars == <<peers, kernel, pc, batch, client_fd, client_source, upload, history>>

-----------------------------------------------------------------------------
(* The peers.                                                              *)

News(c) == edge' = (edge \/ client_source = c)

Connect(c) ==
    /\ status[c] = "new"
    /\ status' = [status EXCEPT ![c] = "open"]
    /\ pending' = Append(pending, c)
    /\ UNCHANGED <<sent, inbuf, part, eof, kernel, pc, batch, client_fd, client_source, upload,
                   history>>

\* the rest of a block, or all of it
Send(c) ==
    /\ status[c] = "open" /\ sent < MaxSend                        \* bound
    /\ inbuf' = [inbuf EXCEPT ![c] = @ + 1]
    /\ sent' = sent + 1
    /\ part' = [part EXCEPT ![c] = FALSE]
    /\ News(c)
    /\ UNCHANGED <<status, eof, pending, timer, pc, batch, client_fd, client_source, upload,
                   history>>

\* a part of a block
SendPart(c) ==
    /\ status[c] = "open" /\ sent < MaxSend /\ ~part[c]            \* bound
    /\ part' = [part EXCEPT ![c] = TRUE]
    /\ News(c)
    /\ UNCHANGED <<status, sent, inbuf, eof, pending, timer, pc, batch, client_fd,
                   client_source, upload, history>>

Close(c) ==
    /\ status[c] = "open"
    /\ status' = [status EXCEPT ![c] = "closed"]
    /\ eof' = [eof EXCEPT ![c] = TRUE]
    /\ News(c)
    /\ UNCHANGED <<sent, inbuf, part, pending, timer, pc, batch, client_fd, client_source,
                   upload, history>>

\* the second is over
Second ==
    /\ timer = "armed"
    /\ timer' = "due"
    /\ UNCHANGED <<peers, edge, pc, batch, client_fd, client_source, upload, history>>

-----------------------------------------------------------------------------
(* What the handlers share.                                                *)

\* a mutation of closefile: the type of the transfer is kept
closefileKeepsType ==
    IF fp THEN fp' = FALSE /\ len_filedata' = 0 /\ UNCHANGED file_type
          ELSE UNCHANGED <<fp, len_filedata, file_type>>

\* the type is forgotten only with a file that is open
closefile ==
    IF fp THEN fp' = FALSE /\ len_filedata' = 0 /\ file_type' = 0
          ELSE UNCHANGED <<fp, len_filedata, file_type>>

\* a mutation of close_client: client_fd is left as it was
close_clientKeepsFd ==
    /\ UNCHANGED client_fd
    /\ client_source' = NoConn
    /\ edge' = FALSE

\* a mutation of close_client: client_source is left as it was
close_clientKeepsSource ==
    /\ client_fd' = NoConn
    /\ edge' = FALSE
    /\ UNCHANGED client_source

\* the socket is closed and its source removed and freed
close_client ==
    /\ client_fd' = NoConn
    /\ client_source' = NoConn
    /\ edge' = FALSE

-----------------------------------------------------------------------------
(* The event loop.                                                         *)

\* something to read, if only the end
Readable(c) == inbuf[c] > 0 \/ part[c] \/ eof[c]

\* the sources that have an event; news that has been read meanwhile is none
Ready == (IF pending # <<>> THEN {"server"} ELSE {})
         \cup (IF edge /\ Readable(client_source) THEN {client_source} ELSE {})
         \cup (IF timer = "due" THEN {"timer"} ELSE {})

\* event_loop_dispatch: epoll_wait takes the edge with it
EpollWait ==
    /\ pc = "dispatch" /\ batch = <<>> /\ Ready # {}
    /\ batch' \in SetToSeqs(Ready)
    /\ edge' = FALSE
    /\ UNCHANGED <<peers, timer, pc, client_fd, client_source, upload, history>>

\* the next event of the batch
Event(e) == pc = "dispatch" /\ batch # <<>> /\ Head(batch) = e /\ batch' = Tail(batch)

\* server_accept_net with a client: the client is thrown out, and the new one waits
Kick ==
    /\ Event("server") /\ client_fd # NoConn
    /\ closefile /\ close_client
    /\ UNCHANGED <<peers, timer, pc, tmp, md5_r, g_check_update, history>>

\* server_accept_net without one: what has come before counts as news
Accept ==
    /\ Event("server") /\ client_fd = NoConn
    /\ LET c == Head(pending)
       IN  /\ client_fd' = c /\ client_source' = c
           /\ edge' = Readable(c)
    /\ pending' = Tail(pending)
    /\ UNCHANGED <<status, sent, inbuf, part, eof, timer, pc, upload, history>>

\* an event whose source an earlier handler of the batch has freed: the call goes
\* through memory that may hold anything, or finds no client
StaleEvent(c) ==
    /\ Event(c) /\ client_source # c
    /\ pc' \in {"crashed", "dispatch"}
    /\ UNCHANGED <<peers, kernel, client_fd, client_source, upload, history>>

\* client_connection_active
ClientEvent(c) ==
    /\ Event(c) /\ client_source = c
    /\ pc' = IF fp THEN "file" ELSE "command"
    /\ UNCHANGED <<peers, kernel, client_fd, client_source, upload, history>>

-----------------------------------------------------------------------------
(* client_connection_active.  connection_read waits until a block is there *)
(* or the peer has closed.                                                 *)

Returns == pc' = "dispatch"

\* a block is read
Reads == /\ inbuf[client_fd] > 0
         /\ inbuf' = [inbuf EXCEPT ![client_fd] = @ - 1]
         /\ UNCHANGED <<status, sent, part, eof, pending>>

\* the peer has closed, with no or half a block before
AtEof == inbuf[client_fd] = 0 /\ eof[client_fd]

\* an announcement; fopen may fail, and the file that was there is emptied if not
Announce(t, f) ==
    /\ pc = "command" /\ Reads
    /\ file_type' = t
    /\ len_filedata' = FileLen[f]
    /\ md5_r' = f
    /\ fp' \in BOOLEAN
    /\ tmp' = IF fp' THEN 0 ELSE tmp
    /\ owner' = client_fd /\ opened' = fp'
    /\ Returns
    /\ UNCHANGED <<kernel, batch, client_fd, client_source, g_check_update>>

\* the setting of an address of the boards: save_iptable ends with close_client
SaveIptable ==
    /\ pc = "command" /\ Reads
    /\ close_client
    /\ Returns
    /\ UNCHANGED <<timer, batch, upload, history>>

\* a block without '#', a question, another setting
OtherCommand ==
    /\ pc = "command" /\ Reads
    /\ Returns
    /\ UNCHANGED <<kernel, batch, client_fd, client_source, upload, history>>

\* the loop over the file
ReadFile ==
    /\ pc = "file" /\ len_filedata > 0 /\ Reads
    /\ tmp' = tmp + 1
    /\ len_filedata' = len_filedata - 1
    /\ UNCHANGED <<kernel, pc, batch, client_fd, client_source, fp, md5_r, file_type,
                   g_check_update, history>>

FileComplete ==
    /\ pc = "file" /\ len_filedata = 0
    /\ g_check_update' = TRUE
    /\ fp' = FALSE
    /\ Returns
    /\ UNCHANGED <<peers, kernel, batch, client_fd, client_source, tmp, len_filedata, md5_r,
                   file_type, history>>

\* a mutation of ReadEof: the file stays open
ReadEofKeepsFile ==
    /\ pc = "command" \/ (pc = "file" /\ len_filedata > 0)
    /\ AtEof
    /\ close_client
    /\ Returns
    /\ UNCHANGED <<peers, timer, batch, upload, history>>

\* either read fails
ReadEof ==
    /\ pc = "command" \/ (pc = "file" /\ len_filedata > 0)
    /\ AtEof
    /\ closefile /\ close_client
    /\ Returns
    /\ UNCHANGED <<peers, timer, batch, tmp, md5_r, g_check_update, history>>

-----------------------------------------------------------------------------
(* check_client, once a second.                                            *)

\* update after closefile: the checksum decides on the answer and the update
Judge ==
    /\ tmp' = IF file_type = 2 THEN 0 ELSE tmp
    /\ g_check_update' = FALSE
    /\ md5_r' = NoSum
    /\ file_type' = 0
    /\ UNCHANGED <<fp, len_filedata>>

\* update: a file that has just been announced is closed, and then there is
\* nothing to judge
CheckUpdate ==
    \/ g_check_update /\ ~fp /\ file_type \in Types /\ Judge
    \/ /\ g_check_update /\ (fp \/ file_type \notin Types)
       /\ closefile /\ UNCHANGED <<tmp, md5_r, g_check_update>>
    \/ ~g_check_update /\ UNCHANGED upload

\* a mutation of Tick: the timer is set again only while there is a client
TickForClient ==
    /\ Event("timer")
    /\ CheckUpdate
    /\ timer' = IF client_fd = NoConn THEN "off" ELSE "armed"
    /\ UNCHANGED <<peers, edge, pc, client_fd, client_source, history>>

Tick ==
    /\ Event("timer")
    /\ CheckUpdate
    /\ timer' = "armed"
    /\ UNCHANGED <<peers, edge, pc, client_fd, client_source, history>>

-----------------------------------------------------------------------------
Init ==
    /\ status = [c \in Conns |-> "new"] /\ sent = 0
    /\ inbuf = [c \in Conns |-> 0]
    /\ part = [c \in Conns |-> FALSE] /\ eof = [c \in Conns |-> FALSE]
    /\ pending = <<>>
    /\ edge = FALSE /\ timer = "armed"
    /\ pc = "dispatch" /\ batch = <<>>
    /\ client_fd = NoConn /\ client_source = NoConn
    /\ fp = FALSE /\ tmp = 0 /\ len_filedata = 0
    /\ md5_r = NoSum /\ file_type = 0 /\ g_check_update = FALSE
    /\ owner = NoConn /\ opened = FALSE

\* (what the peers of a process that is gone do does not matter)
Peer(c) == Connect(c) \/ Send(c) \/ SendPart(c) \/ Close(c)

Handler == \/ Kick \/ Accept \/ Tick
           \/ \E c \in Conns : StaleEvent(c) \/ ClientEvent(c)
           \/ \E t \in Types, f \in Files : Announce(t, f)
           \/ SaveIptable \/ OtherCommand
           \/ ReadFile \/ FileComplete \/ ReadEof

Server == EpollWait \/ Handler

Next == Server \/ (pc # "crashed" /\ (Second \/ \E c \in Conns : Peer(c)))

Spec == Init /\ [][Next]_vars

\* The process runs on when it can, seconds go by, and a peer closes its
\* connection some time.
FairSpec == Spec /\ WF_vars(Server) /\ WF_vars(Second) /\ \A c \in Conns : WF_vars(Close(c))

-----------------------------------------------------------------------------
(* Properties.                                                             *)

TypeOK ==
    /\ status \in [Conns -> {"new", "open", "closed"}] /\ sent \in Nat
    /\ inbuf \in [Conns -> Nat]
    /\ part \in [Conns -> BOOLEAN] /\ eof \in [Conns -> BOOLEAN]
    /\ pending \in Seq(Conns)
    /\ edge \in BOOLEAN /\ timer \in {"armed", "due", "off"}
    /\ pc \in {"dispatch", "command", "file", "crashed"}
    /\ batch \in Seq({"server", "timer"} \cup Conns)
    /\ client_fd \in Conns \cup {NoConn} /\ client_source \in Conns \cup {NoConn}
    /\ fp \in BOOLEAN /\ tmp \in Nat /\ len_filedata \in Nat
    /\ md5_r \in Files \cup {NoSum}
    /\ file_type \in Types \cup {0} /\ g_check_update \in BOOLEAN
    /\ owner \in Conns \cup {NoConn} /\ opened \in BOOLEAN
    /\ pc \in {"command", "file"} => client_fd = client_source /\ client_fd # NoConn

\* A file that is open is the upload of the client that is connected: it is
\* closed before the client is left, whoever ends the connection.
UploadBelongsToClient == fp => client_fd = owner /\ owner # NoConn

\* The server passes a verdict only on a file all of which has come, unless the
\* file could not be opened: neither a tick nor another client's or another
\* announcement's coming in between makes it judge a part of one.
VerdictOnWholeFile ==
    [][g_check_update /\ ~g_check_update' /\ opened => tmp = FileLen[md5_r]]_vars

Stopped == pc = "crashed"

\* An upload that is complete is judged, unless another is announced first.
CompleteIsJudged ==
    (g_check_update /\ ~fp /\ file_type \in Types) ~> (file_type = 0 \/ fp \/ Stopped)

\* A peer that connects gets to be the client.
EveryoneIsAccepted ==
    \A c \in Conns : (\E n \in 1 .. Len(pending) : pending[n] = c) ~> (client_fd = c \/ Stopped)
=============================================================================
