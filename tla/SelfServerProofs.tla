-------------------------- MODULE SelfServerProofs ---------------------------
(***************************************************************************)
(* The safety properties of SelfServer, proved for any number of peers,    *)
(* any files and any bound on what is sent.                                *)
(***************************************************************************)
EXTENDS SelfServer, FiniteSetTheorems, SequenceTheorems, TLAPS

\* No event comes twice in a batch, and the listening socket's is there only
\* while somebody waits.
BatchInv ==
    /\ \A m, n \in 1 .. Len(batch) : m # n => batch[m] # batch[n]
    /\ \A n \in 1 .. Len(batch) : batch[n] = "server" => pending # <<>>

\* The socket and its source come and go together, and news is of a source.
SourceInv ==
    /\ client_fd = client_source
    /\ edge => client_source \in Conns

\* A command is read only while no file is open, a file only while one is.
PlaceInv ==
    /\ pc = "command" => ~fp
    /\ pc = "file" => fp

\* What has come of a file and what is to come are the whole; once it is closed
\* with its type still known, all of it has come.
FileInv ==
    /\ fp /\ opened => /\ md5_r \in Files
                       /\ tmp + len_filedata = FileLen[md5_r]
    /\ opened /\ ~fp /\ file_type \in Types => tmp = FileLen[md5_r]

SInv == TypeOK /\ BatchInv /\ SourceInv /\ PlaceInv /\ UploadBelongsToClient /\ FileInv

-----------------------------------------------------------------------------
(* Batches.                                                                *)

\* A batch is a sequence of different sources that are ready.
LEMMA BatchFacts ==
    ASSUME NEW S, IsFiniteSet(S), NEW b \in SetToSeqs(S)
    PROVE  /\ b \in Seq(S)
           /\ \A m, n \in 1 .. Len(b) : m # n => b[m] # b[n]
  <1>1. Cardinality(S) \in Nat
    BY FS_CardinalityType
  <1>2. b \in [1 .. Cardinality(S) -> S]
        /\ \A m, n \in 1 .. Cardinality(S) : m # n => b[m] # b[n]
    BY DEF SetToSeqs
  <1>3. b \in Seq(S) /\ Len(b) = Cardinality(S)
    BY <1>1, <1>2
  <1> QED
    BY <1>2, <1>3

\* At most three sources are ready.
LEMMA ReadyFacts ==
    ASSUME TypeOK, SourceInv
    PROVE  /\ IsFiniteSet(Ready)
           /\ Ready \subseteq {"server", "timer"} \cup Conns
           /\ "server" \in Ready => pending # <<>>
  <1>1. Ready \subseteq {"server", "timer", client_source} /\ IsFiniteSet(Ready)
    <2>1. IsFiniteSet({"server", "timer", client_source})
      <3>1. IsFiniteSet({"server", "timer"} \cup {client_source})
        <4>1. IsFiniteSet({"server"} \cup {"timer"})
          BY FS_Singleton, FS_Union
        <4>2. {"server"} \cup {"timer"} = {"server", "timer"}
          OBVIOUS
        <4> QED
          BY <4>1, <4>2, FS_Singleton, FS_Union
      <3>2. {"server", "timer"} \cup {client_source} = {"server", "timer", client_source}
        OBVIOUS
      <3> QED
        BY <3>1, <3>2
    <2>2. Ready \subseteq {"server", "timer", client_source}
      BY DEF Ready
    <2> QED
      BY <2>1, <2>2, FS_Subset
  <1> QED
    BY <1>1, ServerAssumption DEF Ready, SourceInv

-----------------------------------------------------------------------------
(* The parts of the invariant, one lemma each, one step per action.        *)

\* Every step keeps the types.
LEMMA TypeStep == ASSUME SInv, Next PROVE TypeOK'
  <1> USE ServerAssumption DEF SInv, TypeOK, SourceInv, BatchInv, peers, kernel, upload, history
  <1>0. /\ pending # <<>> => Head(pending) \in Conns /\ Tail(pending) \in Seq(Conns)
        /\ batch # <<>> => Tail(batch) \in Seq({"server", "timer"} \cup Conns)
    OBVIOUS
  <1>a. closefile => /\ fp' \in BOOLEAN /\ len_filedata' \in Nat
                     /\ file_type' \in Types \cup {0}
    <2>1. ASSUME closefile, fp PROVE ~fp' /\ len_filedata' = 0 /\ file_type' = 0
      BY <2>1 DEF closefile
    <2>2. ASSUME closefile, ~fp PROVE UNCHANGED <<fp, len_filedata, file_type>>
      BY <2>2 DEF closefile
    <2>3. ASSUME closefile PROVE fp' \in BOOLEAN
      BY <2>1, <2>2, <2>3 DEF closefile
    <2>4. ASSUME closefile PROVE len_filedata' \in Nat
      BY <2>1, <2>2, <2>4
    <2>5. ASSUME closefile PROVE file_type' \in Types \cup {0}
      BY <2>1, <2>2, <2>5
    <2> QED
      BY <2>3, <2>4, <2>5
  <1>b. Reads /\ client_fd \in Conns => inbuf' \in [Conns -> Nat]
    BY DEF Reads
  <1>1. CASE EpollWait
    <2>1. batch' \in Seq(Ready) /\ Ready \subseteq {"server", "timer"} \cup Conns
      BY <1>1, BatchFacts, ReadyFacts DEF EpollWait
    <2>2. batch' \in Seq({"server", "timer"} \cup Conns)
      BY <2>1, SeqMonotonic, ZenonT(60)
    <2> QED
      BY <2>2, <1>1 DEF EpollWait
  <1>2. CASE Kick
    BY <1>0, <1>a, <1>2 DEF Kick, Event, close_client
  <1>3. CASE Accept
    <2>1. pending # <<>>
      BY <1>3 DEF Accept, Event
    <2>2. /\ client_fd' \in Conns /\ client_source' \in Conns
          /\ pending' \in Seq(Conns)
          /\ edge' \in BOOLEAN
      BY <1>0, <1>3, <2>1 DEF Accept, Readable
    <2> QED
      BY <1>0, <1>3, <2>2 DEF Accept, Event
  <1>4. CASE Tick
    <2>1. fp' \in BOOLEAN /\ len_filedata' \in Nat /\ file_type' \in Types \cup {0}
      BY <1>4, <1>a DEF Tick, CheckUpdate, Judge
    <2>2. Judge \/ UNCHANGED <<tmp, md5_r, g_check_update>>
      BY <1>4 DEF Tick, CheckUpdate
    <2>3. tmp' \in Nat /\ md5_r' \in Files \cup {NoSum} /\ g_check_update' \in BOOLEAN
      <3>1. tmp' = tmp \/ tmp' = 0
        BY <2>2 DEF Judge
      <3>2. g_check_update' = g_check_update \/ g_check_update' = FALSE
        BY <2>2 DEF Judge
      <3>3. md5_r' = md5_r \/ md5_r' = NoSum
        BY <2>2 DEF Judge
      <3>4. tmp' \in Nat
        BY <3>1
      <3>5. g_check_update' \in BOOLEAN
        BY <3>2
      <3> QED
        BY <3>3, <3>4, <3>5
    <2> QED
      BY <1>0, <1>4, <2>1, <2>3 DEF Tick, Event
  <1>5. CASE SaveIptable
    BY <1>b, <1>5 DEF SaveIptable, Reads, Returns, close_client
  <1>6. CASE OtherCommand
    BY <1>6 DEF OtherCommand, Reads, Returns
  <1>7. CASE ReadFile
    BY <1>7 DEF ReadFile, Reads
  <1>8. CASE FileComplete
    BY <1>8 DEF FileComplete, Returns
  <1>9. CASE ReadEof
    BY <1>a, <1>9 DEF ReadEof, Returns, close_client
  <1>10. CASE Second
    BY <1>10 DEF Second
  <1>11. ASSUME NEW c \in Conns, Connect(c) PROVE TypeOK'
    BY <1>11 DEF Connect, News
  <1>12. ASSUME NEW c \in Conns, Send(c) PROVE TypeOK'
    BY <1>12 DEF Send, News
  <1>13. ASSUME NEW c \in Conns, SendPart(c) PROVE TypeOK'
    BY <1>13 DEF SendPart, News
  <1>14. ASSUME NEW c \in Conns, Close(c) PROVE TypeOK'
    BY <1>14 DEF Close, News
  <1>15. ASSUME NEW c \in Conns, StaleEvent(c) PROVE TypeOK'
    BY <1>15 DEF StaleEvent, Event
  <1>16. ASSUME NEW c \in Conns, ClientEvent(c) PROVE TypeOK'
    BY <1>16 DEF ClientEvent, Event
  <1>17. ASSUME NEW ty \in Types, NEW f \in Files, Announce(ty, f) PROVE TypeOK'
    BY <1>17 DEF Announce, Reads, Returns
  <1> QED
    BY <1>1, <1>2, <1>3, <1>4, <1>5, <1>6, <1>7, <1>8, <1>9, <1>10, <1>11,
       <1>12, <1>13, <1>14, <1>15, <1>16, <1>17
       DEF Next, Server, Handler, Peer

\* A handler takes the first event of the batch; the rest are still different
\* from each other, and from the one that is taken.
LEMMA TakeEvent ==
    ASSUME TypeOK, BatchInv, NEW e, Event(e)
    PROVE  /\ \A m, n \in 1 .. Len(batch') : m # n => batch'[m] # batch'[n]
           /\ \A n \in 1 .. Len(batch') : batch'[n] # e
           /\ \A n \in 1 .. Len(batch') : batch'[n] = "server" => pending # <<>>
  <1>1. batch \in Seq({"server", "timer"} \cup Conns) /\ batch # <<>>
        /\ batch[1] = e /\ batch' = Tail(batch)
    BY DEF Event, TypeOK
  <1>2. Len(batch) \in Nat /\ Len(batch) > 0 /\ Len(batch') = Len(batch) - 1
    BY <1>1
  <1>3. \A n \in 1 .. Len(batch') : batch'[n] = batch[n + 1] /\ n + 1 \in 1 .. Len(batch)
    BY <1>1, <1>2
  <1>4. 1 \in 1 .. Len(batch) /\ \A n \in 1 .. Len(batch') : n + 1 # 1
    BY <1>2
  <1>5. ASSUME NEW m \in 1 .. Len(batch'), NEW n \in 1 .. Len(batch'), m # n
        PROVE  batch'[m] # batch'[n]
    <2>1. m + 1 # n + 1
      BY <1>2, <1>5
    <2> QED
      BY <1>3, <2>1 DEF BatchInv
  <1>6. ASSUME NEW n \in 1 .. Len(batch') PROVE batch'[n] # e
    BY <1>1, <1>3, <1>4 DEF BatchInv
  <1>7. ASSUME NEW n \in 1 .. Len(batch'), batch'[n] = "server" PROVE pending # <<>>
    BY <1>3, <1>7 DEF BatchInv
  <1> QED
    BY <1>5, <1>6, <1>7

\* The listening socket's event is used up by the handler that takes the first
\* of those who wait.
LEMMA BatchStep == ASSUME SInv, Next PROVE BatchInv'
  <1> USE ServerAssumption DEF SInv, TypeOK, BatchInv, peers, kernel, upload, history
  <1>1. CASE EpollWait
    <2>1. /\ batch' \in Seq(Ready) /\ ("server" \in Ready => pending # <<>>)
          /\ \A m, n \in 1 .. Len(batch') : m # n => batch'[m] # batch'[n]
      BY <1>1, BatchFacts, ReadyFacts DEF EpollWait
    <2>2. \A n \in 1 .. Len(batch') : batch'[n] \in Ready
      BY <2>1
    <2> QED
      BY <2>1, <2>2, <1>1 DEF EpollWait
  <1>2. CASE Kick
    <2>1. Event("server") /\ pending' = pending
      BY <1>2 DEF Kick
    <2> QED
      BY <2>1, TakeEvent DEF BatchInv
  <1>3. CASE Accept
    <2>1. Event("server")
      BY <1>3 DEF Accept
    <2> QED
      BY <2>1, TakeEvent DEF BatchInv
  <1>4. CASE Tick
    <2>1. Event("timer") /\ pending' = pending
      BY <1>4 DEF Tick
    <2> QED
      BY <2>1, TakeEvent DEF BatchInv
  <1>5. CASE SaveIptable
    BY <1>5 DEF SaveIptable, Reads, Returns, close_client
  <1>6. CASE OtherCommand
    BY <1>6 DEF OtherCommand, Reads, Returns
  <1>7. CASE ReadFile
    BY <1>7 DEF ReadFile, Reads
  <1>8. CASE FileComplete
    BY <1>8 DEF FileComplete, Returns
  <1>9. CASE ReadEof
    BY <1>9 DEF ReadEof, AtEof, Returns, closefile, close_client
  <1>10. CASE Second
    BY <1>10 DEF Second
  <1>11. ASSUME NEW c \in Conns, Connect(c) PROVE BatchInv'
    <2>1. pending' # <<>>
      BY <1>11 DEF Connect
    <2> QED
      BY <1>11, <2>1 DEF Connect
  <1>12. ASSUME NEW c \in Conns, Send(c) PROVE BatchInv'
    BY <1>12 DEF Send, News
  <1>13. ASSUME NEW c \in Conns, SendPart(c) PROVE BatchInv'
    BY <1>13 DEF SendPart, News
  <1>14. ASSUME NEW c \in Conns, Close(c) PROVE BatchInv'
    BY <1>14 DEF Close, News
  <1>15. ASSUME NEW c \in Conns, StaleEvent(c) PROVE BatchInv'
    <2>1. Event(c) /\ pending' = pending
      BY <1>15 DEF StaleEvent
    <2> QED
      BY <2>1, TakeEvent DEF BatchInv
  <1>16. ASSUME NEW c \in Conns, ClientEvent(c) PROVE BatchInv'
    <2>1. Event(c) /\ pending' = pending
      BY <1>16 DEF ClientEvent
    <2> QED
      BY <2>1, TakeEvent DEF BatchInv
  <1>17. ASSUME NEW ty \in Types, NEW f \in Files, Announce(ty, f) PROVE BatchInv'
    BY <1>17 DEF Announce, Reads, Returns
  <1> QED
    BY <1>1, <1>2, <1>3, <1>4, <1>5, <1>6, <1>7, <1>8, <1>9, <1>10, <1>11,
       <1>12, <1>13, <1>14, <1>15, <1>16, <1>17
       DEF Next, Server, Handler, Peer

\* No handler leaves the socket without its source.
LEMMA SourceStep == ASSUME SInv, Next PROVE SourceInv'
  <1> USE ServerAssumption DEF SInv, TypeOK, SourceInv, peers, kernel, upload, history
  <1>1. CASE EpollWait
    BY <1>1 DEF EpollWait
  <1>2. CASE Kick
    BY <1>2 DEF Kick, Event, closefile, close_client
  <1>3. CASE Accept
    <2>1. Head(pending) \in Conns
      BY <1>3 DEF Accept, Event, BatchInv
    <2> QED
      BY <1>3, <2>1 DEF Accept
  <1>4. CASE Tick
    BY <1>4 DEF Tick, Event, CheckUpdate, Judge, closefile
  <1>5. CASE SaveIptable
    BY <1>5 DEF SaveIptable, Reads, Returns, close_client
  <1>6. CASE OtherCommand
    BY <1>6 DEF OtherCommand, Reads, Returns
  <1>7. CASE ReadFile
    BY <1>7 DEF ReadFile, Reads
  <1>8. CASE FileComplete
    BY <1>8 DEF FileComplete, Returns
  <1>9. CASE ReadEof
    BY <1>9 DEF ReadEof, AtEof, Returns, closefile, close_client
  <1>10. CASE Second
    BY <1>10 DEF Second
  <1>11. ASSUME NEW c \in Conns, Connect(c) PROVE SourceInv'
    BY <1>11 DEF Connect, News
  <1>12. ASSUME NEW c \in Conns, Send(c) PROVE SourceInv'
    BY <1>12 DEF Send, News
  <1>13. ASSUME NEW c \in Conns, SendPart(c) PROVE SourceInv'
    BY <1>13 DEF SendPart, News
  <1>14. ASSUME NEW c \in Conns, Close(c) PROVE SourceInv'
    BY <1>14 DEF Close, News
  <1>15. ASSUME NEW c \in Conns, StaleEvent(c) PROVE SourceInv'
    BY <1>15 DEF StaleEvent, Event
  <1>16. ASSUME NEW c \in Conns, ClientEvent(c) PROVE SourceInv'
    BY <1>16 DEF ClientEvent, Event
  <1>17. ASSUME NEW ty \in Types, NEW f \in Files, Announce(ty, f) PROVE SourceInv'
    BY <1>17 DEF Announce, Reads, Returns
  <1> QED
    BY <1>1, <1>2, <1>3, <1>4, <1>5, <1>6, <1>7, <1>8, <1>9, <1>10, <1>11,
       <1>12, <1>13, <1>14, <1>15, <1>16, <1>17
       DEF Next, Server, Handler, Peer

\* A handler that waits for the peer finds the file as it was.
LEMMA PlaceStep == ASSUME SInv, Next PROVE PlaceInv'
  <1> USE ServerAssumption DEF SInv, TypeOK, PlaceInv, peers, kernel, upload, history
  <1>1. CASE EpollWait
    BY <1>1 DEF EpollWait
  <1>2. CASE Kick
    BY <1>2 DEF Kick, Event, closefile, close_client
  <1>3. CASE Accept
    BY <1>3 DEF Accept, Event
  <1>4. CASE Tick
    BY <1>4 DEF Tick, Event, CheckUpdate, Judge, closefile
  <1>5. CASE SaveIptable
    BY <1>5 DEF SaveIptable, Reads, Returns, close_client
  <1>6. CASE OtherCommand
    BY <1>6 DEF OtherCommand, Reads, Returns
  <1>7. CASE ReadFile
    BY <1>7 DEF ReadFile, Reads
  <1>8. CASE FileComplete
    BY <1>8 DEF FileComplete, Returns
  <1>9. CASE ReadEof
    BY <1>9 DEF ReadEof, AtEof, Returns, closefile, close_client
  <1>10. CASE Second
    BY <1>10 DEF Second
  <1>11. ASSUME NEW c \in Conns, Connect(c) PROVE PlaceInv'
    BY <1>11 DEF Connect, News
  <1>12. ASSUME NEW c \in Conns, Send(c) PROVE PlaceInv'
    BY <1>12 DEF Send, News
  <1>13. ASSUME NEW c \in Conns, SendPart(c) PROVE PlaceInv'
    BY <1>13 DEF SendPart, News
  <1>14. ASSUME NEW c \in Conns, Close(c) PROVE PlaceInv'
    BY <1>14 DEF Close, News
  <1>15. ASSUME NEW c \in Conns, StaleEvent(c) PROVE PlaceInv'
    BY <1>15 DEF StaleEvent, Event
  <1>16. ASSUME NEW c \in Conns, ClientEvent(c) PROVE PlaceInv'
    BY <1>16 DEF ClientEvent, Event
  <1>17. ASSUME NEW ty \in Types, NEW f \in Files, Announce(ty, f) PROVE PlaceInv'
    BY <1>17 DEF Announce, Reads, Returns
  <1> QED
    BY <1>1, <1>2, <1>3, <1>4, <1>5, <1>6, <1>7, <1>8, <1>9, <1>10, <1>11,
       <1>12, <1>13, <1>14, <1>15, <1>16, <1>17
       DEF Next, Server, Handler, Peer

\* Whoever ends a connection closes its file first.
LEMMA OwnerStep == ASSUME SInv, Next PROVE UploadBelongsToClient'
  <1> USE ServerAssumption DEF SInv, TypeOK, PlaceInv, SourceInv, UploadBelongsToClient, peers, kernel, upload, history
  <1>1. CASE EpollWait
    BY <1>1 DEF EpollWait
  <1>2. CASE Kick
    BY <1>2 DEF Kick, Event, closefile, close_client
  <1>3. CASE Accept
    BY <1>3 DEF Accept, Event
  <1>4. CASE Tick
    BY <1>4 DEF Tick, Event, CheckUpdate, Judge, closefile
  <1>5. CASE SaveIptable
    BY <1>5 DEF SaveIptable, Reads, Returns, close_client
  <1>6. CASE OtherCommand
    BY <1>6 DEF OtherCommand, Reads, Returns
  <1>7. CASE ReadFile
    BY <1>7 DEF ReadFile, Reads
  <1>8. CASE FileComplete
    BY <1>8 DEF FileComplete, Returns
  <1>9. CASE ReadEof
    BY <1>9 DEF ReadEof, AtEof, Returns, closefile, close_client
  <1>10. CASE Second
    BY <1>10 DEF Second
  <1>11. ASSUME NEW c \in Conns, Connect(c) PROVE UploadBelongsToClient'
    BY <1>11 DEF Connect, News
  <1>12. ASSUME NEW c \in Conns, Send(c) PROVE UploadBelongsToClient'
    BY <1>12 DEF Send, News
  <1>13. ASSUME NEW c \in Conns, SendPart(c) PROVE UploadBelongsToClient'
    BY <1>13 DEF SendPart, News
  <1>14. ASSUME NEW c \in Conns, Close(c) PROVE UploadBelongsToClient'
    BY <1>14 DEF Close, News
  <1>15. ASSUME NEW c \in Conns, StaleEvent(c) PROVE UploadBelongsToClient'
    BY <1>15 DEF StaleEvent, Event
  <1>16. ASSUME NEW c \in Conns, ClientEvent(c) PROVE UploadBelongsToClient'
    BY <1>16 DEF ClientEvent, Event
  <1>17. ASSUME NEW ty \in Types, NEW f \in Files, Announce(ty, f) PROVE UploadBelongsToClient'
    BY <1>17 DEF Announce, Reads, Returns
  <1> QED
    BY <1>1, <1>2, <1>3, <1>4, <1>5, <1>6, <1>7, <1>8, <1>9, <1>10, <1>11,
       <1>12, <1>13, <1>14, <1>15, <1>16, <1>17
       DEF Next, Server, Handler, Peer

\* No step loses count of the file.
LEMMA FileStep == ASSUME SInv, Next PROVE FileInv'
  <1> USE ServerAssumption DEF SInv, TypeOK, PlaceInv, FileInv, Types, peers, kernel, upload, history
  <1>1. CASE EpollWait
    BY <1>1 DEF EpollWait
  <1>2. CASE Kick
    BY <1>2 DEF Kick, Event, closefile, close_client
  <1>3. CASE Accept
    BY <1>3 DEF Accept, Event
  <1>4. CASE Tick
    BY <1>4 DEF Tick, Event, CheckUpdate, Judge, closefile
  <1>5. CASE SaveIptable
    BY <1>5 DEF SaveIptable, Reads, Returns, close_client
  <1>6. CASE OtherCommand
    BY <1>6 DEF OtherCommand, Reads, Returns
  <1>7. CASE ReadFile
    BY <1>7 DEF ReadFile, Reads
  <1>8. CASE FileComplete
    BY <1>8 DEF FileComplete, Returns
  <1>9. CASE ReadEof
    BY <1>9 DEF ReadEof, AtEof, Returns, closefile, close_client
  <1>10. CASE Second
    BY <1>10 DEF Second
  <1>11. ASSUME NEW c \in Conns, Connect(c) PROVE FileInv'
    BY <1>11 DEF Connect, News
  <1>12. ASSUME NEW c \in Conns, Send(c) PROVE FileInv'
    BY <1>12 DEF Send, News
  <1>13. ASSUME NEW c \in Conns, SendPart(c) PROVE FileInv'
    BY <1>13 DEF SendPart, News
  <1>14. ASSUME NEW c \in Conns, Close(c) PROVE FileInv'
    BY <1>14 DEF Close, News
  <1>15. ASSUME NEW c \in Conns, StaleEvent(c) PROVE FileInv'
    BY <1>15 DEF StaleEvent, Event
  <1>16. ASSUME NEW c \in Conns, ClientEvent(c) PROVE FileInv'
    BY <1>16 DEF ClientEvent, Event
  <1>17. ASSUME NEW ty \in Types, NEW f \in Files, Announce(ty, f) PROVE FileInv'
    BY <1>17 DEF Announce, Reads, Returns
  <1> QED
    BY <1>1, <1>2, <1>3, <1>4, <1>5, <1>6, <1>7, <1>8, <1>9, <1>10, <1>11,
       <1>12, <1>13, <1>14, <1>15, <1>16, <1>17
       DEF Next, Server, Handler, Peer

-----------------------------------------------------------------------------
(* The invariant and what it means.                                        *)

\* Nobody has connected yet.
LEMMA InvInit == Init => SInv
  <1> SUFFICES ASSUME Init PROVE SInv
    OBVIOUS
  <1> USE ServerAssumption DEF Init
  <1>1. TypeOK
    <2>1. pending \in Seq(Conns) /\ batch \in Seq({"server", "timer"} \cup Conns)
      BY EmptySeq, Zenon
    <2>2. /\ status \in [Conns -> {"new", "open", "closed"}]
          /\ part \in [Conns -> BOOLEAN] /\ eof \in [Conns -> BOOLEAN]
          /\ inbuf \in [Conns -> Nat]
      OBVIOUS
    <2>3. md5_r \in Files \cup {NoSum} /\ file_type \in Types \cup {0}
      OBVIOUS
    <2>4. sent \in Nat /\ tmp \in Nat /\ len_filedata \in Nat
      OBVIOUS
    <2> QED
      BY <2>1, <2>2, <2>3, <2>4 DEF TypeOK
  <1>2. BatchInv /\ SourceInv /\ PlaceInv
    BY DEF BatchInv, SourceInv, PlaceInv
  <1>3. UploadBelongsToClient /\ FileInv
    BY DEF UploadBelongsToClient, FileInv
  <1> QED
    BY <1>1, <1>2, <1>3 DEF SInv

\* A step that changes nothing keeps the invariant.
LEMMA InvStutter == SInv /\ UNCHANGED vars => SInv'
  BY DEF SInv, TypeOK, BatchInv, SourceInv, PlaceInv, UploadBelongsToClient, FileInv,
         vars, peers, kernel, upload, history

\* The batch, the client's socket and the file that is open agree in every
\* reachable state.
THEOREM ServerInvariant == Spec => []SInv
  <1>1. SInv /\ [Next]_vars => SInv'
    BY InvStutter, TypeStep, BatchStep, SourceStep, PlaceStep, OwnerStep, FileStep DEF SInv
  <1> QED
    BY InvInit, <1>1, PTL DEF Spec

\* Every variable keeps its type; a handler that reads has a client.
THEOREM TypeCorrect == Spec => []TypeOK
  BY ServerInvariant, PTL DEF SInv

\* A file that is open is always that of the client that is connected.
THEOREM UploadsBelong == Spec => []UploadBelongsToClient
  BY ServerInvariant, PTL DEF SInv

\* However the events of peers, seconds and other connections fall, a verdict is
\* passed only on a whole file.
THEOREM VerdictsAreOnWholeFiles == Spec => VerdictOnWholeFile
  <1>1. SInv /\ [Next]_vars =>
            [g_check_update /\ ~g_check_update' /\ opened => tmp = FileLen[md5_r]]_vars
    <2> SUFFICES ASSUME SInv, Next, g_check_update, ~g_check_update', opened
                 PROVE  tmp = FileLen[md5_r]
      OBVIOUS
    <2>1. ~fp /\ file_type \in Types
      BY DEF Next, Server, Handler, Peer, EpollWait, Kick, Accept, Tick, CheckUpdate,
             Judge, closefile, StaleEvent, ClientEvent, Announce, SaveIptable,
             OtherCommand, ReadFile, FileComplete, ReadEof, Second, Connect, Send,
             SendPart, Close, upload, SInv, TypeOK
    <2> QED
      BY <2>1 DEF SInv, FileInv
  <1> QED
    BY ServerInvariant, <1>1, PTL DEF Spec, VerdictOnWholeFile
=============================================================================
