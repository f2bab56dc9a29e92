# Verification project for vdm_board

vdm_board is the software of a video decoder board: it pulls H.264 streams from
network cameras over RTSP, decodes them, draws texts over the pictures, encodes
the result again, serves it over RTSP, and is set up over the network and a
serial line. The sources have no design document; every definition here is
translated from the C code, and `PROJECT.json` names the lines of each.

All paths below are relative to `src/RTSPd/`; `av/` stands for
`server_main/av_server/src/`.

## 1. Inventory

| component | files | state | operations | hard part |
|---|---|---|---|---|
| video frame ring | `av/BRStream.c` | per stream: packet pool, begin and end of the newest frame, frame number, position of the newest I frame | `WriteVideo2Buf`, `WriteFrameSub`, `GetOneVideoFrame[Sub]`, `GetOneVideoPos`, `FindByTimeTick`, `CheckTotalFrame`, `CopyTotalFrame` | the writer never waits for a reader: what a held position means after it has been lapped |
| audio ring | `av/BRStream.c` | as above, packets numbered alone | `WriteAudio2Buf`, `GetOneAudioPacket` | as above; no I frame to fall back to |
| media wake-up | `av/BRStream.c` | mutex, condition variable | `RtpThrdWaitMediaData`, the notifications | wait without predicate |
| RTSP client | `av/test.c` | per camera: state machine, timer, flags, handles | `rtsp_client`, `rtsp_recv`, `Stop_rtspclient` | three kinds of threads on one structure with no lock; taking down in several steps |
| overlay receiver | `av/test.c` | up to 32 sockets, one 2920-byte ring | `osd_pic_receive`, `processOSD` | messages cut anywhere, ring full, all clients in one ring |
| media system | `RajDecMac/src/media_sys_api.c`, `sample_comm_sys.c`, `gui_win.c` | table of channels, windows, encoder and overlay handles, `OpLock`; outputs, layers, their modes, open frame buffers | `MSA_*`, `MAS_*` | handles used by several threads, an error path that keeps the lock; calls of many vendor calls that fail midway; windows swapped between outputs of different kind |
| configuration server | `av/processMsg.c`, `libipnc/src/file_cfg.c` | the configuration in memory, 30 files on flash | one request: a list of keys to get or set, then write-back, network script, reboot | what is in memory but not on flash; what a crash leaves |
| board server | `boardcast_server/selfserver.c`, `eventloop.c`, `main.c` | one TCP client, open upload file, timers, epoll set | accept, announce, receive file, get/set parameters, one-second tick | uploads against the tick; sources freed in the middle of a batch |
| discovery | `boardcast_server/boardcast.c` | static answers | `resposeboardcast` | state kept between calls |
| serial receiver | `boardcast_server/selfserver.c` | 256-byte ring, 8-bit indices; which clocks are on | `com_receiver_func`, `osd_callback`, `check_client` | packages across reads and across the wrap, overflow; a connection that outlives its server |
| AV server | `av/av_server.c`, `av/interface.c` | table of ten sockets | accept, serve, drop | short reads |
| boot, reset | `av/init_system.c`, `build/bin/if.sh` | files | restore, start | sequential |
| panel | `av/BR_light.c`, `av/ST_I2C.c`, `libkeyboard/` | lamps, keys, I2C flag | lamp on/off, key thread, check loop | keys while windows come and go |
| drawing, characters, hashes, vendor samples | `RajDecMac/src/gui_win.c`, `av/libchars.c`, `av/aes.c`, `boardcast_server/md5.c`, `libipnc/src/gmavi.c`, ... | pixels, strings | pure data | none for a model checker |

How they meet: the encoder's callback writes the **video ring**, the RTSP
library's session threads read it. The **RTSP client** feeds the **media
system** with what the cameras send, and lights the **panel**. The **serial
receiver** turns serial frames into overlay messages and sends them over a
local socket to the **overlay receiver**, which draws them through the media
system on streams the client marks as working. The **AV server** hands requests
of web pages to the **configuration server**. The **board server** changes
configuration files and firmware and reboots the board.

What makes each correct:

* ring: a session gets whole frames, each at most once and in order, whatever
  the writer overwrites; a position handed back is still usable; a key frame
  request gets a key frame.
* client: no stream is stuck; a stream that is connected starts clean; a
  handle in use exists; the end leaves nothing behind; lamps tell the truth;
  a stop ends it, unless it waits for an overlay thread that nobody wakes.
* overlay receiver: a message is drawn or dropped, never mixed, and a working
  stream's clock goes on whatever the other stream does.
* media system's set-up: layers are as recorded, windows have what their
  output's mode asks for, a window shown is displayed, one that is gone leaves nothing.
* configuration: memory and flash agree but for the files still marked, or whose
  write has failed; a loss of power costs only what was being written just then.
* board server: an upload is judged once it is complete; a client is answered.
* serial receiver: the packages carried out do not depend on how the reads cut them.

## 2. Plan

Done, in this order (the most important behaviour first):

1. `FrameFeed`, `VideoRing`, `VideoRingProofs`: what a session of the RTSP
   server may rely on, the ring that implements it, and the proofs.
2. `RtspClient`, `RtspClientProofs`: the supervisor, the frame receiver and the
   overlay thread on the fields they share; with it the handles of the media
   system and the lamps of the panel as far as the client uses them.
3. `ConfigKeys`, `ConfigStore`, `ConfigStoreProofs`: the key tables of the
   configuration server, its requests, its files, power loss, the restore.
4. `SelfServer`, `SelfServerProofs`: uploads to the board on its event loop.
5. `MediaSystem`, `MediaSystemProofs`: the channel table under `OpLock`, with its error
   paths, the encoders' workers, and the key thread; the callers of the client around it.

6. `DeviceSetup`, `DeviceSetupProofs`: the media library under any program: one output
   or two, combined by hardware or software, the picture-in-picture layer, windows
   swapped, hidden and magnified, with a vendor call failing anywhere.
7. `Bytes`, `SerialLine`, `ComReceiver`, `ComReceiverProofs`: the serial ring, which
   implements an abstract reader of the whole line, however the reads cut it.
8. `OverlayQueue`, `OverlayFeed`, `OverlayFeedProofs`: the texts and clocks of 7 through
   the connection and the byte ring to the pictures, which implements an abstract queue.

Every safety property, action property and refinement that a run checks is stated by a
theorem. Left, in this order:

9. `AudioRing`, `MediaWait` (a condition variable without a predicate), `Discovery`.

Modules about which something is to be proved hold no RECURSIVE operator; their
parameters are CONSTANTS with named assumptions; every handler is one action or
one action for each of its atomic steps.

## 3. Modules and code

### VideoRing (`av/BRStream.c`)

| module | code |
|---|---|
| `pool`, `writeBegin`, `writeEnd`, `tick`, `iBegin` | `pPoolVideoPacket`, `nWriteVideoBegin`, `nWriteVideoEnd`, `nVideoFrameTick`, `nLastIFrameBegin` of a stream (and the same with `Sub`) |
| `want`, `pos`, `got` | what an RTSP session passes to `GetOneVideoFrame` and gets back |
| `WriteVideo2Buf` | `WriteVideo2Buf` and `WriteFrameSub`, from lock to unlock |
| `GetOneVideoFrame` | `GetOneVideoFrame`: `GetOneVideoPos`, `FindByTimeTick`, `FindIFrame`, `CheckTotalFrame`, `CopyTotalFrame` |

Writer and readers hold the stream's mutex for the whole of their work, so each
is one step. A packet is its header, its payload the piece that the header
names. The sessions belong to a library that is not in the repository; they are
modelled from how the code's interface is used: 0 first, then one more than the
number last received, with the position handed back. `FrameFeed` is the abstract
specification: frames are published in order, and a session receives whole
published frames, none older than asked for. `FeedSpec` says that `VideoRing`
implements it under the identity on `sent`, `tick`, `want`, `got`.

### RtspClient (`av/test.c`)

| module | code |
|---|---|
| `status`, `timer`, `have_vd`, `linked`, `width`, `encode_create` | fields of `struct rtspc_stream` (`linked` is `rtsp_fd >= 0`, `width` is `stEncodeSet.iWidth != 0`) |
| `window`, `decoded`, `venc`, `osd`, `led` | what hangs on the handle in `media_sys_api.c`, and the lamps in `BR_light.c` |
| `pc`, `i`, `t` | `rtsp_client`: between the steps that other threads can see |
| `cb`, `cbT` | `rtsp_recv`, per stream |
| `osdPc`, `osdIdx` | `osd_pic_receive` and `processOSD` |

Nothing here is locked, so a step ends wherever another thread may look: `timer++`
and `timer--` are a load and a store, a take-down is several steps. The RTSP
library delivers one frame per stream at a time and drops what arrives while it
connects. Whether `rl_close_rtsp` waits for a frame that is being delivered is not
to be seen in the sources: the constant `ForcedClose` stands for the answer, and
the run `client_live` checks one answer, `client` the other, and the proofs cover both.
The overlay thread's `select` has no timeout: `OsdWake` is traffic, which nobody
owes, `OverlayRuns` what the thread does by itself. A client that is told to stop may
therefore wait in `pthread_join` for ever; `HungInJoin` names that state, and
`StopIsObeyed` says that it is the only one in which the client can hang. The calls that create a window, a decoder, an encoder or an
overlay may fail; the calls that destroy them do not.

### ConfigKeys, ConfigStore (`av/processMsg.c`, `libipnc/src/ipnc.c`, `libipnc/src/file_cfg.c`, `av/init_system.c`)

`ConfigKeys` holds the tables: the 217 keys of the switch by kind, the file each is
stored in, `File_array`, `Init_table`, `reset_table`, and which files have
defaults. `ConfigStore` has one action for each kind of code in the switch
(settings of the pattern compare-assign-mark, mode keys, the address, the MAC,
users, ...), then `EndOfPairs` (`gen_if_cfg`), `WriteTmp` and `MoveTmp` for each
marked file (`write_cfg_file`), `DefaultSetting` and `ReadBack` (`do_reset`),
`SetImageHw` (the RTSP client's thread), `GoDown` anywhere and `Restart`
(`if.sh` and `init_system`). `write_cfg_file` writes to `/tmp` and has the shell's `mv`
copy the file to flash, with no `fsync` and no result looked at. So `Put` leaves the file
`unsettled` until the kernel writes it back (`WriteBack`), and a loss of power
finds each setting of an unsettled file as it was, as it was to be, or gone (`Found`);
defaults are written in the same way. Or the write fails (`PutFails`, noted in
`short`): the file stays as it was or is cut anywhere, and the server goes on. `if.cfg`
is written by an `mv` of its own (`gen_if_cfg`) and treated alike. `mem` and `flash` map a cell, a key with its file, to
one of two values. The history variables `done` and `asked` remember what the last
finished request left and what the present one has asked for. The module's head
says what is abstracted.

### SelfServer (`boardcast_server/selfserver.c`, `eventloop.c`)

| module | code |
|---|---|
| `client_fd`, `client_source`, `len_filedata`, `md5_r`, `file_type`, `g_check_update` | the globals of these names; no client is `NoConn` |
| `fp`, `tmp` | is `fp` open; how much is in `/tmp/bin.tar.gz` |
| `batch` | the array `ep` of `event_loop_dispatch`, what is left of it |
| `edge`, `timer` | the client's socket (EPOLLET) and the timer of one shot, as the kernel sees them |
| `status`, `inbuf`, `part`, `eof`, `pending` | connections as the network sees them |
| `EpollWait`, `Kick`, `Accept`, `ClientEvent`, `Announce`, `ReadFile`, `FileComplete`, `ReadEof`, `SaveIptable`, `OtherCommand`, `Tick` | `event_loop_dispatch`, `server_accept_net`, `client_connection_active`, `check_client` with `update` |
| `StaleEvent` | an event of the batch whose source an earlier handler has freed: the process crashes, or nothing happens |

A handler that reads from the socket blocks, so its steps are separate: a peer
may do anything in between, the other handlers nothing.

### MediaSystem (`RajDecMac/src/`, `av/test.c`, `libkeyboard/br_keyboard.c`)

| module | code |
|---|---|
| `isInit`, `table`, `chan` | `gMsaCtrl.isInit`, `gMsaCtrl.pstChanInfo`, `MSA_CHANNEL_INFO_ST` (`venc` is `iVencChan >= 0`, and so on; `win` is `stWindow`, `flag` is `iVencThreadFlag`) |
| `alloc` | the channels that have not been freed; a handle outside it points nowhere |
| `OpLock` | `hOpMutex` between two steps: a call that does not wait is one step |
| `hw`, `bound` | what the vendor's start and bind functions (`sample_comm_sys.c`) have left running |
| `worker` | `Hisi_StreamWorkThread` of each encoder |
| `Created`, `CreateFails`, `Destroy`, `Hide`, `Show`, `WindowSet`, `OsdCreated`, `OsdDestroyed` | `MSA_CreateChanWindow`, `MSA_DestroyChanWindow`, `MSA_ShowChanWindow`, `MAS_ChanWindowSet`, `MAS_ChanWindowCreateOSDLayer`, `MAS_ChanWindowDestroyOSDLayer` |
| `VisitGetVd`, `WorkerStarted` | `MAS_ChanWindowCreateEncode` with `Hisi_CreateStreamWorkThread` |
| `DestroyEncode`, `JoinWorker`, `StopEncode` | `MAS_ChanWindowDestroyEncode` with `Hisi_DestroyStreamWorkThread` |
| `KeyPress` ... `KeyFull` | `recv_boradcast_creat` and `show_win`, one step for each call |
| `Frame`, `SendDecData`; `OsdMessage`, `OsdDraw` | `rtsp_recv`, `processOSD`: the handle is taken, then the lock |

`MayFail` names the vendor calls that may fail, by the place in the code where they
stand (`FailureSites`). The run `display` lets ten of the 26 fail: those after
which the records are right, among them `StopVenc` and `UnbindVenc`, which leave an
encoder behind whose channel says so. At the others the code leaves something behind
that contradicts the records, so that one of `HandlesTellHardware`, `ScreenIsAsAsked`
and `LockComesFree` does not hold:

* `StartGrp`: `StartVpss` returns from every step after the group's creation without
  destroying it (`sample_comm_sys.c:1155-1281`), and `MSA_CreateChanWindow` goes to
  `err` (`media_sys_api.c:745-749`), so that no window can have that number again.
* `BindVo`, `CreateDec`, `BindDec`: `MSA_CreateChanWindow` stops too little
  (`788`, `820`, `832`), so that place, pipe or decoder run on.
* `UnbindDec`, `StopDec`, `UnbindSd`: `MSA_DestroyChanWindow` has taken the channel out of
  the table and gives up.
* `SetStart`, `SetBind`: a window that counts as shown is dark, and `ShowStart`,
  `SetUnbind`: the screen is not as asked for.
* `BindVenc`: the encoder runs without a picture and without a worker, and
  `iVencThreadFlag` is whatever `malloc` found; if it looks set, the client joins
  a thread that was never made, and keeps the lock.
* `RecvPic`, `AttachRgn`: the second step of creating an encoder or an overlay
  (`sample_comm_sys.c:992-997`, `1102-1107`) fails, and the channel or region stays with no
  record. `MSA_CheckEnableOp`, which looks at the record, then lets the window be
  destroyed under it: with these two `NothingOnADeadPipe` is false as well.
* `ReadSize`: `MSA_GetDecodePicSize` returns with the lock held.

`DestroyRgn`, after which the record is right, is left out to keep the run small. What
holds at these places all the same is proved (section 6): the theorems name the calls
that may not fail, if any.

`VisitLinkDown` and `Down` close a connection. As in `RtspClient`, whether `rl_close_rtsp`
waits for a frame in delivery is the constant `ForcedClose` (`Closes`): `display`
has a close that waits, the theorems cover both. That a receiver finds its
window is claimed of the first only; the receivers' half of `HandlesLive` says so.
Two unbinds name a
channel of the pipe that was not bound (`MSA_ShowChanWindow` and
`MSA_DestroyChanWindow` 1 for 0, `MAS_ChanWindowDestroyEncode` 0 for 1); the
vendor's library, which is not to be seen, is taken to accept that and do nothing,
so `bound` keeps them.

### DeviceSetup (`RajDecMac/src/media_sys_api.c`, `sample_comm_sys.c`, `gui_win.c`)

| module | code |
|---|---|
| `isInit`, `setup` | `gMsaCtrl.isInit`, `gMsaCtrl.stInitDev`: number of outputs, their modes and screens, the output of the picture-in-picture layer |
| `attr` | `stOutputDevLayerAttr` and `stPipLayerAttr`: what a layer is started with again |
| `fb` | `hd_layer_open` of `gui_win.c` |
| `lock` | `hOpMutex`, as far as a call may return without giving it back |
| `lay`, `hdmi` | the hardware: devices and layers that run, how they are combined, of which size, the binding of the picture-in-picture layer, HDMI's format |
| `chn` | the hardware: output channels, groups (VPSS), decoders, what is bound to what, cropped, magnified |
| `table`, `win` | `pstChanInfo` and the fields of `MSA_CHANNEL_INFO_ST` |
| `torn` | history: windows of whose calls one has failed midway, that were swapped while hidden, or that outlived their system |
| `InitSystem`, `InitSystemNoPools`, `InitSystemFails`, `InitSystemNoFb`, `DestroySystem` | `MSA_InitSystem` and the places where it gives up, `MSA_DestroySystem` |
| `SetDevCombineMode`, `PipLayerBindToDev` | the functions of these names |
| `CreateChanWindow`, `DestroyChanWindow`, `ShowChanWindow`, `ChanWindowSwap`, `ChanWindowOpenZoomIn`, `ChanWindowCloseZoomIn` | the functions of these names |
| `OpenExtra`, `CloseExtra` | creating and destroying an encoder or an overlay; a creation that fails leaves nothing, or an encoder or overlay with or without a record |

`MediaSystem` has the threads of one program on one setting; `DeviceSetup` has no
threads, since every call holds `OpLock` from beginning to end, but any order of
calls and any setting. A call is a list of vendor calls, each with what it needs
and what is left when it fails; it fails when it cannot be done, or, `MaxFailures`
times in the life of a system, for no reason. The vendor's library is not to be
seen; taken from its documentation's names and the code's use of it: a receiver has
one source, cannot be bound to a second one nor unbound from one it is not bound to,
but unbinding one that has none succeeds; stopping a channel does not unbind it, so that
the place of a destroyed window of a hardware-combined output stays bound to its group
(`media_sys_api.c:958` unbinds channel 1 of it where channel 0 was bound) and no software
window can be put there later;
`HI_MPI_SYS_Exit` puts layers, partition modes and the layer's binding back. A caller
keeps to what `media_sys_api.h` asks (all windows closed before the
picture-in-picture layer is bound elsewhere) and to three things it does not say, each
of them named in the module: windows are swapped back before one is created or
destroyed (`NothingSwapped`), swapped only where the swap looks for them
(`AtItsPlace`), and only if nothing has failed on them (`Whole`).

### SerialLine, ComReceiver (`boardcast_server/selfserver.c`)

`ComReceiver` has the ring (`buf`, `start`, `end` for `com_rcv_buf`, `com_rcv_start`,
`com_rcv_end`, with the indices' overflow at 256 as arithmetic modulo `Size`) and one
action for `com_receiver_func`: one read of what has come, at most a buffer full, the
loop that stores it until the ring is full, and the search with its check byte.
`SerialLine` is what the panel is promised: the packages that a reader of all bytes
heard finds, whatever the check of its bytes is (`Check`); the receiver gives it the
exclusive or. `Bytes` has C's operator `^`, since the community module that has it uses
RECURSIVE operators, which the prover does not take. Bytes that find no place are not
heard; `OnlyBurstsLose` says when that can be.

### OverlayQueue, OverlayFeed (`boardcast_server/selfserver.c`, `av/test.c`)

| module | code |
|---|---|
| `clock`, `clockFits`, `timeSet` | `ch1_time_osd`, `ch2_time_osd`, `date_y` and `time_y`, `set_time_flag` |
| `sock`, `alive`, `net` | `g_char_socket` with what the kernel knows of the connection, the board server's process, the bytes on their way |
| `ring`, `pc` | `osd_buf` between `start_i` and `end_i`, where `osd_pic_receive` is |
| `works` | the width of a stream, which `rtsp_client` sets and clears |
| `SetRows`, `SetTime`, `ClearRow`, `DrawText`, `ClockOn`, `ClockOff` | the packages 0x10 to 0x82 of `com_receiver_func` |
| `check_client` | the timer of one second, as far as it draws the clocks |
| `Read`, `TakeEnds`, `SkipByte`, `Refuse`, `Draw` | `osd_pic_receive`: the read, and one turn of the loop over the messages for each of its exits |
| `ServerEnds`, `ServerStarts` | the AV server's process goes and comes back, the board server stays |

The ring is one of pieces, a header or the text behind it, so that a read cuts
between any two of them; that a read can also cut within one only makes a part
wait, like a piece that has not come. Assumed: no text holds four bytes 0xFF
where a header is looked for, and the only client of the port is the board server,
which is the only one in the repository.
`OverlayQueue` is what the path promises: messages may be lost from the head
of the queue, and what is shown is the message at its head, whole. The refinement
mapping reads the queue off the ring and the connection: every message whose header
is still there (`Only`, which picks elements out of a sequence with the community
modules' `FlattenSeq`, because `SelectSeq` has no meaning to the prover). Channels are
numbers from 0 to `LastChannel`; a package for both goes to them in that order.

### How the modules meet

The state machines share no variable. `MediaSystem` has the client's
threads as its callers: each status of `RtspClient` with the calls its visit makes, in
the same order, but without the timers and flags that decide when. `RtspClient` in turn
has a picture of the media system that is right by `MediaSystem`'s properties: a
refused call changes nothing, and what a handle says exists. Where their components touch, each
module has the other's side as its environment: the encoder callback that fills
the ring is `RtspClient`'s doing, `SetImageHw` in `ConfigStore` is a step of
`RtspClient`'s supervisor, the lamps and handles in `RtspClient` are the panel
and the media system. `OverlayFeed` composes the two processes of the board: the packages that `ComReceiver`
carries out on one side, the streams that `RtspClient` takes up and down (`works`) on
the other, and `check_client`, of which `SelfServer` has the rest. What `MediaSystem`
takes for granted of `MSA_InitSystem` and of windows combined by hardware is what
`DeviceSetup` shows. Not composed: the board server rewrites `if.cfg` from
its own copy of the address, which `ConfigStore` does not know of (hazard at
`processMsg.c:1578`).

## 4. Runs

| run | instance | shows |
|---|---|---|
| `ring` | 4 packets, frames of 1 to 4, buffer of 3, 4 frames, beside a main pool of 5, 1 session, fair | a frame found by its first packet is whole; a key frame request gets the newest I frame or nothing; the next frame is where the last one ended; the ring implements `FrameFeed`; a session is served or lapped |
| `ring_join` | 3 packets, 4 frames | **violation**: a session joins or skips to a frame that is no I frame |
| `client` | 2 streams, limit 1, close waits | types and the range of the timer; no dead end in GETVD; lamps are right; nothing left at the end; a connection starts clean; the handles that the overlay and the receiver use exist |
| `client_live` | 1 stream, limit 2, forced close, fair | a silent stream is connected again and again; a picture that decodes gets its encoder; a stop ends the client, or leaves it taken down in the join for an overlay thread in its `select` |
| `config` | 15 keys, at least one for each action, 4 pairs in one request or more, 1 user, 1 failed write, power loss anywhere | index ranges; every durable setting is saved when a request is over; a loss of power costs only files that a request has changed and that are not written back; both copies of the address agree after a request that sets it |
| `config_reset` | 6 keys, fair | **violation**: a restore never ends |
| `config_users` | user keys, 2 users | **violation**: a deleted user is back after a restart |
| `upload` | 2 peers, files of 1 and 2 blocks, 3 blocks in all, fair | an upload does not outlive its client; only a whole file is judged; a complete one is judged; who waits is accepted |
| `display` | 2 streams, 2 channels, frames on one, keys "window 0" and "all", 10 of 26 places of failure, a close that waits, fair | handles tell what runs; nothing runs on a dead pipe; workers and callers find what they use; the screen is as asked for; the lock comes free |
| `setup` | 2 windows, one output or two combined differently, one failure and two new windows in the life of a system | layers and HDMI are as recorded; windows have a group as their output's mode asks; what is shown is displayed in its place and nowhere else; nothing is left running of a window that is gone without a failure |
| `serial` | ring of 8, packages of 5, 10 bytes out of 3 values | the packages carried out are those of the bytes heard; only a burst loses any |
| `overlay` | 2 channels, ring of 24 pieces, reads of 8, 2 packages, one end of the AV server, fair | the path implements `OverlayQueue`; a working stream's clock is drawn again and again |

Bounds and why they are enough. The ring: a frame may fill the pool, be longer
than the session's buffer, end at the last packet, and the writer laps the
session after one frame or several; four frames of one packet are a whole round, and
any longer ones more than that. One session is enough because sessions share nothing but the ring,
which they only read. The client: two streams are what the lamps distinguish and
what the supervisor's loop needs to be a loop; with a limit of 1 the timer passes
it, at it and below it. `STREAM_TIMEOUT` itself is 10. The configuration: `MaxPairs`
counts the pairs of all requests. Four in one request set the mode, an index or a channel, and
two settings, or the mode twice; two requests of two each set the mode and a setting, which
lets a crash hit the second after the first has been saved, or find the first's files
not yet written back. One failed write (`MaxShort`) leaves the other files good. Uploads: three blocks are
an announcement, its file and a second announcement before the tick. The media
system: two windows are the one with the small picture, which `MSA_DestroySystem`
takes down, and one that `end_2` does, and the shown and the hidden; `Cameras` and
`Keys` leave out what is symmetric (frames of the other stream, the key of the other
window). There is no bound on connections, keys or frames in these runs.
The set-up: two windows are what a swap needs, and two outputs, one of each kind, what a
swap between kinds needs; a failure leaves its window torn, so that a second one only
adds failures of calls on what is torn. The serial line: ten bytes are two packages, or
one with noise on both sides, and more than the ring of eight holds, so that it wraps
and runs over; a package's bytes are three values, the mark among them. The overlay: the
ring holds three rounds of both clocks (the code's 2920 bytes hold more than ten);
with two rounds `ClockIsDrawn` is false in the model, since a refused message
ends the loop over the messages, a stream that is down lets two messages wait for every
one it refuses, and the ring runs over before the other's clock comes to its head.
The
bounds are guards of the environment's actions (`MaxTick`, `MaxPairs`, `MaxShort`,
`MaxSend`), named in the modules.

Deadlock is checked in all runs but `setup`, where a call that returns with the lock
held stops the library, `serial` and `overlay`, where no more need come, `upload`, where the process may have crashed
and peers may have nothing more to say, and `display`, where the client comes to its
end, waits for an overlay thread that nobody wakes, or for a lock that is never given back.

## 5. Fairness

* `VideoRing`: a session polls as long as it plays (weak fairness of its reads
  without the key frame request). Nothing is assumed of the encoder.
* `RtspClient`: the supervisor, the overlay thread (`OverlayRuns`) and a frame that has
  begun are scheduled. Neither frames nor clients of the overlay port need arrive: there
  is no fairness of `OsdWake`, the `select` without a timeout (`test.c:535`). Strong
  fairness of `OsdTop`: what one `select` brings in is finite, so the loop over its
  messages comes to its end.
* `ConfigStore`: the server goes on with the request it is at. Weak fairness of
  `Process` and `EndOfPairs` only; power need not fail, requests need not come.
* `SelfServer`: the process runs when it can, the timer that was set expires, and a
  peer closes its connection some time. The last is what the code needs and cannot
  enforce: its sockets block, so a peer that stops in the middle of a block stops
  the loop, and with it the tick and the listening socket.

* `OverlayFeed`: the board server's timer goes on (`check_client`), and the overlay
  thread runs while there is something to read or a message to take
  (`osd_pic_receive`). Streams, packages and the end of a server are nobody's duty:
  `ClockIsDrawn` speaks of behaviours in which they have settled.

* `MediaSystem`: whoever waits with the lock held goes on when it can, and so do the
  workers. Nothing is assumed of who gets the lock next, nor of any caller.

## 6. What is proved

For every value of the constants that the modules' assumptions allow:

| theorem | statement | rests on |
|---|---|---|
| `VideoRingProofs!TypeCorrect`, `FramesAreWhole` | `[]TypeOK`, `[]StartMeansWhole` | `RingInv` |
| `VideoRingProofs!RingImplementsFeed` | `Spec => FeedSpec` | `RingInv`, step by step: a write is a `Publish`, a successful read a `Deliver`, any other a stutter |
| `VideoRingProofs!NextFrameIsAtPos`, `SearchInPool` | `[]NextFrameAtPos`, `[]SearchStaysInPool` (which no run checks) | `RingInv`, `PlaceInv` |
| `VideoRingProofs!KeyRequestIsRight` | `[]KeyRequestGetsNewestKey` | `RingInv`, `KeyInv` |
| `RtspClientProofs!ClientTypes`, `GetVdIsNoDeadEnd`, `LampsAreRight`, `ExitIsClean`, `OverlayIsSafe` | `[]` of `TypeOK`, `GetVdCanAdvance`, `LampMeansEncoding`, `NothingLeftBehind`, `OverlayHandleLives` | `ClientInvariant` |
| `ConfigStoreProofs!TypeCorrect`, `SettingsSaved`, `PowerFailureCostsOnlyUnsettled` | `[]TypeOK`, `[]Saved`, `Spec => NothingElseLost` | `Inductive` |
| `RtspClientProofs!LinkIsClean`, `ReceiverIsSafe` | `~ForcedClose =>` `[]` of `LinkStartsClean`, `DecoderHandleLives` | `IInv`, `FrameInv` |
| `ConfigStoreProofs!BothCopiesAgree` | `Spec => AddressesAgree` | `Inductive`, `AddressInv` |
| `SelfServerProofs!TypeCorrect`, `UploadsBelong`, `VerdictsAreOnWholeFiles` | `[]TypeOK`, `[]UploadBelongsToClient`, `Spec => VerdictOnWholeFile` | `ServerInvariant` |
| `MediaSystemProofs!TypeCorrect`, `HandlesStayLive`, `WorkersAreJoined` | `[]` of `TypeOK`, `HandlesLive`, `WorkerFetchesFromEncoder`, for every `MayFail` and `ForcedClose` | `MediaInvariant` |
| `MediaSystemProofs!PipesOutliveTheirUsers` | `KeepsRecords => []NothingOnADeadPipe`: every `MayFail` without `RecvPic` and `AttachRgn` | `MediaInvariant` |
| `MediaSystemProofs!ScreenFollowsTheKeys`, `ChannelsTellHardware` | `ScreenObeys => []ScreenIsAsAsked` (without 4 calls), `NothingIsLeft => []HandlesTellHardware` (without 12) | `MediaInvariant`, `ScreenInv`, `ToldInv` |
| `DeviceSetupProofs!TypeCorrect`, `LayersAsRecorded`, `WindowsAsMode` | `[]TypeOK`, `[]LayerAsRecorded`, `[]WindowAsMode` | `Noted`, `Outlived` |
| `DeviceSetupProofs!ShownAreDisplayed`, `NothingIsLeftRunning` | `[]ShownIsDisplayed`, `[]NothingLeftRunning` | `Pictures` |
| `ComReceiverProofs!LessThanAPackageWaits`, `LosesOnlyBursts` | `[]Waiting` (which no run checks), `Spec => OnlyBurstsLose` | `Reader` |
| `ComReceiverProofs!ImplementsLine` | `Spec => LineSpec` | `Reader` |
| `OverlayFeedProofs!ImplementsQueue` | `Spec => QueueSpec` | `FeedInv`, step by step: a call of `osd_callback` is a `Send`, a drawing a `Show`, any other a `Lose` or a stutter |

**Ring.** `StartMeansWhole` alone is not inductive: a write could cut a frame in the
middle and leave its first packet. It cannot because frames are laid end to end and
the writer destroys the oldest from its start; `NoStraddle` says it: going round
from `writeEnd`, no frame that can be found reaches over `writeEnd`. With the sub
stream, `SearchStaysInPool` looks wrong at first sight, as a hit is reduced by
the main stream's packet count; it holds because by `NextFrameAtPos` the
search always hits at its first step, from a position of its own pool. `PlaceInv`
adds what makes that inductive: consecutive frames are adjacent, the newest ends at
`writeEnd`, and a session that has all waits at `writeEnd`. `KeyInv` says what
`nLastIFrameBegin` still means after the writer has gone over it.

**Client.** `IInv` ties the fields of a stream to what they stand for, status by
status (`EncodeInv`, `LinkInv`), says what of it holds at each step of a take-down, at
`end_4` (`EndInv`) and for the windows (`WindowInv`). `TimerInv` is there for the
types: two of the three places that count do not look at the limit, and a frame
that comes late may write back a value it read before. With a close that waits,
`FrameInv` adds that a frame in delivery has its connection, a connection its window,
and that a stream without a connection has been cleared; the first is what a forced
close breaks, and with it the third.

**Configuration.** `Marking`: a setting that differs from its file is marked, or the
file's last write has failed; the temporary copy is what memory holds. `Justified`: a
file is marked only for what the request has asked for, so that no file is put at risk
without need. `Origin`: memory, and each file whose last write has not failed, hold
what the last finished request left or what this one has asked for. Neither of them is
inductive without the other's knowledge of which file is on its way. The
types say that `do_reset` stays with the first file of its table (`resetAt = 1`), which has
no defaults: that it never reaches a file that is promised to be kept is why a
restore cannot spoil one, and the finding `config_reset`. `AddressesAgree` compares two files at
the end of a request that sets the address, so `AddressInv` follows the address there:
a pair that changes it marks `NET` and notes it for `if.cfg`; once `if.cfg` has been
written, the other file is marked or agrees, unless one of the two writes fails. The table lemmas (`FileOfIsFile`, `DurableFacts`, ...) come
from expanding `ConfigKeys`.

**Uploads.** `BatchInv`: the sources of a batch differ, so that no handler runs twice, and a
listening socket in it has somebody waiting; `SourceInv`: socket and source come and go
together. `FileInv` is what `VerdictOnWholeFile` needs: what has come of a file and
`len_filedata` are the whole, and a file that is closed with its type still known has come.

**Media system.** `MediaInvariant` says where the supervisor is and what the other threads
may be doing there (`PlaceInv`), that handles name channels, each stream its own
(`HandleInv`), that streams said to be linked are connected (`LinkInv`), and that a
worker has an encoder, and a stream whose take-down will join it (`WorkerInv`): the
property about workers is not inductive without the last, since nothing in the encoder's
own state says that somebody is going to join. It holds whatever fails and whether a close
waits or not; two of its parts say what that changes: a frame in delivery has its
connection if a close waits (`HandleInv`), and encoders and overlays that run are on
record if every creation keeps its record (`PipeInv`). Two
properties with exceptions have invariants of their own: `ToldInv` says that a place
keeps its source while it is hidden, without which a bind that fails (`ShowBind`)
would leave a window that counts as shown without a picture; `ScreenInv` says how far
`show_win` has come with each window.

**Set-up.** `LayerAsRecorded` needs `Noted`: the attributes kept for a later start are
those of the screens on record, and the devices run; without it a mode change could start
a layer with another's size. `WindowAsMode` needs `Outlived`: a window that
`MSA_DestroySystem` could not destroy counts as torn, since the next system may have
another mode. A swap exchanges devices and groups in two places of the code; that they
match is `SwapFact`. `SmallestFree` needs well-founded induction.

`Pictures` says of each window whose calls have all succeeded that its decoder, group,
place and bindings are there (`Standing`), that places and bindings belong to
such windows or to torn ones (`OnlyWindows`, `Bound`, `Unused`), that no two share a
place (`Numbered`), that encoders and overlays keep their window from being destroyed
(`Extras`), and what the analogue output shows (`Second`). A call is up to twenty vendor
calls, so the proof does not speak of each in turn: `Local` says that the hardware after
some calls differs from that before at most for the numbers and places that the calls
name. It goes from one call to the next, and a window that none of them names stands as
before; only for the named ones is the list of calls followed. The attempt to prove this
found a gap in the model that two windows cannot show: a swap of windows 1 and 2 that
fails midway may have taken down the analogue output of window 0, which `torn` now
tells (`Analogue`). The run keeps two windows, the theorems cover any number.

**Serial line.** The ring wraps round, its indices overflow, and the search stops where
less than a package is left, so `LineSpec` is about a search that resumes. `Reader` has
three parts: the types; `Waiting`, that less than a package is left in the ring after
every call; and `Carried`, that for every continuation of the bytes heard, the packages
of the whole are those carried out, followed by those which a search of what is
left together with the continuation finds. Only the quantifier over what may still come makes
it inductive: `done` says nothing of a package half of which waits. That both searches do
what their recursive equations say, at every place, is proved by looking at the smallest
place where they do not.

**Overlay.** `FeedInv` says that behind every header that asks for a text comes its text, in
the ring or in the connection (`Whole(ring \o net)`): a ring that runs over, a message refused, a
server that ends cut off a beginning only, which may leave a text without its header but no
header without its text. With that a drawing takes a header and its own text, which
is the head of the queue. That picking out the headers goes through
concatenations (`OnlyTogether`) comes from the same fact of `FlattenSeq`
(`StrungTogether`), whose recursion is again met with a smallest counterexample.

## 7. Only model-checked

Liveness: `ServedOrLapped`, `SilentStreamIsRetried`, `PictureIsShown`, `StopIsObeyed`,
`CompleteIsJudged`, `EveryoneIsAccepted`, `LockComesFree` and `ClockIsDrawn`. Proofs under
fairness and of ENABLED are out of the prover's reach. That the model's recursive
functions obey their equations is proved, though the library's induction theorems
cannot be used: a set of numbers has a smallest member.

## 8. Findings

* `ring_join`: the comments of `BRStream.c` (906, 980-981) say that a session which joins
  or was lapped starts at an I frame; the code gives it `nLastIFrameBegin` without
  asking whether an I frame is still there, and the search by number takes any frame.
* `config_reset`: `cmd_type.h:263` says that `e_reset` restores the initial settings;
  `do_reset` tries its first file, the encoder's, for ever, because
  `default_setting` has no table for it.
* `config_users`: `cmd_type.h:201` lists deletion among the operations on users; a
  deletion marks no file, so that the user is back after a restart.

What the models showed without a document to contradict, kept as hazards: after
an encoder that cannot be created the client waits for the overlay thread until
it is told to stop (`test.c:1061`), and a client that is told to stop waits for the
overlay thread until somebody connects to its port (`test.c:535`); a forced close lets a late frame count for the
next connection; the frame receiver's and the supervisor's updates of the timer can
be lost; a second announcement before the tick spoils later uploads
(`selfserver.c:682`); events of a batch can go to a freed source
(`eventloop.c:437`); the failing calls listed under `MediaSystem` leave hardware
running or the lock taken; a start of the media system that fails at a frame buffer
spoils every later one (`gui_win.c:263`); ending a zoom may keep the lock
(`media_sys_api.c:1436`); a window swapped while hidden is shown, and one destroyed after
a swap stops channels of the other (`media_sys_api.c:1680`); window 0's end stops channel 0
of its layer, whoever has it (`974`); a window of a channel combined by hardware leaves its place bound,
since channel 1 is unbound where 0 was bound (`958`), so that a window of the other kind may
not use it; an AV server that ends takes the board server
with it at the second text (`selfserver.c:959`); nobody stops the key thread before windows are destroyed,
so that a key may use a freed handle or, after `BRLib_Keyboard_Exit`, call a null
pointer (`test.c:859`, `br_keyboard.c:109`), where the model lets the process crash.

## 9. Not modelled

* Ring: audio, the wake-up of sessions, start and stop of streams, payload bytes.
* Client: failing destroy calls, a second
  start of the client, the double free when `rtspc_init` fails (`test.c:839`, `1066`).
* Media system: reading and changing an encoder's settings (nothing in the repository
  calls them; `GetEncode` assigns to its pointer parameters and not through them, so
  that `MAS_GetEncodeInfo` answers the settings of creation), the drawing,
  `iOsdIsClear` (never initialised, and not reset with the layer: a new layer may be
  drawn on without having been cleared), decoders of other formats, `mutex` of
  `show_win` (there is only one key thread), handles of windows that are gone, calls made
  from two threads before the first `MSA_InitSystem` has returned.
* Serial line and overlay: the values of the system's date, the bytes of a text, more
  than one client of the overlay port, the length field of a header that does not fit the
  ring (the board server sends none).
* Configuration: replies, the contents of values, indices out of range, short reads of
  a file that is whole, failing writes while the board starts, the encoder's files (written,
  but never loaded), shell scripts that are called for their effect on other programs.
* Uploads: discovery datagrams, values of settings and the files they are kept in, the
  reboot command, a failing `accept`, the serial source of the same loop.
* Drawing, characters, hashes and ciphers, vendor samples, the RTSP library (only its
  headers are there), wrappers of ioctls: pure computations, or code without state of
  its own; see `PROJECT.json`.
