# Formal models of the Shuttle device code

TLA+ specifications of the program logic in this device tree (a tablet with a
Huawei 3G modem): the radio interface layer with its AT command channel, and the
audio, voice tunnel, camera, GPS and sensor layers. The modules are translated
from the C, C++ and shell sources; where the code and its comments disagree the
code is what is modelled.

## 1. Inventory

Paths are relative to `src/`. "State" is what survives from one call to the
next.

### Radio interface layer, `huawei-generic/`

| Component | State | Operations | Hard behaviour | What makes it correct |
|---|---|---|---|---|
| AT channel, `atchannel.c` | `struct atcontext`: descriptor, reader flag, the slot of the pending command (response, type, prefix, SMS body), two mutexes, two condition variables, the kick pipe | `at_open`, `at_close`, `at_send_command*`, `at_handshake`, `at_send_escape`; the reader thread | callers against the reader thread; late answers after a timeout; closing while a command waits; the SMS prompt | one command owns the slot; a command returns its own answer; every call returns |
| Queue and channel life, `huaweigeneric-ril.c` (`queueRunner`, `onRequest`, `onATReaderClosed`, `onATTimeout`, `processRequest`) | `s_requestQueue` (closed flag, request list, event list), radio state `sState` | accept a request, take events and requests in turn, close and reopen | the runner against the reader of each life of the channel, stale readers, restart while requests wait | every request answered, once; a dead channel is reopened; the framework knows the radio state |
| SIM and radio state (`setRadioState`, `pollSIMState`, `onSIMReady`, `requestRadioPower`) | `sState`, events in the list | state changes, poll chain | change without the mutex around the comparison; chain of timed events | a SIM that is not ready is polled; state changes announced |
| SMS (`onNewSms`, `onNewStatusReport`, `onNewBroadcastSms`, `requestSMSAcknowledge`) | `s_outstanding_acknowledge`, list of held PDUs | deliver or hold; deliver the next on acknowledge | the reader thread against the runner; an acknowledge that is refused or fails | at most one message unacknowledged, none lost, order kept |
| Timed events and polls (`enqueueRILEvent`, `pollOperatorSelected`, `checkMessageStorageReady`) | doubly linked list sorted by time; events with a token or a counter | insert by two threads, take, enqueue oneself again | an insertion between the clock and the mutex; a token that travels with an event | the list is a queue by time; the request is completed once |
| Reports of the modem (`requestScreenState`, `requestSetLocationUpdates`, `requestGSMSMSBroadcastActivation`, `onSIMReady`, ...) | settings in the modem | lists of commands, each of which may be refused | seven handlers write the same settings | what a screen that is on needs stays on |
| Calls (`requestDial` ... `requestSeparateConnection`, `requestGetCurrentCalls`) | the voice tunnel, a timed event | change the calls, list them | the modem does not announce every change | no call is taken for one being set up for ever; the tunnel only for calls |
| Data call (`killConn`, `requestSetupDefaultPDP`, `requestDeactivateDefaultPDP`, `ip-up`, `ip-down`) | system properties, `ppp0` | start and kill `pppd`, wait for a property | three processes without a lock | the address is that of this connection |
| SIM card (`requestSIM_IO`, `getCardStatus`, PIN and lock requests, `fcp_parser.c`) | `UiccType` | paths, conversion of a 3G file's description, passwords | two forms of answers; counts of tries | the framework is told what the card said |
| Network and messages (`requestRegistrationState`, contexts, preferred type; service centre, cell broadcast) | settings in the modem | parse lines with optional fields, write them | fields counted from commas | no field is taken for another |
| USSD, forwarding, DTMF, STK, OEM hooks and others | none | a command and an answer | answers that do not parse | one answer per request |
| Request data, `requestdatahandler.c` | heap copies | duplicate, free | table of types per request | what is copied is freed |
| Audio tunnel, `audiochannel.cpp` | flags `running`, `quit_flag`, `*_thread_exited`, frame buffers | start, stop, two audio callbacks | callbacks against stop, waiting with a limit | no callback after the buffers are freed; samples in order, none repeated, none lost but those a port that is not waited for refused |
| Codecs, `gsm.c`, `sms_gsm.c`, `sms.c`, `at_tok.c`, `fcp_parser.c`, `misc.c` | none | encode, decode, tokenize | boundaries: odd digits, septet fill bits | inverse of each other on legal input |

The framework calls `onRequest` on its own threads; it enqueues and wakes the
runner, which alone issues AT commands. The reader thread calls `onUnsolicited`,
which either tells the framework or enqueues an event for the runner. The
reader of a dead channel calls `onATReaderClosed`; a command that times out
calls `onATTimeout` on the runner. Both set `closed` and the runner restarts
the channel.

### Other parts

| Component | State | Hard behaviour | What makes it correct |
|---|---|---|---|
| Audio HAL, `audio/audio_hw.c` | device, output and input streams each with a mutex, standby flags, active streams, echo reference | lock order device > input > output; standby and mode changes against writers and readers; PCM that cannot be opened | no deadlock; standby iff the PCM is closed; echo reference on both sides or on none |
| GPS HAL, `libgps/gps_huawei.c` | `GpsState` (`init`, control sockets, two threads), NMEA reader | start, stop, quit and suspend against the timer thread | no thread left on a cleared state; a start takes effect |
| Camera HAL, `libcamera/` | `mLock`, preview and picture threads, V4L2 buffers | stop waits for a thread that needs the same mutex; picture while previewing | no deadlock; buffers mapped while used |
| Sensors HAL, `libsensors/sensors.cpp` | use counter of the device | early returns | counter balanced |
| Shutdown thread, `frameworks/.../ShutdownThread.java` | `sIsStarted`, `mActionDone` | broadcast answers against timeouts | one shutdown; always reaches power off |
| Lights, `liblight`; `libpkip`; `setrecovery`, `recovery_ui.c` | one mutex or none | none | not modelled: single writes |
| Make files, init scripts, overlays, applications, kernel and firmware images | data | none | not modelled |

## 2. Plan

Every step below is done; what is left is in section 6.

1. **AtChannel**: inside of one life of the channel, and who owns its slot.
2. **RilRunner**: life cycle of the channel, radio state, requests. A command is
   one step there, with the outcomes AtChannel has: answered, error, closed,
   timed out. A handler is one step too, unless a later module takes it apart.
3. What the RIL keeps from one request to the next, a module each: **SmsAck**
   with the abstract **SmsDelivery**, **EventList** with the abstract
   **EventQueue**, **Reports**, **Calls**, **DataCall**, **SimAccess**. What it
   reads out of lines and writes into them: **Tokens**, **NetworkInfo**,
   **Messaging**. **MCRilServices** runs them.
4. The device layers: **AudioHal**, **AudioCapture**, **AudioTunnel**,
   **Camera**, **Gps**, **NmeaReader**, **Sensors**. **MCDevices** runs them.
5. Proofs, most important first: the slot and whose answers a command returns,
   the announcement of the radio state and the polls of the SIM, the two
   refinements (SmsDelivery, EventQueue), the echo reference and active streams,
   the preview, the address of a data call, the reports, the tunnel, the card,
   the lines of the modem. Then the compositions: each safety invariant of `RilServices_state` and
   `Devices_streams` for all of their parts together.

Modules that are proved about use no RECURSIVE operator; the tokenizer is built
with the folds of the community modules.

## 3. Modules

### AtChannel: `atchannel.c` between at_open() and at_close()

| Model | Code |
|---|---|
| `response`, `type`, `responsePrefix`, `smsPDU` | the slot in `struct atcontext` |
| `commandmutex`, `requestmutex` | the holder, where it is held across a step; a critical section without a wait is one step, guarded by the mutex being free |
| `pc[c] = "requestwait"`, `"commandwait"` | asleep on `requestcond`, `commandcond`; `"requestwoken"`, `"commandwoken"`: woken, without the mutex yet |
| `Call`, `Lock`, `RequestBusy`, `TakeSlot`, `WritelineCheck`, `Write`, `Await`, `Timeout`, `TimedOut`, `Return`, `OnTimeout` | `at_send_command_full()` and `_nolock()`, statement by statement |
| `HandshakeRetry`, `HandshakeAnswered`, `HandshakePause` | `at_handshake()`; the pause keeps the mutex |
| `ReadLine`, `ReadLine2`, `ReadNull`, `ProcessLine`, `Reader*` | `readerLoop()`, `processLine()`, `onReaderClosed()` |
| `CloseFd`, `CloseSignal` | `at_close()`, whose first half has no lock |
| `Modem*` | external: takes lines in order, answers one command at a time, may be late for ever, may disappear |

A line of the modem carries the serial number of the command line it answers
and a number within its answer. The code sees neither; the properties use them.
`PauseDrains` makes the modem finish its answers before the handshake's pause
ends, which is what the pause is for: the violation shown then is not due to a
slow modem.

Abstracted: bytes, the read buffer, error numbers (`MODEM_ERROR` is any of
them), allocation failure. The formatted variants build their line in the
static `strbuf`; the model keeps it, so a second caller overwrites it while the
first waits for the slot.

### RilRunner: `huaweigeneric-ril.c` with at_open(), readline() and at_close()

| Model | Code |
|---|---|
| `channelOf`, `fd` | descriptors and what is behind them; a number is used again after close, so closing twice can hit the wrong channel |
| `hung` | channels the modem has hung up |
| `kicks` | bytes in the pipe that wakes readers; two readers may compete for one |
| `closed`, `requestList`, `eventList` | `s_requestQueue`; events are counted per kind |
| `sState`, `seen`, `oldState` | the radio state, the one the framework read last, the local of `setRadioState()` |
| `Open` ... `IsRadioOn` | `queueRunner()` up to its loop |
| `Loop`, `PollSIMState`, `GetSIMStatus`, `PollAgain`, `OnSIMReady` | one turn of the loop and its events |
| `ProcessRequest`, `GetCurrentCalls`, `RadioPower`, `Handler` | the gates and the handlers; `Handler` stands for those that send commands and answer once |
| `ReadLine` ... `OnATReaderClosed` | a reader thread; there is one per at_open() |
| `SetRadioState`, `Announce`, `Follow` | `setRadioState()` in the three places where it reads or writes `sState` |

Commands are one step. `CommandAnswered` says the channel is live and some
reader reads it; otherwise a command fails at once or times out, and only the
bound `MaxFaults` lets a command time out that would have been answered.

### SmsDelivery, SmsAck: incoming messages

`SmsDelivery` is what the RIL promises: messages handed over in order, each
once, each after the one before was acknowledged. It has three variables
(`arrived`, `delivered`, `acknowledged`) and three actions. `SmsAck` is the code:

| Model | Code |
|---|---|
| `line` | what readline() has given to onUnsolicited() and is not handled yet |
| `s_outstanding_acknowledge`, `s_held_pdus` | the variables of these names |
| `OnNewSms` | `onNewSms()`, `onNewStatusReport()`, `onNewBroadcastSms()`: one section of `s_held_pdus_mutex` |
| `Acknowledge`, `TakeAck` | the framework's request and the gate of processRequest(), which answers it with an error unless the SIM is ready |
| the runner's other actions | `requestSMSAcknowledge()`: AT+CNMA, then the next held message |

Two sequences of history (`arrived`, `delivered`) are what the abstract
specification speaks of; the refinement mapping takes the messages out of the
calls (`DeliveryPromise`).

### EventQueue, EventList: timed events

`EventQueue` is a sequence sorted by time, first in first out for equal times.
`EventList` is the doubly linked list of `struct RILEvent`: nodes with `next`,
`prev` and `abstime`, inserted by the reader and the runner in two steps (the
clock is read before `queueMutex` is taken), taken by the runner. Every branch of
enqueueRILEvent() is an operator of its own (`InsertFirst`, `InsertBefore`,
`InsertLast`). `Nth` follows the links; it is a recursive function, so that the
proofs can speak of it. `RunCheckMessageStorage` and `RunPollOperator` put themselves in
again; the latter carries the token of a request. The mapping walks the links
(`Order`), so a link set wrongly is a step EventQueue does not have. Times are
relative to now: `Tick` makes all of them smaller, and time may pass for ever.

### Reports: what the modem reports of its own accord

`settings` are those of the modem (AT+CREG, AT+CGREG, AT^CURC, AT+CGEREP,
AT+CNMI). A handler is the list of its commands; each command says whether a
refusal ends the handler (`must`) and what is sent instead (`fallback`). The
modem accepts (`Accepts`), answers (`AnswersCnmi`) or refuses (`Refuses`).
`Reopened` is the channel opened again.

### Calls

`calls` are the modem's, `view` the framework's, `tunnel` is the voice tunnel,
`repoll` says that sendCallStateChanged() is in the event list. `Command` is any
of the ten requests that change calls, with what the modem makes of it;
`GetCurrentCalls` is requestGetCurrentCalls(): filter, poll again, tunnel, answer.

### DataCall

Three parties without a lock: the RIL (`setup`, `turn`: the loops of killConn()
and wait_for_property(), one turn a step), `pppd` (external) and its scripts
(`script`: what files/etc/ppp/ip-up and ip-down have still to set). A connection is a number
and an address is that of a connection.

### SimAccess

The card's lock, the tries it counts and the type of the card against
getUICCType(), requestSIM_IO() (paths, and which descriptions of a file are
converted), getCardStatus() and the requests with passwords. `reply` keeps what
the card had said beside what the framework is told.

### Tokens, NetworkInfo, Messaging

`Tokens` is at_tok.c: a line is a sequence of characters, a cursor what is left
of it. `NetworkInfo` writes every form of a +CREG, +CGREG and context line for
every place the network may be in and reads it as the handlers do;
`Messaging` does so for the service centre and the broadcast identifiers. This
is where characters matter: the fields are found by commas and quotation marks.

Two settings are kept by the modem and read back: the type of network (`sysCfg`)
and the broadcasts (`mids`). Not only the framework writes them: initializeChannel()
sends AT^SYSCFG=2,2 on every channel it opens (`InitializeSysCfg`), onSIMReady()
sends AT+CSCB=1 (`OnSIMReady`), and a command whose answer came too late failed
for the RIL and was carried out all the same. `preferred` and `wanted` are
therefore the sets of what may be set: a success makes them one value again, the
others add theirs (`MayBeSet`, `MayBeStored`).

### AudioHal and AudioCapture: `audio/audio_hw.c`

| Model | Code |
|---|---|
| `lock` | the mutexes of device, input and output; held across a step only where the code may block |
| `adev`, `out`, `in` | the structures, with the fields that decide something; `out.pcm` is the port it has open |
| `refs` | the echo references that exist |
| `op`, `at` | the call a thread is in, and where it is |
| `CallAudio`, `CallAudioIfStandby` | a call begins and takes its first mutex |
| `OutWrite`, `InRead`, `GetEchoPut`, `GetEchoCreate`, `OpenInput`, `PutEcho` | start_output_stream(), start_input_stream(), get_echo_reference(), put_echo_reference(), with the step at which each may fail |
| `SetMode`, `ForceOutput`, `ForceInput` | adev_set_mode(), force_all_standby() |

`AudioCapture` counts the frames of in_read() with preprocessors: how many are
in each of three buffers after reads of any lengths, effects that take and give
what they like, and reads of the kernel that fail.

### AudioTunnel: `audiochannel.cpp`

The runner in gsm_audio_tunnel_stop() (`stopper`) against the two callbacks of
the media library. The port is opened with O_NONBLOCK: `ModemAudioOut` sends any
part of a frame, and what the port did not take is gone (`refused`), since
AndroidRecorderCallback() looks at no result; `ModemAudioIn` gets any part of a
frame and completes it with `Silence`. Samples are numbered, so `SamplesInOrder`
can say which of them each side has. Deleting a stream waits for its thread: this
is what the library does, and is external.

### Camera: `libcamera/CameraHardware.cpp`

`mLock` with its holder; the preview thread; one thread per picture; the heaps,
each the size it was made for; the V4L2 device. A size stands for width, height
and format. `Capture` is startPreviewLocked() from the open device on: the device
may give a smaller frame than was asked for, and each step may fail. A preview
callback returns, or calls a method of the HAL that takes the mutex to look at
something (`PreviewCalls`). The device may stop giving frames (`stalled`); then
VIDIOC_DQBUF returns neither to the preview thread nor to Uninit(), which takes out
the queued frames with the mutex held.

### Gps and NmeaReader: `libgps/gps_huawei.c`

The framework's calls, the command thread, the timer threads, and a thread for
each notice, which reads the state under the semaphore `fix_sem` that its poster
took. gps_state_done() with a notice still to come is undefined and ends the
model (`crashed`). A notice is two steps, the framework's callback
(`NoticeCallback`) and what follows it (`NoticeEnds`: flags cleared, semaphore
posted), since the timer looks at the flags without the semaphore in between.
`NmeaReader` is nmea_reader_addc() by columns of a line. The reader is initialised
with its thread (`NmeaReaderInit`), not with a session: `NextSession` leaves `pos`
and `overflow` as they are.

### Sensors: `libsensors/sensors.cpp`

activate() and poll() as two threads, each read and each write of the use count
a step of its own.

### MC modules

`MCAtChannel` and `MCRilRunner` define the commands, lines and requests used.
`MCRilServices` and `MCDevices` put parts that share no state into one run: a
behaviour picks a part and is one of it, so the state space is the sum of
theirs and not the product. They are independent in the code too: what a part
has of another is in the part itself (Calls has the tunnel's flag).

## 4. Runs

| Run | Question | Result |
|---|---|---|
| `AtChannel_answers` | two threads, an SMS and a multi-line command, up to three calls, answers at any time | `TypeOK`, `SlotOwned`, `AnswerLag`, `AnswerComplete`, `PduOnce`, `FinalNotUnsolicited` hold |
| `AtChannel_close` | handshake and command, incoming SMS, close by a client, end of the tty | `CallReturns` holds |
| `AtChannel_handshake` | does the pause drain stale OKs? | `HandshakeDrains` violated |
| `RilRunner_requests` | two lives of the channel, one request of two kinds, one fault at any point | `TypeOK`, `RadioStateAnnounced`, `SimPolled`, `RequestsCompleted` hold |
| `RilRunner_recovery` | does a closed channel always lead to a restart? | `ChannelRecovers` violated |
| `RilRunner_once` | is a request completed once? | `CompletedOnce` violated |
| `RilServices_state` | the state the RIL keeps between requests, and the lines it reads and writes | thirteen properties hold, see below |
| `Devices_streams` | the device layers | sixteen properties hold, see below |
| `AudioTunnel_silence` | does a playback callback return when the modem falls silent? | `SilenceCompletes` violated |
| `Camera_heap` | does the JPEG heap keep the picture while it is given? | `PictureHeapKept` violated |
| `Gps_listen` | is there always a thread to hear a command? | `ThreadListens` violated |
| `Sensors_disable` | is the device closed when the sensor is disabled? | `DisabledCloses` violated |

What the results say:

- `AnswerLag` is exact about the protocol's weakness: a timeout shifts the
  channel by one answer, so that a command may return the answer to an earlier
  one, and it bounds the damage: by as many commands as there were timeouts.
  Without a timeout every command returns its own answer.
- `HandshakeDrains`: a try of at_handshake() times out, the second is answered
  by the first's OK, the second OK is in the tty during the pause; but the
  pause holds `commandmutex` and the reader waits for it in processLine(), so
  that the OK can be processed only after the next command took the slot.
- `ChannelRecovers`: the reader ends while initializeCommon() runs and sets
  `q->closed`; the runner then clears it. Every command fails at once from then
  on and nothing reopens the channel. The same happens when a stale reader
  closes the channel that was just opened.
- `CompletedOnce`: `requestGetCurrentCalls()` completes the request when the
  radio is not ready and has no return after it.

`RilServices_state` (about 122,000 states):

- `DeliveryPromise` (SmsAck implements SmsDelivery) and `EveryDelivered`:
  messages keep their order, one at a time, and none waits for ever, unless an
  acknowledgement was refused. processRequest() refuses one that comes while the
  SIM is not ready, without calling requestSMSAcknowledge(): the message stays
  outstanding, and every later one is held for ever. `EveryDelivered` names this
  exception; that it is needed TLC shows when it is left out.
- `ListSound`, `ListIsQueue`, `TokenInOnePlace`, `OperatorAnswered`: the linked
  list leads to exactly the events that wait, never to a freed one, and is a queue
  by time although Turn leaves the first node's back link dangling; the token of a
  request is in exactly one place and its request is answered, once.
- `StaysNotified`: in every order of handlers and with any refusals, a screen
  that is on keeps its reports and the messages stay routed.
- `TunnelForCalls`, `CallSetupFollowed`: the framework's view of a call being
  set up does not stay behind for ever, although the modem is silent about it.
- `FreshAddress`: however slow pppd's scripts are within the assumption below, a
  data call is not answered with an earlier connection's address.
- `SimAnswersTrue`, `LinesRead` (`NetworkTold`, `MessagesTold`): what the
  framework is told is what card, network and modem said. A setting is read back
  as it was set last, or as one of those who write it besides may have left it;
  the framework is not told when its setting is overwritten.

`Devices_streams` (about 396,000 states):

- `EchoRefSound`, `EchoBothSides`, `ActiveRuns`, `HdmiRouted`, `DeviceReleased`:
  playback, record and mode changes against three mutexes and failing PCMs.
- `CaptureInside`: no sequence of reads makes a count larger than its buffer.
- `CallbackHasBuffers`, `SamplesInOrder`: the voice tunnel. Whatever lengths come
  after one another and however much of each frame the port takes or gives, the
  modem gets the samples in order and lacks only what its port refused, in whole
  frames or parts of one; the phone hears all it was sent, with silence between.
- `FrameFits`, `StreamsForPreview`, `StopReturns`: the camera, also after a
  start that failed half way. Stopping does not deadlock because the preview
  thread only tries to lock and looks at exitPending in between. `StopReturns`
  excepts two cases, in which the code does hang: a preview callback that waits
  for the mutex in a call of its own, and a camera that gives no frames. The first
  is the deadlock for fear of which previewThread() calls the callbacks "Outside
  the lock" (CameraHardware.cpp:1459): stopPreviewLocked() waits for that thread
  with the mutex held, so calling them outside is not enough.
- `StatusInOrder`, `FixNotLost`, `JoinReturns`: one notice is out at a time, and a
  status notice finds the status it was made for; a fix keeps its flags until a
  callback has read it; and the end of a session, which waits for the timer
  thread, returns because `init` was reset first. A fix notice may find an empty
  fix: the timer saw flags that the notice before it was about to clear.
- `ParsedWhole`: a line too long never leaves its tail to be parsed. A session
  that ends in mid-line leaves what it sent in front of the next session's first
  line, and the property says that this is all that is ever put before a line.

The four violations of the device layers: `SilenceCompletes` (read() on a port
opened with O_NONBLOCK is tried again for ever, and the runner that stops the
tunnel waits for that callback), `PictureHeapKept` (pictureThread() gives the
heap after it released mLock), `ThreadListens` (open_gps() fails, the command
thread ends, `init` stays), `DisabledCloses` (a poll() that returns fewer events
than asked for keeps its use).

Seen while modelling, not stated as a property because no text of the
repository promises otherwise:

- requestSetPreferredNetworkType() sets 3G only for type 0 and both for 2.
- For facility lock "SC" the answer always reports one retry.
- A trailing comma in the modem's list of broadcast identifiers makes
  requestGSMGetBroadcastSMSConfig() fail.
- `TIMEVAL_CALLSTATEPOLL` is 500000 with a field of nanoseconds: half a
  millisecond.
- A broadcast message that is held is copied with strdup() and cut at its first
  zero byte (`Held`).
- ip-up sets the gateway after the address: an answer may have no gateway or the
  last connection's. A data call that fails leaves its pppd running.

### Bounds

`AtChannel`: three calls by two threads are enough for a command that times
out, a second that takes its late answer and a third waiting for the slot;
`MaxInfo = 2` lines show the order of an answer. The close run needs two
operations and one unsolicited report only, since what it asks is whether a
wait ends; `HandshakeRetryCount` is 2 instead of 8. `RilRunner`: `MaxOpens = 2`
gives a stale reader beside a live one; after the second life the runner stays
at `open`, which `RequestsCompleted` allows for. `MaxFaults = 1`: one hang-up or
one timeout; what follows it (failing commands, commands without a reader) is
not counted. `MaxRequests = 1` of two kinds: the requests do not interact, and
the radio state a second one would meet is produced by the faults as well.

`RilServices_state`: `MaxArrived = 4` messages, one of each kind, and
`MaxUnready = 1`: one delivered, one held, one in the reader's hands, one more.
`MaxNodes = 3` events: an insertion has a first, a middle and a last place;
`MaxLate = 2` seconds between the clock and the mutex, more than the delay of
one of the events; `MaxUrcs = 2`, and `Repoll = 2` instead of 30 (the count and
its limit are what matters). Two calls, since every command of two operands has
them. `KillEvery = 2`, `KillTurns = 3`, `WaitTurns = 2` instead of 5, 25 and 10:
each loop turns, kills again and gives up. `MaxConns = 2`: the address of an
earlier connection can be met. `PinTries = 3` as cards have. `MaxRanges = 1` with
`MaxConfig = 2`: one range more than is taken. `MaxDigits = 3`: even and odd.
`MaxTypes = 2`, `MaxLists = 2`: a setting beside the one that may have replaced it.

`Devices_streams`: two echo references, since a released one may come back;
two effects, one of which is the canceller. `Period = 4` and requests of 1, 3
and 6 frames: less than a period, nearly one, more than one, and no divisor;
`Dry = 1`: the effects give nothing once. `FrameSize = 3` with callbacks of 1,
2, 4 and 7 samples: leftovers of every length, none and two frames in one
callback; `MaxSamples = 7` allows two frames and a rest. Two sizes, a smaller and a larger; one
picture thread (the proofs of section 5 are for any number). Two timer threads:
a new session's beside an old one's. `MaxCommands = 2`: start, then stop or
quit, unread. `BufferSize = 5`, `MaxLine = 13`: a line fills the buffer twice.
`Camera_heap` needs two sizes and one picture.

`CHECK_DEADLOCK FALSE` in all runs: with bounded calls, faults and opens, or when
nobody calls, the system comes to rest.

### Fairness

Weak fairness for each thread: a thread that can run does run, and a timed wait
ends. Both are what the scheduler and `pthread_cond_timeout_np` give. Mutexes
are not strongly fair: `DeviceReleased` holds although a stream works on end,
because it needs the device's mutex for its next frames.

Beyond the threads, and only where a liveness property needs it:

- the framework acknowledges a message it was given and asks for the calls when
  it is told that they changed (`EveryDelivered`, `CallSetupFollowed`): both are
  its part of the RIL's interface. The code waits for the acknowledgement of
  status reports and broadcasts too (huaweigeneric-ril.c:1549, 1587), so the
  framework is taken to acknowledge all three kinds, though the comment at 1937
  speaks of new messages only. One that acknowledged no report would have every
  message after it held for ever;
- its GPS callbacks return, and the threads it is asked for are made
  (`JoinReturns`);
- a preview callback of the application returns, unless it waits for the mutex in
  a call of its own (`StopReturns`, which excepts that case);
- time passes (`OperatorAnswered`).

Nothing is assumed of the modem, except in `AtChannel_handshake`, where
`PauseDrains` rules out that the violation is due to a slow modem.
`MCRilServices` has three weak fairness conditions, each a disjunction over the
parts: in a behaviour one part's steps only are ever enabled, so each is that
part's own condition.

### Assumptions

- From the moment ppp0 has gone to the start of the next pppd (two sleeps and
  several commands) a script of the old one that has begun comes to its end
  (`StartPppd`). Without it the old ip-down could clear the new address.
- The modem writes no space after the commas of a line, keeps the broadcast
  identifiers as they were written, and reports +CREG of its own accord without
  a technology; the handlers are written for such a modem.
- Deleting a stream of the media library waits for its thread.

## 5. Proofs

Each proof is for all values of the constants, under the assumptions named in the
modules (the constants have their types; nothing else). In each, an inductive
invariant is found that implies the property; TLC has checked it on the instances
above.

### AT channel and runner

`AtChannelProofs` proves, for any set of clients and commands and any bounds:

- `TypeCorrect`: `Spec => []TypeOK`
- `SlotAlwaysOwned`: `Spec => []SlotOwned`

Assumptions of the constants: `ConstantsAssumption` and `NoneAssumption` of AtChannel (constants
have their types; `None` is none of the values it stands apart from).

Neither invariant is inductive. `IInv` adds

- `MutexInv`: a client in a critical section of `commandmutex` is its holder,
  so that no two are in one (`SlotOwned` needs it: two clients past the trylock
  would both own the slot);
- `BufferInv`: a formatted command past `Lock` finds a line in `strbuf`
  (`TypeOK` needs it at `Write`);
- `LineInv`: the reader has a line where it uses one.

`InitInv` and `StepInv` show that `IInv` holds initially and is kept by every
step; `StepInv` has one lemma per group of actions (`MutexStep`,
`ProcessLineSlot`, `MutexOther` for ownership, `Type*` for types). TLC has
checked the same invariants on the instances above.

The second half of `AtChannelProofs` is about whose lines a command returns:

- `AnswersLate`: `UrcsApart => (Spec => []AnswerLag)`
- `AnswersComplete`: `UrcsApart => (Spec => []AnswerComplete)`
- `FinalsOwned`: `UrcsApart => (Spec => []FinalNotUnsolicited)`
- `PduSentOnce`: `Spec => []PduOnce`

`UrcsApart` says that no unsolicited line of the modem is one that a command
would take for its answer, by prefix or kind. It is a fact about a modem and the
commands sent to it, not about atchannel.c, which has nothing else to tell such
lines apart (a hazard); without it the three are false. `MCAtChannel` assumes it
of its `Urcs` (`UrcsAssumption`), so TLC evaluates it for the unsolicited +CMT of
`AtChannel_close` and for the runs without unsolicited lines. The invariant is
about the order in which lines travel:

- `OrderInv`: what is under way (in the reader's hand, in the tty, what the modem
  still has to say, the commands it has not read) is sorted by the command it
  answers, and within an answer by line, the final response last;
- `LagInv`: the oldest of them is behind the last command written by at most as
  many as there were timeouts (`Gap`). The case that matters is a command that
  takes a late answer and returns: its own answer is now the late one, for the
  next command, but no later than before;
- `ResponseInv`, `OwnerInv`: the same of the lines that are in the slot, and that
  the slot is filled in for its owner;
- `UrcInv`: the second line of an SMS report, which does look like an answer, is
  never read by processLine().

TLC has checked this `AInv` also with an unsolicited +CMT. `PduOnce` is inductive
with `PduInv`: the body is in the slot, or it was sent.

`RilRunnerProofs` proves, for any requests, any number of lives of the channel
(and so of readers) and of faults:

- `RunnerTypeCorrect`: `Spec => []TypeOK`
- `StateAnnounced`: `Spec => []RadioStateAnnounced`
- `SimStaysPolled`: `Spec => []SimPolled`

Assumption: `RunnerAssumption` of RilRunner. `RadioStateAnnounced` speaks only of
the moments when no thread is announcing, so that it says nothing about the step
before. Its `IInv` replaces it by

- `ToldInv`: while the framework has not read the state, some thread is about to
  announce one and will find it different from its own `oldState`. A second
  `setRadioState()` meanwhile either keeps the state, and then that thread stays
  the witness, or changes it, and becomes the witness itself (`ToldSet`). This is
  why the comparison outside `s_state_mutex` does no harm;

and what the code behind it needs:

- `ReturnInv`: `setRadioState()` and `onATTimeout()` return where the thread that
  called them may go on (`TypeOK` needs it), and a timeout returns through both;
- `RequestInv`: a handler, or a call that returns to one, has a request;
- `ReaderInv`: a reader that has not been started is nowhere in the code, so that
  `AtOpenStart` overtakes no announcement of the thread it starts.

`SimPolled` needs `PolledInv` besides: while the state is SIM_NOT_READY a poll is
in the event list, is being made, or a thread that found another state before is
still inside of setRadioState() and will ask for one. A thread that finds
SIM_NOT_READY there already stops at the comparison, and then one of the other
three holds.

TLC has checked this `IInv` on the instance of `RilRunner_requests`.

### Services of the RIL

`ServicesProofs` is about one module after the other.

SmsAck (messages of any kind, any number): `SmsTypeCorrect`, and
`SmsImplementsDelivery`: `SmsSpec => DeliveryPromise`, the refinement. Two
invariants carry it. `TurnInv`: as long as a message is outstanding at most one
thing about it is under way (the framework has it, its acknowledgement waits, or
the runner is in requestSMSAcknowledge()); this is why a message is delivered
only when all before it are acknowledged. `OrderInv`: what arrived is what was
delivered, then what is held, then what the reader has in hand; so what is
delivered next is what SmsDelivery delivers next. The mapping is an image of a
sequence, and `DueSeq` and `GivenSeq` show that it commutes with Append.

The others:

- `TunnelOnlyForCalls`: `CallSpec => []TunnelForCalls` (any calls), inductive
  with the types, since view and tunnel change in one step only.
- `AddressIsFresh`: `DataSpec => []FreshAddress` (any number of connections and
  turns). `ScriptInv` is the table of what the property of the address can be for
  each state of pppd and its scripts; the line that matters is that it is empty
  whenever pppd starts.
- `ReportsStayOn`: `ReportSpec => []StaysNotified`. The invariant says for each
  handler which commands it has still to send: those of SCREEN_STATE(off) take
  reports away, and while they are under way the screen is not known to be on;
  all others are `Harmless`, or write back what they read.
- `CardToldTruly`: `SimSpec => [](SimTypeOK /\ SimAnswersTrue)` (any number of
  tries), by cases of what the card may answer.

`EventListProofs` (any number of events and requests, any delay of the runner):
`ListNeverDangles` (`ListSound`), `ListImplementsQueue`: `EventSpec =>
ListIsQueue`, the refinement of EventQueue, and `PollsKeepTokens`
(`TokenInOnePlace`). All are about a sequence `s` of nodes:

- `IsOrder(s)`: the links are those of `s`, forward and, but for the back link of
  the first node, which Turn leaves dangling, backward. `EInv` says that there is
  such an `s`, that it has exactly the waiting events, in the order of their
  times, and that the node a thread is about to put in is its own;
- what following the links gives (`Nth`, `Order`, `InList`) is then what `s`
  says. This is an induction along `s`, done as a least counterexample, since an
  induction theorem over an operator cannot be used here; that the recursive
  definition has a solution at all comes first;
- the four ways enqueueRILEvent() sets the links all make `s` with the event
  after those that are not later (`Insert`), and this is what EventQueue does;
- `TokenInv`: an event carries a token if it polls the operator, no two have the
  same one, and a token is with a request, with the runner, with an event, or
  answered.

`FoldFacts` and `LinesProofs` are about the lines of the modem (NetworkInfo,
Messaging), with two inductive invariants that are more than the property:

- `NetworkInv`: besides `NetworkTold`, the modem is set to the type the framework
  has set last or to one that may have replaced it (`Configured`: `sysCfg` is the
  configuration of a type in `preferred`, without which GET_TYPE could read back
  another one);
- `BroadcastInv`: besides `RangesTold`, what the modem has stored is nothing, or
  was written from a list whose selection is in `wanted` (`Stored`).

`CentreInv` is the number of the service centre with its type. `NetworkKept`,
`BroadcastKept` and `CentreKeptStep` show that steps keep them. On the way:

- *Folds.* The tokenizer, the digits of a number, the fields a handler reads and
  the list that AT+CSCB= writes are all folds, over sequences of any length. An
  induction theorem over an operator cannot be used here, so `InductiveSet` states
  induction about a set (from the least element of its complement), and
  `FoldUnfolds` and `FoldIs` show with it that a fold is the last of the values
  its steps lead to; `FoldHead` and `FoldAppend` take a step off at either end.
  `FoldLeft` itself is defined by a choice of a function on sets, so that there is
  one such function, and only one, comes first (`FoldingExists`). The step is a
  constant of `FoldFacts`, with an instance of the module for each fold.
- *Tokens.* `TokPlainNext` and `TokQuoted`: of a word of any length, quoted or
  not, and a comma, at_tok_nextstr() gives the word and the cursor is behind the
  comma; `NextIntThen`, `ItemThen`: the same of numbers. `CommasThen`: joining
  fields adds their commas and one (`Joins`: the lines are so joined), so that the
  number of commas, by which the handlers choose, is that of the fields.
- *Lines.* `LineForms`, `CgregForms`: a line is of one of five forms or, for
  +CGREG:, six, each with what is next at each cursor. `FormReported`: in each, the
  fields the three handlers choose by the commas are the ones it has, so what they
  read is what the modem knows or nothing; and `QuotedReported` for the form with
  as many commas as another, told apart by its quotation mark.
- *Contexts.* `ListedIs`: the contexts listed are those defined.
- *Cell broadcasts.* The n-th range that is selected stands at place 4n - 3 of the
  string, with a comma behind it but perhaps the last one (`MidsShape`), so that
  the n-th token is that range (`NthToken`) and the loop over the tokens finds the
  ranges, or meets an empty token, behind a comma at the end, and the handler
  fails (`StringsAre`, `EndsNone`). It fails, or tells the first `MaxRanges` of
  them (`RangesRead`).
- *Service centre.* `ReadBack` is the round trip for numbers of any length: the
  digit at an odd place is found one place later and one at an even place one
  earlier, and an odd last digit behind the F that ends the address.

`RilServicesProofs` is about `MCRilServices`, whose step is a step or a stutter of
each part (`EachServiceMoves`):

- `LinesAlwaysRead`: `Spec => []LinesRead`, and of it `CentreKept`: `Spec =>
  []AddressKept`;
- `ServiceTypesCorrect` and `ServicesSafe`: `Spec => []TypeOK`, and `Spec` implies
  all of the above and both refinements together.

### Device layers

`DeviceProofs` begins with AudioHal (any echo references and effects):
`AudioTypeCorrect`, `EchoReferenceSound` (`EchoRefSound`), `EchoReferenceShared`
(`EchoBothSides`), `ActiveStreamsRun` (`ActiveRuns`), `HdmiFollowsRoute`
(`HdmiRouted`). None is inductive: an input is started in four steps and stopped
in two, and in between the structures disagree.
`LockInv` says that a thread at such a place holds the device's
mutex, so at most one is; `InInv` says what that thread has done so far;
`OutInv` and `EchoInv` say that the output, started in one step, is never seen
half way.

The others:

- `ReadsInside` (`CaptureInside`, any period, requests and effects): inductive
  with the types; what is left of a period is a remainder, hence less than it.
- `BuffersKept` (`CallbackHasBuffers`): a callback that runs has its stream, and
  as long as a stream is there the buffers are (`BufferInv`).
- `SamplesKept` (`SamplesInOrder`, any frame size and lengths): `SampleInv` adds
  that a callback that asks the modem for a frame has used up the frame before.
  `Moved` is the one fact about buffers: cutting a sequence and appending the
  first part elsewhere keeps the concatenation.
- `PreviewStreams`, `FramesFit` (`StreamsForPreview`, `FrameFits`; any sizes, any
  number of pictures): `MutexInv`, whoever waits for the preview thread has the
  mutex and has asked it to end, and then it does not take the mutex any more;
  `PreviewInv`, a preview thread not asked to end has a camera that streams
  frames of the size of the heaps.
- `NoticesInOrder` (`StatusInOrder`) and `FixesKept` (`FixNotLost`; any number of
  timers): inductive with the type of the semaphore, and with the fact that after
  the callback of a fix notice no fix is unread, because the reader waits for the
  semaphore until the flags are cleared (`NoticeInv`).
- `LinesWhole` (`ParsedWhole`, any buffer, sessions that end anywhere): outside of
  a line too long, the buffer holds what has come of the line, before it what came
  of one that was cut off (`NmeaInv`).
- `DeviceTypesCorrect` and `DevicesSafe`: `Spec => []TypeOK`, and the twelve other
  safety invariants of `Devices_streams` together, for the `Spec` of `MCDevices`.

### Only model-checked

- Liveness (`CallReturns`, `RequestsCompleted`, `EveryDelivered`, `OperatorAnswered`,
  `CallSetupFollowed`, `DeviceReleased`, `StopReturns`,
  `JoinReturns`) is out of the prover's reach.

Every safety invariant, action property and refinement that a passing run
checks is proved. The violations are TLC's.

## 6. Not modelled

See `PROJECT.json` for each component's state. Of the modelled components:

- AT channel and runner: poll() that reports a hang-up for ever, the byte buffer of readline(), the parsing of error
  texts, out of memory, several queues (the code has one).
- Request handlers that keep nothing: USSD, CLIR, call waiting and forwarding,
  DTMF, mute, IMEI and IMSI, signal strength, operator list, STK, OEM hooks,
  messages stored on the card. Each is one command and one answer, and is
  `Handler` in RilRunner.
- gsm.c, sms_gsm.c and sms.c: alphabets, septets and PDUs. They are tables and
  loops over bytes without state; a model of them would repeat them.
- Audio: mixer controls, volumes, resamplers and delays; a second input. Voice
  tunnel: reads and writes of an odd number of bytes. Camera: callbacks that start
  or stop the preview (stopping it from its own thread is left to the thread
  library), preview window, auto focus, converters, JPEG encoder. GPS: what is in a
  sentence. Sensors: poll__close() and the values of an event.
- Request data, lights, libpkip, the recovery helpers: one call after another,
  no state of their own. The shutdown thread runs on services of the Android
  framework, which is not in this repository. Make files, init scripts (but
  ip-up and ip-down), overlays and binaries hold data.
