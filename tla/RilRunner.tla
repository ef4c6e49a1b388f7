------------------------------ MODULE RilRunner ------------------------------
(****************************************************************************)
(* The life of the AT channel and of the requests that use it               *)
(* (huawei-generic/huaweigeneric-ril.c: onRequest(), queueRunner(),         *)
(* processRequest(), setRadioState(), pollSIMState(); atchannel.c:          *)
(* at_open(), readerLoop(), at_close()).                                    *)
(*                                                                          *)
(* One thread, the runner, opens the tty, initialises the modem, then takes *)
(* due events and requests from s_requestQueue one after the other; on      *)
(* q->closed it closes the channel and opens it again. Every at_open()      *)
(* starts a reader thread, which ends when readline() returns NULL and may  *)
(* then itself close the channel, through onATReaderClosed(). An AT command *)
(* is one step here: AtChannel has its inside.                              *)
(*                                                                          *)
(* The wait on q->cond is the guard of Loop: the runner is the only thread  *)
(* that waits, and looks at closed, requestList and eventList again with    *)
(* queueMutex held.                                                         *)
(****************************************************************************)
EXTENDS Naturals, FiniteSets, Sequences

CONSTANTS
    Tokens,         \* the requests the framework makes
    Kind,           \* the RIL_REQUEST_* of each
    MaxRequests,    \* bound: how many of them it makes
    MaxOpens,       \* bound: how often the tty can be opened
    MaxFaults,      \* bound: how often the modem hangs up, or lets a command
                    \* time out that it would answer
    MayShutdown     \* sys.shutdown.requested may be set

Runner   == 0
Channels == 1 .. MaxOpens       \* a channel, and the reader at_open() starts for it
Threads  == {Runner} \cup Channels
Fds      == 1 .. MaxOpens       \* descriptors; 0 stands for -1

RadioStates == {"UNAVAILABLE", "OFF", "SIM_NOT_READY", "SIM_READY", "SIM_LOCKED_OR_ABSENT"}
Events      == {"pollSIMState", "onSIMReady"}

Requests == {"WRITE_SMS_TO_SIM", "GET_SIM_STATUS", "RADIO_POWER_ON", "RADIO_POWER_OFF",
             "GET_CURRENT_CALLS", "SCREEN_STATE", "GET_IMEI", "ENTER_SIM_PIN", "DIAL",
             "GET_SUBSCRIBER_NUMBER"}

ASSUME RunnerAssumption ==
    /\ IsFiniteSet(Tokens)
    /\ Kind \in [Tokens -> Requests]
    /\ MaxRequests \in Nat /\ MaxOpens \in Nat \ {0} /\ MaxFaults \in Nat
    /\ MayShutdown \in BOOLEAN

VARIABLES
    (* the kernel *)
    channelOf,      \* the channel behind each descriptor, 0 when it is closed
    hung,           \* the channels the modem has hung up
    (* struct atcontext *)
    fd, readerClosed,
    onReaderClosed, \* at_set_on_reader_closed() has been called
    kicks,          \* bytes in the pipe readerCmdFds
    (* s_requestQueue, and the radio state *)
    closed, requestList, eventList,
    sState,
    seen,           \* the state the framework read when it was last notified
    (* the threads *)
    pc,
    oldState, then, \* setRadioState(): its local, and where it returns to
    onFailure,      \* where a command that times out returns to
    request,        \* what the runner has taken from requestList, a sequence
    polled,         \* the channel each reader waits for
    (* history and bounds *)
    submitted, completed, opens, timeouts

kernel  == <<channelOf, hung>>
ac      == <<fd, readerClosed, onReaderClosed, kicks>>
queue   == <<closed, requestList, eventList>>
radio   == <<sState, seen>>
locals  == <<oldState, then, onFailure, request, polled>>
history == <<submitted, completed, opens, timeouts>>
vars    == <<kernel, ac, queue, radio, pc, locals, history>>

Init ==
    /\ channelOf = [n \in Fds |-> 0] /\ hung = {}
    /\ fd = 0 /\ readerClosed = FALSE /\ onReaderClosed = FALSE /\ kicks = 0
    /\ closed = TRUE /\ requestList = <<>> /\ eventList = [e \in Events |-> 0]
    /\ sState = "UNAVAILABLE" /\ seen = "UNAVAILABLE"
    /\ pc = [t \in Threads |-> IF t = Runner THEN "open" ELSE "unborn"]
    /\ oldState = [t \in Threads |-> "UNAVAILABLE"]
    /\ then = [t \in Threads |-> "open"]
    /\ onFailure = "open" /\ request = <<>>
    /\ polled = [g \in Channels |-> 0]
    /\ submitted = {} /\ completed = [t \in Tokens |-> 0]
    /\ opens = 0 /\ timeouts = 0

Goto(t, label) == pc' = [pc EXCEPT ![t] = label]

-----------------------------------------------------------------------------
(* The framework and the modem. *)

(* onRequest(): the request goes to the end of the list. *)
OnRequest(t) ==
    /\ t \notin submitted /\ Cardinality(submitted) < MaxRequests
    /\ submitted' = submitted \cup {t}
    /\ requestList' = Append(requestList, t)
    /\ UNCHANGED <<kernel, ac, closed, eventList, radio, pc, locals, completed, opens,
                   timeouts>>

(* External: the tty of an open channel is hung up. *)
HangUp ==
    /\ Cardinality(hung) + timeouts < MaxFaults
    /\ \E n \in Fds : channelOf[n] \notin hung \cup {0} /\ hung' = hung \cup {channelOf[n]}
    /\ UNCHANGED <<channelOf, ac, queue, radio, pc, locals, history>>

-----------------------------------------------------------------------------
(* What the runner and the readers have in common. *)

(* setRadioState(): the state is set with s_state_mutex held ... *)
SetRadioState(t, newState, label) ==
    /\ sState' = newState
    /\ oldState' = [oldState EXCEPT ![t] = sState]
    /\ then' = [then EXCEPT ![t] = label]
    /\ Goto(t, "announce")

(* The locals of setRadioState() end with it. *)
EndSet(t) ==
    /\ oldState' = [oldState EXCEPT ![t] = "UNAVAILABLE"]
    /\ then' = [then EXCEPT ![t] = "open"]

(* Mutant: a state that was lost meanwhile is not announced. *)
AnnounceReadyOnly(t) ==
    /\ pc[t] = "announce"
    /\ IF sState \in {"SIM_NOT_READY", "SIM_READY"} /\ sState # oldState[t]
       THEN seen' = sState /\ Goto(t, "follow") /\ UNCHANGED <<oldState, then>>
       ELSE Goto(t, then[t]) /\ EndSet(t) /\ UNCHANGED seen
    /\ UNCHANGED <<kernel, ac, queue, sState, onFailure, request, polled, history>>

(* ... sState is read again after the mutex was released ... *)
Announce(t) ==
    /\ pc[t] = "announce"
    /\ IF sState # oldState[t] \/ sState = "SIM_LOCKED_OR_ABSENT"
       THEN seen' = sState /\ Goto(t, "follow") /\ UNCHANGED <<oldState, then>>
       ELSE Goto(t, then[t]) /\ EndSet(t) /\ UNCHANGED seen
    /\ UNCHANGED <<kernel, ac, queue, sState, onFailure, request, polled, history>>

(* ... and once more for the events that follow. (checkMessageStorageReady, *)
(* which sends commands only, is counted with onSIMReady.)                  *)
Follow(t) ==
    /\ pc[t] = "follow"
    /\ eventList' =
         CASE sState = "SIM_READY"     -> [eventList EXCEPT !["onSIMReady"] = @ + 1]
           [] sState = "SIM_NOT_READY" -> [eventList EXCEPT !["pollSIMState"] = @ + 1]
           [] OTHER                    -> eventList
    /\ Goto(t, then[t])
    /\ EndSet(t)
    /\ UNCHANGED <<kernel, ac, closed, requestList, radio, onFailure, request, polled,
                   history>>

(* signalCloseQueues(), after which onATTimeout() is done and               *)
(* onATReaderClosed() goes on to at_close().                                *)
SignalCloseQueues(t) ==
    /\ pc[t] = "signalclose"
    /\ closed' = TRUE
    /\ IF t = Runner THEN Goto(t, onFailure) /\ onFailure' = "open"
                     ELSE Goto(t, "closing") /\ UNCHANGED onFailure
    /\ UNCHANGED <<kernel, ac, requestList, eventList, radio, oldState, then, request,
                   polled, history>>

(* at_close(), in the order of its effects and without a lock on fd: the    *)
(* descriptor, then ac->fd, then readerClosed and the kick.                 *)
CloseFd(t) ==
    /\ pc[t] = "closing"
    /\ channelOf' = [n \in Fds |-> IF n = fd THEN 0 ELSE channelOf[n]]
    /\ Goto(t, "clearing")
    /\ UNCHANGED <<hung, ac, queue, radio, locals, history>>

ClearFd(t) ==
    /\ pc[t] = "clearing"
    /\ fd' = 0
    /\ Goto(t, "declaring")
    /\ UNCHANGED <<kernel, readerClosed, onReaderClosed, kicks, queue, radio, locals, history>>

(* Mutant: the runner ends after at_close(), as a reader does. *)
DeclareClosedEnds(t) ==
    /\ pc[t] = "declaring"
    /\ readerClosed' = TRUE
    /\ kicks' = kicks + 1
    /\ Goto(t, "exited")
    /\ UNCHANGED <<kernel, fd, onReaderClosed, queue, radio, locals, history>>

(* The kick only lets a reader go on, so that it may as well come at once. *)
DeclareClosed(t) ==
    /\ pc[t] = "declaring"
    /\ readerClosed' = TRUE
    /\ kicks' = kicks + 1
    /\ Goto(t, IF t = Runner THEN "open" ELSE "exited")
    /\ UNCHANGED <<kernel, fd, onReaderClosed, queue, radio, locals, history>>

ThreadStep(t) ==
    Announce(t) \/ Follow(t) \/ SignalCloseQueues(t) \/ CloseFd(t) \/ ClearFd(t)
    \/ DeclareClosed(t)

-----------------------------------------------------------------------------
(* Opening the channel. *)

(* open() gives the lowest free descriptor. at_open() takes it; after the   *)
(* first call it uses the context that is there. Nobody sees the moment     *)
(* between the two, since ac->fd is -1 before.                              *)
Open ==
    /\ pc[Runner] = "open" /\ opens < MaxOpens
    /\ opens' = opens + 1
    /\ \E n \in Fds :
         /\ channelOf[n] = 0 /\ \A m \in Fds : channelOf[m] = 0 => n <= m
         /\ channelOf' = [channelOf EXCEPT ![n] = opens + 1]
         /\ fd' = n
    /\ Goto(Runner, "start")
    /\ UNCHANGED <<hung, readerClosed, onReaderClosed, kicks, queue, radio, locals,
                   submitted, completed, timeouts>>

AtOpenStart ==
    /\ pc[Runner] = "start"
    /\ readerClosed' = FALSE
    /\ pc' = [pc EXCEPT ![Runner] = "callbacks", ![opens] = "readline"]
    /\ UNCHANGED <<kernel, fd, onReaderClosed, kicks, queue, radio, locals, history>>

SetCallbacks ==
    /\ pc[Runner] = "callbacks"
    /\ onReaderClosed' = TRUE
    /\ Goto(Runner, "common")
    /\ UNCHANGED <<kernel, fd, readerClosed, kicks, queue, radio, locals, history>>

-----------------------------------------------------------------------------
(* The reader threads. Lines are left out (AtChannel); what matters here is *)
(* when readline() returns NULL.                                            *)

(* The top of the loop in readline(). A descriptor that is closed already   *)
(* makes poll() return at once with POLLNVAL, and the loop turns.           *)
ReadLine(g) ==
    /\ pc[g] = "readline"
    /\ IF fd = 0 THEN Goto(g, "ended") /\ UNCHANGED polled
       ELSE /\ channelOf[fd] # 0
            /\ polled' = [polled EXCEPT ![g] = channelOf[fd]]
            /\ Goto(g, "poll")
    /\ UNCHANGED <<kernel, ac, queue, radio, oldState, then, onFailure, request,
                   history>>

(* poll() returns for the pipe; another reader may take the byte first, and *)
(* then this one blocks in read().                                          *)
PollKick(g) ==
    /\ pc[g] = "poll" /\ kicks > 0
    /\ Goto(g, "drain")
    /\ polled' = [polled EXCEPT ![g] = 0]
    /\ UNCHANGED <<kernel, ac, queue, radio, oldState, then, onFailure, request,
                   history>>

Drain(g) ==
    /\ pc[g] = "drain" /\ kicks > 0
    /\ kicks' = kicks - 1
    /\ Goto(g, "readline")
    /\ UNCHANGED <<kernel, fd, readerClosed, onReaderClosed, queue, radio, locals, history>>

(* poll() returns for the hangup. With POLLERR the reader ends; otherwise   *)
(* read() is called with whatever ac->fd now is: it fails, finds the end of *)
(* file, or blocks on another channel.                                      *)
PollHangUp(g) ==
    /\ pc[g] = "poll" /\ polled[g] \in hung
    /\ \/ /\ fd # 0 /\ channelOf[fd] \notin hung \cup {0}
          /\ polled' = [polled EXCEPT ![g] = channelOf[fd]] /\ Goto(g, "read")
       \/ polled' = [polled EXCEPT ![g] = 0] /\ Goto(g, "ended")
    /\ UNCHANGED <<kernel, ac, queue, radio, oldState, then, onFailure, request,
                   history>>

(* read() on a live channel returns a line, or the end of file. *)
Read(g) ==
    /\ pc[g] = "read"
    /\ Goto(g, IF polled[g] \in hung THEN "ended" ELSE "readline")
    /\ polled' = [polled EXCEPT ![g] = 0]
    /\ UNCHANGED <<kernel, ac, queue, radio, oldState, then, onFailure, request,
                   history>>

(* onReaderClosed() of atchannel.c *)
ReaderEnded(g) ==
    /\ pc[g] = "ended"
    /\ Goto(g, IF onReaderClosed /\ ~readerClosed THEN "closedbyreader" ELSE "exited")
    /\ UNCHANGED <<kernel, ac, queue, radio, locals, history>>

ReaderDeclares(g) ==
    /\ pc[g] = "closedbyreader"
    /\ readerClosed' = TRUE
    /\ Goto(g, "callback")
    /\ UNCHANGED <<kernel, fd, onReaderClosed, kicks, queue, radio, locals, history>>

(* onATReaderClosed() *)
OnATReaderClosed(g) ==
    /\ pc[g] = "callback"
    /\ SetRadioState(g, "UNAVAILABLE", "signalclose")
    /\ UNCHANGED <<kernel, ac, queue, seen, onFailure, request, polled, history>>

ReaderStep(g) ==
    ReadLine(g) \/ PollKick(g) \/ Drain(g) \/ PollHangUp(g) \/ Read(g) \/ ReaderEnded(g)
    \/ ReaderDeclares(g) \/ OnATReaderClosed(g) \/ ThreadStep(g)

-----------------------------------------------------------------------------
(* AT commands of the runner. *)

Live == fd # 0 /\ channelOf[fd] \notin hung \cup {0}

(* Some reader takes the lines of the channel in use. *)
Reading ==
    /\ fd # 0
    /\ \E g \in Channels : \/ pc[g] = "readline"
                           \/ pc[g] \in {"poll", "read"} /\ polled[g] = channelOf[fd]

CommandAnswered == Live /\ Reading /\ ~readerClosed

(* Closed, not writable, or answered, perhaps with an error. *)
CommandReturns == readerClosed \/ ~Live \/ Reading

(* Written and not answered in time; then onATTimeout(), on the runner. A   *)
(* command the modem would answer times out MaxFaults times at most.        *)
CommandTimesOut(label) ==
    /\ fd # 0 /\ channelOf[fd] # 0 /\ ~readerClosed
    /\ \/ ~CommandAnswered /\ UNCHANGED timeouts
       \/ CommandAnswered /\ Cardinality(hung) + timeouts < MaxFaults
          /\ timeouts' = timeouts + 1
    /\ onFailure' = label
    /\ SetRadioState(Runner, "UNAVAILABLE", "signalclose")
    /\ UNCHANGED <<kernel, ac, queue, seen, request, polled, submitted, completed,
                   opens>>

(* The runner goes to label, and changes nothing else. *)
Continue(label) ==
    /\ Goto(Runner, label)
    /\ UNCHANGED <<kernel, ac, queue, radio, locals, history>>

(* initializeCommon(): no command that fails stops it. *)
InitializeCommon ==
    /\ pc[Runner] = "common"
    /\ \/ CommandReturns /\ Continue("reset")
       \/ CommandTimesOut("reset")

(* Mutant: the queue starts again empty. *)
ResetClosedAndList ==
    /\ pc[Runner] = "reset"
    /\ closed' = FALSE /\ requestList' = <<>>
    /\ Goto(Runner, "channel")
    /\ UNCHANGED <<kernel, ac, eventList, radio, locals, history>>

(* q->closed = 0, without queueMutex. *)
ResetClosed ==
    /\ pc[Runner] = "reset"
    /\ closed' = FALSE
    /\ Goto(Runner, "channel")
    /\ UNCHANGED <<kernel, ac, requestList, eventList, radio, locals, history>>

(* initializeChannel() *)
InitializeChannel ==
    /\ pc[Runner] = "channel"
    /\ SetRadioState(Runner, "OFF", "isRadioOn")
    /\ UNCHANGED <<kernel, ac, queue, seen, onFailure, request, polled, history>>

IsRadioOn ==
    /\ pc[Runner] = "isRadioOn"
    /\ \/ CommandAnswered /\ SetRadioState(Runner, "SIM_NOT_READY", "loop")
          /\ UNCHANGED <<kernel, ac, queue, seen, onFailure, request, polled, history>>
       \/ CommandReturns /\ Continue("loop")
       \/ CommandTimesOut("loop")

-----------------------------------------------------------------------------
(* The loop over events and requests. *)

(* One turn: at most one event, if one is due, and at most one request. The *)
(* event is handled first. When an event is due is left open.               *)
Loop ==
    /\ pc[Runner] = "loop"
    /\ \/ closed /\ Continue("closing")
       \/ \E r \in 0 .. Len(requestList), e \in Events \cup {"none"} :
            /\ ~closed
            /\ r = IF requestList = <<>> THEN 0 ELSE 1
            /\ e # "none" => eventList[e] > 0
            /\ r = 0 => e # "none"
            /\ request' = SubSeq(requestList, 1, r)
            /\ requestList' = SubSeq(requestList, r + 1, Len(requestList))
            /\ eventList' = IF e = "none" THEN eventList ELSE [eventList EXCEPT ![e] = @ - 1]
            /\ Goto(Runner, IF e = "none" THEN "request" ELSE e)
            /\ UNCHANGED <<kernel, ac, closed, radio, oldState, then, onFailure,
                           polled, history>>

(* pollSIMState(): no longer valid to poll, or ask for the SIM status. *)
PollSIMState ==
    /\ pc[Runner] = "pollSIMState"
    /\ Continue(IF sState \in {"SIM_NOT_READY", "SIM_LOCKED_OR_ABSENT"}
                THEN "getSIMStatus" ELSE "request")

(* Mutant: the event is not put in the list again. *)
PollAgainLost == pc[Runner] = "pollagain" /\ Continue("request")

(* SIM_NOT_READY: pollSIMState is put in the list again. *)
PollAgain ==
    /\ pc[Runner] = "pollagain"
    /\ eventList' = [eventList EXCEPT !["pollSIMState"] = @ + 1]
    /\ Goto(Runner, "request")
    /\ UNCHANGED <<kernel, ac, closed, requestList, radio, locals, history>>

(* getSIMStatus(), of which pollSIMState() makes a radio state. *)
GetSIMStatus ==
    /\ pc[Runner] = "getSIMStatus"
    /\ IF sState \in {"OFF", "UNAVAILABLE"} THEN Continue("pollagain")
       ELSE \/ /\ CommandAnswered
               /\ \E s \in {"SIM_READY", "SIM_LOCKED_OR_ABSENT"} :
                     SetRadioState(Runner, s, "request")
               /\ UNCHANGED <<kernel, ac, queue, seen, onFailure, request, polled,
                              history>>
            \/ CommandReturns /\ Continue("pollagain")
            \/ CommandTimesOut("pollagain")

(* onSIMReady(): commands whose results are ignored. *)
OnSIMReady ==
    /\ pc[Runner] = "onSIMReady"
    /\ \/ CommandReturns /\ Continue("request")
       \/ CommandTimesOut("request")

-----------------------------------------------------------------------------
(* Requests. *)

token == Head(request)

(* RIL_onRequestComplete(), at the end of the turn. *)
Complete ==
    /\ completed' = [completed EXCEPT ![token] = @ + 1]
    /\ request' = <<>>
    /\ Goto(Runner, "loop")
    /\ UNCHANGED <<kernel, ac, queue, radio, oldState, then, onFailure, polled,
                   submitted, opens, timeouts>>

(* What processRequest() answers itself, for the radio state it has read. *)
Refused(kind) ==
    \/ sState # "SIM_READY" /\ kind = "WRITE_SMS_TO_SIM"
    \/ sState = "UNAVAILABLE" /\ kind # "GET_SIM_STATUS"
    \/ /\ sState \in {"OFF", "SIM_NOT_READY"}
       /\ kind \notin {"RADIO_POWER_ON", "RADIO_POWER_OFF", "GET_SIM_STATUS", "GET_IMEI",
                       "SCREEN_STATE"}
    \/ /\ sState = "SIM_LOCKED_OR_ABSENT"
       /\ kind \notin {"ENTER_SIM_PIN", "GET_SIM_STATUS", "RADIO_POWER_ON",
                       "RADIO_POWER_OFF", "GET_IMEI"}

(* processRequest(). The handlers of GET_CURRENT_CALLS and RADIO_POWER read *)
(* the radio state again; GET_SUBSCRIBER_NUMBER is dropped.                 *)
ProcessRequest ==
    /\ pc[Runner] = "request"
    /\ IF request = <<>> THEN Continue("loop")
       ELSE IF Refused(Kind[token]) THEN Complete
       ELSE IF Kind[token] = "GET_SUBSCRIBER_NUMBER"
       THEN /\ request' = <<>>
            /\ Goto(Runner, "loop")
            /\ UNCHANGED <<kernel, ac, queue, radio, oldState, then, onFailure,
                           polled, history>>
       ELSE Continue(CASE Kind[token] = "GET_CURRENT_CALLS" -> "calls"
                       [] Kind[token] \in {"RADIO_POWER_ON", "RADIO_POWER_OFF"} -> "power"
                       [] OTHER -> "handler")

(* requestGetCurrentCalls(): when the radio is not ready the request is     *)
(* completed and the handler goes on all the same.                          *)
GetCurrentCalls ==
    /\ pc[Runner] = "calls"
    /\ completed' = IF sState = "SIM_READY" THEN completed
                                            ELSE [completed EXCEPT ![token] = @ + 1]
    /\ Goto(Runner, "handler")
    /\ UNCHANGED <<kernel, ac, queue, radio, locals, submitted, opens, timeouts>>

(* A handler: its commands, then the answer. *)
Handler ==
    /\ pc[Runner] = "handler"
    /\ \/ CommandReturns /\ Complete
       \/ CommandTimesOut("complete")

HandlerComplete == pc[Runner] = "complete" /\ Complete

(* requestRadioPower() *)
RadioPower ==
    /\ pc[Runner] = "power"
    /\ IF IF Kind[token] = "RADIO_POWER_OFF" THEN sState # "OFF" ELSE sState = "OFF"
       THEN \/ /\ CommandAnswered
               /\ \E s \in RadioStates :
                     /\ \/ Kind[token] = "RADIO_POWER_ON" /\ s = "SIM_NOT_READY"
                        \/ Kind[token] = "RADIO_POWER_OFF" /\ s = "OFF"
                        \/ Kind[token] = "RADIO_POWER_OFF" /\ s = "UNAVAILABLE" /\ MayShutdown
                     /\ SetRadioState(Runner, s, "complete")
               /\ UNCHANGED <<kernel, ac, queue, seen, onFailure, request, polled,
                              history>>
            \/ CommandReturns /\ Complete
            \/ CommandTimesOut("complete")
       ELSE Complete

RunnerStep ==
    \/ Open \/ AtOpenStart \/ SetCallbacks
    \/ InitializeCommon \/ ResetClosed \/ InitializeChannel \/ IsRadioOn
    \/ Loop \/ PollSIMState \/ GetSIMStatus \/ PollAgain \/ OnSIMReady
    \/ ProcessRequest \/ GetCurrentCalls \/ Handler \/ HandlerComplete \/ RadioPower
    \/ ThreadStep(Runner)

-----------------------------------------------------------------------------
Next ==
    \/ \E t \in Tokens : OnRequest(t)
    \/ HangUp
    \/ RunnerStep
    \/ \E g \in Channels : ReaderStep(g)

(* Each thread runs when it can; nothing is assumed of the framework or of  *)
(* the modem.                                                               *)
Fairness == WF_vars(RunnerStep) /\ \A g \in Channels : WF_vars(ReaderStep(g))

Spec == Init /\ [][Next]_vars /\ Fairness

-----------------------------------------------------------------------------
(* Properties. *)

CloseLabels  == {"announce", "follow", "signalclose", "closing", "clearing", "declaring"}
RunnerLabels == CloseLabels \cup Events \cup
                {"open", "start", "callbacks", "common", "reset", "channel",
                 "isRadioOn", "loop", "pollagain", "getSIMStatus", "request", "calls",
                 "handler", "complete", "power"}
ReaderLabels == CloseLabels \cup
                {"unborn", "readline", "poll", "drain", "read", "ended", "closedbyreader",
                 "callback", "exited"}

ChannelTypes ==
    /\ channelOf \in [Fds -> 0 .. MaxOpens] /\ hung \subseteq Channels
    /\ fd \in 0 .. MaxOpens /\ kicks \in Nat
    /\ readerClosed \in BOOLEAN /\ onReaderClosed \in BOOLEAN

QueueTypes ==
    /\ closed \in BOOLEAN
    /\ requestList \in Seq(Tokens) /\ request \in Seq(Tokens)
    /\ eventList \in [Events -> Nat]
    /\ submitted \subseteq Tokens /\ completed \in [Tokens -> Nat]

ThreadTypes ==
    /\ sState \in RadioStates /\ seen \in RadioStates
    /\ pc \in [Threads -> RunnerLabels \cup ReaderLabels]
    /\ pc[Runner] \in RunnerLabels /\ \A g \in Channels : pc[g] \in ReaderLabels
    /\ oldState \in [Threads -> RadioStates]
    /\ then \in [Threads -> RunnerLabels \cup ReaderLabels]
    /\ onFailure \in RunnerLabels
    /\ polled \in [Channels -> 0 .. MaxOpens]
    /\ opens \in 0 .. MaxOpens /\ timeouts \in Nat

(* Every variable keeps to the values the program gives it. *)
TypeOK == ChannelTypes /\ QueueTypes /\ ThreadTypes

(* The framework is told of every radio state that lasts: once no thread is *)
(* between setting and announcing a state, the state the framework read     *)
(* last is the state, although setRadioState() compares after it has        *)
(* released s_state_mutex and the runner and a reader may set it at once.   *)
RadioStateAnnounced ==
    (\A t \in Threads : pc[t] # "announce") => seen = sState

(* While the SIM is not ready a poll of its state is due, whatever restarts *)
(* of the channel and changes of state came between: the phone cannot get   *)
(* stuck without a SIM.                                                     *)
SimPolled ==
    (/\ sState = "SIM_NOT_READY" /\ pc[Runner] = "loop"
     /\ \A g \in Channels : pc[g] \notin {"announce", "follow"})
        => eventList["pollSIMState"] > 0

(* Every request is completed, with an error if need be: a dead channel, a  *)
(* restart or a timeout loses none. (As long as the tty can be opened, and  *)
(* but for GET_SUBSCRIBER_NUMBER.)                                          *)
RequestsCompleted ==
    \A t \in Tokens :
        t \in submitted /\ Kind[t] # "GET_SUBSCRIBER_NUMBER"
            ~> completed[t] > 0 \/ (pc[Runner] = "open" /\ opens = MaxOpens)

(* A request is completed "with a call to RIL_onRequestComplete()"          *)
(* (huaweigeneric-ril.c:5870): one call.                                    *)
CompletedOnce == \A t \in Tokens : completed[t] <= 1

(* "AT Channel error, attempting to recover.." (huaweigeneric-ril.c:6367):  *)
(* a channel that is closed for its user does not stay in use.              *)
ChannelRecovers == readerClosed /\ pc[Runner] = "loop" ~> pc[Runner] = "open"

=============================================================================
