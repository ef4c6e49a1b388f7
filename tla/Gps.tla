-------------------------------- MODULE Gps --------------------------------
(****************************************************************************)
(* The GPS HAL (libgps/gps_huawei.c): the framework's calls, the thread     *)
(* that takes their commands and reads the receiver, the timer thread of a  *)
(* session, and the threads the framework makes for each notice. A notice   *)
(* carries no data: its thread reads the shared state, which the semaphore  *)
(* keeps for it until it is done.                                           *)
(*                                                                          *)
(* gps_state_done() clears the state. If a notice is still to come then, it *)
(* calls through a null pointer or posts a destroyed semaphore: undefined,  *)
(* and the model ends there ("crashed").                                    *)
(****************************************************************************)
EXTENDS Naturals, Sequences

CONSTANTS
    Timers,         \* timer threads
    MaxCommands     \* bound: commands in the control socket

ASSUME GpsAssumption == Timers # {} /\ MaxCommands \in Nat \ {0}

VARIABLES
    gpsInit,        \* state->init
    callbacks,      \* the framework's callbacks are known
    control,        \* the control socket: commands not read yet
    fixSem,         \* the semaphore is free
    gpsStatus,      \* state->gps_status
    notices,        \* notices whose thread has not ended
    told,           \* those of them whose callback has returned
    fixFlags, svChanged,    \* what the reader has found, until it is reported
    unseen,         \* history: a callback has still to read a fix that was found
    gpsAt, gpsFd,   \* the command thread, and whether it has the receiver open
    timerAt,        \* where each timer thread is
    tmrThread,      \* the timer to join
    framework       \* what the framework is in

session  == <<gpsInit, callbacks, control>>
notice   == <<fixSem, gpsStatus, notices>>
reader   == <<fixFlags, svChanged, unseen>>
timer    == <<timerAt, tmrThread>>
gpsVars  == <<session, notice, told, reader, gpsAt, gpsFd, timer, framework>>

Statuses == {"ENGINE_ON", "ENGINE_OFF", "SESSION_BEGIN", "SESSION_END"}

GpsInit ==
    /\ gpsInit = "none" /\ callbacks = FALSE /\ control = <<>>
    /\ fixSem = TRUE /\ gpsStatus = "NONE" /\ notices = {} /\ told = {}
    /\ fixFlags = FALSE /\ svChanged = FALSE /\ unseen = FALSE
    /\ gpsAt = "none" /\ gpsFd = FALSE
    /\ timerAt = [t \in Timers |-> "none"] /\ tmrThread \in Timers
    /\ framework = "idle"

Running == framework # "crashed"

-----------------------------------------------------------------------------
(* gps_init(), gps_cleanup(), gps_start(), gps_stop(): one caller. *)

(* Without sockets or a thread, gps_state_done() clears the state again (it *)
(* joins no thread, which Bionic answers with an error), and the callbacks  *)
(* are stored all the same. sem_init() of 1 cannot fail.                    *)
StateInit ==
    /\ framework = "idle" /\ gpsInit = "none" /\ framework' = "init"
    /\ \/ gpsInit' = "init" /\ gpsAt' = "on"
       \/ UNCHANGED <<gpsInit, gpsAt>>
    /\ UNCHANGED <<callbacks, control, notice, told, reader, gpsFd, timer>>

(* Only after the thread was made are the callbacks stored. *)
SetCallbacks ==
    /\ framework = "init"
    /\ callbacks' = TRUE /\ framework' = "idle"
    /\ UNCHANGED <<gpsInit, control, notice, told, reader, gpsAt, gpsFd, timer>>

Command(cmd) ==
    /\ framework = "idle" /\ gpsInit # "none" /\ Len(control) < MaxCommands
    /\ control' = Append(control, cmd)
    /\ framework' = IF cmd = "QUIT" THEN "cleanup" ELSE "idle"
    /\ UNCHANGED <<gpsInit, callbacks, notice, told, reader, gpsAt, gpsFd, timer>>

(* gps_state_done() has joined the command thread. *)
StateDone ==
    /\ framework = "cleanup" /\ gpsAt = "none"
    /\ gpsInit' = "none" /\ callbacks' = FALSE /\ control' = <<>>
    /\ fixSem' = TRUE /\ gpsStatus' = "NONE" /\ notices' = {} /\ told' = {}
    /\ fixFlags' = FALSE /\ svChanged' = FALSE /\ unseen' = FALSE
    /\ framework' = IF notices = {} THEN "idle" ELSE "crashed"
    /\ UNCHANGED <<gpsAt, gpsFd, timer>>

-----------------------------------------------------------------------------
(* Notices: gps_status_cb(), gps_nmea_cb(), gps_location_cb(),              *)
(* gps_sv_status_cb(), and the threads they make.                           *)

(* Mutant: the semaphore is released by who makes the thread. *)
NotifyOnce(kind) ==
    /\ fixSem = TRUE /\ UNCHANGED fixSem
    /\ notices' = notices \cup {kind}
    /\ gpsStatus' = IF kind \in Statuses THEN kind ELSE gpsStatus

Notify(kind) ==
    /\ fixSem = TRUE /\ fixSem' = FALSE
    /\ notices' = notices \cup {kind}
    /\ gpsStatus' = IF kind \in Statuses THEN kind ELSE gpsStatus

(* The framework's callback has read what the state holds, and returns.     *)
NoticeCallback(kind) ==
    /\ kind \in notices \ told
    /\ told' = told \cup {kind} /\ unseen' = (unseen /\ kind # "fix")
    /\ UNCHANGED <<session, notice, fixFlags, svChanged, gpsAt, gpsFd, timer, framework>>

(* A fix or a satellite list counts as reported now. *)
NoticeEnds(kind) ==
    /\ kind \in told
    /\ notices' = notices \ {kind} /\ told' = told \ {kind} /\ fixSem' = TRUE
    /\ fixFlags' = (fixFlags /\ kind # "fix")
    /\ svChanged' = (svChanged /\ kind # "sv")
    /\ UNCHANGED <<session, gpsStatus, unseen, gpsAt, gpsFd, timer, framework>>

-----------------------------------------------------------------------------
(* gps_state_thread() *)

(* A status is told, if there is someone to tell. *)
Tell(status) ==
    IF callbacks THEN Notify(status) ELSE UNCHANGED notice

EngineOn ==
    /\ gpsAt = "on" /\ Tell("ENGINE_ON") /\ gpsAt' = "loop"
    /\ UNCHANGED <<session, told, reader, gpsFd, timer, framework>>

(* Mutant: the timer is told to end only after it was waited for. *)
HangUpLate == gpsAt' = "join" /\ UNCHANGED gpsInit

(* "Must be here, as timer thread will only quit with this" *)
HangUp == gpsAt' = "join" /\ gpsInit' = "init"

(* open_gps() may fail; then the thread ends. *)
ReadCommand ==
    /\ gpsAt = "loop" /\ control # <<>>
    /\ control' = Tail(control)
    /\ LET cmd == Head(control) IN
       \/ cmd = "QUIT" /\ gpsAt' = "off" /\ UNCHANGED <<gpsInit, gpsFd>>
       \/ cmd = "START" /\ ~gpsFd /\ gpsFd' = TRUE /\ gpsAt' = "begin" /\ UNCHANGED gpsInit
       \/ cmd = "START" /\ ~gpsFd /\ gpsInit' = "init" /\ gpsAt' = "off" /\ UNCHANGED gpsFd
       \/ cmd = "STOP" /\ gpsFd /\ HangUp /\ UNCHANGED gpsFd
       \/ cmd = (IF gpsFd THEN "START" ELSE "STOP") /\ UNCHANGED <<gpsInit, gpsFd, gpsAt>>
    /\ UNCHANGED <<callbacks, notice, told, reader, timer, framework>>

(* The session begins, and its timer; or there is no thread for the timer. *)
SessionBegin ==
    /\ gpsAt = "begin" /\ Tell("SESSION_BEGIN")
    /\ \/ \E t \in Timers :
            /\ timerAt[t] = "none" /\ tmrThread' = t
            /\ timerAt' = [timerAt EXCEPT ![t] = "look"]
            /\ gpsInit' = "start" /\ gpsAt' = "loop" /\ UNCHANGED gpsFd
       \/ /\ gpsInit' = "init" /\ gpsAt' = "off" /\ gpsFd' = FALSE
          /\ UNCHANGED timer
    /\ UNCHANGED <<callbacks, control, told, reader, framework>>

SessionEnd ==
    /\ gpsAt = "join" /\ timerAt[tmrThread] = "none"
    /\ Tell("SESSION_END")
    /\ gpsInit' = "init" /\ gpsFd' = FALSE /\ gpsAt' = "loop"
    /\ UNCHANGED <<callbacks, control, told, reader, timer, framework>>

(* The receiver has data, is suspended (EIO), or was switched off (HUP). *)
ReceiverReady ==
    /\ gpsAt = "loop" /\ gpsFd
    /\ \/ gpsAt' \in {"nmea", "off"} /\ UNCHANGED gpsInit
       \/ HangUp
    /\ UNCHANGED <<callbacks, control, notice, told, reader, gpsFd, timer, framework>>

Forward ==
    /\ gpsAt = "nmea" /\ Tell("nmea") /\ gpsAt' = "parse"
    /\ UNCHANGED <<session, told, reader, gpsFd, timer, framework>>

Parsed ==
    /\ svChanged' \in BOOLEAN
    /\ \E fix \in BOOLEAN : fixFlags' = (fixFlags \/ fix) /\ unseen' = (unseen \/ fix)
    /\ gpsAt' = "loop"
    /\ UNCHANGED <<session, notice, told, gpsFd, timer, framework>>

(* Mutant: the reader does not wait for the notice that is out. *)
ParseUnlocked == gpsAt = "parse" /\ Parsed

(* nmea_reader_parse(), under the semaphore: sentences bring a fix, start   *)
(* another satellite list, or complete one.                                 *)
Parse == gpsAt = "parse" /\ fixSem /\ Parsed

(* The thread ends as it is: a receiver still open stays so. *)
EngineOff ==
    /\ gpsAt = "off" /\ Tell("ENGINE_OFF")
    /\ gpsAt' = "none" /\ gpsFd' = FALSE
    /\ UNCHANGED <<session, told, reader, timer, framework>>

-----------------------------------------------------------------------------
(* gps_timer_thread(): it looks without the semaphore, and waits for it.    *)

GoesTo(t, place) == timerAt' = [timerAt EXCEPT ![t] = place]

TimerLooks(t) ==
    /\ timerAt[t] = "look" /\ GoesTo(t, IF fixFlags THEN "fix" ELSE "looksv")
    /\ UNCHANGED notice

TimerLooksForSv(t) ==
    /\ timerAt[t] = "looksv" /\ GoesTo(t, IF svChanged THEN "sv" ELSE "sleep")
    /\ UNCHANGED notice

TimerNotifies(t) ==
    \/ timerAt[t] = "fix" /\ Tell("fix") /\ GoesTo(t, "looksv")
    \/ timerAt[t] = "sv" /\ Tell("sv") /\ GoesTo(t, "sleep")

TimerWakes(t) ==
    /\ timerAt[t] = "sleep" /\ GoesTo(t, IF gpsInit = "start" THEN "look" ELSE "none")
    /\ UNCHANGED notice

TimerStep(t) ==
    /\ TimerLooks(t) \/ TimerLooksForSv(t) \/ TimerNotifies(t) \/ TimerWakes(t)
    /\ UNCHANGED <<session, told, reader, gpsAt, gpsFd, tmrThread, framework>>

-----------------------------------------------------------------------------
Kinds == Statuses \cup {"nmea", "fix", "sv"}

FrameworkCall ==
    StateInit \/ SetCallbacks \/ StateDone \/ (\E cmd \in {"START", "STOP", "QUIT"} : Command(cmd))

GpsThread ==
    \/ EngineOn \/ ReadCommand \/ SessionBegin \/ SessionEnd
    \/ ReceiverReady \/ Forward \/ Parse \/ EngineOff

GpsNext ==
    Running /\ \/ FrameworkCall \/ GpsThread
               \/ \E t \in Timers : TimerStep(t)
               \/ \E kind \in Kinds : NoticeCallback(kind) \/ NoticeEnds(kind)

GpsSpec ==
    /\ GpsInit /\ [][GpsNext]_gpsVars
    /\ WF_gpsVars(Running /\ SessionEnd)
    /\ \A t \in Timers : WF_gpsVars(Running /\ TimerStep(t))
    /\ WF_gpsVars(Running /\ \E kind \in Kinds : NoticeCallback(kind) \/ NoticeEnds(kind))

-----------------------------------------------------------------------------
(* Properties. *)

(* Every variable keeps to the values the program gives it. *)
GpsTypeOK ==
    /\ gpsInit \in {"none", "init", "start"}
    /\ {callbacks, fixSem, fixFlags, svChanged, unseen, gpsFd} \subseteq BOOLEAN
    /\ control \in Seq({"START", "STOP", "QUIT"}) /\ Len(control) <= MaxCommands
    /\ gpsStatus \in Statuses \cup {"NONE"} /\ notices \subseteq Kinds /\ told \subseteq notices
    /\ gpsAt \in {"none", "on", "loop", "begin", "join", "nmea", "parse", "off"}
    /\ timerAt \in [Timers -> {"none", "look", "looksv", "fix", "sv", "sleep"}]
    /\ tmrThread \in Timers
    /\ framework \in {"idle", "init", "cleanup", "crashed"}

(* The framework is told every status that was posted, each as it was: a    *)
(* notice has the state to itself until it ends, though command thread and  *)
(* timers post, so that a status notice finds the status it was made for.   *)
(* (Of a fix that is not said: the timer looks at the flags without the     *)
(* semaphore, waits for a fix notice that clears them, and posts another,   *)
(* of an empty fix.)                                                        *)
StatusInOrder ==
    /\ \A status \in Statuses \cap notices : status = gpsStatus
    /\ \A k1, k2 \in notices : k1 = k2
    /\ (notices = {}) = fixSem

(* And no fix is lost: one that no callback has read yet keeps the flags    *)
(* set, so that the timer of the session reports it, although the notice    *)
(* before it clears all flags after its callback.                           *)
FixNotLost == unseen => fixFlags

(* "Must be here, as timer thread will only quit with this"                 *)
(* (gps_huawei.c:1341): the end of a session, which waits for the timer,    *)
(* returns, even while that waits for a notice to end; unless the process   *)
(* ends.                                                                    *)
JoinReturns == gpsAt = "join" ~> (gpsAt # "join" \/ ~Running)

(* "this is the main thread, it waits for commands from                     *)
(* gps_state_start/stop" (gps_huawei.c:1241): while the GPS is initialised  *)
(* there is a thread to hear the next command.                              *)
ThreadListens ==
    (gpsInit # "none" /\ framework = "idle") => gpsAt \notin {"off", "none"}
=============================================================================
