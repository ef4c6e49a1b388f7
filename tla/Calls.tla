-------------------------------- MODULE Calls --------------------------------
(****************************************************************************)
(* Voice calls (huawei-generic/huaweigeneric-ril.c: requestDial() to        *)
(* requestSeparateConnection(), requestGetCurrentCalls(), startAudioTunnel(),*)
(* sendCallStateChanged()).                                                 *)
(*                                                                          *)
(* The modem announces that a call comes or ends. That a call it sets up    *)
(* begins to ring or is answered it announces with lines the RIL does not   *)
(* know, and a NO CARRIER that comes while a command is pending is taken    *)
(* for the answer to that command. So the list of calls is asked for again  *)
(* as long as a call is being set up, and the audio tunnel follows it.      *)
(****************************************************************************)
EXTENDS FiniteSets

CONSTANT CallIds

ASSUME CallAssumption == IsFiniteSet(CallIds)

VARIABLES
    calls,          \* the modem's calls
    voice,          \* which of them are voice calls
    told,           \* CALL_STATE_CHANGED was sent, the framework has not acted
    asked,          \* a GET_CURRENT_CALLS waits
    repoll,         \* a sendCallStateChanged() is in the event list
    simReady,       \* the radio state is RADIO_STATE_SIM_READY
    view,           \* the calls of the framework, from the last answer
    failed,         \* the last answer was an error
    tunnel          \* sAudioChannel.running

callVars == <<calls, voice, told, asked, repoll, simReady, view, failed, tunnel>>

Setup  == {"dialing", "alerting", "incoming"}     \* or waiting, another incoming call
States == Setup \cup {"none", "active", "holding"}

Present == {c \in CallIds : calls[c] # "none"}

Stage(state) == CASE state = "none" -> "none" [] state \in Setup -> "setup" [] OTHER -> "settled"

CallInit ==
    /\ calls = [c \in CallIds |-> "none"] /\ voice \in SUBSET CallIds /\ voice # {}
    /\ told = FALSE /\ asked = FALSE /\ repoll = FALSE /\ simReady = TRUE
    /\ view = [c \in CallIds |-> "none"] /\ failed = FALSE /\ tunnel = FALSE

-----------------------------------------------------------------------------
(* The network and the other party. *)

Change(c, from, to) == calls[c] = from /\ calls' = [calls EXCEPT ![c] = to]

(* RING, +CRING, +CCWA: onUnsolicited() passes them on. *)
Rings ==
    /\ \E c \in CallIds : Change(c, "none", "incoming")
    /\ told' = TRUE
    /\ UNCHANGED <<voice, asked, repoll, simReady, view, failed, tunnel>>

(* Not announced to the framework. *)
Progresses ==
    /\ \E c \in CallIds : Change(c, "dialing", "alerting") \/ Change(c, "alerting", "active")
    /\ UNCHANGED <<voice, told, asked, repoll, simReady, view, failed, tunnel>>

(* NO CARRIER, or the end of a command that is pending. *)
Ends ==
    /\ \E c \in Present : calls' = [calls EXCEPT ![c] = "none"]
    /\ told' \in {told, TRUE}
    /\ UNCHANGED <<voice, asked, repoll, simReady, view, failed, tunnel>>

(* setRadioState() by the reader or another request. *)
SimChanges ==
    /\ simReady' = ~simReady
    /\ UNCHANGED <<calls, voice, told, asked, repoll, view, failed, tunnel>>

-----------------------------------------------------------------------------
(* The requests that change calls. *)

Replace(from, to) == [c \in CallIds |-> IF calls[c] \in from THEN to ELSE calls[c]]

(* The rows of 3GPP TS 22.030 6.5.5 that the comments quote, as the modem   *)
(* carries them out.                                                        *)
Dialled == {[calls EXCEPT ![c] = "dialing"] : c \in {d \in voice : calls[d] = "none"}}

HungUp == {[calls EXCEPT ![c] = "none"] : c \in Present}

HungUpWaitingOrBackground == {Replace({"incoming", "holding"}, "none")}

HungUpForegroundResumedBackground ==
    {[c \in CallIds |-> CASE calls[c] = "active" -> "none"
                          [] calls[c] \in {"incoming", "holding"} -> "active"
                          [] OTHER -> calls[c]]}

Switched ==
    {[c \in CallIds |-> CASE calls[c] = "active" -> "holding"
                          [] calls[c] \in {"incoming", "holding"} -> "active"
                          [] OTHER -> calls[c]]}

TakenUp == {Replace({"incoming"}, "active")}

Joined == {Replace({"holding"}, "active")}

Busy == {Replace({"incoming"}, "none")}

Separated == {[Replace({"active"}, "holding") EXCEPT ![c] = "active"]
                : c \in {d \in CallIds : calls[d] = "active"}}

Outcomes == Dialled \cup HungUp \cup HungUpWaitingOrBackground
            \cup HungUpForegroundResumedBackground \cup Switched \cup TakenUp \cup Joined
            \cup Busy \cup Separated

(* A request to dial, hang up, answer, swap, join or separate: whether the  *)
(* modem does it or not, the answer is RIL_E_SUCCESS, and the framework     *)
(* finds out by GET_CURRENT_CALLS. (A party that is not 1 to 9 is refused   *)
(* without a command.)                                                      *)
Command ==
    /\ calls' \in Outcomes \cup {calls}
    /\ asked' = TRUE
    /\ UNCHANGED <<voice, told, repoll, simReady, view, failed, tunnel>>

-----------------------------------------------------------------------------
(* The list of calls. *)

FrameworkAsks ==
    /\ told /\ told' = FALSE /\ asked' = TRUE
    /\ UNCHANGED <<calls, voice, repoll, simReady, view, failed, tunnel>>

(* Mutant: data calls are counted. *)
ValidAny == Present

(* countValidCalls: the voice calls of AT+CLCC. *)
Valid == Present \cap voice

(* Mutant: only calls that still dial. *)
NeedRepollDialing == \E c \in Present : calls[c] = "dialing"

(* A call of any kind that is neither active nor held. *)
NeedRepoll == \E c \in Present : calls[c] \notin {"active", "holding"}

(* AT^CVOICE=0, AT^CVOICE=?, AT^DDSETEX=2 and gsm_audio_tunnel_start(): if  *)
(* one of them fails there is no tunnel, and no one hears of it.            *)
StartAudioTunnel == tunnel' \in (IF tunnel THEN {TRUE} ELSE BOOLEAN)

StopAudioTunnel == tunnel' = FALSE

(* AT+CLCC succeeds. If the SIM is not ready, RADIO_NOT_AVAILABLE has been  *)
(* answered before, and the second answer reaches no one.                   *)
GetCurrentCalls ==
    /\ asked /\ asked' = FALSE
    /\ IF Valid # {} THEN StartAudioTunnel ELSE StopAudioTunnel
    /\ failed' = ~simReady
    /\ view' = IF simReady
               THEN [c \in CallIds |-> IF c \in voice THEN Stage(calls[c]) ELSE "none"]
               ELSE view
    /\ repoll' = (repoll \/ NeedRepoll)
    /\ UNCHANGED <<calls, voice, told, simReady>>

(* AT+CLCC fails; or processRequest() has refused it, since the SIM was not *)
(* ready before either.                                                     *)
GetCurrentCallsFails ==
    /\ asked /\ asked' = FALSE /\ failed' = TRUE
    /\ UNCHANGED <<calls, voice, told, repoll, simReady, view, tunnel>>

SendCallStateChanged ==
    /\ repoll /\ repoll' = FALSE /\ told' = TRUE
    /\ UNCHANGED <<calls, voice, asked, simReady, view, failed, tunnel>>

CallNext ==
    \/ Rings \/ Progresses \/ Ends \/ SimChanges
    \/ Command \/ FrameworkAsks
    \/ GetCurrentCalls \/ GetCurrentCallsFails \/ SendCallStateChanged

CallSpec == CallInit /\ [][CallNext]_callVars

-----------------------------------------------------------------------------
(* Properties. *)

(* Every variable keeps to the values the program gives it. *)
CallTypeOK ==
    /\ calls \in [CallIds -> States] /\ voice \subseteq CallIds
    /\ view \in [CallIds -> {"none", "setup", "settled"}]
    /\ {told, asked, repoll, simReady, failed, tunnel} \subseteq BOOLEAN

(* Unless the framework was answered with an error since, the audio tunnel  *)
(* runs only if the calls it was told of are there: a data call does not    *)
(* open it, and with the last voice call it closes.                         *)
TunnelForCalls == tunnel /\ ~failed => \E c \in CallIds : view[c] # "none"

(* The framework does not believe for ever that a call is being set up that *)
(* was answered or has ended, even though the modem's announcement of that  *)
(* is unknown or was taken for the answer to a command. Only an error in    *)
(* answer to GET_CURRENT_CALLS can break the chain of questions.            *)
CallSetupFollowed ==
    \A c \in CallIds :
        view[c] = "setup" ~> (view[c] # "setup" \/ calls[c] \in Setup \/ failed)
=============================================================================
