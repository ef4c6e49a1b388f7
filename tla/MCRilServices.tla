--------------------------- MODULE MCRilServices ---------------------------
(****************************************************************************)
(* The parts of the RIL that keep state from one request to the next, or    *)
(* whose answers are about state elsewhere. They share none of it: a        *)
(* behaviour is one of a single part, the others stay as they are.          *)
(****************************************************************************)
EXTENDS SmsAck, EventList, Reports, Calls, DataCall, SimAccess, NetworkInfo, Messaging, TLC

CONSTANTS p1, p2, p3, p4, t1

VARIABLE part

Parts == {"sms", "events", "reports", "calls", "data", "sim", "network", "messaging"}

OneOfEach == p1 :> "SMS" @@ p2 :> "STATUS" @@ p3 :> "CB" @@ p4 :> "CB_SHORT"

vars == <<part, smsVars, eventVars, reportVars, callVars, dataVars, simVars, networkVars, messageVars>>

(* A part that is not the one of the behaviour begins in one of its states. *)
Init ==
    /\ part \in Parts
    /\ SmsInit /\ EventInit /\ ReportInit /\ CallInit /\ DataInit
    /\ SimInit /\ NetworkInit /\ MessagingInit
    /\ part # "calls" => voice = CallIds
    /\ part # "sim" => card = "SIM" /\ lock = "READY" /\ ~pinOn
    /\ part # "network" => network = CHOOSE n \in Networks : TRUE
    /\ part # "messaging" => Len(centre) = 1

Still(name, variables) == IF part = name THEN TRUE ELSE UNCHANGED variables

Runs(name, step) ==
    /\ part = name /\ step /\ UNCHANGED part
    /\ Still("sms", smsVars) /\ Still("events", eventVars) /\ Still("reports", reportVars)
    /\ Still("calls", callVars) /\ Still("data", dataVars) /\ Still("sim", simVars)
    /\ Still("network", networkVars) /\ Still("messaging", messageVars)

Next ==
    \/ Runs("sms", SmsNext) \/ Runs("events", EventNext) \/ Runs("reports", ReportNext)
    \/ Runs("calls", CallNext) \/ Runs("data", DataNext) \/ Runs("sim", SimNext)
    \/ Runs("network", NetworkNext) \/ Runs("messaging", MessagingNext)

(* Each thread runs when it can, the framework acknowledges what it gets    *)
(* and asks for the calls when it is told of a change, and time passes. It  *)
(* acknowledges reports and broadcasts too, for which the code waits the    *)
(* same (ril.c:1549, 1587), though the comment at ril.c:1937 speaks of new  *)
(* SMS only. A line below is three assumptions of weak fairness: in a       *)
(* behaviour the steps of one part only are ever enabled.                   *)
Fairness ==
    /\ WF_vars(Runs("sms", OnNewSms) \/ Runs("events", Insert("reader")) \/ Runs("calls", FrameworkAsks))
    /\ WF_vars(Runs("sms", Acknowledge) \/ Runs("events", Tick) \/ Runs("calls", SendCallStateChanged))
    /\ WF_vars(Runs("sms", SmsRunnerStep) \/ Runs("events", EventRunnerStep)
               \/ Runs("calls", GetCurrentCalls \/ GetCurrentCallsFails))

Spec == Init /\ [][Next]_vars /\ Fairness

(* Every variable of every part keeps to the values the program gives it. *)
TypeOK ==
    /\ SmsTypeOK /\ EventTypeOK /\ ReportTypeOK /\ CallTypeOK /\ DataTypeOK
    /\ SimTypeOK /\ NetworkTypeOK /\ MessagingTypeOK

(* What is read out of a line of the modem, or written into one, is what    *)
(* the framework, or the modem, is told: registration, contexts and types   *)
(* of networks; service centres and broadcasts.                             *)
LinesRead == NetworkTold /\ MessagesTold
=============================================================================
