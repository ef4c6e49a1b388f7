------------------------------- MODULE Reports -------------------------------
(****************************************************************************)
(* What the modem reports of its own accord, and who sets it                *)
(* (huawei-generic/huaweigeneric-ril.c: requestScreenState(),               *)
(* requestSetLocationUpdates(), requestGSMSMSBroadcastActivation(),         *)
(* requestSetupDefaultPDP(), requestResetRadio(), onSIMReady(),             *)
(* initializeChannel()).                                                    *)
(*                                                                          *)
(* Each of them is a list of commands. The runner sends them one by one;    *)
(* the modem accepts or refuses each. After a refusal a handler gives up,   *)
(* goes on, or tries something weaker.                                      *)
(****************************************************************************)
EXTENDS Naturals, Sequences

VARIABLES
    settings,       \* of the modem
    handler,        \* what the runner handles
    commands,       \* what it has still to send
    screen,         \* the last SCREEN_STATE that was answered with success
    routed          \* history: onSIMReady() has set where messages go

reportVars == <<settings, handler, commands, screen, routed>>

Default == [CREG |-> 0, CGREG |-> 0, CURC |-> 0, CGEREP |-> 0,
            CNMI |-> [mt |-> 0, bm |-> 0, ds |-> 0]]

(* A command the handler needs, and one whose refusal it ignores.           *)
Must(at, to) == [at |-> at, to |-> to, must |-> TRUE, fallback |-> <<>>]
Try(at, to)  == [at |-> at, to |-> to, must |-> FALSE, fallback |-> <<>>]

-----------------------------------------------------------------------------
(* The handlers. *)

(* The four commands of a screen that is on (n = 1) and off (n = 0).        *)
ScreenState(n) == <<Must("CREG", 2 * n), Must("CGREG", 2 * n),
                    Must("CURC", n), Must("CGEREP", n)>>

(* Mutant: no location updates, no registration reports at all. *)
LocationUpdatesNone(on) == <<Try("CREG", IF on THEN 2 ELSE 0)>>

(* The answer is an error in any case, since a +CLIP: line is waited for;   *)
(* whether the modem takes the command does not depend on that.             *)
LocationUpdates(on) == <<Try("CREG", IF on THEN 2 ELSE 1)>>

(* Mutant: the fields written in another order than they were read. *)
ActivatedShifted(cnmi, bm) == [mt |-> bm, bm |-> cnmi.mt, ds |-> cnmi.ds]

(* What is written back for the AT+CNMI? that was read. *)
Activated(cnmi, bm) == [cnmi EXCEPT !.bm = bm]

BroadcastActivation(bm) == <<Must("CNMI?", bm)>>

SetupPdp == <<Try("CGEREP", 1)>>

ResetRadio == <<Must("CFUN", 6), Must("CFUN", 1)>>

(* Some handsets do not know CREG=2. *)
SimReady == <<Try("CNMI", [mt |-> 2, bm |-> 2, ds |-> 1]),
              [Try("CREG", 2) EXCEPT !.fallback = <<Try("CREG", 1)>>],
              Try("CURC", 1), Try("CGEREP", 1)>>

InitializeChannel == <<Try("CREG", 2), Try("CGREG", 2), Try("CURC", 1), Try("CGEREP", 1)>>

Handlers == [
    SCREEN_ON |-> ScreenState(1), SCREEN_OFF |-> ScreenState(0), SCREEN_OTHER |-> <<>>,
    LOCATION_ON |-> LocationUpdates(TRUE), LOCATION_OFF |-> LocationUpdates(FALSE),
    BROADCAST_ON |-> BroadcastActivation(2), BROADCAST_OFF |-> BroadcastActivation(0),
    SETUP_DATA_CALL |-> SetupPdp, RESET_RADIO |-> ResetRadio, SIM_READY |-> SimReady]

Screens == {"SCREEN_ON", "SCREEN_OFF", "SCREEN_OTHER"}

-----------------------------------------------------------------------------
(* The runner and the modem. *)

ReportInit ==
    /\ settings = Default /\ handler = "INITIALIZE" /\ commands = InitializeChannel
    /\ screen = "unknown" /\ routed = FALSE

(* While a SCREEN_STATE is under way nothing is known of the reports. *)
Handle(h) ==
    /\ handler = "idle"
    /\ handler' = h /\ commands' = Handlers[h]
    /\ screen' = IF h \in Screens THEN "unknown" ELSE screen
    /\ UNCHANGED <<settings, routed>>

Accepts(c) ==
    /\ commands' = Tail(commands)
    /\ \/ /\ c.at \in {"CREG", "CGREG", "CURC", "CGEREP"}
          /\ settings' = [settings EXCEPT ![c.at] = c.to] /\ UNCHANGED <<screen, routed>>
       \/ /\ c.at = "CNMI" /\ settings' = [settings EXCEPT !.CNMI = c.to]
          /\ routed' = (routed \/ handler = "SIM_READY") /\ UNCHANGED screen
       \/ /\ c.at = "CFUN" /\ c.to = 6
          /\ settings' = Default /\ screen' = "unknown" /\ routed' = FALSE
       \/ /\ c.at = "CFUN" /\ c.to = 1 /\ UNCHANGED <<settings, screen, routed>>

(* AT+CNMI? is answered, and what was read is written with another <bm>.    *)
AnswersCnmi(c) ==
    /\ c.at = "CNMI?"
    /\ commands' = <<Must("CNMI", Activated(settings.CNMI, c.to))>>
    /\ UNCHANGED <<settings, screen, routed>>

Refuses(c) ==
    /\ commands' = IF c.must THEN <<>> ELSE c.fallback \o Tail(commands)
    /\ handler' = IF c.must THEN "failed" ELSE handler
    /\ UNCHANGED <<settings, screen, routed>>

SendNext ==
    /\ commands # <<>>
    /\ LET c == Head(commands) IN
       \/ (Accepts(c) \/ AnswersCnmi(c)) /\ UNCHANGED handler
       \/ Refuses(c)

(* The request is answered: RIL_E_SUCCESS, unless the handler gave up or    *)
(* the value for the screen was neither 0 nor 1.                            *)
Answered ==
    /\ handler # "idle" /\ commands = <<>>
    /\ screen' = CASE handler = "SCREEN_ON"  -> "on"
                   [] handler = "SCREEN_OFF" -> "off"
                   [] OTHER -> screen
    /\ handler' = "idle"
    /\ UNCHANGED <<settings, commands, routed>>

(* The modem goes away and comes back: the channel is opened again.         *)
Reopened ==
    /\ settings' = Default /\ screen' = "unknown" /\ routed' = FALSE
    /\ handler' = "INITIALIZE" /\ commands' = InitializeChannel

ReportNext ==
    \/ \E h \in DOMAIN Handlers : Handle(h)
    \/ SendNext \/ Answered \/ Reopened

ReportSpec == ReportInit /\ [][ReportNext]_reportVars

-----------------------------------------------------------------------------
(* Properties. *)

(* Every variable keeps to the values the program gives it. *)
ReportTypeOK ==
    /\ settings \in [CREG : 0 .. 2, CGREG : {0, 2}, CURC : 0 .. 1, CGEREP : 0 .. 1,
                     CNMI : [mt : {0, 2}, bm : {0, 2}, ds : {0, 1}]]
    /\ handler \in DOMAIN Handlers \cup {"idle", "failed", "INITIALIZE"}
    /\ screen \in {"unknown", "on", "off"} /\ routed \in BOOLEAN

(* From a SCREEN_STATE(on) that was answered with success until the screen  *)
(* is switched again or the modem restarts, all four kinds of reports stay  *)
(* on, and once onSIMReady() has said so, messages and status reports go to *)
(* the RIL: whatever location updates, broadcast settings, data calls and   *)
(* SIM events come in between, and whichever of their commands is refused.  *)
StaysNotified ==
    /\ screen = "on" => /\ settings.CREG > 0 /\ settings.CGREG = 2
                        /\ settings.CURC = 1 /\ settings.CGEREP = 1
    /\ routed => settings.CNMI.mt = 2 /\ settings.CNMI.ds = 1
=============================================================================
