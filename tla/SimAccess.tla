------------------------------ MODULE SimAccess ------------------------------
(****************************************************************************)
(* The SIM card (huawei-generic/huaweigeneric-ril.c: getUICCType(),         *)
(* requestSIM_IO(), convertSimIoFcp(), getCardStatus(), requestEnterSimPin();*)
(* fcp_parser.c).                                                           *)
(*                                                                          *)
(* The framework knows the 2G card only. The RIL finds out once which card  *)
(* is there, redirects the paths of a 3G card's files and converts what it  *)
(* says of them. What the framework is told of the lock of the card comes   *)
(* from an answer of the modem that has two forms.                          *)
(****************************************************************************)
EXTENDS Naturals

CONSTANT PinTries       \* bound: wrong PINs before the card wants the PUK

ASSUME SimAssumption == PinTries \in Nat \ {0}

VARIABLES
    card,           \* "SIM" or "USIM"
    lock,           \* what the card waits for, one of Locks
    tries,          \* wrong PINs or PUKs so far
    pinOn,          \* facility "SC": the card asks for a PIN when it is powered
    UiccType,       \* the static variable of getUICCType()
    radioOn,        \* the radio state is neither OFF nor UNAVAILABLE
    reply           \* to the last request, with what the card had said

Locks == {"READY", "PIN", "PUK", "BLOCKED", "NETWORK", "ABSENT"}

simVars == <<card, lock, tries, pinOn, UiccType, radioOn, reply>>

NoReply == [request |-> "none", errno |-> "none", said |-> "none", told |-> "none"]
Reply(request, errno, said, told) ==
    reply' = [request |-> request, errno |-> errno, said |-> said, told |-> told]

SimInit ==
    /\ card \in {"SIM", "USIM"} /\ lock \in Locks \ {"PUK", "BLOCKED"} /\ tries = 0
    /\ pinOn \in BOOLEAN /\ (lock = "PIN" => pinOn)
    /\ UiccType = "UNKNOWN" /\ radioOn = TRUE /\ reply = NoReply

RadioPower ==
    /\ radioOn' = ~radioOn
    /\ UNCHANGED <<card, lock, tries, pinOn, UiccType, reply>>

-----------------------------------------------------------------------------
(* The type of the card, and its files. *)

(* getUICCType() returns type: what it has read once, or what AT^CARDMODE   *)
(* says now, if that succeeds.                                              *)
GetUICCType(type) ==
    \/ ~radioOn /\ type = "UNKNOWN" /\ UNCHANGED UiccType
    \/ radioOn /\ UiccType # "UNKNOWN" /\ type = UiccType /\ UNCHANGED UiccType
    \/ radioOn /\ UiccType = "UNKNOWN" /\ type \in {card, "UNKNOWN"} /\ UiccType' = type

(* Of what kind the file is: in ef_usim_files, in ef_telecom_files, or not. *)
Files == {"usim", "telecom", "other"}

Path(type, file) ==
    CASE type = "USIM" /\ file = "usim"    -> "3F007FFF"
      [] type = "USIM" /\ file = "telecom" -> "3F007F10"
      [] OTHER -> "as given"

(* What the card says of a file to AT+CRSM: nothing (an error of the card,  *)
(* a file that is not there), or a description of the form of its kind; a   *)
(* 3G card also one that has no 2G form. "error" is an error of the command.*)
Says(file, path) ==
    {"error", "nothing"} \cup
    CASE lock = "ABSENT" -> {}
      [] lock # "ABSENT" /\ card = "SIM" -> {"2G"}
      [] card = "USIM" /\ file # "other" /\ path = "as given" -> {}
      [] OTHER -> {"FCP", "FCP without 2G form"}

(* convertSimIoFcp() with fcp_to_ts_51011(): tag 0x62, and properties that  *)
(* fit; anything else is an error.                                          *)
Convert(data) == IF data = "FCP" THEN "2G" ELSE "error"

(* Mutant: a card of unknown type is left alone. *)
ConvertsUSIM(type) == type = "USIM"

(* For every card that is not known to be a 2G card. *)
Converts(type) == type # "SIM"

(* RIL_REQUEST_SIM_IO with the command GET RESPONSE. *)
GetResponse(file) ==
    /\ \E type \in {"SIM", "USIM", "UNKNOWN"} :
          /\ GetUICCType(type)
          /\ \E said \in Says(file, Path(type, file)) :
                LET data == IF Converts(type) THEN Convert(said) ELSE said IN
                IF said = "error" \/ data = "error"
                THEN Reply("GET_RESPONSE", "GENERIC_FAILURE", said, "none")
                ELSE Reply("GET_RESPONSE", "SUCCESS", said, data)
    /\ UNCHANGED <<card, lock, tries, pinOn, radioOn>>

-----------------------------------------------------------------------------
(* The lock. *)

(* The answer to AT+CPIN?: a +CPIN: line or a +CME ERROR:, as the modem     *)
(* likes, or another error.                                                 *)
CpinAnswers ==
    {<<"error">>} \cup
    (IF lock # "ABSENT" THEN {<<"CPIN", lock>>} ELSE {}) \cup
    (IF lock \notin {"READY", "BLOCKED"} THEN {<<"CME", lock>>} ELSE {})

(* getSIMStatus(): the branches for these locks. "BLOCKED" gives            *)
(* SIM_PUK2_PERM_BLOCKED, since numRetries is 3.                            *)
SimStatus(said) ==
    CASE said = <<"CPIN", "READY">>                -> "SIM_READY"
      [] said \in {"CPIN", "CME"} \X {"PIN"}       -> "SIM_PIN"
      [] said \in {"CPIN", "CME"} \X {"PUK"}       -> "SIM_PUK"
      [] said \in {"CPIN", "CME"} \X {"NETWORK"}   -> "SIM_NETWORK_PERSO"
      [] said = <<"CPIN", "BLOCKED">>              -> "SIM_PUK2_PERM_BLOCKED"
      [] said = <<"CME", "ABSENT">>                -> "SIM_ABSENT"
      [] OTHER                                     -> "SIM_NOT_READY"

(* Mutant: the row of SIM_PUK is that of SIM_PIN. *)
AppStateShifted == [
    SIM_ABSENT |-> "UNKNOWN", SIM_NOT_READY |-> "DETECTED", SIM_READY |-> "READY",
    SIM_PIN |-> "PIN", SIM_PUK |-> "PIN", SIM_NETWORK_PERSO |-> "SUBSCRIPTION_PERSO",
    SIM_PUK2_PERM_BLOCKED |-> "UNKNOWN"]

(* The app_state of app_status_array. *)
AppState == [
    SIM_ABSENT |-> "UNKNOWN", SIM_NOT_READY |-> "DETECTED", SIM_READY |-> "READY",
    SIM_PIN |-> "PIN", SIM_PUK |-> "PUK", SIM_NETWORK_PERSO |-> "SUBSCRIPTION_PERSO",
    SIM_PUK2_PERM_BLOCKED |-> "UNKNOWN"]

(* getCardStatus(): without a card no application is reported. *)
CardStatus(status) ==
    IF status = "SIM_ABSENT" THEN "no card" ELSE AppState[status]

(* RIL_REQUEST_GET_SIM_STATUS: it never fails. If there is a card, its type *)
(* is read, if the radio is on, for the type of the application.            *)
GetSimStatus ==
    \E said \in CpinAnswers :
       LET status == IF radioOn THEN SimStatus(said) ELSE "SIM_NOT_READY" IN
       /\ Reply("GET_SIM_STATUS", "SUCCESS", lock, CardStatus(status))
       /\ \/ status = "SIM_ABSENT" /\ UNCHANGED UiccType
          \/ status # "SIM_ABSENT" /\ \E type \in {"SIM", "USIM", "UNKNOWN"} : GetUICCType(type)
       /\ UNCHANGED <<card, lock, tries, pinOn, radioOn>>

(* What the card makes of a right and of a wrong PIN, or PUK.               *)
Verify(right) ==
    \/ right /\ lock' = "READY" /\ tries' = 0
    \/ ~right /\ tries + 1 < PinTries /\ tries' = tries + 1 /\ UNCHANGED lock
    \/ /\ ~right /\ tries + 1 = PinTries /\ tries' = 0
       /\ lock' = IF lock = "PUK" THEN "BLOCKED" ELSE "PUK"

(* RIL_REQUEST_ENTER_SIM_PIN, _PUK: AT+CPIN. An answer that is neither OK   *)
(* nor a +CME ERROR: is answered with success.                              *)
EnterSimPin(right) ==
    /\ lock \in {"PIN", "PUK"}
    /\ \/ /\ Verify(right)
          /\ IF right THEN Reply("ENTER_SIM_PIN", "SUCCESS", "OK", "none")
             ELSE Reply("ENTER_SIM_PIN", "PASSWORD_INCORRECT", "CME", "none")
       \/ /\ UNCHANGED <<lock, tries>>
          /\ \/ Reply("ENTER_SIM_PIN", "GENERIC_FAILURE", "CME other", "none")
             \/ Reply("ENTER_SIM_PIN", "SUCCESS", "ERROR", "none")
    /\ UNCHANGED <<card, pinOn, UiccType, radioOn>>

(* RIL_REQUEST_CHANGE_SIM_PIN: AT+CPWD. *)
ChangePassword(right) ==
    /\ \/ /\ lock = "READY" /\ Verify(right)
          /\ CASE right -> Reply("CHANGE_SIM_PIN", "SUCCESS", "OK", "none")
               [] ~right /\ lock' = "READY" ->
                     Reply("CHANGE_SIM_PIN", "PASSWORD_INCORRECT", "CME", "none")
               [] ~right /\ lock' = "PUK" ->
                     Reply("CHANGE_SIM_PIN", "GENERIC_FAILURE", "CME PUK", "none")
       \/ /\ Reply("CHANGE_SIM_PIN", "GENERIC_FAILURE", "ERROR", "none")
          /\ UNCHANGED <<lock, tries>>
    /\ UNCHANGED <<card, pinOn, UiccType, radioOn>>

(* RIL_REQUEST_SET_FACILITY_LOCK for "SC": AT+CLCK. *)
SetFacilityLock(mode, right) ==
    /\ \/ /\ lock = "READY" /\ Verify(right)
          /\ pinOn' = IF right THEN mode ELSE pinOn
          /\ IF right THEN Reply("SET_FACILITY_LOCK", "SUCCESS", "OK", "none")
             ELSE Reply("SET_FACILITY_LOCK", "PASSWORD_INCORRECT", "CME", "none")
       \/ /\ Reply("SET_FACILITY_LOCK", "GENERIC_FAILURE", "ERROR", "none")
          /\ UNCHANGED <<lock, tries, pinOn>>
    /\ UNCHANGED <<card, UiccType, radioOn>>

(* RIL_REQUEST_QUERY_FACILITY_LOCK for "SC". *)
QueryFacilityLock ==
    /\ \/ Reply("QUERY_FACILITY_LOCK", "GENERIC_FAILURE", "ERROR", "none")
       \/ LET on == IF pinOn THEN "on" ELSE "off" IN
          Reply("QUERY_FACILITY_LOCK", "SUCCESS", on, on)
    /\ UNCHANGED <<card, lock, tries, pinOn, UiccType, radioOn>>

SimNext ==
    \/ RadioPower
    \/ \E file \in Files : GetResponse(file)
    \/ GetSimStatus
    \/ \E right \in BOOLEAN : EnterSimPin(right) \/ ChangePassword(right)
    \/ \E mode, right \in BOOLEAN : SetFacilityLock(mode, right)
    \/ QueryFacilityLock

SimSpec == SimInit /\ [][SimNext]_simVars

-----------------------------------------------------------------------------
(* Properties. *)

(* Every variable keeps to the values the program gives it. *)
SimTypeOK ==
    /\ card \in {"SIM", "USIM"} /\ lock \in Locks
    /\ tries \in 0 .. PinTries - 1 /\ UiccType \in {card, "UNKNOWN"} /\ {pinOn, radioOn} \subseteq BOOLEAN

(* What the framework shows for a lock. *)
Shown == [READY |-> {"READY"}, PIN |-> {"PIN"}, PUK |-> {"PUK"}, BLOCKED |-> {"UNKNOWN"},
          NETWORK |-> {"SUBSCRIPTION_PERSO"}, ABSENT |-> {"no card"}]

(* Whatever the RIL knows of the card (nothing, as the radio was off or     *)
(* AT^CARDMODE failed, or its type), the framework is never given the 3G    *)
(* description of a file; and it is told what the card waits for, unless it *)
(* is told that this is not known yet. That a password was changed, or used *)
(* for a lock, it is told only if the card took it; and that it was wrong,  *)
(* only if the card has counted it.                                         *)
SimAnswersTrue ==
    /\ reply.request = "GET_RESPONSE" /\ reply.errno = "SUCCESS" => reply.told \in {"nothing", "2G"}
    /\ reply.request = "GET_SIM_STATUS" =>
          reply.told \in Shown[reply.said] \cup {"DETECTED"}
    /\ reply.request \in {"CHANGE_SIM_PIN", "SET_FACILITY_LOCK"} =>
          /\ reply.errno = "SUCCESS" => reply.said = "OK"
          /\ reply.errno = "PASSWORD_INCORRECT" => reply.said = "CME"
=============================================================================
