----------------------------- MODULE Messaging -----------------------------
(****************************************************************************)
(* Requests about messages that leave something with the modem: the address *)
(* of the service centre, and the identifiers of cell broadcasts            *)
(* (huawei-generic/huaweigeneric-ril.c: requestSendSMS(),                   *)
(* requestSetSMSCAddress(), requestGSM{Set,Get}BroadcastSMSConfig(),        *)
(* onSIMReady()).                                                           *)
(****************************************************************************)
EXTENDS Tokens, Integers

CONSTANTS
    MaxRanges,      \* BROADCAST_MAX_RANGES_SUPPORTED (10)
    MaxConfig,      \* bound: ranges the framework configures
    MaxDigits,      \* bound: digits of the number of a service centre
    MaxLists        \* bound: lists of which the modem may have any

ASSUME MessagingAssumption == {MaxRanges, MaxConfig, MaxDigits, MaxLists} \subseteq Nat \ {0}

VARIABLES
    centre,         \* of the modem: the number AT+CSCA? gives
    mids,           \* of the modem: the string AT+CSCB? gives
    wanted,         \* history: the lists of ranges the modem may have, as far
                    \* as the framework and onSIMReady() can tell
    outcome         \* the answer under way

messageVars == <<centre, mids, wanted, outcome>>

NotGiven == [request |-> "none", errno |-> "none"]
Give(request, errno) == outcome' = [request |-> request, errno |-> errno]
GiveThis(request, what) ==
    outcome' = [request |-> request, errno |-> "SUCCESS", what |-> what]

Numbers == UNION {[1 .. n -> {"1", "2"}] : n \in 1 .. MaxDigits}

MessagingInit ==
    /\ centre \in {s \in Numbers : \A i \in DOMAIN s : s[i] = "1"}
    /\ mids = <<>> /\ wanted = {<<>>} /\ outcome = NotGiven

TakeAnswer ==
    /\ outcome # NotGiven /\ outcome' = NotGiven /\ UNCHANGED <<centre, mids, wanted>>

-----------------------------------------------------------------------------
(* Sending a message. *)

(* Mutant: the last digit of an odd number keeps its place. *)
SemiOctetsFLast(number) ==
    LET length == Len(number) IN
    [p \in 1 .. length + (length % 2) |->
       CASE p = length + 1                   -> "F"
         [] length % 2 = 1 /\ p = length     -> number[length]
         [] p % 2 = 1 /\ p < length          -> number[p + 1]
         [] p % 2 = 0 /\ p <= length         -> number[p - 1]]

(* The digits in pairs, each turned around, with F for one that is missing. *)
SemiOctets(number) ==
    LET length == Len(number) IN
    [p \in 1 .. length + (length % 2) |->
       CASE p = length + 1                   -> number[length]
         [] length % 2 = 1 /\ p = length     -> "F"
         [] p % 2 = 1 /\ p < length          -> number[p + 1]
         [] p % 2 = 0 /\ p <= length         -> number[p - 1]]

(* The address of a message without one of its own: its length in octets,   *)
(* that of the type included, and the digits.                               *)
Smsc(number) == [octets |-> (Len(number) + 1) \div 2 + 1, digits |-> SemiOctets(number)]

(* What the modem reads of it: as many octets as it says, up to an F.       *)
ReadAddress(smsc) ==
    LET turned == [p \in 1 .. 2 * (smsc.octets - 1) |->
                     smsc.digits[IF p % 2 = 1 THEN p + 1 ELSE p - 1]] IN
    SubSeq(turned, 1, First(turned, LAMBDA i : turned[i] = "F") - 1)

(* RIL_REQUEST_SEND_SMS: AT+CSCA? if there is no address, then AT+CMGS,     *)
(* which may fail in two ways.                                              *)
RequestSendSMS ==
    /\ \E own \in Numbers \cup {<<>>} :
          \/ own = <<>> /\ Give("SEND_SMS", "GENERIC_FAILURE")
          \/ Give("SEND_SMS", "SMS_SEND_FAIL_RETRY")
          \/ Give("SEND_SMS", "GENERIC_FAILURE")
          \/ own = <<>> /\ GiveThis("SEND_SMS", ReadAddress(Smsc(centre)))
          \/ own # <<>> /\ Give("SEND_SMS", "SUCCESS")
    /\ UNCHANGED <<centre, mids, wanted>>

(* RIL_REQUEST_SET_SMSC_ADDRESS: AT+CSCA. When its answer came too late, it *)
(* was carried out although it failed.                                      *)
RequestSetSMSCAddress(number) ==
    /\ \/ centre' = number /\ Give("SET_SMSC", "SUCCESS")
       \/ centre' \in {centre, number} /\ Give("SET_SMSC", "GENERIC_FAILURE")
    /\ UNCHANGED <<mids, wanted>>

(* RIL_REQUEST_GET_SMSC_ADDRESS: AT+CSCA?. *)
RequestGetSMSCAddress ==
    /\ Give("GET_SMSC", "GENERIC_FAILURE") \/ GiveThis("GET_SMSC", centre)
    /\ UNCHANGED <<centre, mids, wanted>>

-----------------------------------------------------------------------------
(* Cell broadcasts. *)

Configs == UNION {[1 .. n -> [from : {"1", "5"}, to : {"5"}, selected : BOOLEAN]] : n \in 1 .. MaxConfig}

(* "%d-%d" for each selected range, with a comma unless it is the last of   *)
(* all.                                                                     *)
Mids(config) ==
    FoldLeft(LAMBDA s, i :
                LET range == <<config[i].from, "-", config[i].to>> IN
                IF ~config[i].selected THEN s
                ELSE s \o range \o (IF i = Len(config) THEN <<>> ELSE <<",">>),
             <<>>, [i \in DOMAIN config |-> i])

(* The ends of the selected ranges: the n-th has n - 1 before it.           *)
Selected(config) ==
    LET kept  == {i \in DOMAIN config : config[i].selected}
        at(n) == CHOOSE i \in kept : Cardinality({j \in kept : j < i}) = n - 1
    IN  [n \in 1 .. Cardinality(kept) |->
           <<NextInt(<<config[at(n)].from>>, 10).value, NextInt(<<config[at(n)].to>>, 10).value>>]

(* AT+CSCB failed, or its answer came too late and it was carried out.      *)
MayBeStored(string, ranges) ==
    /\ mids' \in {mids, string}
    /\ wanted' = wanted \cup {ranges} /\ Cardinality(wanted') <= MaxLists

(* RIL_REQUEST_GSM_SET_BROADCAST_SMS_CONFIG: with no range selected, there  *)
(* is no command.                                                           *)
RequestGSMSetBroadcastSMSConfig(config) ==
    /\ \/ /\ Mids(config) = <<>> /\ UNCHANGED <<mids, wanted>>
          /\ Give("SET_CONFIG", "GENERIC_FAILURE")
       \/ /\ Mids(config) # <<>> /\ MayBeStored(Mids(config), Selected(config))
          /\ Give("SET_CONFIG", "GENERIC_FAILURE")
       \/ /\ Mids(config) # <<>>
          /\ mids' = Mids(config) /\ wanted' = {Selected(config)}
          /\ Give("SET_CONFIG", "SUCCESS")
    /\ UNCHANGED centre

(* onSIMReady(): "Do not accept messages", AT+CSCB=1, leaves the modem with *)
(* no range, or with those it had and a mode that the handler below does    *)
(* not look at; nor does anybody look whether the command failed.           *)
OnSIMReady == MayBeStored(<<>>, <<>>) /\ UNCHANGED <<centre, outcome>>

(* The two ends of a range, which may be one.                               *)
RangeOf(from, to) ==
    [ok |-> from.ok, ends |-> <<from.value, IF to.ok THEN to.value ELSE from.value>>]

RangeFrom(from) == RangeOf(from, NextInt(from.cur, 10))

RangeEnds(range) ==
    RangeFrom(NextInt([i \in DOMAIN range |-> IF range[i] = "-" THEN "," ELSE range[i]], 10))

(* RIL_REQUEST_GSM_GET_BROADCAST_SMS_CONFIG: the ranges up to the maximum;  *)
(* a range without a number is an error.                                    *)
RequestGSMGetBroadcastSMSConfig ==
    /\ \/ Give("GET_CONFIG", "GENERIC_FAILURE")
       \/ \E found \in {Strings(mids, MaxRanges)} :
          \E ranges \in {[i \in DOMAIN found |-> RangeEnds(found[i])]} :
          IF \E i \in DOMAIN ranges : ~ranges[i].ok THEN Give("GET_CONFIG", "GENERIC_FAILURE")
          ELSE GiveThis("GET_CONFIG", [i \in DOMAIN ranges |-> ranges[i].ends])
    /\ UNCHANGED <<centre, mids, wanted>>

MessagingNext ==
    \/ TakeAnswer
    \/ /\ outcome = NotGiven
       /\ \/ RequestSendSMS \/ RequestGetSMSCAddress
          \/ \E number \in Numbers : RequestSetSMSCAddress(number)
          \/ \E config \in Configs : RequestGSMSetBroadcastSMSConfig(config)
          \/ RequestGSMGetBroadcastSMSConfig
          \/ OnSIMReady

-----------------------------------------------------------------------------
(* Properties. *)

MessagingTypeOK ==
    /\ centre \in Numbers /\ \A ranges \in wanted : Len(ranges) <= MaxConfig
    /\ outcome.errno \in {"none", "SUCCESS", "GENERIC_FAILURE", "SMS_SEND_FAIL_RETRY"}

(* A message without an address of its own goes to the service centre the   *)
(* modem has, whether its number has an even or an odd number of digits ... *)
AddressKept ==
    outcome.errno = "SUCCESS" /\ outcome.request = "SEND_SMS" /\ "what" \in DOMAIN outcome
        => outcome.what = centre

(* ... and the broadcasts that are read back are those selected last, up to *)
(* the most the handler takes, whichever of a list were; or, if a request   *)
(* failed or a SIM was ready since, those it selected or none, or those     *)
(* from before.                                                             *)
MessagesTold ==
    /\ AddressKept
    /\ outcome.errno = "SUCCESS" /\ outcome.request = "GET_CONFIG" =>
          \E ranges \in wanted :
             outcome.what = SubSeq(ranges, 1, IF Len(ranges) < MaxRanges THEN Len(ranges) ELSE MaxRanges)
=============================================================================
