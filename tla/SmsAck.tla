------------------------------- MODULE SmsAck -------------------------------
(****************************************************************************)
(* Incoming messages (huawei-generic/huaweigeneric-ril.c: onNewSms(),       *)
(* onNewStatusReport(), onNewBroadcastSms(), requestSMSAcknowledge()).      *)
(*                                                                          *)
(* The reader thread hands a message to the framework or, while one is      *)
(* unacknowledged, holds it; the runner, when an acknowledgement comes,     *)
(* hands over the next. Both do so with s_held_pdus_mutex held, which is    *)
(* why each of these sections is one step.                                  *)
(****************************************************************************)
EXTENDS Naturals, Sequences

CONSTANTS
    Pdus,           \* the messages the modem may send
    PduKind,        \* what each of them is
    Binary,         \* the broadcast messages with a zero byte in them
    MaxArrived,     \* bound: how many messages the modem sends
    MaxUnready      \* bound: how often the radio leaves SIM_READY

Kinds == {"SMS", "STATUS", "CB", "CB_SHORT"}

ASSUME SmsAssumption ==
    /\ PduKind \in [Pdus -> Kinds] /\ Binary \subseteq Pdus
    /\ MaxArrived \in Nat /\ MaxUnready \in Nat

VARIABLES
    line,           \* what the reader has read and not passed on, a sequence
    s_outstanding_acknowledge,
    s_held_pdus,    \* the list of struct held_pdu
    arrived,        \* history: the messages read
    delivered,      \* history: the calls of RIL_onUnsolicitedResponse()
    acks,           \* how many acknowledgements wait in the request list
    acknowledged,   \* how many the framework has made
    refused,        \* how many of them were answered with an error
    ready,          \* the radio state is SIM_READY
    unready,        \* bound: how often it was not
    runner          \* where the runner is

smsVars == <<line, s_outstanding_acknowledge, s_held_pdus, arrived, delivered, acks,
             acknowledged, refused, ready, unready, runner>>

SmsInit ==
    /\ line = <<>> /\ arrived = <<>> /\ delivered = <<>>
    /\ s_outstanding_acknowledge = FALSE /\ s_held_pdus = <<>>
    /\ acks = 0 /\ acknowledged = 0 /\ refused = 0
    /\ ready = TRUE /\ unready = 0 /\ runner = "idle"

-----------------------------------------------------------------------------
(* The reader. *)

(* The RIL_UNSOL_RESPONSE_NEW_* for a kind of message, and how much of the  *)
(* message a call passes on: the 88 bytes of a broadcast are not text.      *)
Response == [SMS |-> "NEW_SMS", STATUS |-> "NEW_SMS_STATUS_REPORT",
             CB |-> "NEW_BROADCAST_SMS"]

Unsolicited(p, response, length) == [pdu |-> p, response |-> response, length |-> length]

(* A line of a kind the handlers pass on; a broadcast message of the wrong  *)
(* length is discarded before the mutex, and changes nothing.               *)
ReadSms(p) ==
    /\ line = <<>> /\ Len(arrived) < MaxArrived
    /\ PduKind[p] # "CB_SHORT"
    /\ line' = <<p>> /\ arrived' = Append(arrived, p)
    /\ UNCHANGED <<s_outstanding_acknowledge, s_held_pdus, delivered, acks, acknowledged,
                   refused, ready, unready, runner>>

(* enqueue_held_pdu(): a copy made with strdup(), at the end of the list. *)
Held(p) == [type |-> PduKind[p], pdu |-> p,
            length |-> IF p \in Binary THEN "cut" ELSE "whole"]

EnqueueHeld(p) == s_held_pdus' = Append(s_held_pdus, Held(p))

(* Mutant: the list is a stack. *)
EnqueueHeldFirst(p) == s_held_pdus' = <<Held(p)>> \o s_held_pdus

(* onNewSms(), onNewStatusReport(), onNewBroadcastSms() *)
OnNewSms ==
    /\ line # <<>>
    /\ LET p == Head(line) IN
       IF s_outstanding_acknowledge
       THEN /\ EnqueueHeld(p)
            /\ UNCHANGED <<s_outstanding_acknowledge, delivered>>
       ELSE /\ s_outstanding_acknowledge' = TRUE
            /\ delivered' = Append(delivered,
                                   Unsolicited(p, Response[PduKind[p]], "whole"))
            /\ UNCHANGED s_held_pdus
    /\ line' = <<>>
    /\ UNCHANGED <<arrived, acks, acknowledged, refused, ready, unready, runner>>

-----------------------------------------------------------------------------
(* The framework, and the radio state. *)

(* The framework acknowledges every message once. The argument is 1 or 0,   *)
(* as it could store the message or not; AT+CNMA differs, nothing else.     *)
Acknowledge ==
    /\ acknowledged < Len(delivered)
    /\ acknowledged' = acknowledged + 1
    /\ acks' = acks + 1
    /\ UNCHANGED <<line, s_outstanding_acknowledge, s_held_pdus, arrived, delivered,
                   refused, ready, unready, runner>>

(* External: the radio state leaves SIM_READY and comes back (RilRunner). *)
RadioState ==
    /\ ready' = ~ready
    /\ unready' = IF ready THEN unready + 1 ELSE unready
    /\ unready' <= MaxUnready
    /\ UNCHANGED <<line, s_outstanding_acknowledge, s_held_pdus, arrived, delivered,
                   acks, acknowledged, refused, runner>>

-----------------------------------------------------------------------------
(* The runner. *)

(* processRequest(): with the radio not ready the request is completed with *)
(* an error, and requestSMSAcknowledge() is not called.                     *)
TakeAck ==
    /\ runner = "idle" /\ acks > 0
    /\ IF ready THEN runner' = "AT+CNMA" /\ UNCHANGED refused
                ELSE refused' = refused + 1 /\ UNCHANGED runner
    /\ acks' = acks - 1
    /\ UNCHANGED <<line, s_outstanding_acknowledge, s_held_pdus, arrived, delivered,
                   acknowledged, ready, unready>>

(* requestSMSAcknowledge(): the command, whose result is not looked at, and *)
(* the completion of the request ...                                        *)
SendCnma ==
    /\ runner = "AT+CNMA"
    /\ runner' = "dequeue"
    /\ UNCHANGED <<line, s_outstanding_acknowledge, s_held_pdus, arrived, delivered, acks,
                   acknowledged, refused, ready, unready>>

(* Mutants: the flag is cleared although a message is handed over; the flag *)
(* stays set when nothing is held.                                          *)
DeliverHeldAndClear ==
    /\ runner = "dequeue" /\ s_held_pdus # <<>>
    /\ LET hpdu == Head(s_held_pdus) IN
       delivered' = Append(delivered, Unsolicited(hpdu.pdu, Response[hpdu.type], hpdu.length))
    /\ s_held_pdus' = Tail(s_held_pdus)
    /\ s_outstanding_acknowledge' = FALSE
    /\ runner' = "idle"
    /\ UNCHANGED <<line, arrived, acks, acknowledged, refused, ready, unready>>

ClearOutstandingForgotten ==
    /\ runner = "dequeue" /\ s_held_pdus = <<>>
    /\ runner' = "idle"
    /\ UNCHANGED <<line, s_outstanding_acknowledge, s_held_pdus, arrived, delivered, acks,
                   acknowledged, refused, ready, unready>>

(* ... then, with the mutex, the next held message ... *)
DeliverHeld ==
    /\ runner = "dequeue" /\ s_held_pdus # <<>>
    /\ LET hpdu == Head(s_held_pdus) IN
       delivered' = Append(delivered, Unsolicited(hpdu.pdu, Response[hpdu.type], hpdu.length))
    /\ s_held_pdus' = Tail(s_held_pdus)
    /\ runner' = "idle"
    /\ UNCHANGED <<line, s_outstanding_acknowledge, arrived, acks, acknowledged, refused,
                   ready, unready>>

(* ... or none. *)
ClearOutstanding ==
    /\ runner = "dequeue" /\ s_held_pdus = <<>>
    /\ s_outstanding_acknowledge' = FALSE
    /\ runner' = "idle"
    /\ UNCHANGED <<line, s_held_pdus, arrived, delivered, acks, acknowledged, refused,
                   ready, unready>>

SmsRunnerStep == TakeAck \/ SendCnma \/ DeliverHeld \/ ClearOutstanding

SmsNext ==
    \/ \E p \in Pdus : ReadSms(p)
    \/ OnNewSms \/ Acknowledge \/ RadioState \/ SmsRunnerStep

SmsSpec == SmsInit /\ [][SmsNext]_smsVars

-----------------------------------------------------------------------------
(* Properties. *)

HeldTypes == [type : {"SMS", "STATUS", "CB"}, pdu : Pdus, length : {"whole", "cut"}]

DeliveredTypes == [pdu : Pdus, response : {Response[k] : k \in DOMAIN Response},
                   length : {"whole", "cut"}]

(* Every variable keeps to the values the program gives it. *)
SmsTypeOK ==
    /\ line \in Seq(Pdus) /\ Len(line) <= 1 /\ arrived \in Seq(Pdus)
    /\ s_outstanding_acknowledge \in BOOLEAN /\ s_held_pdus \in Seq(HeldTypes)
    /\ delivered \in Seq(DeliveredTypes)
    /\ acks \in Nat /\ acknowledged \in Nat /\ refused \in Nat
    /\ ready \in BOOLEAN /\ unready \in 0 .. MaxUnready
    /\ runner \in {"idle", "AT+CNMA", "dequeue"}

Delivery ==
    INSTANCE SmsDelivery WITH
        Messages  <- {<<p, Response[PduKind[p]]>> : p \in {q \in Pdus : PduKind[q] # "CB_SHORT"}},
        arrived   <- [i \in DOMAIN arrived |-> <<arrived[i], Response[PduKind[arrived[i]]]>>],
        delivered <- [i \in DOMAIN delivered |-> <<delivered[i].pdu, delivered[i].response>>]

(* The reader and the runner together keep the promise of SmsDelivery: the  *)
(* framework gets the messages in the modem's order, as what they are, and  *)
(* none before it has acknowledged the one before.                          *)
DeliveryPromise == Delivery!Spec

(* If no acknowledgement is refused, every message that arrived is handed   *)
(* over in the end: none stays in s_held_pdus or is lost between the        *)
(* reader and the runner. (A refused one leaves s_outstanding_acknowledge   *)
(* set, and holds every later message back for ever.)                       *)
EveryDelivered == []<>(Len(delivered) = Len(arrived) \/ refused > 0)
=============================================================================
