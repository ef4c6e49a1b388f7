---------------------------- MODULE ServicesProofs ----------------------------
(****************************************************************************)
(* Theorems about the handlers of the RIL that keep state: the messages and *)
(* their acknowledgements (SmsAck), the calls and the audio tunnel (Calls), *)
(* the data call (DataCall), the reports and the routing of messages        *)
(* (Reports), and the SIM card (SimAccess).                                 *)
(****************************************************************************)
EXTENDS SmsAck, Calls, DataCall, Reports, SimAccess, FiniteSetTheorems, SequenceTheorems, TLAPS

-----------------------------------------------------------------------------
(* SmsAck implements SmsDelivery, for any messages and any number of them:  *)
(* the reader and the runner hand the messages over in the modem's order,   *)
(* and one only after the one before has been acknowledged.                 *)
(*                                                                          *)
(* Two facts carry it. The messages that arrived are those delivered, then  *)
(* those held, then the one the reader has in its hands (OrderInv). And as  *)
(* long as a message is outstanding at most one thing about it is under     *)
(* way: the framework has it, its acknowledgement waits, or the runner is   *)
(* in requestSMSAcknowledge() (TurnInv).                                    *)

UnderWay == (Len(delivered) - acknowledged) + acks + (IF runner = "idle" THEN 0 ELSE 1)

TurnInv ==
    /\ acknowledged <= Len(delivered) /\ UnderWay <= 1
    /\ ~s_outstanding_acknowledge => UnderWay = 0 /\ s_held_pdus = <<>>

Passed == {p \in Pdus : PduKind[p] # "CB_SHORT"}

OrderInv ==
    /\ \A i \in 1 .. Len(arrived) : arrived[i] \in Passed
    /\ Len(arrived) = Len(delivered) + Len(s_held_pdus) + Len(line)
    /\ \A i \in 1 .. Len(delivered) :
          /\ delivered[i].pdu = arrived[i]
          /\ delivered[i].response = Response[PduKind[arrived[i]]]
    /\ \A i \in 1 .. Len(s_held_pdus) :
          /\ s_held_pdus[i].pdu = arrived[Len(delivered) + i]
          /\ s_held_pdus[i].type = PduKind[arrived[Len(delivered) + i]]
    /\ line # <<>> => line[1] = arrived[Len(arrived)]

SmsInv == SmsTypeOK /\ TurnInv /\ OrderInv

-----------------------------------------------------------------------------
LEMMA SmsInitInv == SmsInit => SmsInv
  <1> SUFFICES ASSUME SmsInit PROVE SmsInv
    OBVIOUS
  <1>1. SmsTypeOK
    <2>1. line \in Seq(Pdus) /\ Len(line) = 0 /\ arrived \in Seq(Pdus)
      BY EmptySeq DEF SmsInit
    <2>2. s_held_pdus \in Seq(HeldTypes) /\ delivered \in Seq(DeliveredTypes)
      BY EmptySeq DEF SmsInit
    <2>3. unready \in 0 .. MaxUnready /\ 0 <= 1
      BY SmsAssumption DEF SmsInit
    <2> QED
      BY <2>1, <2>2, <2>3 DEF SmsInit, SmsTypeOK
  <1>2. TurnInv
    BY DEF SmsInit, TurnInv, UnderWay
  <1>3. OrderInv
    BY DEF SmsInit, OrderInv
  <1> QED
    BY <1>1, <1>2, <1>3 DEF SmsInv

(* A sequence that is not empty, and not longer than one.                   *)
LEMMA OnlyElement ==
    ASSUME NEW S, NEW q \in Seq(S), Len(q) <= 1, q # <<>>
    PROVE  Len(q) = 1 /\ Head(q) = q[1]
  <1> DEFINE n == Len(q)
  <1>1. n \in Nat \ {0}
    BY EmptySeq
  <1>2. n <= 1
    OBVIOUS
  <1>3. n = 1
    <2> HIDE DEF n
    <2> QED
      BY <1>1, <1>2
  <1>4. Head(q) = q[1]
    OBVIOUS
  <1> QED
    BY <1>3, <1>4

(* The next message to be delivered, from the list or from the reader, is a *)
(* message of one of the three kinds.                                       *)
LEMMA UnsolicitedType ==
    ASSUME NEW p \in Pdus, NEW k \in DOMAIN Response, NEW l \in {"whole", "cut"}
    PROVE  Unsolicited(p, Response[k], l) \in DeliveredTypes
  BY DEF Unsolicited, DeliveredTypes

LEMMA SmsTypeStep ==
    ASSUME SmsTypeOK, OrderInv, [SmsNext]_smsVars
    PROVE  SmsTypeOK'
  <1> USE SmsAssumption
  <1>0. DOMAIN Response = {"SMS", "STATUS", "CB"}
    BY DEF Response
  <1>1. ASSUME NEW p \in Pdus, ReadSms(p) PROVE SmsTypeOK'
    BY <1>1 DEF ReadSms, SmsTypeOK
  <1>2. CASE OnNewSms
    <2> DEFINE p == Head(line)
    <2>1. p \in Pdus /\ PduKind[p] \in DOMAIN Response
      <3>1. Len(line) = 1 /\ p = line[1]
        <4>1. line \in Seq(Pdus) /\ Len(line) <= 1 /\ line # <<>>
          BY <1>2 DEF OnNewSms, SmsTypeOK
        <4> QED
          BY <4>1, OnlyElement
      <3>2. Len(arrived) \in 1 .. Len(arrived)
        BY <1>2, <3>1 DEF OrderInv, SmsTypeOK, OnNewSms
      <3>3. p \in Passed
        BY <1>2, <3>1, <3>2 DEF OrderInv, OnNewSms
      <3> QED
        BY <3>3, <1>0 DEF Passed, Kinds
    <2>2. Held(p) \in HeldTypes
      BY <2>1, <1>0 DEF Held, HeldTypes
    <2>3. Unsolicited(p, Response[PduKind[p]], "whole") \in DeliveredTypes
      BY <2>1, UnsolicitedType
    <2>4. s_held_pdus' \in Seq(HeldTypes)
      <3>1. s_held_pdus \in Seq(HeldTypes)
        BY DEF SmsTypeOK
      <3>2. s_held_pdus' = s_held_pdus \/ s_held_pdus' = Append(s_held_pdus, Held(p))
        BY <1>2 DEF OnNewSms, EnqueueHeld
      <3> QED
        BY <3>1, <3>2, <2>2, AppendProperties
    <2>5. delivered' \in Seq(DeliveredTypes)
      <3>1. delivered \in Seq(DeliveredTypes)
        BY DEF SmsTypeOK
      <3>2. \/ delivered' = delivered
            \/ delivered' = Append(delivered, Unsolicited(p, Response[PduKind[p]], "whole"))
        BY <1>2 DEF OnNewSms
      <3> QED
        BY <3>1, <3>2, <2>3, AppendProperties
    <2>6. line' \in Seq(Pdus) /\ Len(line') <= 1
      <3>1. line' = <<>>
        BY <1>2 DEF OnNewSms
      <3>2. line' \in Seq(Pdus) /\ Len(line') = 0
        BY <3>1, EmptySeq
      <3> QED
        BY <3>2
    <2>7. s_outstanding_acknowledge' \in BOOLEAN
      BY <1>2 DEF OnNewSms, SmsTypeOK
    <2> QED
      BY <1>2, <2>4, <2>5, <2>6, <2>7 DEF OnNewSms, SmsTypeOK
  <1>3. CASE Acknowledge
    BY <1>3 DEF Acknowledge, SmsTypeOK
  <1>4. CASE RadioState
    BY <1>4 DEF RadioState, SmsTypeOK
  <1>5. CASE TakeAck
    BY <1>5 DEF TakeAck, SmsTypeOK
  <1>6. CASE SendCnma
    BY <1>6 DEF SendCnma, SmsTypeOK
  <1>7. CASE DeliverHeld
    <2> DEFINE hpdu == Head(s_held_pdus)
    <2>1. hpdu \in HeldTypes /\ Tail(s_held_pdus) \in Seq(HeldTypes)
      BY <1>7 DEF DeliverHeld, SmsTypeOK
    <2>2. hpdu.pdu \in Pdus /\ hpdu.type \in DOMAIN Response /\ hpdu.length \in {"whole", "cut"}
      BY <2>1, <1>0 DEF HeldTypes
    <2>3. Unsolicited(hpdu.pdu, Response[hpdu.type], hpdu.length) \in DeliveredTypes
      BY <2>2, UnsolicitedType
    <2>4. delivered' \in Seq(DeliveredTypes)
      BY <1>7, <2>3 DEF DeliverHeld, SmsTypeOK
    <2> QED
      BY <1>7, <2>1, <2>4 DEF DeliverHeld, SmsTypeOK
  <1>8. CASE ClearOutstanding
    BY <1>8 DEF ClearOutstanding, SmsTypeOK
  <1>9. CASE UNCHANGED smsVars
    BY <1>9 DEF smsVars, SmsTypeOK
  <1> QED
    BY <1>1, <1>2, <1>3, <1>4, <1>5, <1>6, <1>7, <1>8, <1>9 DEF SmsNext, SmsRunnerStep

(* The lengths the invariants count with.                                   *)
LEMMA SmsLengths ==
    ASSUME SmsTypeOK
    PROVE  /\ Len(line) \in Nat /\ Len(arrived) \in Nat
           /\ Len(delivered) \in Nat /\ Len(s_held_pdus) \in Nat
           /\ acks \in Nat /\ acknowledged \in Nat
  BY DEF SmsTypeOK

(* A delivery adds one to the length of what was delivered.                 *)
LEMMA DeliveredLonger ==
    ASSUME SmsTypeOK, NEW e, delivered' = Append(delivered, e)
    PROVE  Len(delivered') = Len(delivered) + 1
  BY DEF SmsTypeOK

-----------------------------------------------------------------------------
(* At most one thing about the outstanding message is under way: the steps  *)
(* pass the turn on, and only onNewSms() takes one, with none outstanding.  *)
LEMMA AckTurnStep ==
    ASSUME SmsTypeOK, TurnInv, [SmsNext]_smsVars
    PROVE  TurnInv'
  <1> USE SmsLengths
  <1>1. ASSUME NEW p \in Pdus, ReadSms(p) PROVE TurnInv'
    BY <1>1 DEF ReadSms, TurnInv, UnderWay
  <1>2. CASE OnNewSms
    <2>1. CASE s_outstanding_acknowledge
      BY <1>2, <2>1 DEF OnNewSms, TurnInv, UnderWay
    <2>2. CASE ~s_outstanding_acknowledge
      <3>1. Len(delivered') = Len(delivered) + 1
        BY <1>2, <2>2, DeliveredLonger DEF OnNewSms
      <3> QED
        BY <1>2, <2>2, <3>1 DEF OnNewSms, TurnInv, UnderWay
    <2> QED
      BY <2>1, <2>2
  <1>3. CASE Acknowledge
    BY <1>3 DEF Acknowledge, TurnInv, UnderWay
  <1>4. CASE RadioState
    BY <1>4 DEF RadioState, TurnInv, UnderWay
  <1>5. CASE TakeAck
    BY <1>5 DEF TakeAck, TurnInv, UnderWay
  <1>6. CASE SendCnma
    BY <1>6 DEF SendCnma, TurnInv, UnderWay
  <1>7. CASE DeliverHeld
    <2>1. Len(delivered') = Len(delivered) + 1
      BY <1>7, DeliveredLonger DEF DeliverHeld
    <2> QED
      BY <1>7, <2>1 DEF DeliverHeld, TurnInv, UnderWay
  <1>8. CASE ClearOutstanding
    BY <1>8 DEF ClearOutstanding, TurnInv, UnderWay
  <1>9. CASE UNCHANGED smsVars
    BY <1>9 DEF smsVars, TurnInv, UnderWay
  <1> QED
    BY <1>1, <1>2, <1>3, <1>4, <1>5, <1>6, <1>7, <1>8, <1>9 DEF SmsNext, SmsRunnerStep

-----------------------------------------------------------------------------
(* What onNewSms() takes from the reader is the last message that arrived,  *)
(* and follows those delivered and held.                                    *)
LEMMA InHand ==
    ASSUME SmsTypeOK, OrderInv, line # <<>>
    PROVE  /\ Head(line) = arrived[Len(arrived)]
           /\ Len(arrived) = Len(delivered) + Len(s_held_pdus) + 1
           /\ Len(arrived) \in 1 .. Len(arrived)
  <1>1. line \in Seq(Pdus) /\ Len(line) <= 1
    BY DEF SmsTypeOK
  <1>2. Len(line) = 1 /\ Head(line) = line[1]
    BY <1>1, OnlyElement
  <1> QED
    BY <1>2, SmsLengths DEF OrderInv

LEMMA OrderOnNewSms ==
    ASSUME SmsTypeOK, TurnInv, OrderInv, SmsTypeOK', OnNewSms
    PROVE  OrderInv'
  <1> DEFINE p == Head(line)
  <1>1. /\ p = arrived[Len(arrived)]
        /\ Len(arrived) = Len(delivered) + Len(s_held_pdus) + 1
    BY InHand DEF OnNewSms
  <1>2. line' = <<>> /\ Len(line') = 0 /\ arrived' = arrived
    BY EmptySeq DEF OnNewSms
  <1>3. /\ Len(delivered) \in Nat /\ Len(s_held_pdus) \in Nat /\ Len(arrived) \in Nat
        /\ delivered \in Seq(DeliveredTypes) /\ s_held_pdus \in Seq(HeldTypes)
    BY SmsLengths DEF SmsTypeOK
  <1>4. CASE s_outstanding_acknowledge
    <2>1. s_held_pdus' = Append(s_held_pdus, Held(p)) /\ delivered' = delivered
      BY <1>4 DEF OnNewSms, EnqueueHeld
    <2>2. /\ Len(s_held_pdus') = Len(s_held_pdus) + 1
          /\ \A i \in 1 .. Len(s_held_pdus) : s_held_pdus'[i] = s_held_pdus[i]
          /\ s_held_pdus'[Len(s_held_pdus) + 1] = Held(p)
      BY <2>1, <1>3
    <2>3. ASSUME NEW i \in 1 .. Len(s_held_pdus')
          PROVE  /\ s_held_pdus'[i].pdu = arrived[Len(delivered) + i]
                 /\ s_held_pdus'[i].type = PduKind[arrived[Len(delivered) + i]]
      <3>1. CASE i = Len(s_held_pdus) + 1
        <4>1. Len(delivered) + i = Len(arrived)
          BY <3>1, <1>1, <1>3
        <4> QED
          BY <4>1, <3>1, <2>2, <1>1 DEF Held
      <3>2. CASE i # Len(s_held_pdus) + 1
        <4>1. i \in 1 .. Len(s_held_pdus)
          BY <3>2, <2>2, <1>3
        <4> QED
          BY <4>1, <2>2 DEF OrderInv
      <3> QED
        BY <3>1, <3>2
    <2> QED
      BY <2>1, <2>2, <2>3, <1>1, <1>2, <1>3 DEF OrderInv
  <1>5. CASE ~s_outstanding_acknowledge
    <2>1. /\ delivered' = Append(delivered, Unsolicited(p, Response[PduKind[p]], "whole"))
          /\ s_held_pdus' = s_held_pdus /\ s_held_pdus = <<>> /\ Len(s_held_pdus) = 0
      BY <1>5, EmptySeq DEF OnNewSms, TurnInv
    <2>2. /\ Len(delivered') = Len(delivered) + 1
          /\ \A i \in 1 .. Len(delivered) : delivered'[i] = delivered[i]
          /\ delivered'[Len(delivered) + 1] = Unsolicited(p, Response[PduKind[p]], "whole")
      BY <2>1, <1>3
    <2>3. ASSUME NEW i \in 1 .. Len(delivered')
          PROVE  /\ delivered'[i].pdu = arrived[i]
                 /\ delivered'[i].response = Response[PduKind[arrived[i]]]
      <3>1. CASE i = Len(delivered) + 1
        <4>1. i = Len(arrived)
          BY <3>1, <2>1, <1>1, <1>3
        <4> QED
          BY <4>1, <3>1, <2>2, <1>1 DEF Unsolicited
      <3>2. CASE i # Len(delivered) + 1
        <4>1. i \in 1 .. Len(delivered)
          BY <3>2, <2>2, <1>3
        <4> QED
          BY <4>1, <2>2 DEF OrderInv
      <3> QED
        BY <3>1, <3>2
    <2> QED
      BY <2>1, <2>2, <2>3, <1>1, <1>2, <1>3 DEF OrderInv
  <1> QED
    BY <1>4, <1>5

LEMMA OrderDeliverHeld ==
    ASSUME SmsTypeOK, OrderInv, DeliverHeld
    PROVE  OrderInv'
  <1> DEFINE hpdu == Head(s_held_pdus)
             e == Unsolicited(hpdu.pdu, Response[hpdu.type], hpdu.length)
             a == arrived[Len(delivered) + 1]
  <1>1. /\ delivered' = Append(delivered, e) /\ s_held_pdus' = Tail(s_held_pdus)
        /\ s_held_pdus # <<>> /\ arrived' = arrived /\ line' = line
    BY DEF DeliverHeld
  <1>2. /\ Len(delivered) \in Nat /\ Len(s_held_pdus) \in Nat /\ Len(line) \in Nat
        /\ delivered \in Seq(DeliveredTypes) /\ s_held_pdus \in Seq(HeldTypes)
    BY SmsLengths DEF SmsTypeOK
  <1>3. /\ Len(s_held_pdus') = Len(s_held_pdus) - 1
        /\ \A i \in 1 .. Len(s_held_pdus') : s_held_pdus'[i] = s_held_pdus[i + 1]
    BY <1>1, <1>2, HeadTailProperties
  <1>4. Len(s_held_pdus) \in Nat \ {0}
    BY <1>1, <1>2, EmptySeq
  <1>5. hpdu.pdu = a /\ hpdu.type = PduKind[a]
    <2>1. hpdu = s_held_pdus[1] /\ 1 \in 1 .. Len(s_held_pdus)
      BY <1>2, <1>4
    <2> QED
      BY <2>1 DEF OrderInv
  <1>6. /\ Len(delivered') = Len(delivered) + 1
        /\ \A i \in 1 .. Len(delivered) : delivered'[i] = delivered[i]
        /\ delivered'[Len(delivered) + 1] = e
    BY <1>1, <1>2
  <1>7. ASSUME NEW i \in 1 .. Len(delivered')
        PROVE  /\ delivered'[i].pdu = arrived[i]
               /\ delivered'[i].response = Response[PduKind[arrived[i]]]
    <2>1. CASE i = Len(delivered) + 1
      BY <2>1, <1>5, <1>6 DEF Unsolicited
    <2>2. CASE i # Len(delivered) + 1
      <3>1. i \in 1 .. Len(delivered)
        BY <2>2, <1>6, <1>2
      <3> QED
        BY <3>1, <1>6 DEF OrderInv
    <2> QED
      BY <2>1, <2>2
  <1>8. ASSUME NEW i \in 1 .. Len(s_held_pdus')
        PROVE  /\ s_held_pdus'[i].pdu = arrived[Len(delivered') + i]
               /\ s_held_pdus'[i].type = PduKind[arrived[Len(delivered') + i]]
    <2>1. i + 1 \in 1 .. Len(s_held_pdus) /\ Len(delivered') + i = Len(delivered) + (i + 1)
      BY <1>2, <1>3, <1>6
    <2> QED
      BY <2>1, <1>3 DEF OrderInv
  <1>9. Len(arrived') = Len(delivered') + Len(s_held_pdus') + Len(line')
    <2>1. Len(arrived) = Len(delivered) + Len(s_held_pdus) + Len(line)
      BY DEF OrderInv
    <2>2. Len(arrived') = Len(arrived) /\ Len(line') = Len(line)
      BY <1>1
    <2>3. Len(delivered') + Len(s_held_pdus') = Len(delivered) + Len(s_held_pdus)
      BY <1>2, <1>3, <1>4, <1>6
    <2> HIDE DEF e
    <2> QED
      BY <2>1, <2>2, <2>3, <1>2, <1>3, <1>4, <1>6
  <1>10. /\ \A i \in 1 .. Len(arrived') : arrived'[i] \in Passed
         /\ line' # <<>> => line'[1] = arrived'[Len(arrived')]
    BY <1>1 DEF OrderInv
  <1> HIDE DEF hpdu, e, a
  <1>11. \A i \in 1 .. Len(delivered') :
            /\ delivered'[i].pdu = arrived'[i]
            /\ delivered'[i].response = Response[PduKind[arrived'[i]]]
    BY <1>1, <1>7
  <1>12. \A i \in 1 .. Len(s_held_pdus') :
            /\ s_held_pdus'[i].pdu = arrived'[Len(delivered') + i]
            /\ s_held_pdus'[i].type = PduKind[arrived'[Len(delivered') + i]]
    BY <1>1, <1>8
  <1> QED
    BY <1>9, <1>10, <1>11, <1>12 DEF OrderInv

LEMMA OrderReadSms ==
    ASSUME SmsTypeOK, OrderInv, NEW p \in Pdus, ReadSms(p)
    PROVE  OrderInv'
  <1>1. /\ arrived' = Append(arrived, p) /\ line' = <<p>> /\ line = <<>>
        /\ delivered' = delivered /\ s_held_pdus' = s_held_pdus /\ p \in Passed
    BY DEF ReadSms, Passed
  <1>2. /\ Len(delivered) \in Nat /\ Len(s_held_pdus) \in Nat /\ Len(arrived) \in Nat
        /\ arrived \in Seq(Pdus)
    BY SmsLengths DEF SmsTypeOK
  <1>3. /\ Len(arrived') = Len(arrived) + 1
        /\ \A i \in 1 .. Len(arrived) : arrived'[i] = arrived[i]
        /\ arrived'[Len(arrived) + 1] = p
    BY <1>1, <1>2
  <1>4. Len(line) = 0 /\ Len(line') = 1 /\ line'[1] = p
    BY <1>1
  <1>5. Len(arrived) = Len(delivered) + Len(s_held_pdus)
    BY <1>4, <1>2 DEF OrderInv
  <1>6. \A i \in 1 .. Len(arrived') : arrived'[i] \in Passed
    <2> SUFFICES ASSUME NEW i \in 1 .. Len(arrived') PROVE arrived'[i] \in Passed
      OBVIOUS
    <2>1. i \in 1 .. Len(arrived) \/ i = Len(arrived) + 1
      BY <1>2, <1>3
    <2> QED
      BY <2>1, <1>1, <1>3 DEF OrderInv
  <1>7. \A i \in 1 .. Len(delivered) : i \in 1 .. Len(arrived)
    BY <1>2, <1>5
  <1>8. \A i \in 1 .. Len(s_held_pdus) : Len(delivered) + i \in 1 .. Len(arrived)
    BY <1>2, <1>5
  <1>9. /\ \A i \in 1 .. Len(delivered') :
             /\ delivered'[i].pdu = arrived'[i]
             /\ delivered'[i].response = Response[PduKind[arrived'[i]]]
        /\ \A i \in 1 .. Len(s_held_pdus') :
             /\ s_held_pdus'[i].pdu = arrived'[Len(delivered') + i]
             /\ s_held_pdus'[i].type = PduKind[arrived'[Len(delivered') + i]]
    BY <1>1, <1>3, <1>7, <1>8 DEF OrderInv
  <1>10. Len(arrived') = Len(delivered') + Len(s_held_pdus') + Len(line')
    BY <1>1, <1>2, <1>3, <1>4, <1>5
  <1>11. line'[1] = arrived'[Len(arrived')]
    BY <1>3, <1>4
  <1> QED
    BY <1>6, <1>9, <1>10, <1>11 DEF OrderInv

LEMMA OrderStep ==
    ASSUME SmsTypeOK, TurnInv, OrderInv, SmsTypeOK', [SmsNext]_smsVars
    PROVE  OrderInv'
  <1>1. ASSUME NEW p \in Pdus, ReadSms(p) PROVE OrderInv'
    BY <1>1, OrderReadSms
  <1>2. CASE OnNewSms
    BY <1>2, OrderOnNewSms
  <1>3. CASE DeliverHeld
    BY <1>3, OrderDeliverHeld
  <1>4. CASE Acknowledge \/ RadioState \/ TakeAck \/ SendCnma \/ ClearOutstanding \/ UNCHANGED smsVars
    <2>1. UNCHANGED <<line, arrived, delivered, s_held_pdus>>
      BY <1>4 DEF Acknowledge, RadioState, TakeAck, SendCnma, ClearOutstanding, smsVars
    <2> QED
      BY <2>1 DEF OrderInv
  <1> QED
    BY <1>1, <1>2, <1>3, <1>4 DEF SmsNext, SmsRunnerStep

-----------------------------------------------------------------------------
(* SmsAck keeps to its types, passes one turn on, and keeps the order of    *)
(* the messages, whatever the messages are and however many arrive.         *)
THEOREM SmsInvariant == SmsSpec => []SmsInv
  <1>1. SmsInv /\ [SmsNext]_smsVars => SmsInv'
    BY SmsTypeStep, AckTurnStep, OrderStep DEF SmsInv
  <1> QED
    BY SmsInitInv, <1>1, PTL DEF SmsSpec

(* The types of SmsAck hold in every state of every instance.               *)
THEOREM SmsTypeCorrect == SmsSpec => []SmsTypeOK
  <1>1. SmsInv => SmsTypeOK
    BY DEF SmsInv
  <1> QED
    BY <1>1, SmsInvariant, PTL

-----------------------------------------------------------------------------
(* The refinement mapping, as operators: a message is what the modem sent   *)
(* and the response the framework should get for it.                        *)
Due(p) == <<p, Response[PduKind[p]]>>

Given(d) == <<d.pdu, d.response>>

DueSeq(q) == [i \in DOMAIN q |-> Due(q[i])]

GivenSeq(q) == [i \in DOMAIN q |-> Given(q[i])]

(* The elements of a sequence with one more.                                *)
LEMMA AppendAt ==
    ASSUME NEW S, NEW q \in Seq(S), NEW e \in S
    PROVE  /\ Append(q, e) \in Seq(S) /\ Len(Append(q, e)) = Len(q) + 1
           /\ \A i \in 1 .. Len(q) + 1 :
                 Append(q, e)[i] = IF i = Len(q) + 1 THEN e ELSE q[i]
  OBVIOUS

(* The mapping goes element by element, so it commutes with Append.         *)
LEMMA DueAppend ==
    ASSUME NEW q \in Seq(Pdus), NEW p \in Pdus
    PROVE  /\ Len(DueSeq(q)) = Len(q)
           /\ \A i \in 1 .. Len(q) : DueSeq(q)[i] = Due(q[i])
           /\ DueSeq(Append(q, p)) = Append(DueSeq(q), Due(p))
  <1> DEFINE D == {Due(x) : x \in Pdus}
             r == Append(q, p)
  <1>1. ASSUME NEW t \in Seq(Pdus)
        PROVE  /\ DueSeq(t) \in Seq(D) /\ Len(DueSeq(t)) = Len(t)
               /\ \A i \in 1 .. Len(t) : DueSeq(t)[i] = Due(t[i])
    <2>1. DOMAIN t = 1 .. Len(t) /\ Len(t) \in Nat /\ \A i \in 1 .. Len(t) : t[i] \in Pdus
      BY <1>1
    <2> QED
      BY <2>1 DEF DueSeq
  <1>2. r \in Seq(Pdus) /\ Len(r) = Len(q) + 1 /\ Due(p) \in D
    BY AppendProperties
  <1>3. DueSeq(r) \in Seq(D) /\ DueSeq(q) \in Seq(D)
    BY <1>1, <1>2
  <1>4. /\ Append(DueSeq(q), Due(p)) \in Seq(D)
        /\ Len(Append(DueSeq(q), Due(p))) = Len(q) + 1
        /\ \A i \in 1 .. Len(q) + 1 :
              Append(DueSeq(q), Due(p))[i] =
                 IF i = Len(q) + 1 THEN Due(p) ELSE DueSeq(q)[i]
    <2> DEFINE h == DueSeq(q)  e == Due(p)
    <2>1. h \in Seq(D) /\ e \in D /\ Len(h) = Len(q)
      BY <1>1, <1>2
    <2> HIDE DEF h, e, D
    <2>2. /\ Append(h, e) \in Seq(D) /\ Len(Append(h, e)) = Len(q) + 1
          /\ \A i \in 1 .. Len(q) + 1 : Append(h, e)[i] = IF i = Len(q) + 1 THEN e ELSE h[i]
      BY <2>1, AppendAt
    <2> QED
      BY <2>2 DEF h, e
  <1>5. ASSUME NEW i \in 1 .. Len(r)
        PROVE  DueSeq(r)[i] = Append(DueSeq(q), Due(p))[i]
    <2>1. DueSeq(r)[i] = Due(r[i])
      BY <1>1, <1>2
    <2>2. r[i] = IF i = Len(q) + 1 THEN p ELSE q[i]
      BY <1>2, AppendAt
    <2>3. i \in 1 .. Len(q) \/ i = Len(q) + 1
      BY <1>2
    <2> HIDE DEF r
    <2> QED
      BY <2>1, <2>2, <2>3, <1>1, <1>2, <1>4
  <1> QED
    BY <1>1, <1>2, <1>3, <1>4, <1>5, SeqEqual

LEMMA GivenAppend ==
    ASSUME NEW q \in Seq(DeliveredTypes), NEW d \in DeliveredTypes
    PROVE  /\ Len(GivenSeq(q)) = Len(q)
           /\ GivenSeq(Append(q, d)) = Append(GivenSeq(q), Given(d))
  <1> DEFINE G == {Given(x) : x \in DeliveredTypes}
             r == Append(q, d)
  <1>1. ASSUME NEW t \in Seq(DeliveredTypes)
        PROVE  /\ GivenSeq(t) \in Seq(G) /\ Len(GivenSeq(t)) = Len(t)
               /\ \A i \in 1 .. Len(t) : GivenSeq(t)[i] = Given(t[i])
    <2>1. /\ DOMAIN t = 1 .. Len(t) /\ Len(t) \in Nat
          /\ \A i \in 1 .. Len(t) : t[i] \in DeliveredTypes
      BY <1>1
    <2> QED
      BY <2>1 DEF GivenSeq
  <1>2. r \in Seq(DeliveredTypes) /\ Len(r) = Len(q) + 1 /\ Given(d) \in G
    BY AppendProperties
  <1>3. GivenSeq(r) \in Seq(G) /\ GivenSeq(q) \in Seq(G)
    BY <1>1, <1>2
  <1>4. /\ Append(GivenSeq(q), Given(d)) \in Seq(G)
        /\ Len(Append(GivenSeq(q), Given(d))) = Len(q) + 1
        /\ \A i \in 1 .. Len(q) + 1 :
              Append(GivenSeq(q), Given(d))[i] =
                 IF i = Len(q) + 1 THEN Given(d) ELSE GivenSeq(q)[i]
    <2> DEFINE h == GivenSeq(q)  e == Given(d)
    <2>1. h \in Seq(G) /\ e \in G /\ Len(h) = Len(q)
      BY <1>1, <1>2
    <2> HIDE DEF h, e, G
    <2>2. /\ Append(h, e) \in Seq(G) /\ Len(Append(h, e)) = Len(q) + 1
          /\ \A i \in 1 .. Len(q) + 1 : Append(h, e)[i] = IF i = Len(q) + 1 THEN e ELSE h[i]
      BY <2>1, AppendAt
    <2> QED
      BY <2>2 DEF h, e
  <1>5. ASSUME NEW i \in 1 .. Len(r)
        PROVE  GivenSeq(r)[i] = Append(GivenSeq(q), Given(d))[i]
    <2>1. GivenSeq(r)[i] = Given(r[i])
      BY <1>1, <1>2
    <2>2. r[i] = IF i = Len(q) + 1 THEN d ELSE q[i]
      BY <1>2, AppendAt
    <2>3. i \in 1 .. Len(q) \/ i = Len(q) + 1
      BY <1>2
    <2> HIDE DEF r
    <2> QED
      BY <2>1, <2>2, <2>3, <1>1, <1>2, <1>4
  <1> QED
    BY <1>1, <1>2, <1>3, <1>4, <1>5, SeqEqual

-----------------------------------------------------------------------------
(* What a delivery adds is the message SmsDelivery hands over next.         *)
LEMMA DeliveryRefined ==
    ASSUME SmsInv, NEW e \in DeliveredTypes, delivered' = Append(delivered, e),
           UNCHANGED <<arrived, acknowledged>>,
           acknowledged = Len(delivered), Len(delivered) < Len(arrived),
           Given(e) = Due(arrived[Len(delivered) + 1])
    PROVE  Delivery!Deliver
  <1>1. arrived \in Seq(Pdus) /\ delivered \in Seq(DeliveredTypes)
    BY DEF SmsInv, SmsTypeOK
  <1>2. /\ Len(GivenSeq(delivered)) = Len(delivered)
        /\ GivenSeq(delivered') = Append(GivenSeq(delivered), Given(e))
    BY <1>1, GivenAppend
  <1>3. /\ Len(DueSeq(arrived)) = Len(arrived)
        /\ DueSeq(arrived)[Len(delivered) + 1] = Due(arrived[Len(delivered) + 1])
    <2>1. Len(arrived) \in Nat /\ Len(delivered) \in Nat
      BY <1>1
    <2>2. Len(delivered) + 1 \in 1 .. Len(arrived)
      BY <2>1
    <2>3. arrived[Len(delivered) + 1] \in Pdus
      BY <2>2, <1>1, ElementOfSeq
    <2> QED
      BY <2>2, <2>3, <1>1, DueAppend
  <1>4. /\ Len(GivenSeq(delivered)) < Len(DueSeq(arrived))
        /\ acknowledged = Len(GivenSeq(delivered))
        /\ GivenSeq(delivered') =
              Append(GivenSeq(delivered), DueSeq(arrived)[Len(GivenSeq(delivered)) + 1])
        /\ DueSeq(arrived') = DueSeq(arrived) /\ acknowledged' = acknowledged
    BY <1>2, <1>3
  <1> QED
    BY <1>4 DEF Delivery!Deliver, DueSeq, GivenSeq, Due, Given

LEMMA OnNewSmsRefined ==
    ASSUME SmsInv, SmsTypeOK', OnNewSms
    PROVE  [Delivery!Next]_<<DueSeq(arrived), GivenSeq(delivered), acknowledged>>
  <1> DEFINE p == Head(line)
             e == Unsolicited(p, Response[PduKind[p]], "whole")
  <1>1. SmsTypeOK /\ TurnInv /\ OrderInv
    BY DEF SmsInv
  <1>2. CASE s_outstanding_acknowledge
    BY <1>2 DEF OnNewSms
  <1>3. CASE ~s_outstanding_acknowledge
    <2>1. delivered' = Append(delivered, e) /\ UNCHANGED <<arrived, acknowledged>> /\ line # <<>>
      BY <1>3 DEF OnNewSms
    <2>2. s_held_pdus = <<>> /\ Len(s_held_pdus) = 0 /\ UnderWay = 0
      BY <1>1, <1>3, EmptySeq DEF TurnInv
    <2>3. /\ p = arrived[Len(arrived)] /\ Len(arrived) = Len(delivered) + 1
          /\ Len(delivered) \in Nat
      BY <1>1, <2>1, <2>2, InHand, SmsLengths
    <2>4. acknowledged = Len(delivered)
      BY <1>1, <2>2, SmsLengths DEF TurnInv, UnderWay
    <2>5. p \in Passed
      BY <2>3, <1>1 DEF OrderInv
    <2>6. e \in DeliveredTypes
      BY <2>5, UnsolicitedType, SmsAssumption DEF Passed, Kinds, Response
    <2>7. Given(e) = Due(p)
      BY DEF Given, Due, Unsolicited
    <2> HIDE DEF e, p
    <2>8. Given(e) = Due(arrived[Len(delivered) + 1]) /\ Len(delivered) < Len(arrived)
      BY <2>3, <2>7
    <2>9. Delivery!Deliver
      BY <2>1, <2>4, <2>6, <2>8, DeliveryRefined
    <2> QED
      BY <2>9 DEF Delivery!Next
  <1> QED
    BY <1>2, <1>3

LEMMA DeliverHeldRefined ==
    ASSUME SmsInv, DeliverHeld
    PROVE  Delivery!Deliver
  <1> DEFINE hpdu == Head(s_held_pdus)
             e == Unsolicited(hpdu.pdu, Response[hpdu.type], hpdu.length)
             a == arrived[Len(delivered) + 1]
  <1>1. SmsTypeOK /\ TurnInv /\ OrderInv
    BY DEF SmsInv
  <1>2. /\ delivered' = Append(delivered, e) /\ s_held_pdus # <<>> /\ runner = "dequeue"
        /\ UNCHANGED <<arrived, acknowledged>>
    BY DEF DeliverHeld
  <1>3. /\ s_held_pdus \in Seq(HeldTypes) /\ Len(s_held_pdus) \in Nat \ {0}
        /\ hpdu = s_held_pdus[1] /\ hpdu \in HeldTypes
    BY <1>1, <1>2, EmptySeq DEF SmsTypeOK
  <1>4. hpdu.pdu = a /\ hpdu.type = PduKind[a]
    <2>1. 1 \in 1 .. Len(s_held_pdus)
      BY <1>3
    <2> QED
      BY <2>1, <1>1, <1>3 DEF OrderInv
  <1>5. Len(delivered) < Len(arrived)
    BY <1>1, <1>3, SmsLengths DEF OrderInv
  <1>6. acknowledged = Len(delivered)
    BY <1>1, <1>2, SmsLengths DEF TurnInv, UnderWay
  <1>7. e \in DeliveredTypes
    <2>1. hpdu.pdu \in Pdus /\ hpdu.type \in DOMAIN Response /\ hpdu.length \in {"whole", "cut"}
      BY <1>3 DEF HeldTypes, Response
    <2> QED
      BY <2>1, UnsolicitedType
  <1>8. Given(e) = Due(a)
    BY <1>4 DEF Given, Due, Unsolicited
  <1> HIDE DEF e
  <1> QED
    BY <1>2, <1>5, <1>6, <1>7, <1>8, DeliveryRefined

(* A step of the reader, the framework or the runner is a step of           *)
(* SmsDelivery, or none.                                                    *)
LEMMA RefinedStep ==
    ASSUME SmsInv, SmsInv', [SmsNext]_smsVars
    PROVE  [Delivery!Next]_<<DueSeq(arrived), GivenSeq(delivered), acknowledged>>
  <1>1. ASSUME NEW p \in Pdus, ReadSms(p) PROVE Delivery!Next
    <2>1. p \in Passed /\ arrived \in Seq(Pdus) /\ UNCHANGED <<delivered, acknowledged>>
      BY <1>1 DEF ReadSms, Passed, SmsInv, SmsTypeOK
    <2>2. DueSeq(arrived') = Append(DueSeq(arrived), Due(p))
      BY <1>1, <2>1, DueAppend DEF ReadSms
    <2>3. Delivery!Arrive(Due(p))
      BY <2>1, <2>2 DEF Delivery!Arrive, DueSeq, Due
    <2>4. Due(p) \in {<<q, Response[PduKind[q]]>> : q \in {x \in Pdus : PduKind[x] # "CB_SHORT"}}
      BY <2>1 DEF Due, Passed
    <2> QED
      BY <2>3, <2>4 DEF Delivery!Next
  <1>2. CASE OnNewSms
    BY <1>2, OnNewSmsRefined DEF SmsInv
  <1>3. CASE DeliverHeld
    BY <1>3, DeliverHeldRefined DEF Delivery!Next
  <1>4. CASE Acknowledge
    <2>1. acknowledged < Len(delivered) /\ acknowledged' = acknowledged + 1
      BY <1>4 DEF Acknowledge
    <2>2. Len(GivenSeq(delivered)) = Len(delivered)
      <3>1. delivered \in Seq(DeliveredTypes)
        BY DEF SmsInv, SmsTypeOK
      <3>2. \E d : d \in DeliveredTypes
        BY <2>1, <3>1, SmsLengths, ElementOfSeq DEF SmsInv
      <3> QED
        BY <3>1, <3>2, GivenAppend
    <2>3. Delivery!Acknowledge
      BY <1>4, <2>1, <2>2 DEF Acknowledge, Delivery!Acknowledge, DueSeq, GivenSeq, Due, Given
    <2> QED
      BY <2>3 DEF Delivery!Next
  <1>5. CASE RadioState \/ TakeAck \/ SendCnma \/ ClearOutstanding \/ UNCHANGED smsVars
    BY <1>5 DEF RadioState, TakeAck, SendCnma, ClearOutstanding, smsVars
  <1> QED
    BY <1>1, <1>2, <1>3, <1>4, <1>5 DEF SmsNext, SmsRunnerStep

(* The reader and the runner implement SmsDelivery: for any messages, the   *)
(* framework gets them in the order of the modem, each once, each only      *)
(* after it has acknowledged the one before.                                *)
THEOREM SmsImplementsDelivery == SmsSpec => DeliveryPromise
  <1>1. SmsInit => Delivery!Init
    <2>1. SmsInit => DOMAIN arrived = {} /\ DOMAIN delivered = {} /\ acknowledged = 0
      BY DEF SmsInit
    <2> QED
      BY <2>1 DEF SmsInit, Delivery!Init
  <1>2. SmsInv /\ SmsInv' /\ [SmsNext]_smsVars =>
           [Delivery!Next]_<<DueSeq(arrived), GivenSeq(delivered), acknowledged>>
    BY RefinedStep
  <1> QED
    BY <1>1, <1>2, SmsInvariant, PTL
       DEF SmsSpec, DeliveryPromise, Delivery!Spec, DueSeq, GivenSeq, Due, Given


-----------------------------------------------------------------------------
(* For any number of calls: the types of Calls, and that the audio tunnel   *)
(* runs only for calls the framework was told of.                           *)

(* What the commands of Command make of the calls are calls again.          *)
LEMMA OutcomesType ==
    ASSUME calls \in [CallIds -> States], voice \subseteq CallIds
    PROVE  Outcomes \subseteq [CallIds -> States]
  <1>1. "dialing" \in States /\ "none" \in States /\ "active" \in States /\ "holding" \in States
    BY DEF States, Setup
  <1>2. Dialled \cup HungUp \subseteq [CallIds -> States]
    BY <1>1 DEF Dialled, HungUp, Present
  <1>3. ASSUME NEW from, NEW to \in States
        PROVE  Replace(from, to) \in [CallIds -> States]
    BY DEF Replace
  <1>4. HungUpWaitingOrBackground \cup TakenUp \cup Joined \cup Busy \subseteq [CallIds -> States]
    BY <1>1, <1>3 DEF HungUpWaitingOrBackground, TakenUp, Joined, Busy
  <1>5. HungUpForegroundResumedBackground \cup Switched \subseteq [CallIds -> States]
    BY <1>1 DEF HungUpForegroundResumedBackground, Switched
  <1>6. Separated \subseteq [CallIds -> States]
    BY <1>1, <1>3 DEF Separated
  <1> QED
    BY <1>2, <1>4, <1>5, <1>6 DEF Outcomes

LEMMA CallInitType == CallInit => CallTypeOK
  BY DEF CallInit, CallTypeOK, States

LEMMA StageType ==
    ASSUME NEW s
    PROVE  Stage(s) \in {"none", "setup", "settled"} /\ (s # "none" => Stage(s) # "none")
  BY DEF Stage, Setup

LEMMA CallTypeStep ==
    ASSUME CallTypeOK, [CallNext]_callVars
    PROVE  CallTypeOK'
  <1> USE DEF CallTypeOK
  <1>1. CASE Rings
    BY <1>1 DEF Rings, Change, States, Setup
  <1>2. CASE Progresses
    BY <1>2 DEF Progresses, Change, States, Setup
  <1>3. CASE Ends
    BY <1>3 DEF Ends, Present, States
  <1>4. CASE SimChanges
    BY <1>4 DEF SimChanges
  <1>5. CASE Command
    BY <1>5, OutcomesType DEF Command
  <1>6. CASE FrameworkAsks
    BY <1>6 DEF FrameworkAsks
  <1>7. CASE GetCurrentCalls
    <2>1. view' \in [CallIds -> {"none", "setup", "settled"}]
      BY <1>7, StageType DEF GetCurrentCalls
    <2>2. tunnel' \in BOOLEAN
      BY <1>7 DEF GetCurrentCalls, StartAudioTunnel, StopAudioTunnel
    <2>3. repoll' \in BOOLEAN
      BY <1>7 DEF GetCurrentCalls, NeedRepoll
    <2> QED
      BY <1>7, <2>1, <2>2, <2>3 DEF GetCurrentCalls
  <1>8. CASE GetCurrentCallsFails
    BY <1>8 DEF GetCurrentCallsFails
  <1>9. CASE SendCallStateChanged
    BY <1>9 DEF SendCallStateChanged
  <1>10. CASE UNCHANGED callVars
    BY <1>10 DEF callVars
  <1> QED
    BY <1>1, <1>2, <1>3, <1>4, <1>5, <1>6, <1>7, <1>8, <1>9, <1>10 DEF CallNext

(* The tunnel and the framework's view change together, in                  *)
(* requestGetCurrentCalls(); what else changes one of them is an error.     *)
LEMMA TunnelStep ==
    ASSUME CallTypeOK, TunnelForCalls, [CallNext]_callVars
    PROVE  TunnelForCalls'
  <1>1. CASE GetCurrentCalls
    <2>1. CASE simReady /\ Valid # {}
      <3>1. PICK c \in CallIds : c \in voice /\ calls[c] # "none"
        BY <2>1 DEF Valid, Present
      <3>2. view'[c] = Stage(calls[c])
        BY <1>1, <2>1, <3>1 DEF GetCurrentCalls
      <3>3. view'[c] # "none"
        BY <3>1, <3>2, StageType
      <3> QED
        BY <3>3 DEF TunnelForCalls
    <2>2. CASE simReady /\ Valid = {}
      BY <1>1, <2>2 DEF GetCurrentCalls, StopAudioTunnel, TunnelForCalls
    <2>3. CASE ~simReady
      BY <1>1, <2>3 DEF GetCurrentCalls, TunnelForCalls
    <2> QED
      BY <2>1, <2>2, <2>3
  <1>2. CASE GetCurrentCallsFails
    BY <1>2 DEF GetCurrentCallsFails, TunnelForCalls
  <1>3. CASE UNCHANGED <<view, failed, tunnel>>
    BY <1>3 DEF TunnelForCalls
  <1> QED
    BY <1>1, <1>2, <1>3 DEF CallNext, Rings, Progresses, Ends, SimChanges, Command,
       FrameworkAsks, SendCallStateChanged, callVars

(* The types of Calls hold in every state, for every set of calls.          *)
THEOREM CallTypeCorrect == CallSpec => []CallTypeOK
  BY CallInitType, CallTypeStep, PTL DEF CallSpec

(* For every set of calls: unless GET_CURRENT_CALLS was answered with an    *)
(* error since, startAudioTunnel()'s tunnel is up only while the framework  *)
(* knows of a call.                                                         *)
THEOREM TunnelOnlyForCalls == CallSpec => []TunnelForCalls
  <1>1. CallInit => TunnelForCalls
    BY DEF CallInit, TunnelForCalls
  <1> QED
    BY <1>1, CallTypeCorrect, TunnelStep, PTL DEF CallSpec

-----------------------------------------------------------------------------
(* A data call is never answered with the address of an earlier connection, *)
(* for every number of turns of the loops and of connections.               *)
(*                                                                          *)
(* What has to be found out is what the property net.ppp0.local-ip can be   *)
(* when pppd starts: no more than the scripts that are still to run and the *)
(* connection they belong to decides it, and ScriptInv is the table.        *)

SetGw(n) == <<[name |-> "gw", value |-> n]>>

ScriptInv ==
    \/ /\ pppd = "none"
       /\ \/ script = <<>> /\ local_ip = 0
          \/ script = IpUp(conn) \o IpDown /\ local_ip = 0
          \/ script = SetGw(conn) \o IpDown /\ local_ip = conn
          \/ script = IpDown /\ local_ip = conn
          \/ script = SetGw(0) /\ local_ip = 0
    \/ pppd = "starting" /\ script = <<>> /\ local_ip = 0
    \/ /\ pppd = "up"
       /\ \/ script = IpUp(conn) /\ local_ip = 0
          \/ script = SetGw(conn) /\ local_ip = conn
          \/ script = <<>> /\ local_ip = conn

RequestInv ==
    /\ setup \in {"dial", "pppd"} => pppd = "none"
    /\ setup # "idle" => answer = NoAnswer

DataInv == ScriptInv /\ RequestInv /\ FreshAddress

-----------------------------------------------------------------------------
(* A concatenation is known by its length and its elements.                 *)
LEMMA ConcatIs ==
    ASSUME NEW S, NEW s \in Seq(S), NEW t \in Seq(S), NEW r \in Seq(S),
           Len(r) = Len(s) + Len(t),
           \A i \in 1 .. Len(s) : r[i] = s[i],
           \A i \in 1 .. Len(t) : r[Len(s) + i] = t[i]
    PROVE  s \o t = r
  <1>1. s \o t \in Seq(S) /\ Len(s \o t) = Len(r)
    BY ConcatProperties
  <1>2. ASSUME NEW i \in 1 .. Len(r) PROVE (s \o t)[i] = r[i]
    <2>1. Len(s) \in Nat /\ Len(t) \in Nat
      OBVIOUS
    <2>2. CASE i <= Len(s)
      BY <2>1, <2>2
    <2>3. CASE i > Len(s)
      <3>1. i - Len(s) \in 1 .. Len(t) /\ i = Len(s) + (i - Len(s))
        BY <2>1, <2>3
      <3>2. (s \o t)[i] = t[i - Len(s)]
        BY <2>1, <2>3
      <3> QED
        BY <3>1, <3>2
    <2> QED
      BY <2>1, <2>2, <2>3
  <1> QED
    BY <1>1, <1>2, SeqEqual

(* Sequences of up to four elements.                                        *)
LEMMA PairConcat ==
    ASSUME NEW w, NEW x, NEW y, NEW z
    PROVE  <<w, x>> \o <<y, z>> = <<w, x, y, z>>
  <1> DEFINE T == {w, x, y, z}
  <1> DEFINE s == <<w, x>>  t == <<y, z>>  r == <<w, x, y, z>>
  <1>1. /\ Len(s) = 2 /\ Len(t) = 2 /\ Len(r) = 4
        /\ r[1] = s[1] /\ r[2] = s[2] /\ r[3] = t[1] /\ r[4] = t[2]
    OBVIOUS
  <1>2. s \in Seq(T) /\ t \in Seq(T) /\ r \in Seq(T)
    OBVIOUS
  <1> HIDE DEF s, t, r, T
  <1>3. \A i \in 1 .. Len(s) : r[i] = s[i]
    BY <1>1
  <1>4. \A i \in 1 .. Len(t) : r[Len(s) + i] = t[i]
    BY <1>1
  <1>5. Len(r) = Len(s) + Len(t)
    BY <1>1
  <1>6. s \o t = r
    BY <1>2, <1>3, <1>4, <1>5, ConcatIs
  <1> QED
    BY <1>6 DEF s, t, r

LEMMA OneConcat ==
    ASSUME NEW w, NEW y, NEW z
    PROVE  <<w>> \o <<y, z>> = <<w, y, z>>
  <1> DEFINE T == {w, y, z}
  <1> DEFINE s == <<w>>  t == <<y, z>>  r == <<w, y, z>>
  <1>1. /\ Len(s) = 1 /\ Len(t) = 2 /\ Len(r) = 3
        /\ r[1] = s[1] /\ r[2] = t[1] /\ r[3] = t[2]
    OBVIOUS
  <1>2. s \in Seq(T) /\ t \in Seq(T) /\ r \in Seq(T)
    OBVIOUS
  <1> HIDE DEF s, t, r, T
  <1>3. \A i \in 1 .. Len(s) : r[i] = s[i]
    BY <1>1
  <1>4. \A i \in 1 .. Len(t) : r[Len(s) + i] = t[i]
    BY <1>1
  <1>5. Len(r) = Len(s) + Len(t)
    BY <1>1
  <1>6. s \o t = r
    BY <1>2, <1>3, <1>4, <1>5, ConcatIs
  <1> QED
    BY <1>6 DEF s, t, r

LEMMA NoneConcat ==
    ASSUME NEW y, NEW z
    PROVE  <<>> \o <<y, z>> = <<y, z>>
  <1>1. <<y, z>> \in Seq({y, z})
    OBVIOUS
  <1> QED
    BY <1>1, ConcatEmptySeq

LEMMA ShortTails ==
    ASSUME NEW w, NEW x, NEW y, NEW z
    PROVE  /\ Head(<<w, x, y, z>>) = w /\ Tail(<<w, x, y, z>>) = <<x, y, z>>
           /\ Head(<<w, x, y>>) = w /\ Tail(<<w, x, y>>) = <<x, y>>
           /\ Head(<<w, x>>) = w /\ Tail(<<w, x>>) = <<x>>
           /\ Head(<<w>>) = w /\ Tail(<<w>>) = <<>>
  <1> DEFINE T == {w, x, y, z}
  <1>1. Head(<<w, x, y, z>>) = w /\ Head(<<w, x, y>>) = w /\ Head(<<w, x>>) = w /\ Head(<<w>>) = w
    OBVIOUS
  <1>2. /\ <<w, x, y, z>> \in Seq(T) /\ <<w, x, y>> \in Seq(T) /\ <<w, x>> \in Seq(T)
        /\ <<w>> \in Seq(T) /\ <<x, y, z>> \in Seq(T) /\ <<x, y>> \in Seq(T) /\ <<x>> \in Seq(T)
        /\ <<>> \in Seq(T)
    OBVIOUS
  <1>3. Tail(<<w, x, y, z>>) = <<x, y, z>>
    BY <1>2, HeadTailProperties, SeqEqual
  <1>4. Tail(<<w, x, y>>) = <<x, y>>
    BY <1>2, HeadTailProperties, SeqEqual
  <1>5. Tail(<<w, x>>) = <<x>>
    BY <1>2, HeadTailProperties, SeqEqual
  <1>6. Tail(<<w>>) = <<>>
    BY <1>2, HeadTailProperties, SeqEqual
  <1> QED
    BY <1>1, <1>3, <1>4, <1>5, <1>6

(* What a script does next, and what is left of it.                         *)
LEMMA ScriptTails ==
    ASSUME NEW n
    PROVE  /\ Head(IpUp(n)) = [name |-> "local_ip", value |-> n] /\ Tail(IpUp(n)) = SetGw(n)
           /\ Head(IpDown) = [name |-> "local_ip", value |-> 0] /\ Tail(IpDown) = SetGw(0)
           /\ Head(SetGw(n)) = [name |-> "gw", value |-> n] /\ Tail(SetGw(n)) = <<>>
           /\ Head(IpUp(n) \o IpDown) = [name |-> "local_ip", value |-> n]
           /\ Tail(IpUp(n) \o IpDown) = SetGw(n) \o IpDown
           /\ Head(SetGw(n) \o IpDown) = [name |-> "gw", value |-> n]
           /\ Tail(SetGw(n) \o IpDown) = IpDown
           /\ <<>> \o IpDown = IpDown
  <1> DEFINE a == [name |-> "local_ip", value |-> n]
             b == [name |-> "gw", value |-> n]
             c == [name |-> "local_ip", value |-> 0]
             d == [name |-> "gw", value |-> 0]
  <1>1. /\ IpUp(n) = <<a, b>> /\ IpDown = <<c, d>> /\ SetGw(n) = <<b>> /\ SetGw(0) = <<d>>
    BY DEF IpUp, IpDown, SetGw
  <1> HIDE DEF a, b, c, d
  <1>2. IpUp(n) \o IpDown = <<a, b, c, d>> /\ SetGw(n) \o IpDown = <<b, c, d>>
    <2>1. <<a, b>> \o <<c, d>> = <<a, b, c, d>>
      BY PairConcat
    <2>2. <<b>> \o <<c, d>> = <<b, c, d>>
      BY OneConcat
    <2> QED
      BY <1>1, <2>1, <2>2
  <1>3. <<>> \o IpDown = IpDown
    BY <1>1, NoneConcat
  <1>4. Head(<<a, b, c, d>>) = a /\ Tail(<<a, b, c, d>>) = <<b, c, d>>
    BY ShortTails
  <1>5. Head(<<b, c, d>>) = b /\ Tail(<<b, c, d>>) = <<c, d>>
    BY ShortTails
  <1>6. Head(<<a, b>>) = a /\ Tail(<<a, b>>) = <<b>> /\ Head(<<c, d>>) = c /\ Tail(<<c, d>>) = <<d>>
    BY ShortTails
  <1>7. Head(<<b>>) = b /\ Tail(<<b>>) = <<>> /\ Head(<<d>>) = d /\ Tail(<<d>>) = <<>>
    BY ShortTails
  <1> QED
    BY <1>1, <1>2, <1>3, <1>4, <1>5, <1>6, <1>7, Zenon DEF a, b, c, d

LEMMA ScriptStep ==
    ASSUME ScriptInv, RequestInv, [DataNext]_dataVars
    PROVE  ScriptInv'
  <1>1. CASE PppUp
    BY <1>1 DEF PppUp, ScriptInv, properties
  <1>2. CASE PppEnds
    <2>1. CASE pppd = "up"
      <3>1. pppd' = "none" /\ script' = script \o IpDown /\ UNCHANGED <<conn, local_ip>>
        BY <1>2, <2>1 DEF PppEnds, properties
      <3> QED
        BY <2>1, <3>1, ScriptTails DEF ScriptInv
    <2>2. CASE pppd # "up"
      BY <1>2, <2>2 DEF PppEnds, ScriptInv, properties
    <2> QED
      BY <2>1, <2>2
  <1>3. CASE ScriptSets
    <2>1. /\ script # <<>> /\ script' = Tail(script) /\ UNCHANGED <<pppd, conn>>
          /\ local_ip' = IF Head(script).name = "local_ip" THEN Head(script).value ELSE local_ip
      BY <1>3 DEF ScriptSets
    <2>2. CASE pppd = "none"
      <3>1. CASE script = IpUp(conn) \o IpDown /\ local_ip = 0
        <4>1. /\ Head(script) = [name |-> "local_ip", value |-> conn]
              /\ Tail(script) = SetGw(conn) \o IpDown
          BY <3>1, ScriptTails
        <4>2. script' = SetGw(conn) \o IpDown /\ local_ip' = conn /\ UNCHANGED <<pppd, conn>>
          BY <2>1, <4>1
        <4> QED
          BY <2>2, <4>2, Zenon DEF ScriptInv
      <3>2. CASE script = SetGw(conn) \o IpDown /\ local_ip = conn
        <4>1. Head(script).name = "gw" /\ Tail(script) = IpDown
          BY <3>2, ScriptTails
        <4>2. script' = IpDown /\ local_ip' = conn /\ UNCHANGED <<pppd, conn>>
          BY <2>1, <3>2, <4>1
        <4> QED
          BY <2>2, <4>2, Zenon DEF ScriptInv
      <3>3. CASE script = IpDown /\ local_ip = conn
        BY <2>1, <2>2, <3>3, ScriptTails DEF ScriptInv
      <3>4. CASE script = SetGw(0) /\ local_ip = 0
        BY <2>1, <2>2, <3>4, ScriptTails DEF ScriptInv
      <3> QED
        BY <2>1, <2>2, <3>1, <3>2, <3>3, <3>4 DEF ScriptInv
    <2>3. CASE pppd = "up"
      BY <2>1, <2>3, ScriptTails DEF ScriptInv
    <2> QED
      BY <2>1, <2>2, <2>3 DEF ScriptInv
  <1>4. CASE StartPppd
    <2>1. pppd = "none" /\ script = <<>> /\ local_ip = 0
      BY <1>4 DEF StartPppd, ScriptInv, RequestInv, IpUp, IpDown, SetGw
    <2>2. script' = script /\ local_ip' = local_ip /\ (pppd' = "starting" \/ pppd' = pppd)
      BY <1>4 DEF StartPppd, properties
    <2> QED
      BY <2>1, <2>2 DEF ScriptInv
  <1>5. CASE UNCHANGED <<pppd, conn, script, local_ip>>
    BY <1>5 DEF ScriptInv
  <1> QED
    BY <1>1, <1>2, <1>3, <1>4, <1>5 DEF DataNext, Request, KillTurn, Killed, Dial, WaitTurn, Read,
       dataVars, pppVars, properties

(* The address that is there is that of the last connection.                *)
LEMMA AddressOfConn == ASSUME ScriptInv PROVE local_ip \in {0, conn}
  BY DEF ScriptInv

LEMMA RequestStep ==
    ASSUME DataInv, [DataNext]_dataVars
    PROVE  RequestInv' /\ FreshAddress'
  <1> USE DEF DataInv, RequestInv, FreshAddress
  <1>1. CASE PppUp
    BY <1>1 DEF PppUp, properties, NoAnswer
  <1>2. CASE PppEnds
    BY <1>2 DEF PppEnds, properties, NoAnswer
  <1>3. CASE ScriptSets
    BY <1>3 DEF ScriptSets, NoAnswer
  <1>4. ASSUME NEW name \in Killing, Request(name) PROVE RequestInv' /\ FreshAddress'
    BY <1>4 DEF Request, Killing, pppVars, NoAnswer
  <1>5. CASE KillTurn
    BY <1>5 DEF KillTurn, Killing, Failed, Answer, NoAnswer
  <1>6. CASE Killed
    BY <1>6 DEF Killed, Killing, Failed, Answer, NoAnswer, pppVars
  <1>7. CASE Dial
    BY <1>7 DEF Dial, Failed, Answer, NoAnswer, pppVars
  <1>8. CASE StartPppd
    BY <1>8 DEF StartPppd, NoAnswer
  <1>9. CASE WaitTurn
    BY <1>9 DEF WaitTurn, Failed, Answer, NoAnswer, pppVars
  <1>10. CASE Read
    BY <1>10, AddressOfConn DEF Read, Answer, NoAnswer, pppVars
  <1>11. CASE UNCHANGED dataVars
    BY <1>11 DEF dataVars, pppVars
  <1> QED
    BY <1>1, <1>2, <1>3, <1>4, <1>5, <1>6, <1>7, <1>8, <1>9, <1>10, <1>11 DEF DataNext

(* requestSetupDefaultPDP() and the scripts of pppd share no lock. Still,   *)
(* for every number of turns the loops wait, the address in an answer is    *)
(* empty or that of the connection just made, and a deactivation that is    *)
(* answered with success has left no pppd.                                  *)
THEOREM AddressIsFresh == DataSpec => []FreshAddress
  <1>1. DataInit => DataInv
    BY DEF DataInit, DataInv, ScriptInv, RequestInv, FreshAddress, NoAnswer
  <1>2. DataInv /\ [DataNext]_dataVars => DataInv'
    BY ScriptStep, RequestStep DEF DataInv
  <1>3. DataInv => FreshAddress
    BY DEF DataInv
  <1> QED
    BY <1>1, <1>2, <1>3, PTL DEF DataSpec

(* A connection number is one that was given out, so is what a script sets, *)
(* and no loop waits longer than its turns.                                 *)
DataTyped == DataTypeOK /\ DataInv

LEMMA NoTurns == 0 \in 0 .. KillTurns + WaitTurns + 1 /\ 0 \in 0 .. MaxConns
  BY DataAssumption

LEMMA WhatScriptSets ==
    ASSUME ScriptInv, script # <<>>
    PROVE  Head(script).value \in {0, conn}
  <1>1. CASE script = IpUp(conn) \o IpDown
    BY <1>1, ScriptTails
  <1>2. CASE script = SetGw(conn) \o IpDown
    BY <1>2, ScriptTails
  <1>3. CASE script = IpDown
    BY <1>3, ScriptTails
  <1>4. CASE script = SetGw(0)
    BY <1>4, ScriptTails
  <1>5. CASE script = IpUp(conn)
    BY <1>5, ScriptTails
  <1>6. CASE script = SetGw(conn)
    BY <1>6, ScriptTails
  <1> QED
    BY <1>1, <1>2, <1>3, <1>4, <1>5, <1>6 DEF ScriptInv

LEMMA DataTypeStep ==
    ASSUME DataTypeOK, ScriptInv, [DataNext]_dataVars
    PROVE  DataTypeOK'
  <1> USE DataAssumption DEF DataTypeOK, Killing
  <1>1. CASE PppUp
    BY <1>1 DEF PppUp, properties
  <1>2. CASE PppEnds
    BY <1>2 DEF PppEnds, properties
  <1>3. CASE ScriptSets
    <2>1. local_ip' \in {local_ip, 0, conn} /\ gw' \in {gw, 0, conn}
      BY <1>3, WhatScriptSets DEF ScriptSets
    <2> QED
      BY <1>3, <2>1 DEF ScriptSets
  <1>4. ASSUME NEW name \in Killing, Request(name) PROVE DataTypeOK'
    BY <1>4 DEF Request, pppVars, properties, NoAnswer
  <1>5. CASE KillTurn
    BY <1>5 DEF KillTurn, Failed, Answer, properties
  <1>6. CASE Killed
    BY <1>6 DEF Killed, Failed, Answer, pppVars, properties
  <1>7. CASE Dial
    BY <1>7 DEF Dial, Failed, Answer, pppVars, properties
  <1>8. CASE StartPppd
    <2>1. turn' = 0 /\ setup' = "wait" /\ UNCHANGED <<local_ip, gw, answer>>
      BY <1>8 DEF StartPppd, properties
    <2>2. CASE conn < MaxConns /\ conn' = conn + 1 /\ pppd' = "starting" /\ killed' = FALSE
      <3>1. conn' \in 0 .. MaxConns
        BY <2>2
      <3> QED
        BY <2>1, <2>2, <3>1, NoTurns
    <2>3. CASE UNCHANGED <<conn, pppd, killed>>
      BY <2>1, <2>3, NoTurns
    <2> QED
      BY <1>8, <2>2, <2>3 DEF StartPppd
  <1>9. CASE WaitTurn
    BY <1>9 DEF WaitTurn, Failed, Answer, pppVars, properties
  <1>10. CASE Read
    BY <1>10 DEF Read, Answer, pppVars, properties
  <1>11. CASE UNCHANGED dataVars
    BY <1>11 DEF dataVars, pppVars, properties
  <1> QED
    BY <1>1, <1>2, <1>3, <1>4, <1>5, <1>6, <1>7, <1>8, <1>9, <1>10, <1>11 DEF DataNext

THEOREM DataTypeCorrect == DataSpec => []DataTypeOK
  <1>1. DataInit => DataTyped
    <2>1. DataInit => DataInv
      BY DEF DataInit, DataInv, ScriptInv, RequestInv, FreshAddress, NoAnswer
    <2>2. ASSUME DataInit PROVE DataTypeOK
      <3>1. conn \in 0 .. MaxConns /\ {local_ip, gw} \subseteq 0 .. MaxConns
        BY <2>2, NoTurns DEF DataInit
      <3>2. turn \in 0 .. KillTurns + WaitTurns + 1
        BY <2>2, NoTurns DEF DataInit
      <3>3. answer.kind = "none"
        BY <2>2 DEF DataInit, NoAnswer
      <3> QED
        BY <2>2, <3>1, <3>2, <3>3 DEF DataInit, DataTypeOK
    <2> QED
      BY <2>1, <2>2 DEF DataTyped
  <1>2. DataTyped /\ [DataNext]_dataVars => DataTyped'
    BY DataTypeStep, ScriptStep, RequestStep DEF DataTyped, DataInv
  <1>3. DataTyped => DataTypeOK
    BY DEF DataTyped
  <1> QED
    BY <1>1, <1>2, <1>3, PTL DEF DataSpec

-----------------------------------------------------------------------------
(* A SCREEN_STATE(on) that was answered with success stays in force, and    *)
(* the messages stay routed, whatever handlers follow and whichever of      *)
(* their commands the modem refuses.                                        *)
(*                                                                          *)
(* The invariant says of each handler what the commands are that it has     *)
(* still to send, for that is what may take a report away: only those of    *)
(* SCREEN_STATE(off) do, and while they are under way the screen is not     *)
(* known to be on.                                                          *)

Settings == [CREG : Nat, CGREG : Nat, CURC : Nat, CGEREP : Nat,
             CNMI : [mt : Nat, bm : Nat, ds : Nat]]

Routes == [mt |-> 2, bm |-> 2, ds |-> 1]

WithFallback == [Try("CREG", 2) EXCEPT !.fallback = <<Try("CREG", 1)>>]

(* Commands that take nothing away but with a restart of the modem.         *)
Harmless == {Try("CREG", 1), Try("CREG", 2), WithFallback, Try("CGREG", 2), Try("CURC", 1),
             Try("CGEREP", 1), Try("CNMI", Routes), Must("CFUN", 6), Must("CFUN", 1)}

Off == {Must("CREG", 0), Must("CGREG", 0), Must("CURC", 0), Must("CGEREP", 0)}

Broadcasts == {"BROADCAST_ON", "BROADCAST_OFF"}

(* What SCREEN_STATE(on) has still to send is what is not on yet.           *)
OnPending ==
    LET creg == Must("CREG", 2)   cgreg  == Must("CGREG", 2)
        curc == Must("CURC", 1)   cgerep == Must("CGEREP", 1) IN
    \/ commands = <<creg, cgreg, curc, cgerep>>
    \/ commands = <<cgreg, curc, cgerep>> /\ settings.CREG = 2
    \/ commands = <<curc, cgerep>> /\ settings.CREG = 2 /\ settings.CGREG = 2
    \/ commands = <<cgerep>> /\ settings.CREG = 2 /\ settings.CGREG = 2 /\ settings.CURC = 1
    \/ /\ commands = <<>> /\ settings.CREG = 2 /\ settings.CGREG = 2
       /\ settings.CURC = 1 /\ settings.CGEREP = 1

(* What a broadcast activation writes has the other fields it has read.     *)
BroadcastPending ==
    \/ commands = <<>>
    \/ \E bm \in Nat : commands = <<Must("CNMI?", bm)>>
    \/ \E bm \in Nat : commands = <<Must("CNMI", Activated(settings.CNMI, bm))>>

Pending ==
    /\ handler = "SCREEN_ON" => screen = "unknown" /\ OnPending
    /\ handler = "SCREEN_OFF" => screen = "unknown" /\ commands \in Seq(Off)
    /\ handler \in Broadcasts => BroadcastPending
    /\ handler \notin Broadcasts \cup {"SCREEN_ON", "SCREEN_OFF"} => commands \in Seq(Harmless)

ReportInv == settings \in Settings /\ Pending /\ StaysNotified

-----------------------------------------------------------------------------
LEMMA HarmlessFacts ==
    ASSUME NEW c \in Harmless
    PROVE  /\ c.fallback \in Seq(Harmless)
           /\ c.at = "CREG" => c.to \in Nat /\ c.to > 0
           /\ c.at = "CGREG" => c.to = 2
           /\ c.at = "CURC" => c.to = 1
           /\ c.at = "CGEREP" => c.to = 1
           /\ c.at = "CNMI" => c.to = Routes
           /\ c.at # "CNMI?"
  <1>1. <<>> \in Seq(Harmless) /\ <<Try("CREG", 1)>> \in Seq(Harmless)
    BY DEF Harmless
  <1>2. CASE c = WithFallback
    <2>1. c = [at |-> "CREG", to |-> 2, must |-> FALSE, fallback |-> <<Try("CREG", 1)>>]
      BY <1>2 DEF WithFallback, Try
    <2> QED
      BY <1>1, <2>1
  <1>3. CASE c # WithFallback
    <2>1. c.fallback = <<>>
      BY <1>3 DEF Harmless, Try, Must
    <2>2. /\ c.at = "CREG" => c.to \in Nat /\ c.to > 0
          /\ c.at = "CGREG" => c.to = 2
          /\ c.at = "CURC" => c.to = 1
          /\ c.at = "CGEREP" => c.to = 1
          /\ c.at = "CNMI" => c.to = Routes
          /\ c.at # "CNMI?"
      BY <1>3 DEF Harmless, Try, Must
    <2> QED
      BY <1>1, <2>1, <2>2
  <1> QED
    BY <1>2, <1>3

LEMMA OffFacts ==
    ASSUME NEW c \in Off
    PROVE  c.must /\ c.to = 0 /\ c.at \in {"CREG", "CGREG", "CURC", "CGEREP"}
  BY DEF Off, Must

(* The first command of up to four, and the rest.                           *)
LEMMA HeadTails ==
    ASSUME NEW w, NEW x, NEW y, NEW z
    PROVE  /\ Head(<<w, x, y, z>>) = w /\ Tail(<<w, x, y, z>>) = <<x, y, z>>
           /\ Head(<<x, y, z>>) = x /\ Tail(<<x, y, z>>) = <<y, z>>
           /\ Head(<<y, z>>) = y /\ Tail(<<y, z>>) = <<z>>
           /\ Head(<<z>>) = z /\ Tail(<<z>>) = <<>>
  <1> DEFINE T == {w, x, y, z}
  <1>1. Head(<<w, x, y, z>>) = w /\ Head(<<x, y, z>>) = x /\ Head(<<y, z>>) = y /\ Head(<<z>>) = z
    OBVIOUS
  <1>2. /\ <<w, x, y, z>> \in Seq(T) /\ <<x, y, z>> \in Seq(T) /\ <<y, z>> \in Seq(T)
        /\ <<z>> \in Seq(T) /\ <<>> \in Seq(T)
    OBVIOUS
  <1>3. Tail(<<w, x, y, z>>) = <<x, y, z>>
    BY <1>2, HeadTailProperties, SeqEqual
  <1>4. Tail(<<x, y, z>>) = <<y, z>>
    BY <1>2, HeadTailProperties, SeqEqual
  <1>5. Tail(<<y, z>>) = <<z>>
    BY <1>2, HeadTailProperties, SeqEqual
  <1>6. Tail(<<z>>) = <<>>
    BY <1>2, HeadTailProperties, SeqEqual
  <1> QED
    BY <1>1, <1>3, <1>4, <1>5, <1>6

(* A handler starts with what Pending says of it.                           *)
LEMMA HandlersPending ==
    /\ Handlers["SCREEN_ON"] = <<Must("CREG", 2), Must("CGREG", 2), Must("CURC", 1), Must("CGEREP", 1)>>
    /\ Handlers["SCREEN_OFF"] \in Seq(Off)
    /\ \A h \in Broadcasts : \E bm \in Nat : Handlers[h] = <<Must("CNMI?", bm)>>
    /\ \A h \in DOMAIN Handlers :
          h \notin Broadcasts \cup {"SCREEN_ON", "SCREEN_OFF"} => Handlers[h] \in Seq(Harmless)
  <1>1. Handlers["SCREEN_ON"] = <<Must("CREG", 2), Must("CGREG", 2), Must("CURC", 1), Must("CGEREP", 1)>>
    BY DEF Handlers, ScreenState
  <1>2. Handlers["SCREEN_OFF"] \in Seq(Off)
    <2>1. Handlers["SCREEN_OFF"] = <<Must("CREG", 0), Must("CGREG", 0), Must("CURC", 0), Must("CGEREP", 0)>>
      BY DEF Handlers, ScreenState
    <2> QED
      BY <2>1 DEF Off
  <1>3. \A h \in Broadcasts : \E bm \in Nat : Handlers[h] = <<Must("CNMI?", bm)>>
    BY DEF Broadcasts, Handlers, BroadcastActivation
  <1>4. ASSUME NEW h \in DOMAIN Handlers, h \notin Broadcasts \cup {"SCREEN_ON", "SCREEN_OFF"}
        PROVE  Handlers[h] \in Seq(Harmless)
    <2>1. h \in {"SCREEN_OTHER", "LOCATION_ON", "LOCATION_OFF", "SETUP_DATA_CALL", "RESET_RADIO",
                 "SIM_READY"}
      BY <1>4 DEF Handlers, Broadcasts
    <2>2. /\ Handlers["SCREEN_OTHER"] = <<>>
          /\ Handlers["LOCATION_ON"] = <<Try("CREG", 2)>>
          /\ Handlers["LOCATION_OFF"] = <<Try("CREG", 1)>>
          /\ Handlers["SETUP_DATA_CALL"] = <<Try("CGEREP", 1)>>
          /\ Handlers["RESET_RADIO"] = <<Must("CFUN", 6), Must("CFUN", 1)>>
          /\ Handlers["SIM_READY"] = <<Try("CNMI", Routes), WithFallback, Try("CURC", 1), Try("CGEREP", 1)>>
      BY DEF Handlers, LocationUpdates, SetupPdp, ResetRadio, SimReady, Routes, WithFallback
    <2>3. /\ <<>> \in Seq(Harmless)
          /\ <<Try("CREG", 2)>> \in Seq(Harmless) /\ <<Try("CREG", 1)>> \in Seq(Harmless)
          /\ <<Try("CGEREP", 1)>> \in Seq(Harmless)
          /\ <<Must("CFUN", 6), Must("CFUN", 1)>> \in Seq(Harmless)
          /\ <<Try("CNMI", Routes), WithFallback, Try("CURC", 1), Try("CGEREP", 1)>> \in Seq(Harmless)
      BY DEF Harmless
    <2> QED
      BY <2>1, <2>2, <2>3
  <1> QED
    BY <1>1, <1>2, <1>3, <1>4

LEMMA InitializePending == InitializeChannel \in Seq(Harmless) /\ Default \in Settings
  BY DEF InitializeChannel, Harmless, Default, Settings

-----------------------------------------------------------------------------
(* The steps, by the handler whose command is answered.                     *)
LEMMA HandleStep ==
    ASSUME ReportInv, NEW h \in DOMAIN Handlers, Handle(h)
    PROVE  ReportInv'
  <1>1. /\ handler' = h /\ commands' = Handlers[h] /\ UNCHANGED <<settings, routed>>
        /\ screen' = IF h \in Screens THEN "unknown" ELSE screen
    BY DEF Handle
  <1>2. settings' \in Settings /\ StaysNotified'
    BY <1>1 DEF ReportInv, StaysNotified
  <1>3. h \in Screens => screen' = "unknown"
    BY <1>1
  <1>4. h = "SCREEN_ON" => screen' = "unknown" /\ OnPending'
    BY <1>1, <1>3, HandlersPending DEF Screens, OnPending
  <1>5. h = "SCREEN_OFF" => screen' = "unknown" /\ commands' \in Seq(Off)
    BY <1>1, <1>3, HandlersPending DEF Screens
  <1>6. h \in Broadcasts => BroadcastPending'
    BY <1>1, HandlersPending DEF BroadcastPending
  <1>7. h \notin Broadcasts \cup {"SCREEN_ON", "SCREEN_OFF"} => commands' \in Seq(Harmless)
    BY <1>1, HandlersPending
  <1> QED
    BY <1>1, <1>2, <1>4, <1>5, <1>6, <1>7 DEF ReportInv, Pending

(* After a refusal the handler has given up, with nothing to send.          *)
LEMMA GaveUp ==
    ASSUME ReportInv, handler' = "failed", commands' = <<>>, UNCHANGED <<settings, screen, routed>>
    PROVE  ReportInv'
  <1>1. commands' \in Seq(Harmless)
    BY EmptySeq
  <1> QED
    BY <1>1 DEF ReportInv, Pending, StaysNotified, Broadcasts

(* An accepted command for one of the four kinds of reports.                *)
LEMMA ReportSet ==
    ASSUME settings \in Settings, NEW at \in {"CREG", "CGREG", "CURC", "CGEREP"}, NEW n \in Nat,
           settings' = [settings EXCEPT ![at] = n]
    PROVE  /\ settings' \in Settings /\ settings'.CNMI = settings.CNMI
           /\ settings'.CREG = IF at = "CREG" THEN n ELSE settings.CREG
           /\ settings'.CGREG = IF at = "CGREG" THEN n ELSE settings.CGREG
           /\ settings'.CURC = IF at = "CURC" THEN n ELSE settings.CURC
           /\ settings'.CGEREP = IF at = "CGEREP" THEN n ELSE settings.CGEREP
  BY DEF Settings

LEMMA OnStep ==
    ASSUME ReportInv, handler = "SCREEN_ON", SendNext
    PROVE  ReportInv'
  <1> DEFINE creg == Must("CREG", 2)  cgreg == Must("CGREG", 2)
             curc == Must("CURC", 1)  cgerep == Must("CGEREP", 1)
             c == Head(commands)
  <1>1. /\ settings \in Settings /\ screen = "unknown" /\ OnPending /\ commands # <<>>
        /\ StaysNotified
    BY DEF ReportInv, Pending, SendNext
  <1>2. /\ c \in {creg, cgreg, curc, cgerep}
        /\ \/ c = creg /\ Tail(commands) = <<cgreg, curc, cgerep>>
           \/ c = cgreg /\ Tail(commands) = <<curc, cgerep>> /\ settings.CREG = 2
           \/ c = curc /\ Tail(commands) = <<cgerep>> /\ settings.CREG = 2 /\ settings.CGREG = 2
           \/ /\ c = cgerep /\ Tail(commands) = <<>> /\ settings.CREG = 2 /\ settings.CGREG = 2
              /\ settings.CURC = 1
    <2> HIDE DEF creg, cgreg, curc, cgerep
    <2>1. CASE commands = <<creg, cgreg, curc, cgerep>>
      BY <2>1, HeadTails
    <2>2. CASE commands = <<cgreg, curc, cgerep>> /\ settings.CREG = 2
      BY <2>2, HeadTails
    <2>3. CASE commands = <<curc, cgerep>> /\ settings.CREG = 2 /\ settings.CGREG = 2
      BY <2>3, HeadTails
    <2>4. CASE /\ commands = <<cgerep>> /\ settings.CREG = 2 /\ settings.CGREG = 2
               /\ settings.CURC = 1
      BY <2>4, HeadTails
    <2> QED
      BY <1>1, <2>1, <2>2, <2>3, <2>4 DEF OnPending, creg, cgreg, curc, cgerep
  <1>3. /\ c.must /\ c.at \in {"CREG", "CGREG", "CURC", "CGEREP"} /\ c.to \in Nat
        /\ c.at = "CREG" <=> c = creg
        /\ c.at = "CGREG" <=> c = cgreg
        /\ c.at = "CURC" <=> c = curc
        /\ c.at = "CGEREP" <=> c = cgerep
        /\ c \in {creg, cgreg} => c.to = 2
        /\ c \in {curc, cgerep} => c.to = 1
    BY <1>2 DEF Must
  <1>4. CASE Accepts(c) /\ UNCHANGED handler
    <2>1. /\ commands' = Tail(commands) /\ settings' = [settings EXCEPT ![c.at] = c.to]
          /\ UNCHANGED <<screen, routed, handler>>
      BY <1>3, <1>4 DEF Accepts
    <2>2. /\ settings' \in Settings /\ settings'.CNMI = settings.CNMI
          /\ settings'.CREG = IF c = creg THEN 2 ELSE settings.CREG
          /\ settings'.CGREG = IF c = cgreg THEN 2 ELSE settings.CGREG
          /\ settings'.CURC = IF c = curc THEN 1 ELSE settings.CURC
          /\ settings'.CGEREP = IF c = cgerep THEN 1 ELSE settings.CGEREP
      <3>1. /\ settings' \in Settings /\ settings'.CNMI = settings.CNMI
            /\ settings'.CREG = IF c.at = "CREG" THEN c.to ELSE settings.CREG
            /\ settings'.CGREG = IF c.at = "CGREG" THEN c.to ELSE settings.CGREG
            /\ settings'.CURC = IF c.at = "CURC" THEN c.to ELSE settings.CURC
            /\ settings'.CGEREP = IF c.at = "CGEREP" THEN c.to ELSE settings.CGEREP
        BY <1>1, <1>3, <2>1, ReportSet
      <3> QED
        BY <1>3, <3>1
    <2>3. OnPending'
      <3> HIDE DEF c
      <3>1. CASE c = creg /\ Tail(commands) = <<cgreg, curc, cgerep>>
        BY <2>1, <2>2, <3>1 DEF OnPending
      <3>2. CASE c = cgreg /\ Tail(commands) = <<curc, cgerep>> /\ settings.CREG = 2
        BY <2>1, <2>2, <3>2 DEF OnPending, Must
      <3>3. CASE c = curc /\ Tail(commands) = <<cgerep>> /\ settings.CREG = 2 /\ settings.CGREG = 2
        BY <2>1, <2>2, <3>3 DEF OnPending, Must
      <3>4. CASE /\ c = cgerep /\ Tail(commands) = <<>> /\ settings.CREG = 2 /\ settings.CGREG = 2
                 /\ settings.CURC = 1
        BY <2>1, <2>2, <3>4 DEF OnPending, Must
      <3> QED
        BY <1>2, <3>1, <3>2, <3>3, <3>4
    <2>4. StaysNotified'
      BY <1>1, <2>1, <2>2 DEF StaysNotified
    <2>5. Pending'
      BY <1>1, <2>1, <2>3 DEF Pending, Broadcasts
    <2> QED
      BY <2>2, <2>4, <2>5 DEF ReportInv
  <1>5. CASE AnswersCnmi(c) /\ UNCHANGED handler
    BY <1>3, <1>5 DEF AnswersCnmi
  <1>6. CASE Refuses(c)
    BY <1>3, <1>6, GaveUp DEF Refuses
  <1> QED
    BY <1>4, <1>5, <1>6 DEF SendNext

LEMMA OffStep ==
    ASSUME ReportInv, handler = "SCREEN_OFF", SendNext
    PROVE  ReportInv'
  <1> DEFINE c == Head(commands)
  <1>1. /\ settings \in Settings /\ screen = "unknown" /\ commands \in Seq(Off) /\ commands # <<>>
        /\ StaysNotified
    BY DEF ReportInv, Pending, SendNext
  <1>2. c \in Off /\ Tail(commands) \in Seq(Off)
    BY <1>1
  <1>3. c.must /\ c.to = 0 /\ c.at \in {"CREG", "CGREG", "CURC", "CGEREP"}
    BY <1>2, OffFacts
  <1> HIDE DEF c
  <1>4. CASE Accepts(c) /\ UNCHANGED handler
    <2>1. /\ commands' = Tail(commands) /\ settings' = [settings EXCEPT ![c.at] = 0]
          /\ UNCHANGED <<screen, routed, handler>>
      BY <1>3, <1>4 DEF Accepts
    <2>2. settings' \in Settings /\ settings'.CNMI = settings.CNMI
      <3>1. 0 \in Nat
        OBVIOUS
      <3> QED
        BY <1>1, <1>3, <2>1, <3>1, ReportSet
    <2>3. commands' \in Seq(Off)
      BY <1>2, <2>1
    <2>4. StaysNotified'
      BY <1>1, <2>1, <2>2 DEF StaysNotified
    <2> QED
      BY <1>1, <2>1, <2>2, <2>3, <2>4 DEF ReportInv, Pending, Broadcasts
  <1>5. CASE AnswersCnmi(c) /\ UNCHANGED handler
    BY <1>3, <1>5 DEF AnswersCnmi
  <1>6. CASE Refuses(c)
    BY <1>3, <1>6, GaveUp DEF Refuses
  <1> QED
    BY <1>4, <1>5, <1>6 DEF SendNext, c

LEMMA BroadcastStep ==
    ASSUME ReportInv, handler \in Broadcasts, SendNext
    PROVE  ReportInv'
  <1> DEFINE c == Head(commands)
  <1>1. settings \in Settings /\ BroadcastPending /\ commands # <<>> /\ StaysNotified
    BY DEF ReportInv, Pending, SendNext
  <1>2. ASSUME Refuses(c), c.must PROVE ReportInv'
    BY <1>2, GaveUp DEF Refuses
  <1>3. ASSUME NEW bm \in Nat, commands = <<Must("CNMI?", bm)>> PROVE ReportInv'
    <2>1. c = Must("CNMI?", bm)
      BY <1>3, HeadTails
    <2>2. c.must /\ c.at = "CNMI?" /\ c.to = bm
      BY <2>1 DEF Must
    <2> HIDE DEF c
    <2>3. ~Accepts(c)
      BY <2>2 DEF Accepts
    <2>4. CASE AnswersCnmi(c) /\ UNCHANGED handler
      <3>1. /\ commands' = <<Must("CNMI", Activated(settings.CNMI, bm))>>
            /\ UNCHANGED <<settings, screen, routed, handler>>
        BY <2>2, <2>4 DEF AnswersCnmi
      <3>2. BroadcastPending'
        BY <3>1 DEF BroadcastPending
      <3> QED
        BY <1>1, <3>1, <3>2 DEF ReportInv, Pending, StaysNotified, Broadcasts
    <2> QED
      BY <1>2, <2>2, <2>3, <2>4 DEF SendNext, c
  <1>4. ASSUME NEW bm \in Nat, commands = <<Must("CNMI", Activated(settings.CNMI, bm))>>
        PROVE  ReportInv'
    <2>1. c = Must("CNMI", Activated(settings.CNMI, bm)) /\ Tail(commands) = <<>>
      BY <1>4, HeadTails
    <2>2. c.must /\ c.at = "CNMI" /\ c.to = Activated(settings.CNMI, bm)
      BY <2>1 DEF Must
    <2>3. /\ c.to \in [mt : Nat, bm : Nat, ds : Nat]
          /\ c.to.mt = settings.CNMI.mt /\ c.to.ds = settings.CNMI.ds
      BY <1>1, <2>2 DEF Settings, Activated
    <2> HIDE DEF c
    <2>4. CASE Accepts(c) /\ UNCHANGED handler
      <3>1. /\ commands' = <<>> /\ settings' = [settings EXCEPT !.CNMI = c.to]
            /\ UNCHANGED <<screen, handler>> /\ routed' = (routed \/ handler = "SIM_READY")
        BY <2>1, <2>2, <2>4 DEF Accepts
      <3>2. /\ settings' \in Settings /\ settings'.CNMI = c.to
            /\ settings'.CREG = settings.CREG /\ settings'.CGREG = settings.CGREG
            /\ settings'.CURC = settings.CURC /\ settings'.CGEREP = settings.CGEREP
        BY <1>1, <2>3, <3>1 DEF Settings
      <3>3. StaysNotified'
        BY <1>1, <2>3, <3>1, <3>2 DEF StaysNotified, Broadcasts
      <3> QED
        BY <3>1, <3>2, <3>3 DEF ReportInv, Pending, BroadcastPending, Broadcasts
    <2>5. ~AnswersCnmi(c)
      BY <2>2 DEF AnswersCnmi
    <2> QED
      BY <1>2, <2>2, <2>4, <2>5 DEF SendNext, c
  <1> QED
    BY <1>1, <1>3, <1>4 DEF BroadcastPending

LEMMA OtherStep ==
    ASSUME ReportInv, handler \notin Broadcasts \cup {"SCREEN_ON", "SCREEN_OFF"}, SendNext
    PROVE  ReportInv'
  <1> DEFINE c == Head(commands)
  <1>1. settings \in Settings /\ commands \in Seq(Harmless) /\ commands # <<>> /\ StaysNotified
    BY DEF ReportInv, Pending, SendNext
  <1>2. c \in Harmless /\ Tail(commands) \in Seq(Harmless)
    BY <1>1
  <1>3. /\ c.fallback \in Seq(Harmless)
        /\ c.at = "CREG" => c.to \in Nat /\ c.to > 0
        /\ c.at = "CGREG" => c.to = 2
        /\ c.at = "CURC" => c.to = 1
        /\ c.at = "CGEREP" => c.to = 1
        /\ c.at = "CNMI" => c.to = Routes
        /\ c.at # "CNMI?"
    BY <1>2, HarmlessFacts
  <1> HIDE DEF c
  <1>4. ASSUME settings' \in Settings, StaysNotified', commands' \in Seq(Harmless), UNCHANGED handler
        PROVE  ReportInv'
    BY <1>4 DEF ReportInv, Pending
  <1>5. CASE Accepts(c) /\ UNCHANGED handler
    <2>1. commands' \in Seq(Harmless)
      BY <1>2, <1>5 DEF Accepts
    <2>2. CASE /\ c.at \in {"CREG", "CGREG", "CURC", "CGEREP"}
               /\ settings' = [settings EXCEPT ![c.at] = c.to] /\ UNCHANGED <<screen, routed>>
      <3>1. c.to \in Nat
        BY <1>3, <2>2
      <3>2. /\ settings' \in Settings /\ settings'.CNMI = settings.CNMI
            /\ settings'.CREG = IF c.at = "CREG" THEN c.to ELSE settings.CREG
            /\ settings'.CGREG = IF c.at = "CGREG" THEN c.to ELSE settings.CGREG
            /\ settings'.CURC = IF c.at = "CURC" THEN c.to ELSE settings.CURC
            /\ settings'.CGEREP = IF c.at = "CGEREP" THEN c.to ELSE settings.CGEREP
        <4>1. PICK at \in {"CREG", "CGREG", "CURC", "CGEREP"}, n \in Nat : at = c.at /\ n = c.to
          BY <2>2, <3>1
        <4>2. settings' = [settings EXCEPT ![at] = n]
          BY <2>2, <4>1
        <4>3. /\ settings' \in Settings /\ settings'.CNMI = settings.CNMI
              /\ settings'.CREG = IF at = "CREG" THEN n ELSE settings.CREG
              /\ settings'.CGREG = IF at = "CGREG" THEN n ELSE settings.CGREG
              /\ settings'.CURC = IF at = "CURC" THEN n ELSE settings.CURC
              /\ settings'.CGEREP = IF at = "CGEREP" THEN n ELSE settings.CGEREP
          BY <1>1, <4>2, ReportSet, Zenon
        <4> QED
          BY <4>1, <4>3
      <3>3. StaysNotified'
        BY <1>1, <1>3, <2>2, <3>2 DEF StaysNotified
      <3> QED
        BY <1>4, <1>5, <2>1, <3>2, <3>3
    <2>3. CASE c.at = "CNMI" /\ settings' = [settings EXCEPT !.CNMI = c.to] /\ UNCHANGED screen
      <3>1. settings' = [settings EXCEPT !.CNMI = Routes] /\ Routes \in [mt : Nat, bm : Nat, ds : Nat]
        BY <1>3, <2>3 DEF Routes
      <3>2. /\ settings' \in Settings /\ settings'.CNMI = Routes
            /\ settings'.CREG = settings.CREG /\ settings'.CGREG = settings.CGREG
            /\ settings'.CURC = settings.CURC /\ settings'.CGEREP = settings.CGEREP
        BY <1>1, <3>1 DEF Settings
      <3>3. StaysNotified'
        BY <1>1, <2>3, <3>2 DEF StaysNotified, Routes
      <3> QED
        BY <1>4, <1>5, <2>1, <3>2, <3>3
    <2>4. CASE settings' = Default /\ screen' = "unknown" /\ routed' = FALSE
      BY <1>4, <1>5, <2>1, <2>4, InitializePending DEF StaysNotified
    <2>5. CASE UNCHANGED <<settings, screen, routed>>
      <3>1. settings' \in Settings /\ StaysNotified'
        BY <1>1, <2>5 DEF StaysNotified
      <3> QED
        BY <1>4, <1>5, <2>1, <3>1
    <2> QED
      BY <1>5, <2>2, <2>3, <2>4, <2>5 DEF Accepts
  <1>6. CASE AnswersCnmi(c)
    BY <1>3, <1>6 DEF AnswersCnmi
  <1>7. CASE Refuses(c)
    <2>1. CASE c.must
      BY <1>7, <2>1, GaveUp DEF Refuses
    <2>2. CASE ~c.must
      <3>1. /\ commands' = c.fallback \o Tail(commands)
            /\ UNCHANGED <<handler, settings, screen, routed>>
        BY <1>7, <2>2 DEF Refuses
      <3>2. commands' \in Seq(Harmless)
        BY <1>2, <1>3, <3>1, ConcatProperties
      <3>3. settings' \in Settings /\ StaysNotified'
        BY <1>1, <3>1 DEF StaysNotified
      <3> QED
        BY <1>4, <3>1, <3>2, <3>3
    <2> QED
      BY <2>1, <2>2
  <1> QED
    BY <1>5, <1>6, <1>7 DEF SendNext, c

(* An answer: only a SCREEN_STATE(on) with nothing left to send has turned  *)
(* everything on.                                                           *)
LEMMA AnsweredStep ==
    ASSUME ReportInv, Answered
    PROVE  ReportInv'
  <1>1. /\ commands = <<>> /\ commands' = <<>> /\ handler' = "idle" /\ UNCHANGED <<settings, routed>>
    BY DEF Answered
  <1>2. commands' \in Seq(Harmless)
    BY <1>1, EmptySeq
  <1>3. CASE handler = "SCREEN_ON"
    <2>1. /\ settings.CREG = 2 /\ settings.CGREG = 2 /\ settings.CURC = 1 /\ settings.CGEREP = 1
      BY <1>1, <1>3 DEF ReportInv, Pending, OnPending
    <2> QED
      BY <1>1, <1>2, <2>1 DEF ReportInv, Pending, StaysNotified, Broadcasts
  <1>4. CASE handler # "SCREEN_ON"
    <2>1. screen' \in {"off", screen}
      BY <1>4 DEF Answered
    <2> QED
      BY <1>1, <1>2, <2>1 DEF ReportInv, Pending, StaysNotified, Broadcasts
  <1> QED
    BY <1>3, <1>4

LEMMA ReportStep ==
    ASSUME ReportInv, [ReportNext]_reportVars
    PROVE  ReportInv'
  <1>1. ASSUME NEW h \in DOMAIN Handlers, Handle(h) PROVE ReportInv'
    BY <1>1, HandleStep
  <1>2. CASE SendNext
    BY <1>2, OnStep, OffStep, BroadcastStep, OtherStep
  <1>3. CASE Answered
    BY <1>3, AnsweredStep
  <1>4. CASE Reopened
    BY <1>4, InitializePending DEF Reopened, ReportInv, Pending, StaysNotified, Broadcasts
  <1>5. CASE UNCHANGED reportVars
    BY <1>5 DEF reportVars, ReportInv, Pending, OnPending, BroadcastPending, StaysNotified
  <1> QED
    BY <1>1, <1>2, <1>3, <1>4, <1>5 DEF ReportNext

(* From a SCREEN_STATE(on) answered with success on, the registration, data *)
(* and call reports stay on, and once onSIMReady() has routed the messages  *)
(* to the RIL they stay routed: in every order of the handlers, and with    *)
(* every choice of the commands the modem refuses.                          *)
THEOREM ReportsStayOn == ReportSpec => []StaysNotified
  <1>1. ReportInit => ReportInv
    BY InitializePending DEF ReportInit, ReportInv, Pending, StaysNotified, Broadcasts
  <1>2. ReportInv => StaysNotified
    BY DEF ReportInv
  <1> QED
    BY <1>1, <1>2, ReportStep, PTL DEF ReportSpec

(* The types of Reports: whatever the modem is asked to set is one of the   *)
(* values of Legal, which a handler's list never leaves.                    *)
Cnmi == [mt : {0, 2}, bm : {0, 2}, ds : {0, 1}]

Legal == Harmless \cup Off
         \cup {Must("CREG", 2), Must("CGREG", 2), Must("CURC", 1), Must("CGEREP", 1)}
         \cup {Must("CNMI?", bm) : bm \in {0, 2}} \cup {Must("CNMI", cnmi) : cnmi \in Cnmi}

ReportTyped == ReportTypeOK /\ commands \in Seq(Legal)

LEMMA LegalFacts ==
    ASSUME NEW c \in Legal
    PROVE  /\ c.fallback \in Seq(Legal)
           /\ c.at = "CREG" => c.to \in 0 .. 2
           /\ c.at = "CGREG" => c.to \in {0, 2}
           /\ c.at = "CURC" => c.to \in 0 .. 1
           /\ c.at = "CGEREP" => c.to \in 0 .. 1
           /\ c.at = "CNMI" => c.to \in Cnmi
           /\ c.at = "CNMI?" => c.to \in {0, 2}
  <1>1. <<>> \in Seq(Legal) /\ <<Try("CREG", 1)>> \in Seq(Legal)
    BY DEF Legal, Harmless
  <1>2. Routes \in Cnmi
    BY DEF Routes, Cnmi
  <1>3. CASE c = WithFallback
    <2>1. c = [at |-> "CREG", to |-> 2, must |-> FALSE, fallback |-> <<Try("CREG", 1)>>]
      BY <1>3 DEF WithFallback, Try
    <2> QED
      BY <1>1, <2>1
  <1>4. CASE c \in Harmless \ {WithFallback}
    <2>1. c.fallback = <<>>
      BY <1>4 DEF Harmless, Try, Must
    <2>2. /\ c.at = "CREG" => c.to \in {1, 2}
          /\ c.at = "CGREG" => c.to = 2
          /\ c.at = "CURC" => c.to = 1
          /\ c.at = "CGEREP" => c.to = 1
          /\ c.at = "CNMI" => c.to = Routes
          /\ c.at # "CNMI?"
      BY <1>4 DEF Harmless, Try, Must
    <2> QED
      BY <1>1, <1>2, <2>1, <2>2
  <1>5. CASE c \in Legal \ Harmless
    <2>1. c.fallback = <<>>
      BY <1>5 DEF Legal, Off, Must
    <2>2. /\ c.at = "CREG" => c.to \in {0, 2}
          /\ c.at = "CGREG" => c.to \in {0, 2}
          /\ c.at = "CURC" => c.to \in {0, 1}
          /\ c.at = "CGEREP" => c.to \in {0, 1}
          /\ c.at = "CNMI" => c.to \in Cnmi
          /\ c.at = "CNMI?" => c.to \in {0, 2}
      BY <1>5 DEF Legal, Off, Must
    <2> QED
      BY <1>1, <2>1, <2>2
  <1> QED
    BY <1>3, <1>4, <1>5

LEMMA HandlersLegal ==
    /\ \A h \in DOMAIN Handlers : Handlers[h] \in Seq(Legal)
    /\ InitializeChannel \in Seq(Legal)
  <1>1. Harmless \subseteq Legal /\ Off \subseteq Legal
    BY DEF Legal
  <1>2. Seq(Harmless) \subseteq Seq(Legal) /\ Seq(Off) \subseteq Seq(Legal)
    BY <1>1
  <1>3. Handlers["SCREEN_ON"] \in Seq(Legal)
    <2>1. <<Must("CREG", 2), Must("CGREG", 2), Must("CURC", 1), Must("CGEREP", 1)>> \in Seq(Legal)
      BY DEF Legal
    <2> QED
      BY <2>1, HandlersPending
  <1>4. ASSUME NEW h \in Broadcasts PROVE Handlers[h] \in Seq(Legal)
    <2>1. PICK bm \in {0, 2} : Handlers[h] = <<Must("CNMI?", bm)>>
      BY <1>4 DEF Broadcasts, Handlers, BroadcastActivation
    <2>2. Must("CNMI?", bm) \in Legal
      BY DEF Legal
    <2> QED
      BY <2>1, <2>2
  <1> QED
    BY <1>2, <1>3, <1>4, HandlersPending, InitializePending

LEMMA DefaultTyped ==
    Default \in [CREG : 0 .. 2, CGREG : {0, 2}, CURC : 0 .. 1, CGEREP : 0 .. 1,
                 CNMI : [mt : {0, 2}, bm : {0, 2}, ds : {0, 1}]]
  BY DEF Default

LEMMA ReportSendTyped ==
    ASSUME ReportTyped, SendNext
    PROVE  ReportTyped'
  <1> DEFINE c == Head(commands)
  <1>1. commands # <<>> /\ commands \in Seq(Legal) /\ ReportTypeOK
    BY DEF ReportTyped, SendNext
  <1>2. c \in Legal /\ Tail(commands) \in Seq(Legal)
    BY <1>1
  <1>3. /\ c.fallback \in Seq(Legal)
        /\ c.at = "CREG" => c.to \in 0 .. 2
        /\ c.at = "CGREG" => c.to \in {0, 2}
        /\ c.at = "CURC" => c.to \in 0 .. 1
        /\ c.at = "CGEREP" => c.to \in 0 .. 1
        /\ c.at = "CNMI" => c.to \in Cnmi
        /\ c.at = "CNMI?" => c.to \in {0, 2}
    BY <1>2, LegalFacts
  <1> HIDE DEF c
  <1>4. CASE Accepts(c) /\ UNCHANGED handler
    <2>1. CASE c.at \in {"CREG", "CGREG", "CURC", "CGEREP"}
      BY <1>1, <1>2, <1>3, <1>4, <2>1 DEF Accepts, ReportTyped, ReportTypeOK
    <2>2. CASE c.at = "CNMI"
      BY <1>1, <1>2, <1>3, <1>4, <2>2 DEF Accepts, ReportTyped, ReportTypeOK, Cnmi
    <2>3. CASE c.at = "CFUN"
      BY <1>1, <1>2, <1>4, <2>3, DefaultTyped DEF Accepts, ReportTyped, ReportTypeOK
    <2> QED
      BY <1>4, <2>1, <2>2, <2>3 DEF Accepts
  <1>5. CASE AnswersCnmi(c) /\ UNCHANGED handler
    <2>1. Activated(settings.CNMI, c.to) \in Cnmi
      BY <1>1, <1>3, <1>5 DEF AnswersCnmi, ReportTypeOK, Activated, Cnmi
    <2>2. Must("CNMI", Activated(settings.CNMI, c.to)) \in Legal
      BY <2>1 DEF Legal
    <2>3. commands' \in Seq(Legal)
      BY <1>5, <2>2 DEF AnswersCnmi
    <2> QED
      BY <1>1, <1>5, <2>3 DEF AnswersCnmi, ReportTyped, ReportTypeOK
  <1>6. CASE Refuses(c)
    <2>1. commands' \in Seq(Legal)
      <3>1. c.fallback \o Tail(commands) \in Seq(Legal)
        BY <1>2, <1>3, ConcatProperties
      <3> QED
        BY <1>6, <3>1, EmptySeq DEF Refuses
    <2> QED
      BY <1>1, <1>6, <2>1 DEF Refuses, ReportTyped, ReportTypeOK
  <1> QED
    BY <1>4, <1>5, <1>6 DEF SendNext, c

LEMMA ReportTypeStep ==
    ASSUME ReportTyped, [ReportNext]_reportVars
    PROVE  ReportTyped'
  <1>1. ASSUME NEW h \in DOMAIN Handlers, Handle(h) PROVE ReportTyped'
    BY <1>1, HandlersLegal DEF Handle, ReportTyped, ReportTypeOK
  <1>2. CASE SendNext
    BY <1>2, ReportSendTyped
  <1>3. CASE Answered
    BY <1>3 DEF Answered, ReportTyped, ReportTypeOK
  <1>4. CASE Reopened
    BY <1>4, HandlersLegal, DefaultTyped DEF Reopened, ReportTyped, ReportTypeOK
  <1>5. CASE UNCHANGED reportVars
    BY <1>5 DEF reportVars, ReportTyped, ReportTypeOK
  <1> QED
    BY <1>1, <1>2, <1>3, <1>4, <1>5 DEF ReportNext

THEOREM ReportTypeCorrect == ReportSpec => []ReportTypeOK
  <1>1. ReportInit => ReportTyped
    BY HandlersLegal, DefaultTyped DEF ReportInit, ReportTyped, ReportTypeOK
  <1>2. ReportTyped => ReportTypeOK
    BY DEF ReportTyped
  <1> QED
    BY <1>1, <1>2, ReportTypeStep, PTL DEF ReportSpec

-----------------------------------------------------------------------------
(* For any number of tries of a PIN: the types of SimAccess, and that the   *)
(* framework is told the truth about the card.                              *)

(* An answer of the card, with what the card is then. *)
SimInv == SimTypeOK /\ SimAnswersTrue

LEMMA VerifyType ==
    ASSUME SimTypeOK, lock # "BLOCKED", NEW right \in BOOLEAN, Verify(right)
    PROVE  lock' \in Locks /\ tries' \in 0 .. PinTries - 1
  BY SimAssumption DEF SimTypeOK, Verify, Locks

(* getUICCType() returns the type of the card or that it is not known. *)
LEMMA GetUICCTypeStep ==
    ASSUME SimTypeOK, NEW t \in {"SIM", "USIM", "UNKNOWN"}, GetUICCType(t), UNCHANGED card
    PROVE  t \in {card, "UNKNOWN"} /\ UiccType' \in {card', "UNKNOWN"}
  BY DEF SimTypeOK, GetUICCType

(* What a 3G card says of a file is converted or refused, and a 2G card     *)
(* says nothing else.                                                       *)
LEMMA FileIsConverted ==
    ASSUME SimTypeOK, NEW t \in {card, "UNKNOWN"}, NEW file, NEW path,
           NEW said \in Says(file, path), said # "error"
    PROVE  (IF Converts(t) THEN Convert(said) ELSE said) \in {"error", "nothing", "2G"}
  <1>1. CASE Converts(t)
    BY <1>1 DEF Convert
  <1>2. CASE ~Converts(t)
    <2>1. card = "SIM"
      BY <1>2 DEF Converts, SimTypeOK
    <2>2. said \in {"nothing", "2G"}
      <3>1. CASE lock = "ABSENT"
        BY <2>1, <3>1 DEF Says
      <3>2. CASE lock # "ABSENT"
        BY <2>1, <3>2 DEF Says
      <3> QED
        BY <3>1, <3>2
    <2> QED
      BY <1>2, <2>2
  <1> QED
    BY <1>1, <1>2

(* app_status_array shows what the answer to AT+CPIN? says. *)
LEMMA StatusShown ==
    ASSUME SimTypeOK, NEW said \in CpinAnswers
    PROVE  CardStatus(SimStatus(said)) \in Shown[lock] \cup {"DETECTED"}
  <1>1. CASE said = <<"error">>
    BY <1>1 DEF SimStatus, CardStatus, AppState
  <1>a. \A l \in {"PIN", "PUK", "NETWORK"}, form \in {"CPIN", "CME"}, m \in Locks \cup {"error"} :
           /\ <<form, l>> \in {"CPIN", "CME"} \X {m} <=> l = m
           /\ <<form, l>> # <<"CPIN", "READY">> /\ <<form, l>> # <<"CPIN", "BLOCKED">>
           /\ <<form, l>> # <<"CME", "ABSENT">>
    BY DEF Locks
  <1>b. /\ SimStatus(<<"CPIN", "READY">>) = "SIM_READY"
        /\ \A form \in {"CPIN", "CME"} :
              /\ SimStatus(<<form, "PIN">>) = "SIM_PIN"
              /\ SimStatus(<<form, "PUK">>) = "SIM_PUK"
              /\ SimStatus(<<form, "NETWORK">>) = "SIM_NETWORK_PERSO"
        /\ SimStatus(<<"CPIN", "BLOCKED">>) = "SIM_PUK2_PERM_BLOCKED"
        /\ SimStatus(<<"CME", "ABSENT">>) = "SIM_ABSENT"
    <2>1. /\ SimStatus(<<"CPIN", "READY">>) = "SIM_READY"
          /\ SimStatus(<<"CPIN", "BLOCKED">>) = "SIM_PUK2_PERM_BLOCKED"
          /\ SimStatus(<<"CME", "ABSENT">>) = "SIM_ABSENT"
      BY DEF SimStatus
    <2>2. ASSUME NEW form \in {"CPIN", "CME"}
          PROVE  /\ SimStatus(<<form, "PIN">>) = "SIM_PIN"
                 /\ SimStatus(<<form, "PUK">>) = "SIM_PUK"
                 /\ SimStatus(<<form, "NETWORK">>) = "SIM_NETWORK_PERSO"
      BY <1>a, <2>2 DEF SimStatus, Locks
    <2> QED
      BY <2>1, <2>2
  <1>c. /\ CardStatus("SIM_READY") \in Shown["READY"]
        /\ CardStatus("SIM_PIN") \in Shown["PIN"]
        /\ CardStatus("SIM_PUK") \in Shown["PUK"]
        /\ CardStatus("SIM_NETWORK_PERSO") \in Shown["NETWORK"]
        /\ CardStatus("SIM_PUK2_PERM_BLOCKED") \in Shown["BLOCKED"]
        /\ CardStatus("SIM_ABSENT") \in Shown["ABSENT"]
    <2>1. CardStatus("SIM_ABSENT") \in Shown["ABSENT"]
      BY DEF CardStatus, Shown
    <2> QED
      BY <2>1 DEF CardStatus, AppState, Shown
  <1>2. CASE said = <<"CPIN", lock>> /\ lock # "ABSENT"
    BY <1>2, <1>b, <1>c DEF SimTypeOK, Locks
  <1>3. CASE said = <<"CME", lock>> /\ lock \notin {"READY", "BLOCKED"}
    BY <1>3, <1>b, <1>c DEF SimTypeOK, Locks
  <1> QED
    BY <1>1, <1>2, <1>3 DEF CpinAnswers

LEMMA SimStep ==
    ASSUME SimInv, [SimNext]_simVars
    PROVE  SimInv'
  <1>0. SimTypeOK /\ SimAnswersTrue
    BY DEF SimInv
  <1>1. CASE RadioPower
    BY <1>0, <1>1 DEF RadioPower, SimInv, SimTypeOK, SimAnswersTrue
  <1>2. ASSUME NEW file \in Files, GetResponse(file) PROVE SimInv'
    <2>0. PICK t \in {"SIM", "USIM", "UNKNOWN"} :
             /\ GetUICCType(t)
             /\ \E said \in Says(file, Path(t, file)) :
                   LET data == IF Converts(t) THEN Convert(said) ELSE said IN
                   IF said = "error" \/ data = "error"
                   THEN Reply("GET_RESPONSE", "GENERIC_FAILURE", said, "none")
                   ELSE Reply("GET_RESPONSE", "SUCCESS", said, data)
      BY <1>2 DEF GetResponse
    <2>1. PICK said \in Says(file, Path(t, file)) :
             LET data == IF Converts(t) THEN Convert(said) ELSE said IN
             IF said = "error" \/ data = "error"
             THEN Reply("GET_RESPONSE", "GENERIC_FAILURE", said, "none")
             ELSE Reply("GET_RESPONSE", "SUCCESS", said, data)
      BY <2>0
    <2>2. UNCHANGED <<card, lock, tries, pinOn, radioOn>>
      BY <1>2 DEF GetResponse
    <2>3. t \in {card, "UNKNOWN"} /\ UiccType' \in {card', "UNKNOWN"}
      BY <1>0, <2>0, <2>2, GetUICCTypeStep
    <2>4. SimTypeOK'
      BY <1>0, <2>2, <2>3 DEF SimTypeOK
    <2>5. SimAnswersTrue'
      BY <1>0, <2>1, <2>3, FileIsConverted DEF SimAnswersTrue, Reply
    <2> QED
      BY <2>4, <2>5 DEF SimInv
  <1>3. CASE GetSimStatus
    <2>1. PICK said \in CpinAnswers :
             LET status == IF radioOn THEN SimStatus(said) ELSE "SIM_NOT_READY" IN
             /\ Reply("GET_SIM_STATUS", "SUCCESS", lock, CardStatus(status))
             /\ \/ status = "SIM_ABSENT" /\ UNCHANGED UiccType
                \/ status # "SIM_ABSENT" /\ \E type \in {"SIM", "USIM", "UNKNOWN"} : GetUICCType(type)
             /\ UNCHANGED <<card, lock, tries, pinOn, radioOn>>
      BY <1>3 DEF GetSimStatus
    <2>2. UiccType' \in {card', "UNKNOWN"}
      BY <1>0, <2>1, GetUICCTypeStep DEF SimTypeOK
    <2>3. SimTypeOK'
      BY <1>0, <2>1, <2>2 DEF SimTypeOK
    <2>4. CardStatus("SIM_NOT_READY") = "DETECTED"
      BY DEF CardStatus, AppState
    <2>5. /\ reply'.request = "GET_SIM_STATUS" /\ reply'.said = lock
          /\ reply'.told \in Shown[lock] \cup {"DETECTED"}
      BY <1>0, <2>1, <2>4, StatusShown DEF Reply
    <2> QED
      BY <2>3, <2>5 DEF SimInv, SimAnswersTrue
  <1>4. ASSUME NEW right \in BOOLEAN, EnterSimPin(right) PROVE SimInv'
    <2>1. lock' \in Locks /\ tries' \in 0 .. PinTries - 1
      BY <1>0, <1>4, VerifyType DEF EnterSimPin, SimTypeOK
    <2>2. reply'.request = "ENTER_SIM_PIN" /\ UNCHANGED <<card, pinOn, UiccType, radioOn>>
      <3>1. PICK e, s : Reply("ENTER_SIM_PIN", e, s, "none")
        BY <1>4 DEF EnterSimPin
      <3>2. UNCHANGED <<card, pinOn, UiccType, radioOn>>
        BY <1>4 DEF EnterSimPin
      <3>3. reply'.request = "ENTER_SIM_PIN"
        BY <3>1 DEF Reply
      <3> QED
        BY <3>2, <3>3
    <2> QED
      BY <1>0, <2>1, <2>2 DEF SimInv, SimTypeOK, SimAnswersTrue
  <1>5. ASSUME NEW right \in BOOLEAN, ChangePassword(right) PROVE SimInv'
    <2>1. lock' \in Locks /\ tries' \in 0 .. PinTries - 1
      BY <1>0, <1>5, VerifyType DEF ChangePassword, SimTypeOK
    <2>2. /\ UNCHANGED <<card, pinOn, UiccType, radioOn>>
          /\ reply'.request = "CHANGE_SIM_PIN"
          /\ reply'.errno = "SUCCESS" => reply'.said = "OK"
          /\ reply'.errno = "PASSWORD_INCORRECT" => reply'.said = "CME"
      <3>1. lock = "READY" /\ Verify(right) => right \/ lock' \in {"READY", "PUK"}
        BY DEF Verify
      <3>a. \/ right /\ Reply("CHANGE_SIM_PIN", "SUCCESS", "OK", "none")
            \/ Reply("CHANGE_SIM_PIN", "PASSWORD_INCORRECT", "CME", "none")
            \/ Reply("CHANGE_SIM_PIN", "GENERIC_FAILURE", "CME PUK", "none")
            \/ Reply("CHANGE_SIM_PIN", "GENERIC_FAILURE", "ERROR", "none")
        <4>1. CASE Reply("CHANGE_SIM_PIN", "GENERIC_FAILURE", "ERROR", "none")
          BY <4>1
        <4>2. CASE right /\ Reply("CHANGE_SIM_PIN", "SUCCESS", "OK", "none")
          BY <4>2
        <4>3. CASE ~right /\ lock' = "READY" /\ Reply("CHANGE_SIM_PIN", "PASSWORD_INCORRECT", "CME", "none")
          BY <4>3
        <4>4. CASE ~right /\ lock' = "PUK" /\ Reply("CHANGE_SIM_PIN", "GENERIC_FAILURE", "CME PUK", "none")
          BY <4>4
        <4> QED
          BY <1>5, <3>1, <4>1, <4>2, <4>3, <4>4, Zenon DEF ChangePassword
      <3>2. PICK e, s : /\ Reply("CHANGE_SIM_PIN", e, s, "none")
                        /\ e = "SUCCESS" => s = "OK"
                        /\ e = "PASSWORD_INCORRECT" => s = "CME"
        BY <3>a, "SUCCESS" # "PASSWORD_INCORRECT", "GENERIC_FAILURE" # "SUCCESS",
           "GENERIC_FAILURE" # "PASSWORD_INCORRECT", Zenon
      <3>3. UNCHANGED <<card, pinOn, UiccType, radioOn>>
        BY <1>5 DEF ChangePassword
      <3>4. reply' = [request |-> "CHANGE_SIM_PIN", errno |-> e, said |-> s, told |-> "none"]
        BY <3>2 DEF Reply
      <3> QED
        BY <3>2, <3>3, <3>4
    <2> QED
      BY <1>0, <2>1, <2>2 DEF SimInv, SimTypeOK, SimAnswersTrue
  <1>6. ASSUME NEW mode \in BOOLEAN, NEW right \in BOOLEAN, SetFacilityLock(mode, right)
        PROVE  SimInv'
    <2>1. lock' \in Locks /\ tries' \in 0 .. PinTries - 1
      BY <1>0, <1>6, VerifyType DEF SetFacilityLock, SimTypeOK
    <2>2. /\ pinOn' \in {mode, pinOn} /\ UNCHANGED <<card, UiccType, radioOn>>
          /\ reply'.request = "SET_FACILITY_LOCK"
          /\ reply'.errno = "SUCCESS" => reply'.said = "OK"
          /\ reply'.errno = "PASSWORD_INCORRECT" => reply'.said = "CME"
      BY <1>6 DEF SetFacilityLock, Reply
    <2> QED
      BY <1>0, <2>1, <2>2 DEF SimInv, SimTypeOK, SimAnswersTrue
  <1>7. CASE QueryFacilityLock
    <2>1. /\ UNCHANGED <<card, lock, tries, pinOn, UiccType, radioOn>>
          /\ reply'.request = "QUERY_FACILITY_LOCK"
      BY <1>7 DEF QueryFacilityLock, Reply
    <2> QED
      BY <1>0, <2>1 DEF SimInv, SimTypeOK, SimAnswersTrue
  <1>8. CASE UNCHANGED simVars
    BY <1>0, <1>8 DEF simVars, SimInv, SimTypeOK, SimAnswersTrue
  <1> QED
    BY <1>1, <1>2, <1>3, <1>4, <1>5, <1>6, <1>7, <1>8 DEF SimNext

(* Whatever the RIL knows of the card, requestSIM_IO() never gives a 3G     *)
(* description of a file, getCardStatus() shows the lock the card has, and  *)
(* a password is reported as taken or wrong only if the card says so.       *)
THEOREM CardToldTruly == SimSpec => [](SimTypeOK /\ SimAnswersTrue)
  <1>1. SimInit => SimInv
    BY SimAssumption DEF SimInit, SimInv, SimTypeOK, SimAnswersTrue, NoReply, Locks
  <1>2. SimInv => SimTypeOK /\ SimAnswersTrue
    BY DEF SimInv
  <1> QED
    BY <1>1, <1>2, SimStep, PTL DEF SimSpec
=============================================================================
