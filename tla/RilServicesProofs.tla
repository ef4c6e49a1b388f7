-------------------------- MODULE RilServicesProofs --------------------------
(****************************************************************************)
(* The services of the RIL together (MCRilServices): a behaviour of it is   *)
(* one of each part, or of one that stays where it is, so that what is      *)
(* proved of each holds of it (ServicesProofs, EventListProofs,             *)
(* LinesProofs).                                                            *)
(****************************************************************************)
EXTENDS MCRilServices, ServicesProofs, EventListProofs, LinesProofs, TLAPS

(* A step of the composition is a step of each part, or leaves it alone.    *)
LEMMA EachServiceMoves ==
    ASSUME [Next]_vars
    PROVE  /\ [SmsNext]_smsVars /\ [EventNext]_eventVars /\ [ReportNext]_reportVars
           /\ [CallNext]_callVars /\ [DataNext]_dataVars /\ [SimNext]_simVars
           /\ [NetworkNext]_networkVars /\ [MessagingNext]_messageVars
  BY Zenon DEF Next, Runs, Still, vars

(* So its behaviours are behaviours of each. *)
LEMMA EachServiceAlone ==
    Spec => SmsSpec /\ EventSpec /\ ReportSpec /\ CallSpec /\ DataSpec /\ SimSpec
  <1>1. Init => /\ SmsInit /\ EventInit /\ ReportInit /\ CallInit /\ DataInit /\ SimInit
    BY DEF Init
  <1>2. [Next]_vars => /\ [SmsNext]_smsVars /\ [EventNext]_eventVars /\ [ReportNext]_reportVars
                       /\ [CallNext]_callVars /\ [DataNext]_dataVars /\ [SimNext]_simVars
    BY EachServiceMoves
  <1> QED
    BY <1>1, <1>2, PTL DEF Spec, SmsSpec, EventSpec, ReportSpec, CallSpec, DataSpec, SimSpec

(* The network, the service centre and the cell broadcasts.                 *)
LEMMA LinesInvariant == Spec => [](NetworkInv /\ CentreInv /\ BroadcastInv)
  <1>1. Init => NetworkInv /\ CentreInv /\ BroadcastInv
    BY NetworkBegins, CentreBegins, BroadcastBegins DEF Init
  <1>2. NetworkInv /\ CentreInv /\ BroadcastInv /\ [Next]_vars
           => NetworkInv' /\ CentreInv' /\ BroadcastInv'
    <2>1. ASSUME NetworkInv, CentreInv, BroadcastInv, [NetworkNext]_networkVars,
                 [MessagingNext]_messageVars
          PROVE  NetworkInv' /\ CentreInv' /\ BroadcastInv'
      BY <2>1, NetworkKept, CentreKeptStep, BroadcastKept
    <2> QED
      BY <2>1, EachServiceMoves
  <1> QED
    BY <1>1, <1>2, PTL DEF Spec

(* Every variable of every service keeps its type: for any PDUs, tokens,    *)
(* calls, turns and tries, and any bound of the model.                      *)
THEOREM ServiceTypesCorrect == Spec => []TypeOK
  <1>1. NetworkInv /\ CentreInv /\ BroadcastInv => NetworkTypeOK /\ MessagingTypeOK
    BY DEF NetworkInv, CentreInv
  <1>2. EInv => EventTypeOK
    BY DEF EInv
  <1>3. SmsTypeOK /\ EventTypeOK /\ ReportTypeOK /\ CallTypeOK /\ DataTypeOK /\ SimTypeOK
           /\ NetworkTypeOK /\ MessagingTypeOK => TypeOK
    BY DEF TypeOK
  <1> QED
    BY <1>1, <1>2, <1>3, EachServiceAlone, LinesInvariant, SmsTypeCorrect, EventInvariant,
       ReportTypeCorrect, CallTypeCorrect, DataTypeCorrect, CardToldTruly, PTL

(* The RIL reads the lines of the modem rightly: whichever of its forms a   *)
(* line has, the framework is told what the modem knows of its place, its   *)
(* contexts and its type (the handlers of NetworkInfo); a message without   *)
(* an address goes to the service centre the modem has, however many digits *)
(* its number has; and the ranges of cell broadcasts are read back as they  *)
(* were stored, as far as there is room for them, however many there are.   *)
(* What was set or stored is the last that succeeded, or what a failed      *)
(* command, a reopened channel (AT^SYSCFG) or a SIM that is ready (AT+CSCB) *)
(* may have put in its place since.                                         *)
THEOREM LinesAlwaysRead == Spec => []LinesRead
  <1>1. NetworkInv /\ CentreInv /\ BroadcastInv => LinesRead
    <2> SUFFICES ASSUME NetworkInv, CentreInv, BroadcastInv PROVE LinesRead
      OBVIOUS
    <2>1. NetworkTold
      BY DEF NetworkInv
    <2>2. MessagesTold
      BY DEF CentreInv, BroadcastInv, AddressKept, RangesTold, Taken, MessagesTold
    <2> QED
      BY <2>1, <2>2 DEF LinesRead
  <1> QED
    BY <1>1, LinesInvariant, PTL

(* A message without an address of its own goes to the service centre the   *)
(* modem has (requestSendSMS()), however many digits its number has.        *)
THEOREM CentreKept == Spec => []AddressKept
  <1>1. LinesRead => AddressKept
    BY DEF LinesRead, MessagesTold
  <1> QED
    BY <1>1, LinesAlwaysRead, PTL

(* And what is proved of each service alone holds of it among the others:   *)
(* the seven safety properties of RilServices_state and both of its         *)
(* refinements, for all values of the constants.                            *)
THEOREM ServicesSafe ==
    Spec => /\ [](/\ ListSound /\ TokenInOnePlace /\ TunnelForCalls /\ SimAnswersTrue
                  /\ StaysNotified /\ FreshAddress /\ LinesRead)
            /\ DeliveryPromise /\ ListIsQueue
  BY EachServiceAlone, SmsImplementsDelivery, ListNeverDangles, ListImplementsQueue, PollsKeepTokens,
     TunnelOnlyForCalls, CardToldTruly, ReportsStayOn, AddressIsFresh, LinesAlwaysRead, PTL
=============================================================================
