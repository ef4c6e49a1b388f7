-------------------------- MODULE AtChannelProofs --------------------------
(****************************************************************************)
(* Theorems about AtChannel, for any set of clients and commands and any    *)
(* bounds: every variable keeps its type (TypeOK), the slot of the pending  *)
(* command always has exactly one owner (SlotOwned), and whose lines a      *)
(* command returns (AnswerLag, AnswerComplete, FinalNotUnsolicited), as     *)
(* long as no unsolicited line looks like an answer; and that a message     *)
(* body is sent once (PduOnce).                                             *)
(****************************************************************************)
EXTENDS AtChannel, TLAPS

(* Which thread is where in the code decides who holds which mutex. This is *)
(* what makes SlotOwned inductive: the slot may be taken only at "trylock", *)
(* with commandmutex held, and there it is free only if no other thread is  *)
(* between taking and clearing it.                                          *)
MutexInv ==
    /\ \A c \in Clients : commandmutex = c <=> pc[c] \in CriticalLabels
    /\ \A c \in Clients : requestmutex = c <=> pc[c] \in OwnerLabels

(* strbuf holds a line from the moment a formatted command passes Lock. *)
BufferInv ==
    \A c \in Clients :
        /\ pc[c] \in {"trylock", "requestwait", "requestwoken", "writeline", "write"}
        /\ command[c].formatted
        => strbuf # None

(* The reader processes a line only when it has one. *)
LineInv == readerPc = "process" => line # None

IInv == TypeOK /\ MutexInv /\ SlotOwned /\ BufferInv /\ LineInv

-----------------------------------------------------------------------------
LEMMA ReverseType ==
    ASSUME NEW S, NEW s \in Seq(S)
    PROVE  Reverse(s) \in Seq(S)
  BY DEF Reverse

LEMMA ConsType ==
    ASSUME NEW S, NEW s \in Seq(S), NEW e \in S
    PROVE  Cons(e, s) \in Seq(S)
  BY DEF Cons

LEMMA HandshakeType == Handshake \in CommandType /\ ~Handshake.formatted
  BY ConstantsAssumption DEF Handshake, CommandType, ATCommandTypes

LEMMA CommandsType == Commands \cup {Handshake} \subseteq CommandType
  BY ConstantsAssumption, HandshakeType

LEMMA NewResponseType == NewResponse \in ResponseType /\ NewResponse # None
  <1>1. NewResponse \in ResponseType
    BY DEF NewResponse, ResponseType
  <1> QED
    BY <1>1, NoneAssumption

-----------------------------------------------------------------------------
LEMMA InitInv == Init => IInv
  <1> SUFFICES ASSUME Init PROVE IInv
    OBVIOUS
  <1>1. NoOut \in OutType
    BY DEF NoOut, OutType, Errors, ATCommandTypes
  <1>2. Idle \in [phase : {"idle", "prompt", "pdu", "run"}, id : Nat,
                  cmd : Commands \cup {Handshake}, n : Nat]
    BY DEF Idle
  <1>3. TypeOK
    <2>1. [c \in Clients |-> "NOERROR"] \in [Clients -> Errors]
      BY DEF Errors
    <2>2. [c \in Clients |-> "idle"] \in [Clients -> Labels]
      BY DEF Labels
    <2>3. input \in Seq(LineType) /\ toModem \in Seq(ModemItems)
      BY DEF Init
    <2>4. "none" \in LinePrefixes /\ "NO_RESULT" \in ATCommandTypes
          /\ "readline" \in ReaderLabels
      BY ConstantsAssumption DEF ATCommandTypes, ReaderLabels
    <2> QED
      BY <1>1, <1>2, <2>1, <2>2, <2>3, <2>4 DEF Init, TypeOK, SlotTypes, ClientTypes, ReaderTypes, ModemTypes
  <1>4. MutexInv /\ SlotOwned /\ BufferInv /\ LineInv
    BY ConstantsAssumption
    DEF Init, MutexInv, SlotOwned, BufferInv, LineInv, CriticalLabels, OwnerLabels
  <1> QED
    BY <1>3, <1>4 DEF IInv

LEMMA MutexStep ==
    ASSUME IInv, NEW c \in Clients, ClientStep(c)
    PROVE  MutexInv' /\ SlotOwned'
  <1> DEFINE Types == /\ commandmutex \in Clients \cup {None}
                      /\ requestmutex \in Clients \cup {None}
                      /\ pc \in [Clients -> Labels]
                      /\ err \in [Clients -> Errors]
                      /\ None \notin Clients
  <1>0. Types /\ MutexInv /\ SlotOwned /\ NewResponse # None
    BY ConstantsAssumption, NewResponseType DEF IInv, TypeOK, SlotTypes, ClientTypes, ReaderTypes, ModemTypes
  <1> USE <1>0 DEF MutexInv, SlotOwned, CriticalLabels, OwnerLabels, Goto, slotVars
  <1>1. CASE Lock(c) BY <1>1 DEF Lock
  <1>2. CASE RequestBusy(c) BY <1>2 DEF RequestBusy
  <1>3. CASE RequestWoken(c) BY <1>3 DEF RequestWoken
  <1>4. CASE TakeSlot(c)
    <2>1. response = None
      BY <1>4 DEF TakeSlot
    <2>2. /\ requestmutex' = c /\ commandmutex' = commandmutex
          /\ err' = [err EXCEPT ![c] = "NOERROR"]
          /\ response' = NewResponse
          /\ pc' = [pc EXCEPT ![c] = "writeline"]
          /\ pc[c] = "trylock" /\ requestmutex = None
      BY <1>4, <2>1 DEF TakeSlot
    <2>3. MutexInv'
      BY <2>2
    <2>4. SlotOwned'
      BY <2>2, <2>3
    <2> QED BY <2>3, <2>4
  <1>5. CASE WritelineCheck(c) BY <1>5 DEF WritelineCheck
  <1>6. CASE Write(c) BY <1>6 DEF Write
  <1>7. CASE Await(c)
    <2>1. /\ pc[c] = "await"
          /\ UNCHANGED <<requestmutex, response, err>>
          /\ \/ commandmutex' = None /\ pc' = [pc EXCEPT ![c] = "commandwait"]
             \/ commandmutex' = commandmutex /\ pc' = [pc EXCEPT ![c] = "finally"]
      BY <1>7 DEF Await
    <2> QED BY <2>1
  <1>8. CASE CommandWoken(c) BY <1>8 DEF CommandWoken
  <1>9. CASE Timeout(c) BY <1>9 DEF Timeout
  <1>10. CASE TimedOut(c) BY <1>10 DEF TimedOut
  <1>11. CASE HandshakeRetry(c) BY <1>11 DEF HandshakeRetry, ReleaseSlot, BroadcastRequest
  <1>12. CASE HandshakeAnswered(c) BY <1>12 DEF HandshakeAnswered, ReleaseSlot, BroadcastRequest
  <1>13. CASE HandshakePause(c) BY <1>13 DEF HandshakePause, EndCall
  <1>14. CASE Return(c) BY <1>14 DEF Return, EndCall, ReleaseSlot, BroadcastRequest
  <1>15. CASE OnTimeout(c) BY <1>15 DEF OnTimeout
  <1>16. CASE CloseSignal(c) BY <1>16 DEF CloseSignal, SignalCommand, Waiting
  <1> QED
    BY <1>1, <1>2, <1>3, <1>4, <1>5, <1>6, <1>7, <1>8, <1>9, <1>10, <1>11, <1>12,
       <1>13, <1>14, <1>15, <1>16 DEF ClientStep

(* What processLine() does to the slot: a response stays a response. *)
LEMMA ProcessLineSlot ==
    ASSUME IInv, ProcessLine
    PROVE  /\ response' \in {None} \cup ResponseType
           /\ response = None <=> response' = None
           /\ smsPDU' \in BOOLEAN
  <1>1. line \in LineType /\ smsPDU \in BOOLEAN /\ response \in {None} \cup ResponseType
    BY DEF IInv, TypeOK, SlotTypes, ClientTypes, ReaderTypes, ModemTypes, LineInv, ProcessLine
  <1>2. CASE response = None
    BY <1>2, <1>1 DEF ProcessLine, HandleUnsolicited
  <1>3. CASE response # None
    <2>1. response \in ResponseType
      BY <1>1, <1>3
    <2>2. HandleUnsolicited => response' = response /\ smsPDU' = smsPDU
      BY DEF HandleUnsolicited
    <2>3. HandleFinalResponse => response' \in ResponseType /\ smsPDU' = smsPDU
      BY <2>1, <1>1 DEF HandleFinalResponse, ResponseType
    <2>4. HandlePrompt => response' \in ResponseType /\ smsPDU' = FALSE
      BY <2>1 DEF HandlePrompt, ResponseType
    <2>5. AddIntermediate => response' \in ResponseType /\ smsPDU' = smsPDU
      <3>1. Cons(line, response.inter) \in Seq(LineType)
        BY <2>1, <1>1, ConsType DEF ResponseType
      <3> QED
        BY <3>1, <2>1 DEF AddIntermediate, ResponseType
    <2>6. HandleUnsolicited \/ HandleFinalResponse \/ HandlePrompt \/ AddIntermediate
      BY <1>3 DEF ProcessLine
    <2> QED
      BY <2>1, <2>2, <2>3, <2>4, <2>5, <2>6, <1>1, <1>3, NoneAssumption
  <1> QED
    BY <1>2, <1>3

(* Calls, at_close(), the reader and the modem leave the mutexes alone.     *)
LEMMA MutexOther ==
    ASSUME IInv,
           \/ \E c \in Clients : Call(c) \/ CloseFd(c)
           \/ ReaderStep \/ ModemStep \/ UNCHANGED vars
    PROVE  MutexInv' /\ SlotOwned'
  <1> DEFINE Types == /\ commandmutex \in Clients \cup {None}
                      /\ requestmutex \in Clients \cup {None}
                      /\ pc \in [Clients -> Labels]
                      /\ response \in {None} \cup ResponseType
                      /\ err \in [Clients -> Errors]
                      /\ None \notin Clients
  <1>0. Types /\ MutexInv /\ SlotOwned /\ None \notin ResponseType
    BY ConstantsAssumption, NoneAssumption DEF IInv, TypeOK, SlotTypes, ClientTypes, ReaderTypes, ModemTypes
  <1> USE <1>0 DEF MutexInv, SlotOwned, CriticalLabels, OwnerLabels
  <1>1. CASE \E c \in Clients : Call(c) \/ CloseFd(c)
    BY <1>1 DEF Call, CloseFd, Goto, slotVars
  <1>2. CASE ReadLine \/ ReadLine2 \/ ReadNull \/ ReaderClosedCheck \/ ReaderCloseFd
    BY <1>2 DEF ReadLine, ReadLine2, ReadNull, ReaderClosedCheck, ReaderCloseFd,
                slotVars, clientVars
  <1>3. CASE ReaderClosedSet \/ ReaderCloseSignal
    BY <1>3 DEF ReaderClosedSet, ReaderCloseSignal, SignalCommand, Waiting, slotVars
  <1>4. CASE ProcessLine
    <2>1. /\ UNCHANGED <<commandmutex, requestmutex, err>>
          /\ pc' = pc \/ \E d \in Clients : pc[d] = "commandwait" /\
                                        pc' = [pc EXCEPT ![d] = "commandwoken"]
      BY <1>4 DEF ProcessLine, HandleUnsolicited, HandleFinalResponse, HandlePrompt,
                  AddIntermediate, SignalCommand, Waiting
    <2> QED
      BY <2>1, <1>4, ProcessLineSlot
  <1>5. CASE ModemStep
    BY <1>5 DEF ModemStep, slotVars, clientVars
  <1>6. CASE UNCHANGED vars
    BY <1>6 DEF vars, slotVars, clientVars
  <1> QED
    BY <1>1, <1>2, <1>3, <1>4, <1>5, <1>6 DEF ReaderStep

(* strbuf never goes back to None, and Lock fills it for a formatted line.  *)
LEMMA BufferStep ==
    ASSUME IInv, [Next]_vars
    PROVE  BufferInv'
  <1> DEFINE Types == /\ pc \in [Clients -> Labels]
                      /\ command \in [Clients -> Commands \cup {Handshake}]
                      /\ Handshake.formatted = FALSE
  <1>0. Types /\ BufferInv
    BY HandshakeType DEF IInv, TypeOK, SlotTypes, ClientTypes, ReaderTypes, ModemTypes
  <1> USE <1>0 DEF BufferInv, Goto
  <1>1. CASE \E c \in Clients : Call(c) \/ CloseFd(c)
    BY <1>1 DEF Call, CloseFd
  <1>2. ASSUME NEW c \in Clients, Lock(c) PROVE BufferInv'
    <2>1. strbuf' = strbuf \/ strbuf' \in TextType
      BY <1>2, HandshakeType DEF Lock, TextType
    <2>2. command[c].formatted => strbuf' \in TextType
      BY <1>2, HandshakeType DEF Lock, TextType
    <2>3. pc' = [pc EXCEPT ![c] = "trylock"] /\ command' = command
      BY <1>2 DEF Lock
    <2> QED
      BY <2>1, <2>2, <2>3, NoneAssumption
  <1>3. ASSUME NEW c \in Clients,
               RequestBusy(c) \/ RequestWoken(c) \/ TakeSlot(c) \/ WritelineCheck(c)
        PROVE  BufferInv'
    BY <1>3 DEF RequestBusy, RequestWoken, TakeSlot, WritelineCheck
  <1>4. ASSUME NEW c \in Clients,
               \/ Write(c) \/ Await(c) \/ CommandWoken(c) \/ Timeout(c) \/ TimedOut(c)
               \/ OnTimeout(c)
        PROVE  BufferInv'
    BY <1>4 DEF Write, Await, CommandWoken, Timeout, TimedOut, OnTimeout
  <1>5. ASSUME NEW c \in Clients, HandshakeRetry(c) \/ HandshakeAnswered(c)
        PROVE  BufferInv'
    <2>1. /\ UNCHANGED <<command, strbuf>> /\ command[c] = Handshake
          /\ BroadcastRequest(c, "trylock") \/ BroadcastRequest(c, "pause")
      BY <1>5 DEF HandshakeRetry, HandshakeAnswered
    <2>2. ~command'[c].formatted
      BY <2>1
    <2>3. ASSUME NEW d \in Clients, d # c
          PROVE  pc'[d] = pc[d] \/ pc[d] = "requestwait"
      BY <2>1, <2>3 DEF BroadcastRequest
    <2>4. ASSUME NEW d \in Clients, command'[d].formatted,
                 pc'[d] \in {"trylock", "requestwait", "requestwoken", "writeline", "write"}
          PROVE  strbuf # None
      <3>1. d # c /\ command[d].formatted
        BY <2>1, <2>2, <2>4
      <3>2. pc[d] \in {"trylock", "requestwait", "requestwoken", "writeline", "write"}
        BY <2>3, <2>4, <3>1
      <3> QED
        BY <3>1, <3>2
    <2> QED
      BY <2>1, <2>4
  <1>6. ASSUME NEW c \in Clients, HandshakePause(c) \/ Return(c)
        PROVE  BufferInv'
    BY <1>6 DEF HandshakePause, Return, BroadcastRequest, EndCall
  <1>7. ASSUME NEW c \in Clients, CloseSignal(c)
        PROVE  BufferInv'
    BY <1>7 DEF CloseSignal, SignalCommand, Waiting
  <1>8. CASE ReadLine \/ ReadLine2 \/ ReadNull \/ ReaderClosedCheck \/ ReaderCloseFd
    BY <1>8 DEF ReadLine, ReadLine2, ReadNull, ReaderClosedCheck, ReaderCloseFd, clientVars
  <1>9. CASE ReaderClosedSet \/ ReaderCloseSignal \/ ProcessLine
    BY <1>9 DEF ReaderClosedSet, ReaderCloseSignal, ProcessLine, HandleUnsolicited,
                HandleFinalResponse, HandlePrompt, AddIntermediate, SignalCommand, Waiting
  <1>10. CASE ModemStep
    BY <1>10 DEF ModemStep, clientVars
  <1>11. CASE UNCHANGED vars
    BY <1>11 DEF vars, clientVars
  <1> QED
    BY <1>1, <1>2, <1>3, <1>4, <1>5, <1>6, <1>7, <1>8, <1>9, <1>10, <1>11
    DEF Next, ClientStep, ReaderStep

-----------------------------------------------------------------------------
(* Types, for each group of actions: which groups of variables an action    *)
(* leaves alone, and the types of those it changes.                         *)

LEMMA TypeClient ==
    ASSUME IInv, NEW c \in Clients,
           \/ Call(c) \/ CloseFd(c) \/ Lock(c) \/ RequestBusy(c) \/ RequestWoken(c)
           \/ TakeSlot(c) \/ WritelineCheck(c) \/ Await(c) \/ CommandWoken(c)
           \/ Timeout(c) \/ TimedOut(c) \/ CloseSignal(c)
    PROVE  TypeOK'
  <1>0. SlotTypes /\ ClientTypes /\ ReaderTypes /\ ModemTypes
    BY DEF IInv, TypeOK
  <1>1. ReaderTypes' /\ ModemTypes'
    BY <1>0 DEF ReaderTypes, ModemTypes, readerVars, modemVars, Call, CloseFd, Lock,
       RequestBusy, RequestWoken, TakeSlot, WritelineCheck, Await, CommandWoken, Timeout,
       TimedOut, CloseSignal
  <1>2. CASE Call(c)
    <2>1. NoOut \in OutType
      BY DEF NoOut, OutType, Errors, ATCommandTypes
    <2>2. command' \in [Clients -> Commands \cup {Handshake}]
      BY <1>0, <1>2 DEF Call, ClientTypes
    <2>3. ClientTypes'
      BY <1>0, <1>2, <2>1, <2>2 DEF Call, ClientTypes, Goto, Labels, history
    <2>4. SlotTypes'
      BY <1>0, <1>2 DEF Call, SlotTypes, slotVars
    <2> QED
      BY <1>1, <2>3, <2>4 DEF TypeOK
  <1>3. CASE CloseFd(c) \/ CloseSignal(c)
    <2>1. pc' \in [Clients -> Labels]
      BY <1>0, <1>3 DEF CloseFd, CloseSignal, SignalCommand, Waiting, ClientTypes, Goto,
                        Labels, OwnerLabels
    <2>2. ClientTypes'
      BY <1>0, <1>3, <2>1 DEF CloseFd, CloseSignal, ClientTypes, history
    <2>3. SlotTypes'
      BY <1>0, <1>3 DEF CloseFd, CloseSignal, SlotTypes, slotVars
    <2> QED
      BY <1>1, <2>2, <2>3 DEF TypeOK
  <1>4. CASE Lock(c)
    <2>1. strbuf' \in {None} \cup TextType
      BY <1>0, <1>4, HandshakeType DEF Lock, TextType, ClientTypes, SlotTypes
    <2>2. ClientTypes'
      BY <1>0, <1>4 DEF Lock, ClientTypes, Goto, Labels, CriticalLabels, history
    <2>3. SlotTypes'
      BY <1>0, <1>4, <2>1 DEF Lock, SlotTypes, slotVars
    <2> QED
      BY <1>1, <2>2, <2>3 DEF TypeOK
  <1>5. CASE RequestBusy(c) \/ RequestWoken(c) \/ Await(c) \/ CommandWoken(c) \/ Timeout(c)
    <2>1. ClientTypes'
      BY <1>0, <1>5 DEF RequestBusy, RequestWoken, Await, CommandWoken, Timeout,
                        ClientTypes, Goto, Labels, CriticalLabels, OwnerLabels, history
    <2>2. SlotTypes'
      BY <1>0, <1>5 DEF RequestBusy, RequestWoken, Await, CommandWoken, Timeout,
                        SlotTypes, slotVars
    <2> QED
      BY <1>1, <2>1, <2>2 DEF TypeOK
  <1>6. CASE TakeSlot(c)
    <2>1. command[c] \in CommandType
      BY <1>0, CommandsType DEF ClientTypes
    <2>2. /\ type' \in ATCommandTypes /\ responsePrefix' \in LinePrefixes
          /\ smsPDU' \in BOOLEAN /\ response' \in {None} \cup ResponseType
      BY <1>0, <1>6, <2>1, NewResponseType DEF TakeSlot, CommandType, SlotTypes, slotVars
    <2>3. ClientTypes'
      BY <1>0, <1>6 DEF TakeSlot, ClientTypes, Goto, Labels, CriticalLabels, OwnerLabels,
                        Errors, history
    <2>4. SlotTypes'
      BY <1>0, <1>6, <2>2 DEF TakeSlot, SlotTypes
    <2> QED
      BY <1>1, <2>3, <2>4 DEF TypeOK
  <1>7. CASE WritelineCheck(c) \/ TimedOut(c)
    <2>1. ClientTypes'
      BY <1>0, <1>7 DEF WritelineCheck, TimedOut, ClientTypes, Goto, Labels, OwnerLabels,
                        Errors, history
    <2>2. SlotTypes'
      BY <1>0, <1>7 DEF WritelineCheck, TimedOut, SlotTypes, slotVars
    <2> QED
      BY <1>1, <2>1, <2>2 DEF TypeOK
  <1> QED
    BY <1>2, <1>3, <1>4, <1>5, <1>6, <1>7

LEMMA TypeWrite ==
    ASSUME IInv, NEW c \in Clients, Write(c) \/ OnTimeout(c)
    PROVE  TypeOK'
  <1>0. SlotTypes /\ ClientTypes /\ ReaderTypes /\ ModemTypes
    BY DEF IInv, TypeOK
  <1>1. SlotTypes' /\ ReaderTypes'
    BY <1>0 DEF Write, OnTimeout, SlotTypes, ReaderTypes, slotVars, readerVars
  <1>2. CASE Write(c)
    <2> DEFINE text == IF command[c].formatted THEN strbuf
                                               ELSE [by |-> c, cmd |-> command[c]]
               item == [kind |-> "cmd", id |-> lastSerial + 1, prompt |-> 0, by |-> c,
                        text |-> text.by, cmd |-> text.cmd]
    <2>1. text.by \in Clients /\ text.cmd \in Commands \cup {Handshake}
      <3>1. command[c].formatted => strbuf \in TextType
        BY <1>0, <1>2 DEF Write, IInv, BufferInv, SlotTypes
      <3> QED
        BY <1>0, <3>1 DEF TextType, ClientTypes
    <2>2. item \in ModemItems
      BY <1>0, <2>1 DEF ModemItems, ClientTypes
    <2>3. \/ toModem' = toModem \/ toModem' = Append(toModem, item)
      BY <1>2 DEF Write
    <2>4. ModemTypes'
      <3>1. toModem' \in Seq(ModemItems)
        <4>1. toModem \in Seq(ModemItems)
          BY <1>0 DEF ModemTypes
        <4> HIDE DEF item
        <4> QED
          BY <2>2, <2>3, <4>1
      <3> QED
        BY <1>0, <1>2, <3>1 DEF Write, ModemTypes, modemVars
    <2>5. serial' \in [Clients -> Nat] /\ lastSerial' \in Nat
      BY <1>0, <1>2 DEF Write, ClientTypes
    <2>6. err' \in [Clients -> Errors] /\ pc' \in [Clients -> Labels]
      BY <1>0, <1>2 DEF Write, ClientTypes, Errors, Goto, Labels, CriticalLabels
    <2>7. ClientTypes'
      BY <1>0, <1>2, <2>5, <2>6 DEF Write, ClientTypes
    <2> QED
      BY <1>1, <2>4, <2>7 DEF TypeOK
  <1>3. CASE OnTimeout(c)
    <2>1. [kind |-> "esc", id |-> 0, prompt |-> 0, by |-> c, text |-> c,
           cmd |-> Handshake] \in ModemItems
      BY DEF ModemItems
    <2>2. ModemTypes'
      BY <1>0, <1>3, <2>1 DEF OnTimeout, ModemTypes, modemVars
    <2>3. ClientTypes'
      BY <1>0, <1>3 DEF OnTimeout, ClientTypes, Goto, Labels, history
    <2> QED
      BY <1>1, <2>2, <2>3 DEF TypeOK
  <1> QED
    BY <1>2, <1>3

(* What a call returns is well formed.                                      *)
LEMMA OutcomeType ==
    ASSUME IInv, NEW c \in Clients, pc[c] = "finally", NEW e \in Errors
    PROVE  Outcome(c, e) \in OutType
  <1>0. SlotTypes /\ ClientTypes
    BY DEF IInv, TypeOK
  <1>1. response \in ResponseType
    BY <1>0, ConstantsAssumption DEF SlotTypes, IInv, SlotOwned, MutexInv, OwnerLabels
  <1>2. Reverse(response.inter) \in Seq(LineType) /\ response.final \in {None} \cup LineType
    BY <1>1, ReverseType DEF ResponseType
  <1>3. command[c].type \in ATCommandTypes
    BY <1>0, CommandsType DEF ClientTypes, CommandType
  <1>4. WrapperError(c, e) \in Errors
    BY DEF WrapperError, Errors
  <1>5. serial[c] \in Nat
    BY <1>0 DEF ClientTypes
  <1> QED
    BY <1>2, <1>3, <1>4, <1>5 DEF Outcome, OutType

LEMMA TypeFinally ==
    ASSUME IInv, NEW c \in Clients,
           HandshakeRetry(c) \/ HandshakeAnswered(c) \/ HandshakePause(c) \/ Return(c)
    PROVE  TypeOK'
  <1>0. SlotTypes /\ ClientTypes /\ ReaderTypes /\ ModemTypes
    BY DEF IInv, TypeOK
  <1>1. \A label \in Labels : BroadcastRequest(c, label) => pc' \in [Clients -> Labels]
    BY <1>0 DEF BroadcastRequest, Labels, ClientTypes
  <1>2. EndCall(c) => /\ command' \in [Clients -> Commands \cup {Handshake}]
                      /\ err' \in [Clients -> Errors]
                      /\ tries' \in [Clients -> Nat] /\ serial' \in [Clients -> Nat]
    BY <1>0 DEF EndCall, Errors, ClientTypes
  <1>3. ReleaseSlot => /\ type' \in ATCommandTypes /\ responsePrefix' \in LinePrefixes
                       /\ smsPDU' \in BOOLEAN /\ requestmutex' = None /\ response' = None
    BY <1>0, ConstantsAssumption DEF ReleaseSlot, SlotTypes
  <1>4. SlotTypes'
    BY <1>0, <1>3 DEF HandshakeRetry, HandshakeAnswered, HandshakePause, Return, SlotTypes,
                      slotVars
  <1>5. ReaderTypes' /\ ModemTypes'
    BY <1>0 DEF HandshakeRetry, HandshakeAnswered, HandshakePause, Return, ReaderTypes,
                ModemTypes, readerVars, modemVars
  <1>6. CASE HandshakeRetry(c)
    <2>1. pc' \in [Clients -> Labels]
      BY <1>6, <1>1 DEF HandshakeRetry, Labels, CriticalLabels
    <2>2. tries' \in [Clients -> Nat]
      BY <1>0, <1>6 DEF HandshakeRetry, ClientTypes
    <2>3. ClientTypes'
      BY <1>0, <1>6, <2>1, <2>2 DEF HandshakeRetry, ClientTypes, history
    <2> QED
      BY <1>4, <1>5, <2>3 DEF TypeOK
  <1>7. CASE HandshakeAnswered(c)
    <2>1. Outcome(c, "NOERROR") \in OutType
      BY <1>7, OutcomeType DEF HandshakeAnswered, Errors
    <2>2. pc' \in [Clients -> Labels]
      BY <1>7, <1>1 DEF HandshakeAnswered, Labels, CriticalLabels
    <2>3. ClientTypes'
      BY <1>0, <1>7, <2>1, <2>2 DEF HandshakeAnswered, ClientTypes
    <2> QED
      BY <1>4, <1>5, <2>3 DEF TypeOK
  <1>8. CASE HandshakePause(c)
    <2>1. ClientTypes'
      BY <1>0, <1>8, <1>2 DEF HandshakePause, ClientTypes, Goto, Labels, history
    <2> QED
      BY <1>4, <1>5, <2>1 DEF TypeOK
  <1>9. CASE Return(c)
    <2>1. NolockError(c) \in Errors
      BY <1>0 DEF NolockError, Errors, ClientTypes
    <2>2. Outcome(c, NolockError(c)) \in OutType
      BY <1>9, <2>1, OutcomeType DEF Return
    <2>3. pc' \in [Clients -> Labels]
      BY <1>9, <1>1 DEF Return, Labels
    <2>4. ClientTypes'
      BY <1>0, <1>9, <2>2, <2>3, <1>2 DEF Return, ClientTypes, history
    <2> QED
      BY <1>4, <1>5, <2>4 DEF TypeOK
  <1> QED
    BY <1>6, <1>7, <1>8, <1>9

LEMMA TypeReader ==
    ASSUME IInv, ReaderStep
    PROVE  TypeOK' /\ LineInv'
  <1>0. SlotTypes /\ ClientTypes /\ ReaderTypes /\ ModemTypes
    BY DEF IInv, TypeOK
  <1>1. SlotTypes'
    <2>1. CASE ProcessLine
      BY <1>0, <2>1, ProcessLineSlot DEF ProcessLine, SlotTypes
    <2>2. CASE ~ProcessLine
      BY <1>0, <2>2 DEF ReaderStep, ReadLine, ReadLine2, ReadNull, ReaderClosedCheck,
         ReaderClosedSet, ReaderCloseFd, ReaderCloseSignal, SlotTypes, slotVars
    <2> QED
      BY <2>1, <2>2
  <1>2. ClientTypes'
    <2>1. /\ UNCHANGED <<command, err, tries, calls, serial, out, history>>
          /\ pc' = pc \/ \E d \in Clients : pc' = [pc EXCEPT ![d] = "commandwoken"]
      BY DEF ReaderStep, ReadLine, ReadLine2, ReadNull, ReaderClosedCheck, ReaderClosedSet,
         ReaderCloseFd, ReaderCloseSignal, ProcessLine, HandleUnsolicited,
         HandleFinalResponse, HandlePrompt, AddIntermediate, SignalCommand, Waiting,
         clientVars
    <2>2. pc' \in [Clients -> Labels]
      BY <1>0, <2>1 DEF ClientTypes, Labels, OwnerLabels
    <2> QED
      BY <1>0, <2>1, <2>2 DEF ClientTypes, history
  <1>3. input # <<>> => Head(input) \in LineType /\ Tail(input) \in Seq(LineType)
    BY <1>0 DEF ModemTypes
  <1>4. ReaderTypes' /\ LineInv'
    <2>1. CASE ReadLine
      BY <1>0, <1>3, <2>1, NoneAssumption DEF ReadLine, ReaderTypes, ReaderLabels, LineInv
    <2>2. CASE ReadLine2 \/ ReadNull
      BY <1>0, <2>2 DEF ReadLine2, ReadNull, ReaderTypes, ReaderLabels, LineInv
    <2>3. CASE ReaderClosedCheck \/ ReaderClosedSet \/ ReaderCloseFd \/ ReaderCloseSignal
      BY <1>0, <2>3 DEF ReaderClosedCheck, ReaderClosedSet, ReaderCloseFd,
         ReaderCloseSignal, ReaderTypes, ReaderLabels, LineInv
    <2>4. CASE ProcessLine
      BY <1>0, <2>4 DEF ProcessLine, HandleUnsolicited, HandleFinalResponse, HandlePrompt,
         AddIntermediate, ReaderTypes, ReaderLabels, LineInv
    <2> QED
      BY <2>1, <2>2, <2>3, <2>4 DEF ReaderStep
  <1>5. ModemTypes'
    <2>1. CASE ReadLine \/ ReadLine2
      BY <1>0, <1>3, <2>1 DEF ReadLine, ReadLine2, ModemTypes, modemVars
    <2>2. CASE ReadNull \/ ReaderClosedCheck \/ ReaderClosedSet \/ ReaderCloseFd
               \/ ReaderCloseSignal
      BY <1>0, <2>2 DEF ReadNull, ReaderClosedCheck, ReaderClosedSet, ReaderCloseFd,
         ReaderCloseSignal, ModemTypes, modemVars
    <2>3. CASE ProcessLine
      <3> DEFINE item == [kind |-> "pdu", id |-> serial[requestmutex],
                          prompt |-> line.of, by |-> requestmutex,
                          text |-> requestmutex, cmd |-> Handshake]
      <3>1. \/ toModem' = toModem
            \/ response # None /\ toModem' = Append(toModem, item)
        BY <2>3 DEF ProcessLine, HandleUnsolicited, HandleFinalResponse, HandlePrompt,
                    AddIntermediate
      <3>2. response # None => requestmutex \in Clients
        BY <1>0 DEF IInv, SlotOwned, SlotTypes
      <3>3. line \in LineType
        BY <1>0, <2>3 DEF IInv, LineInv, ProcessLine, ReaderTypes
      <3>4. response # None => item \in ModemItems
        BY <1>0, <3>2, <3>3 DEF ModemItems, ClientTypes, LineType
      <3>5. toModem' \in Seq(ModemItems)
        BY <1>0, <3>1, <3>4 DEF ModemTypes
      <3> QED
        BY <1>0, <2>3, <3>5 DEF ProcessLine, ModemTypes, modemVars
    <2> QED
      BY <2>1, <2>2, <2>3 DEF ReaderStep
  <1> QED
    BY <1>1, <1>2, <1>4, <1>5 DEF TypeOK

LEMMA TypeModem ==
    ASSUME IInv, ModemStep
    PROVE  TypeOK'
  <1>0. SlotTypes /\ ClientTypes /\ ReaderTypes /\ ModemTypes
    BY DEF IInv, TypeOK
  <1>1. SlotTypes' /\ ClientTypes' /\ ReaderTypes'
    BY <1>0 DEF ModemStep, SlotTypes, ClientTypes, ReaderTypes, slotVars, clientVars,
                readerVars, history
  <1> DEFINE ModemStates == [phase : {"idle", "prompt", "pdu", "run"}, id : Nat,
                             cmd : Commands \cup {Handshake}, n : Nat]
  <1>2. /\ modem \in ModemStates /\ Idle \in ModemStates
        /\ modem.id \in Nat /\ modem.n + 1 \in Nat /\ modem.cmd.prefix \in LinePrefixes
    BY <1>0, CommandsType DEF ModemTypes, CommandType, Idle
  <1>3. \A lines \in Seq(LineType) : ModemEmits(lines) => input' \in Seq(LineType)
    BY <1>0 DEF ModemEmits, ModemTypes
  <1>4. \A k \in LineKinds, p \in LinePrefixes, i \in Nat, n \in Nat :
            <<Line(k, p, i, n)>> \in Seq(LineType)
    BY DEF Line, LineType
  <1>5. toModem # <<>> => /\ Head(toModem) \in ModemItems
                          /\ Tail(toModem) \in Seq(ModemItems)
    BY <1>0 DEF ModemTypes
  <1>6. CASE ModemRead \/ ModemPdu
    <2>1. toModem' \in Seq(ModemItems)
      BY <1>5, <1>6 DEF ModemRead, ModemPdu
    <2>2. modem' \in ModemStates
      <3>1. CASE ModemRead
        <4>1. /\ Head(toModem).id \in Nat
              /\ Head(toModem).cmd \in Commands \cup {Handshake}
          BY <1>5, <3>1 DEF ModemRead, ModemItems
        <4>2. \A phase \in {"prompt", "run"} :
                [phase |-> phase, id |-> Head(toModem).id, cmd |-> Head(toModem).cmd,
                 n |-> 0] \in ModemStates
          BY <4>1
        <4> QED
          BY <1>2, <3>1, <4>2 DEF ModemRead
      <3>2. CASE ModemPdu
        BY <1>2, <3>2 DEF ModemPdu
      <3> QED
        BY <1>6, <3>1, <3>2
    <2> QED
      BY <1>0, <1>1, <1>6, <2>1, <2>2 DEF ModemRead, ModemPdu, ModemTypes, TypeOK
  <1>7. CASE ModemInfo \/ ModemPrompt \/ ModemFinal
    <2>1. input' \in Seq(LineType)
      <3>1. CASE ModemInfo
        BY <1>2, <1>3, <1>4, <3>1 DEF ModemInfo, LineKinds
      <3>2. CASE ModemPrompt
        BY <1>2, <1>3, <1>4, <3>2, ConstantsAssumption DEF ModemPrompt, LineKinds
      <3>3. CASE ModemFinal
        BY <1>2, <1>3, <1>4, <3>3 DEF ModemFinal, LineKinds
      <3> QED
        BY <1>7, <3>1, <3>2, <3>3
    <2>2. modem' \in ModemStates
      BY <1>2, <1>7 DEF ModemInfo, ModemPrompt, ModemFinal
    <2> QED
      BY <1>0, <1>1, <1>7, <2>1, <2>2 DEF ModemInfo, ModemPrompt, ModemFinal, ModemTypes,
                                          TypeOK
  <1>8. CASE ModemUrc
    <2>1. PICK u \in Urcs :
            ModemEmits(<<Line(u.kind, u.prefix, 0, 0)>> \o
                       (IF u.kind = "sms" THEN <<Line("text", "pdu", 0, 0)>> ELSE <<>>))
      BY <1>8 DEF ModemUrc
    <2>2. u.kind \in LineKinds /\ u.prefix \in LinePrefixes /\ "pdu" \in LinePrefixes
      BY ConstantsAssumption DEF LineKinds
    <2>3. /\ <<Line(u.kind, u.prefix, 0, 0)>> \in Seq(LineType)
          /\ <<Line("text", "pdu", 0, 0)>> \in Seq(LineType)
      BY <1>4, <2>2 DEF LineKinds
    <2>4. <<Line(u.kind, u.prefix, 0, 0)>> \o
          (IF u.kind = "sms" THEN <<Line("text", "pdu", 0, 0)>> ELSE <<>>) \in Seq(LineType)
      BY <2>3
    <2>5. input' \in Seq(LineType)
      BY <1>3, <2>1, <2>4
    <2> QED
      BY <1>0, <1>1, <1>8, <2>5 DEF ModemUrc, ModemTypes, TypeOK
  <1>9. CASE ModemGone
    BY <1>0, <1>1, <1>9 DEF ModemGone, ModemTypes, TypeOK
  <1> QED
    BY <1>6, <1>7, <1>8, <1>9 DEF ModemStep

-----------------------------------------------------------------------------
LEMMA StepInv == IInv /\ [Next]_vars => IInv'
  <1> SUFFICES ASSUME IInv, [Next]_vars PROVE IInv'
    OBVIOUS
  <1>1. MutexInv' /\ SlotOwned'
    BY MutexStep, MutexOther DEF Next
  <1>2. BufferInv'
    BY BufferStep
  <1>3. TypeOK' /\ LineInv'
    <2>1. CASE \E c \in Clients : Call(c) \/ CloseFd(c) \/ ClientStep(c)
      <3>1. PICK c \in Clients : Call(c) \/ CloseFd(c) \/ ClientStep(c)
        BY <2>1
      <3>2. TypeOK'
        BY <3>1, TypeClient, TypeWrite, TypeFinally DEF ClientStep
      <3>3. UNCHANGED <<readerPc, line>>
        BY <3>1 DEF Call, CloseFd, ClientStep, Lock, RequestBusy, RequestWoken, TakeSlot,
           WritelineCheck, Write, Await, CommandWoken, Timeout, TimedOut, HandshakeRetry,
           HandshakeAnswered, HandshakePause, Return, OnTimeout, CloseSignal, readerVars
      <3> QED
        BY <3>2, <3>3 DEF IInv, LineInv
    <2>2. CASE ReaderStep
      BY <2>2, TypeReader
    <2>3. CASE ModemStep
      <3>1. LineInv'
        BY <2>3 DEF ModemStep, readerVars, IInv, LineInv
      <3> QED
        BY <2>3, <3>1, TypeModem
    <2>4. CASE UNCHANGED vars
      BY <2>4 DEF vars, slotVars, clientVars, readerVars, modemVars, history, IInv, TypeOK,
         SlotTypes, ClientTypes, ReaderTypes, ModemTypes, LineInv
    <2> QED
      BY <2>1, <2>2, <2>3, <2>4 DEF Next
  <1> QED
    BY <1>1, <1>2, <1>3 DEF IInv

LEMMA InductiveInvariant == Spec => []IInv
  BY InitInv, StepInv, PTL DEF Spec

(* Every variable of the channel keeps to the values atchannel.c gives it:  *)
(* in particular every call returns one of the channel's own errors, and no *)
(* line is built from an empty strbuf.                                      *)
THEOREM TypeCorrect == Spec => []TypeOK
  <1>1. IInv => TypeOK
    BY DEF IInv
  <1> QED
    BY <1>1, InductiveInvariant, PTL

(* The slot of struct atcontext holds a response exactly while one thread   *)
(* is between the trylock and the finally label of                          *)
(* at_send_command_full_nolock(), for any number of threads; the            *)
(* COMMAND_PENDING path is dead code.                                       *)
THEOREM SlotAlwaysOwned == Spec => []SlotOwned
  <1>1. IInv => SlotOwned
    BY DEF IInv
  <1> QED
    BY <1>1, InductiveInvariant, PTL

-----------------------------------------------------------------------------
(* Whose lines a command returns. Lines are answered in the order in which  *)
(* they were written, so that what is under way (in the reader's hand, in   *)
(* input, in the modem, in toModem) is sorted by the serial number of the   *)
(* command it is about. The oldest of them is late by at most as many       *)
(* commands as there were timeouts.                                         *)

Final(l) == l.kind \in {"final_ok", "final_err"}

(* l may come before m: the answer of an earlier command, or an earlier     *)
(* line of the same answer.                                                 *)
Precedes(l, m) ==
    l.of # 0 /\ m.of # 0 =>
        /\ l.of <= m.of
        /\ l.of = m.of => ~Final(l) /\ (~Final(m) => l.n < m.n)

(* All that the modem has still to say comes after l. *)
Behind(l) ==
    /\ l.of <= lastSerial
    /\ modem.phase # "idle" /\ l.of # 0 =>
          /\ l.of <= modem.id
          /\ l.of = modem.id => ~Final(l) /\ l.n <= modem.n /\ modem.phase # "prompt"
    /\ \A j \in DOMAIN toModem : toModem[j].kind = "cmd" => l.of < toModem[j].id

OrderInv ==
    /\ \A i \in DOMAIN input :
          /\ Behind(input[i])
          /\ \A j \in DOMAIN input : i < j => Precedes(input[i], input[j])
    /\ readerPc = "process" =>
          Behind(line) /\ \A j \in DOMAIN input : Precedes(line, input[j])
    /\ modem.phase # "idle" =>
          /\ modem.id # 0 /\ modem.id <= lastSerial
          /\ \A j \in DOMAIN toModem : toModem[j].kind = "cmd" => modem.id < toModem[j].id
    /\ \A j \in DOMAIN toModem : toModem[j].kind = "cmd" =>
          /\ toModem[j].id # 0 /\ toModem[j].id <= lastSerial
          /\ \A i \in DOMAIN toModem : i < j /\ toModem[i].kind = "cmd"
                => toModem[i].id < toModem[j].id

(* An unsolicited line that a command could take is the second of an SMS    *)
(* report, and is read as such.                                             *)
Loose(l) == l.of = 0 /\ l.kind # "sms" /\ ~Unwanted(l)

UrcInv ==
    /\ \A i \in DOMAIN input :
         /\ input[i].kind = "sms" =>
              i + 1 \in DOMAIN input /\ input[i + 1].kind = "text"
         /\ i > 1 /\ Loose(input[i]) => input[i - 1].kind = "sms"
    /\ readerPc \in {"readline", "process"} /\ input # <<>> => ~Loose(input[1])
    /\ readerPc = "line2" => input # <<>> /\ input[1].kind = "text" /\ line.kind = "sms"
    /\ readerPc = "process" => ~Loose(line) /\ line.kind # "sms"

(* The command in the slot is written and not answered; it is still to be   *)
(* written, and may be.                                                     *)
Waits ==
    /\ requestmutex # None /\ response.final = None
    /\ pc[requestmutex] \in {"await", "commandwait", "commandwoken"}
Writes ==
    /\ requestmutex # None
    /\ \/ pc[requestmutex] = "write"
       \/ pc[requestmutex] = "writeline" /\ ~readerClosed

(* How far behind an answer to command k may be that is still to come: the  *)
(* next command that is written may be late by as many as there were        *)
(* timeouts, and a final response in the slot has used up one of them.      *)
Gap(k) ==
    /\ lastSerial <= k + timeouts
    /\ Waits \/ (readerClosed /\ ~Writes) \/ lastSerial < k + timeouts
    /\ Writes /\ response.final # None => lastSerial + 1 < k + timeouts

LagInv ==
    /\ \A i \in DOMAIN input : input[i].of # 0 => Gap(input[i].of)
    /\ readerPc = "process" /\ line.of # 0 => Gap(line.of)
    /\ modem.phase # "idle" => Gap(modem.id)
    /\ \A j \in DOMAIN toModem : toModem[j].kind = "cmd" => Gap(toModem[j].id)

(* The slot is filled in for its owner, whose line is the last one written. *)
OwnerInv ==
    \A c \in Clients : requestmutex = c =>
        /\ type = command[c].type /\ responsePrefix = command[c].prefix
        /\ pc[c] # "finally" => err[c] = "NOERROR"
        /\ pc[c] = "finally" => err[c] \in {"NOERROR", "TIMEOUT", "CHANNEL_CLOSED", "GENERIC"}
        /\ pc[c] \in {"await", "commandwait", "commandwoken", "timedout"}
              => serial[c] = lastSerial
        /\ pc[c] = "finally" /\ err[c] \in {"NOERROR", "TIMEOUT"} => serial[c] = lastSerial
        /\ pc[c] = "finally" /\ err[c] = "NOERROR" => response.final # None \/ readerClosed

(* A line in the slot is late by at most as many as there were timeouts,    *)
(* also when the command is written only after it came.                     *)
Answers(l) ==
    /\ l.of # 0 /\ l.of <= lastSerial /\ lastSerial <= l.of + timeouts
    /\ Writes => lastSerial < l.of + timeouts

ResponseInv == response # None =>
    /\ response.final # None => Answers(response.final)
    /\ type \in {"SINGLELINE", "NUMERIC"} => Len(response.inter) <= 1
    /\ \A i \in DOMAIN response.inter :
         /\ Answers(response.inter[i]) /\ ~Final(response.inter[i])
         /\ Behind(response.inter[i])
         /\ readerPc = "process" => Precedes(response.inter[i], line)
         /\ \A j \in DOMAIN input : Precedes(response.inter[i], input[j])
         /\ \A j \in DOMAIN response.inter :
               i < j /\ response.inter[i].of = response.inter[j].of
                  => response.inter[j].n < response.inter[i].n

(* What calls have returned. *)
OutInv == AnswerLag /\ AnswerComplete

AInv == OrderInv /\ UrcInv /\ LagInv /\ OwnerInv /\ ResponseInv /\ OutInv

PduInv == response # None => response.pdus <= 1 /\ (smsPDU => response.pdus = 0)

-----------------------------------------------------------------------------
(* Sequences, element by element. *)

LEMMA TailIndex ==
    ASSUME NEW S, NEW s \in Seq(S), s # <<>>
    PROVE  /\ Tail(s) \in Seq(S) /\ Head(s) = s[1] /\ s[1] \in S /\ 1 \in DOMAIN s
           /\ \A i \in DOMAIN Tail(s) : i + 1 \in DOMAIN s /\ Tail(s)[i] = s[i + 1]
           /\ \A i \in DOMAIN s : i # 1 => i - 1 \in DOMAIN Tail(s) /\ Tail(s)[i - 1] = s[i]
  OBVIOUS

LEMMA AppendIndex ==
    ASSUME NEW S, NEW s \in Seq(S), NEW e \in S
    PROVE  /\ Append(s, e) \in Seq(S) /\ Append(s, e) # <<>>
           /\ \A i \in DOMAIN s : /\ i \in Nat /\ 1 <= i /\ i < Len(s) + 1
                                  /\ i \in DOMAIN Append(s, e) /\ Append(s, e)[i] = s[i]
           /\ Len(s) + 1 \in DOMAIN Append(s, e) /\ Append(s, e)[Len(s) + 1] = e
           /\ \A i \in DOMAIN Append(s, e) :
                 i \in DOMAIN s \/ (i = Len(s) + 1 /\ Append(s, e)[i] = e)
  OBVIOUS

LEMMA ConsIndex ==
    ASSUME NEW S, NEW s \in Seq(S), NEW e \in S
    PROVE  /\ Cons(e, s) \in Seq(S) /\ Len(Cons(e, s)) = Len(s) + 1
           /\ \A i \in DOMAIN Cons(e, s) :
                 \/ i = 1 /\ Cons(e, s)[i] = e
                 \/ i > 1 /\ i - 1 \in DOMAIN s /\ Cons(e, s)[i] = s[i - 1]
  BY DEF Cons

LEMMA ReverseIndex ==
    ASSUME NEW S, NEW s \in Seq(S)
    PROVE  /\ Reverse(s) \in Seq(S) /\ Len(Reverse(s)) = Len(s)
           /\ \A i \in DOMAIN Reverse(s) :
                 Len(s) + 1 - i \in DOMAIN s /\ Reverse(s)[i] = s[Len(s) + 1 - i]
  BY DEF Reverse

-----------------------------------------------------------------------------
LEMMA WireTypes ==
    ASSUME IInv
    PROVE  /\ input \in Seq(LineType) /\ toModem \in Seq(ModemItems)
           /\ \A i \in DOMAIN input : input[i] \in LineType
           /\ \A j \in DOMAIN toModem : toModem[j] \in ModemItems
           /\ modem.id \in Nat /\ modem.n \in Nat /\ modem.cmd \in CommandType
           /\ modem \in [phase : {"idle", "prompt", "pdu", "run"}, id : Nat,
                         cmd : Commands \cup {Handshake}, n : Nat]
           /\ lastSerial \in Nat /\ timeouts \in Nat
           /\ readerPc \in {"process", "line2"} => line \in LineType \cup {None}
           /\ readerPc = "process" => line \in LineType
           /\ response # None => response \in ResponseType
  <1>1. /\ input \in Seq(LineType) /\ toModem \in Seq(ModemItems)
        /\ modem \in [phase : {"idle", "prompt", "pdu", "run"}, id : Nat,
                      cmd : Commands \cup {Handshake}, n : Nat]
        /\ lastSerial \in Nat /\ timeouts \in Nat /\ line \in {None} \cup LineType
        /\ readerPc = "process" => line \in LineType
        /\ response # None => response \in ResponseType
    BY DEF IInv, TypeOK, ModemTypes, ClientTypes, ReaderTypes, SlotTypes, LineInv
  <1>2. /\ \A i \in DOMAIN input : input[i] \in LineType
        /\ \A j \in DOMAIN toModem : toModem[j] \in ModemItems
    BY <1>1
  <1>3. modem.id \in Nat /\ modem.n \in Nat /\ modem.cmd \in CommandType
    BY <1>1, CommandsType
  <1> QED
    BY <1>1, <1>2, <1>3

(* What a step may do to the two directions of the tty and to the modem.    *)
LEMMA WireStep ==
    ASSUME IInv, [Next]_vars
    PROVE  \/ /\ UNCHANGED <<modem, lastSerial>>
              /\ input' = input \/ (input # <<>> /\ input' = Tail(input))
              /\ toModem' = toModem \/ \E m \in ModemItems :
                    m.kind # "cmd" /\ toModem' = Append(toModem, m)
           \/ /\ lastSerial' = lastSerial + 1 /\ UNCHANGED <<modem, input, readerPc, line>>
              /\ \/ toModem' = toModem
                 \/ \E m \in ModemItems : /\ m.kind = "cmd" /\ m.id = lastSerial + 1
                                          /\ toModem' = Append(toModem, m)
           \/ ModemStep
  <1>1. ASSUME NEW c \in Clients, Call(c) \/ CloseFd(c) \/ ClientStep(c),
               ~Write(c), ~OnTimeout(c)
        PROVE  UNCHANGED <<modem, lastSerial, input, toModem>>
    BY <1>1 DEF Call, CloseFd, ClientStep, Lock, RequestBusy, RequestWoken, TakeSlot,
       WritelineCheck, Await, CommandWoken, Timeout, TimedOut, HandshakeRetry,
       HandshakeAnswered, HandshakePause, Return, CloseSignal, modemVars, history
  <1>2. ASSUME NEW c \in Clients, OnTimeout(c)
        PROVE  /\ UNCHANGED <<modem, lastSerial, input>>
               /\ toModem' = toModem \/ \E m \in ModemItems :
                    m.kind # "cmd" /\ toModem' = Append(toModem, m)
    <2> DEFINE m == [kind |-> "esc", id |-> 0, prompt |-> 0, by |-> c, text |-> c,
                     cmd |-> Handshake]
    <2>1. m \in ModemItems /\ m.kind # "cmd"
      BY DEF ModemItems
    <2>2. toModem' = toModem \/ toModem' = Append(toModem, m)
      BY <1>2 DEF OnTimeout
    <2> QED
      BY <1>2, <2>1, <2>2 DEF OnTimeout, modemVars, history
  <1>3. ASSUME NEW c \in Clients, Write(c)
        PROVE  /\ UNCHANGED <<modem, input, readerPc, line>>
               /\ \/ UNCHANGED <<lastSerial, toModem>>
                  \/ /\ lastSerial' = lastSerial + 1
                     /\ toModem' = toModem \/ \E m \in ModemItems :
                           /\ m.kind = "cmd" /\ m.id = lastSerial + 1
                           /\ toModem' = Append(toModem, m)
    <2> DEFINE text == IF command[c].formatted THEN strbuf
                                               ELSE [by |-> c, cmd |-> command[c]]
               m == [kind |-> "cmd", id |-> lastSerial + 1, prompt |-> 0, by |-> c,
                     text |-> text.by, cmd |-> text.cmd]
    <2>1. m \in ModemItems /\ m.kind = "cmd" /\ m.id = lastSerial + 1
      <3>0. SlotTypes /\ ClientTypes
        BY DEF IInv, TypeOK
      <3>1. command[c].formatted => strbuf \in TextType
        BY <3>0, <1>3 DEF Write, IInv, BufferInv, SlotTypes
      <3>2. text.by \in Clients /\ text.cmd \in Commands \cup {Handshake}
        BY <3>0, <3>1 DEF TextType, ClientTypes
      <3> QED
        BY <3>0, <3>2 DEF ModemItems, ClientTypes
    <2>2. UNCHANGED <<lastSerial, toModem>>
          \/ /\ lastSerial' = lastSerial + 1
             /\ toModem' = toModem \/ toModem' = Append(toModem, m)
      BY <1>3 DEF Write
    <2> QED
      BY <1>3, <2>1, <2>2 DEF Write, modemVars, readerVars
  <1>4. ASSUME ReaderStep
        PROVE  /\ UNCHANGED <<modem, lastSerial>>
               /\ input' = input \/ (input # <<>> /\ input' = Tail(input))
               /\ toModem' = toModem \/ \E m \in ModemItems :
                    m.kind # "cmd" /\ toModem' = Append(toModem, m)
    <2>1. CASE ProcessLine
      <3> DEFINE m == [kind |-> "pdu", id |-> serial[requestmutex],
                       prompt |-> line.of, by |-> requestmutex,
                       text |-> requestmutex, cmd |-> Handshake]
      <3>1. \/ toModem' = toModem
            \/ response # None /\ toModem' = Append(toModem, m)
        BY <2>1 DEF ProcessLine, HandleUnsolicited, HandleFinalResponse, HandlePrompt,
                    AddIntermediate
      <3>2. response # None => requestmutex \in Clients
        BY DEF IInv, TypeOK, SlotOwned, SlotTypes
      <3>3. line \in LineType
        BY <2>1, WireTypes DEF ProcessLine
      <3>4. response # None => m \in ModemItems /\ m.kind # "cmd"
        BY <3>2, <3>3 DEF ModemItems, ClientTypes, LineType, IInv, TypeOK
      <3> QED
        BY <2>1, <3>1, <3>4 DEF ProcessLine, modemVars, history
    <2>2. CASE ~ProcessLine
      BY <1>4, <2>2 DEF ReaderStep, ReadLine, ReadLine2, ReadNull, ReaderClosedCheck,
         ReaderClosedSet, ReaderCloseFd, ReaderCloseSignal, modemVars, history
    <2> QED
      BY <2>1, <2>2
  <1>5. UNCHANGED vars => UNCHANGED <<modem, lastSerial, input, toModem>>
    BY DEF vars, modemVars, history
  <1> QED
    BY <1>1, <1>2, <1>3, <1>4, <1>5 DEF Next

(* All that the modem has still to say goes on coming after l.              *)
LEMMA BehindStep ==
    ASSUME IInv, OrderInv, [Next]_vars, NEW l \in LineType, Behind(l)
    PROVE  Behind(l)'
  <1>0. l.of \in Nat /\ l.n \in Nat
    BY DEF LineType
  <1>1. CASE /\ UNCHANGED <<modem, lastSerial>>
             /\ toModem' = toModem \/ \E m \in ModemItems :
                  m.kind # "cmd" /\ toModem' = Append(toModem, m)
    <2>1. \A j \in DOMAIN toModem' : toModem'[j].kind = "cmd" =>
             j \in DOMAIN toModem /\ toModem'[j] = toModem[j]
      <3>1. ASSUME NEW m \in ModemItems, m.kind # "cmd", toModem' = Append(toModem, m),
                   NEW j \in DOMAIN toModem', toModem'[j].kind = "cmd"
            PROVE  j \in DOMAIN toModem /\ toModem'[j] = toModem[j]
        <4>1. toModem \in Seq(ModemItems)
          BY WireTypes
        <4>2. j \in DOMAIN toModem \/ toModem'[j] = m
          BY <3>1, <4>1, AppendIndex
        <4> QED
          BY <3>1, <4>1, <4>2, AppendIndex
      <3> QED
        BY <1>1, <3>1
    <2> QED
      BY <1>1, <2>1 DEF Behind
  <1>2. CASE /\ lastSerial' = lastSerial + 1 /\ UNCHANGED modem
             /\ \/ toModem' = toModem
                \/ \E m \in ModemItems : /\ m.kind = "cmd" /\ m.id = lastSerial + 1
                                         /\ toModem' = Append(toModem, m)
    <2>1. \A j \in DOMAIN toModem' : toModem'[j].kind = "cmd" =>
             \/ j \in DOMAIN toModem /\ toModem'[j] = toModem[j]
             \/ toModem'[j].id = lastSerial + 1
      <3>1. ASSUME NEW m \in ModemItems, m.id = lastSerial + 1, toModem' = Append(toModem, m),
                   NEW j \in DOMAIN toModem'
            PROVE  \/ j \in DOMAIN toModem /\ toModem'[j] = toModem[j]
                   \/ toModem'[j].id = lastSerial + 1
        <4>1. toModem \in Seq(ModemItems)
          BY WireTypes
        <4>2. j \in DOMAIN toModem \/ toModem'[j] = m
          BY <3>1, <4>1, AppendIndex
        <4>3. j \in DOMAIN toModem => toModem'[j] = toModem[j]
          BY <3>1, <4>1, AppendIndex
        <4> QED
          BY <3>1, <4>2, <4>3
      <3> QED
        BY <1>2, <3>1
    <2> QED
      BY <1>0, <1>2, <2>1, WireTypes, SMTT(30) DEF Behind
  <1>3. CASE ModemStep
    <2>1. UNCHANGED lastSerial
      BY <1>3 DEF ModemStep, history
    <2>2. CASE ModemRead \/ ModemPdu
      <3>1. toModem # <<>> /\ toModem' = Tail(toModem)
        BY <2>2 DEF ModemRead, ModemPdu
      <3>2. \A j \in DOMAIN toModem' : j + 1 \in DOMAIN toModem /\ toModem'[j] = toModem[j + 1]
        BY <3>1, WireTypes, TailIndex
      <3>3. Head(toModem) = toModem[1] /\ 1 \in DOMAIN toModem
        BY <3>1, WireTypes, TailIndex
      <3>4. modem'.phase # "idle" =>
               \/ Head(toModem).kind = "cmd" /\ modem'.id = Head(toModem).id
               \/ /\ modem.phase # "idle" /\ modem.phase # "prompt"
                  /\ modem'.id = modem.id /\ modem'.n = modem.n /\ modem'.phase # "prompt"
        BY <2>2, WireTypes DEF ModemRead, ModemPdu, Idle
      <3>5. /\ l.of <= lastSerial
            /\ \A j \in DOMAIN toModem' : toModem'[j].kind = "cmd" => l.of < toModem'[j].id
        BY <3>2 DEF Behind
      <3>6. modem'.phase # "idle" /\ l.of # 0 =>
              /\ l.of <= modem'.id
              /\ l.of = modem'.id => ~Final(l) /\ l.n <= modem'.n /\ modem'.phase # "prompt"
        BY <1>0, <3>3, <3>4, WireTypes DEF Behind, ModemItems
      <3> QED
        BY <2>1, <3>5, <3>6 DEF Behind
    <2>3. CASE ModemInfo \/ ModemPrompt \/ ModemFinal \/ ModemUrc \/ ModemGone
      <3>1. /\ UNCHANGED toModem
            /\ modem'.phase # "idle" => /\ modem.phase # "idle" /\ modem'.id = modem.id
                                        /\ modem'.n >= modem.n /\ modem'.n \in Nat
                                        /\ modem'.phase = "prompt" => modem.phase = "prompt"
        <4>1. CASE ModemInfo
          BY <4>1, WireTypes DEF ModemInfo
        <4>2. CASE ModemPrompt
          <5>1. /\ modem.phase = "prompt" /\ UNCHANGED toModem
                /\ modem' = [modem EXCEPT !.phase = "pdu"]
            BY <4>2 DEF ModemPrompt
          <5> QED
            BY <5>1, WireTypes
        <4>3. CASE ModemFinal \/ ModemUrc \/ ModemGone
          BY <4>3, WireTypes DEF ModemFinal, ModemUrc, ModemGone, Idle
        <4> QED
          BY <2>3, <4>1, <4>2, <4>3
      <3> QED
        BY <1>0, <2>1, <3>1, WireTypes DEF Behind
    <2> QED
      BY <1>3, <2>2, <2>3 DEF ModemStep
  <1> QED
    BY <1>1, <1>2, <1>3, WireStep

(* Each line of an answer comes after all that the modem is past.           *)
LEMMA AnswerEmitted ==
    ASSUME IInv, OrderInv, ModemStep, ModemInfo \/ ModemPrompt \/ ModemFinal
    PROVE  \E m \in LineType :
              /\ input' = Append(input, m) /\ UNCHANGED toModem
              /\ m.of = modem.id /\ m.of # 0 /\ m.kind # "sms" /\ modem.phase # "idle"
              /\ \A l \in LineType : Behind(l) => Precedes(l, m)
              /\ Behind(m)'
  <1>0. /\ UNCHANGED <<toModem, lastSerial>> /\ modem.phase # "idle"
        /\ modem.id # 0 /\ modem.id <= lastSerial
        /\ \A j \in DOMAIN toModem : toModem[j].kind = "cmd" => modem.id < toModem[j].id
    BY DEF ModemStep, history, ModemInfo, ModemPrompt, ModemFinal, OrderInv
  <1>1. \A k \in LineKinds, p \in LinePrefixes, n \in Nat :
            /\ Line(k, p, modem.id, n) \in LineType
            /\ Line(k, p, modem.id, n).kind = k /\ Line(k, p, modem.id, n).of = modem.id
            /\ Line(k, p, modem.id, n).n = n
            /\ input \o <<Line(k, p, modem.id, n)>> = Append(input, Line(k, p, modem.id, n))
    BY WireTypes DEF Line, LineType
  <1>2. CASE ModemInfo
    <2>1. PICK m \in LineType : /\ m.kind = "text" /\ m.of = modem.id /\ m.n = modem.n + 1
                               /\ input' = Append(input, m)
      <3>1. modem.n + 1 \in Nat /\ modem.cmd.prefix \in LinePrefixes /\ "text" \in LineKinds
        BY WireTypes DEF CommandType, LineKinds
      <3> QED
        BY <1>1, <1>2, <3>1 DEF ModemInfo, ModemEmits
    <2>2. modem'.id = modem.id /\ modem'.n = modem.n + 1 /\ modem'.phase = "run"
      BY <1>2, WireTypes DEF ModemInfo
    <2>3. \A l \in LineType : Behind(l) => Precedes(l, m)
      BY <1>0, <2>1, WireTypes DEF Behind, Precedes, LineType
    <2>4. Behind(m)'
      BY <1>0, <2>1, <2>2, WireTypes DEF Behind, Final
    <2> QED
      BY <1>0, <2>1, <2>3, <2>4
  <1>3. CASE ModemPrompt
    <2>0. /\ modem.phase = "prompt" /\ modem' = [modem EXCEPT !.phase = "pdu"]
          /\ ModemEmits(<<Line("prompt", "> ", modem.id, 0)>>)
      BY <1>3 DEF ModemPrompt
    <2>1. PICK m \in LineType : /\ m.kind = "prompt" /\ m.of = modem.id /\ m.n = 0
                               /\ input' = Append(input, m)
      <3>1. "> " \in LinePrefixes /\ "prompt" \in LineKinds /\ 0 \in Nat
        BY ConstantsAssumption DEF LineKinds
      <3>2. PICK p \in LinePrefixes : ModemEmits(<<Line("prompt", p, modem.id, 0)>>)
        BY <2>0, <3>1
      <3> DEFINE l == Line("prompt", p, modem.id, 0)
      <3>3. /\ l \in LineType /\ l.kind = "prompt" /\ l.of = modem.id /\ l.n = 0
            /\ input \o <<l>> = Append(input, l)
        <4>1. "prompt" \in LineKinds /\ 0 \in Nat
          BY DEF LineKinds
        <4> QED
          BY <1>1, <4>1
      <3>4. input' = input \o <<l>>
        BY <3>2 DEF ModemEmits
      <3> HIDE DEF l
      <3> QED
        BY <3>3, <3>4
    <2>2. modem'.id = modem.id /\ modem'.n = modem.n /\ modem'.phase = "pdu"
      BY <2>0, WireTypes
    <2>3. \A l \in LineType : Behind(l) => Precedes(l, m)
      BY <1>0, <2>0, <2>1, WireTypes DEF Behind, Precedes, LineType
    <2>4. Behind(m)'
      BY <1>0, <2>1, <2>2, WireTypes DEF Behind, Final
    <2> QED
      BY <1>0, <2>1, <2>3, <2>4
  <1>4. CASE ModemFinal
    <2>1. PICK m \in LineType : /\ Final(m) /\ m.of = modem.id /\ m.n = 0
                               /\ input' = Append(input, m)
      <3>1. PICK kind \in {"final_ok", "final_err"} :
               input' = input \o <<Line(kind, modem.cmd.prefix, modem.id, 0)>>
        BY <1>4 DEF ModemFinal, ModemEmits
      <3>2. modem.cmd.prefix \in LinePrefixes /\ kind \in LineKinds /\ 0 \in Nat
        BY WireTypes DEF CommandType, LineKinds
      <3> QED
        BY <1>1, <3>1, <3>2 DEF Final
    <2>2. modem'.phase = "idle"
      BY <1>4 DEF ModemFinal, Idle
    <2>3. \A l \in LineType : Behind(l) => Precedes(l, m)
      BY <1>0, <2>1, WireTypes DEF Behind, Precedes, LineType
    <2>4. Behind(m)'
      BY <1>0, <2>1, <2>2, WireTypes DEF Behind
    <2> QED
      BY <1>0, <2>1, <2>3, <2>4 DEF Final
  <1> QED
    BY <1>2, <1>3, <1>4

(* An unsolicited line, which is no command's answer.                       *)
LEMMA UrcEmitted ==
    ASSUME IInv, UrcsApart, ModemUrc
    PROVE  \E m \in LineType :
              /\ m.of = 0 /\ ~Loose(m)
              /\ \/ m.kind # "sms" /\ input' = Append(input, m)
                 \/ /\ m.kind = "sms"
                    /\ \E k \in LineType : /\ k.of = 0 /\ k.kind = "text"
                                           /\ input' = Append(Append(input, m), k)
  <1>1. PICK u \in Urcs :
           ModemEmits(<<Line(u.kind, u.prefix, 0, 0)>> \o
                      (IF u.kind = "sms" THEN <<Line("text", "pdu", 0, 0)>> ELSE <<>>))
    BY DEF ModemUrc
  <1> DEFINE m == Line(u.kind, u.prefix, 0, 0)
             k == Line("text", "pdu", 0, 0)
  <1>2. u.kind \in LineKinds /\ u.prefix \in LinePrefixes /\ "pdu" \in LinePrefixes
    BY ConstantsAssumption DEF LineKinds
  <1>3. /\ m \in LineType /\ m.of = 0 /\ m.kind = u.kind /\ m.prefix = u.prefix
        /\ k \in LineType /\ k.of = 0 /\ k.kind = "text"
    BY <1>2 DEF Line, LineType, LineKinds
  <1> HIDE DEF m, k
  <1>4. ~Loose(m)
    BY <1>3 DEF Loose, UrcsApart, Unwanted
  <1>5. CASE u.kind = "sms"
    <2>1. input' = input \o (<<m>> \o <<k>>)
      BY <1>1, <1>5 DEF ModemEmits, m, k
    <2>2. input' = Append(Append(input, m), k)
      BY <1>3, <2>1, WireTypes
    <2> QED
      BY <1>3, <1>4, <1>5, <2>2
  <1>6. CASE u.kind # "sms"
    <2>1. input' = input \o (<<m>> \o <<>>)
      BY <1>1, <1>6 DEF ModemEmits, m
    <2>2. input' = Append(input, m)
      BY <1>3, <2>1, WireTypes
    <2> QED
      BY <1>3, <1>4, <1>6, <2>2
  <1> QED
    BY <1>5, <1>6

(* What is sent to the modem keeps its order: serial numbers grow.          *)
ModemOrder ==
    /\ modem.phase # "idle" =>
          /\ modem.id # 0 /\ modem.id <= lastSerial
          /\ \A j \in DOMAIN toModem : toModem[j].kind = "cmd" => modem.id < toModem[j].id
    /\ \A j \in DOMAIN toModem : toModem[j].kind = "cmd" =>
          /\ toModem[j].id # 0 /\ toModem[j].id <= lastSerial
          /\ \A i \in DOMAIN toModem : i < j /\ toModem[i].kind = "cmd"
                => toModem[i].id < toModem[j].id

LEMMA ModemOrderStep ==
    ASSUME IInv, OrderInv, [Next]_vars
    PROVE  ModemOrder'
  <1>0. ModemOrder
    BY DEF OrderInv, ModemOrder
  <1>1. \A j \in DOMAIN toModem : toModem[j].id \in Nat
    BY WireTypes DEF ModemItems
  <1>2. ASSUME UNCHANGED <<modem, lastSerial>>, toModem' = toModem PROVE ModemOrder'
    BY <1>0, <1>2 DEF ModemOrder
  <1>3. ASSUME UNCHANGED <<modem, lastSerial>>, NEW m \in ModemItems, m.kind # "cmd",
               toModem' = Append(toModem, m)
        PROVE  ModemOrder'
    <2>1. \A j \in DOMAIN toModem' : toModem'[j].kind = "cmd" =>
             j \in DOMAIN toModem /\ toModem'[j] = toModem[j]
      BY <1>3, WireTypes, AppendIndex
    <2> QED
      BY <1>0, <1>3, <2>1 DEF ModemOrder
  <1>4. ASSUME lastSerial' = lastSerial + 1, UNCHANGED modem, toModem' = toModem
        PROVE  ModemOrder'
    BY <1>0, <1>1, <1>4, WireTypes DEF ModemOrder
  <1>5. ASSUME lastSerial' = lastSerial + 1, UNCHANGED modem,
               NEW m \in ModemItems, m.kind = "cmd", m.id = lastSerial + 1,
               toModem' = Append(toModem, m)
        PROVE  ModemOrder'
    <2>1. \A j \in DOMAIN toModem' :
             \/ j \in DOMAIN toModem /\ toModem'[j] = toModem[j]
             \/ j = Len(toModem) + 1 /\ toModem'[j] = m
      BY <1>5, WireTypes, AppendIndex
    <2>2. \A j \in DOMAIN toModem : j \in Nat /\ j < Len(toModem) + 1
      BY WireTypes
    <2>3. modem'.phase # "idle" =>
            /\ modem'.id # 0 /\ modem'.id <= lastSerial'
            /\ \A j \in DOMAIN toModem' : toModem'[j].kind = "cmd" => modem'.id < toModem'[j].id
      BY <1>0, <1>5, <2>1, WireTypes DEF ModemOrder
    <2>4. \A j \in DOMAIN toModem' : toModem'[j].kind = "cmd" =>
            toModem'[j].id # 0 /\ toModem'[j].id <= lastSerial'
      BY <1>0, <1>1, <1>5, <2>1, WireTypes DEF ModemOrder
    <2>5. ASSUME NEW i \in DOMAIN toModem', NEW j \in DOMAIN toModem', i < j,
                 toModem'[i].kind = "cmd", toModem'[j].kind = "cmd"
          PROVE  toModem'[i].id < toModem'[j].id
      <3>1. i \in DOMAIN toModem /\ toModem'[i] = toModem[i]
        BY <2>1, <2>2, <2>5, WireTypes
      <3> QED
        BY <1>0, <1>1, <1>5, <2>1, <2>5, <3>1, WireTypes DEF ModemOrder
    <2> QED
      BY <2>3, <2>4, <2>5 DEF ModemOrder
  <1>6. CASE ModemStep
    <2>1. UNCHANGED lastSerial
      BY <1>6 DEF ModemStep, history
    <2>2. CASE ModemRead \/ ModemPdu
      <3>1. toModem # <<>> /\ toModem' = Tail(toModem)
        BY <2>2 DEF ModemRead, ModemPdu
      <3>2. /\ \A j \in DOMAIN toModem' : j + 1 \in DOMAIN toModem /\ toModem'[j] = toModem[j + 1]
            /\ Head(toModem) = toModem[1] /\ 1 \in DOMAIN toModem
            /\ \A j \in DOMAIN toModem' : 1 < j + 1 /\ j \in Nat
        BY <3>1, WireTypes, TailIndex
      <3>3. modem'.phase # "idle" =>
               \/ Head(toModem).kind = "cmd" /\ modem'.id = Head(toModem).id
               \/ modem.phase # "idle" /\ modem'.id = modem.id
        BY <2>2, WireTypes DEF ModemRead, ModemPdu, Idle
      <3>4. modem'.phase # "idle" =>
              /\ modem'.id # 0 /\ modem'.id <= lastSerial'
              /\ \A j \in DOMAIN toModem' : toModem'[j].kind = "cmd" => modem'.id < toModem'[j].id
        BY <1>0, <2>1, <3>2, <3>3 DEF ModemOrder
      <3>5. \A j \in DOMAIN toModem' : toModem'[j].kind = "cmd" =>
              /\ toModem'[j].id # 0 /\ toModem'[j].id <= lastSerial'
              /\ \A i \in DOMAIN toModem' : i < j /\ toModem'[i].kind = "cmd"
                    => toModem'[i].id < toModem'[j].id
        BY <1>0, <2>1, <3>2 DEF ModemOrder
      <3> QED
        BY <3>4, <3>5 DEF ModemOrder
    <2>3. CASE ModemInfo \/ ModemPrompt \/ ModemFinal \/ ModemUrc \/ ModemGone
      <3>1. /\ UNCHANGED toModem
            /\ modem'.phase # "idle" => modem.phase # "idle" /\ modem'.id = modem.id
        <4>1. CASE ModemInfo
          BY <4>1, WireTypes DEF ModemInfo
        <4>2. CASE ModemPrompt
          <5>1. /\ modem.phase = "prompt" /\ UNCHANGED toModem
                /\ modem' = [modem EXCEPT !.phase = "pdu"]
            BY <4>2 DEF ModemPrompt
          <5> QED
            BY <5>1, WireTypes
        <4>3. CASE ModemFinal \/ ModemUrc \/ ModemGone
          BY <4>3, WireTypes DEF ModemFinal, ModemUrc, ModemGone, Idle
        <4> QED
          BY <2>3, <4>1, <4>2, <4>3
      <3> QED
        BY <1>0, <2>1, <3>1 DEF ModemOrder
    <2> QED
      BY <1>6, <2>2, <2>3 DEF ModemStep
  <1> QED
    BY <1>2, <1>3, <1>4, <1>5, <1>6, WireStep

(* What the modem says next, to all that came before.                       *)
Comes(m) == Behind(m)' /\ \A l \in LineType : Behind(l) => Precedes(l, m)

LEMMA InputStep ==
    ASSUME IInv, OrderInv, UrcsApart, [Next]_vars
    PROVE  \/ input' = input
           \/ input # <<>> /\ input' = Tail(input)
           \/ \E m \in LineType : Comes(m) /\ input' = Append(input, m)
           \/ \E m, k \in LineType : /\ Comes(m) /\ Comes(k) /\ Precedes(m, k)
                                     /\ input' = Append(Append(input, m), k)
  <1>1. CASE ModemStep /\ (ModemInfo \/ ModemPrompt \/ ModemFinal)
    BY <1>1, AnswerEmitted DEF Comes
  <1>2. CASE ModemStep /\ ModemUrc
    <2>1. UNCHANGED <<modem, toModem, lastSerial>>
      BY <1>2 DEF ModemStep, ModemUrc, history
    <2>2. \A m \in LineType : m.of = 0 => Comes(m)
      BY <2>1, WireTypes DEF Comes, Behind, Precedes, OrderInv, ModemItems
    <2>3. \A m, k \in LineType : m.of = 0 => Precedes(m, k)
      BY DEF Precedes
    <2> QED
      BY <1>2, <2>2, <2>3, UrcEmitted
  <1>3. ModemRead \/ ModemPdu \/ ModemGone => input' = input
    BY DEF ModemRead, ModemPdu, ModemGone
  <1> QED
    BY <1>1, <1>2, <1>3, WireStep DEF ModemStep

(* A line that is behind all the modem has said goes on preceding it.       *)
LEMMA PrecedesStep ==
    ASSUME IInv, OrderInv, UrcsApart, [Next]_vars, NEW l \in LineType, Behind(l),
           \A j \in DOMAIN input : Precedes(l, input[j])
    PROVE  \A j \in DOMAIN input' : Precedes(l, input'[j])
  <1>1. CASE input # <<>> /\ input' = Tail(input)
    BY <1>1, WireTypes, TailIndex
  <1>2. ASSUME NEW m \in LineType, Comes(m)
        PROVE  \A j \in DOMAIN Append(input, m) : Precedes(l, Append(input, m)[j])
    BY <1>2, WireTypes, AppendIndex DEF Comes
  <1>3. ASSUME NEW m \in LineType, Comes(m), NEW k \in LineType, Comes(k)
        PROVE  LET q == Append(Append(input, m), k)
               IN  \A j \in DOMAIN q : Precedes(l, q[j])
    <2>1. Append(input, m) \in Seq(LineType)
      BY WireTypes
    <2> QED
      BY <1>2, <1>3, <2>1, AppendIndex DEF Comes
  <1> QED
    BY <1>1, <1>2, <1>3, InputStep

Sorted(q) == \A i, j \in DOMAIN q : i < j => Precedes(q[i], q[j])

LEMMA SortedAppend ==
    ASSUME NEW q \in Seq(LineType), Sorted(q), NEW m \in LineType,
           \A i \in DOMAIN q : Precedes(q[i], m)
    PROVE  Sorted(Append(q, m))
  <1> SUFFICES ASSUME NEW i \in DOMAIN Append(q, m), NEW j \in DOMAIN Append(q, m), i < j
               PROVE  Precedes(Append(q, m)[i], Append(q, m)[j])
    BY DEF Sorted
  <1>1. i \in DOMAIN q /\ Append(q, m)[i] = q[i]
    BY AppendIndex
  <1>2. (j \in DOMAIN q /\ Append(q, m)[j] = q[j]) \/ Append(q, m)[j] = m
    BY AppendIndex
  <1> QED
    BY <1>1, <1>2 DEF Sorted

LEMMA InputBehind ==
    ASSUME IInv, OrderInv, UrcsApart, [Next]_vars, NEW i \in DOMAIN input'
    PROVE  \E l \in LineType : l = input'[i] /\ Behind(l)'
  <1>0. \A j \in DOMAIN input : input[j] \in LineType /\ Behind(input[j])
    BY WireTypes DEF OrderInv
  <1>1. \A j \in DOMAIN input : \E l \in LineType : l = input[j] /\ Behind(l)'
    BY <1>0, BehindStep
  <1>2. CASE input' = input
    BY <1>1, <1>2
  <1>3. CASE input # <<>> /\ input' = Tail(input)
    BY <1>1, <1>3, WireTypes, TailIndex
  <1>4. ASSUME NEW m \in LineType, Comes(m), NEW j \in DOMAIN Append(input, m)
        PROVE  \E l \in LineType : l = Append(input, m)[j] /\ Behind(l)'
    BY <1>1, <1>4, WireTypes, AppendIndex DEF Comes
  <1>5. ASSUME NEW m \in LineType, Comes(m), NEW k \in LineType, Comes(k),
               NEW j \in DOMAIN Append(Append(input, m), k)
        PROVE  \E l \in LineType : l = Append(Append(input, m), k)[j] /\ Behind(l)'
    <2>1. Append(input, m) \in Seq(LineType)
      BY WireTypes
    <2> QED
      BY <1>4, <1>5, <2>1, AppendIndex DEF Comes
  <1> QED
    BY <1>2, <1>3, <1>4, <1>5, InputStep

LEMMA SortedStep ==
    ASSUME IInv, OrderInv, UrcsApart, [Next]_vars
    PROVE  Sorted(input')
  <1>0. /\ Sorted(input)
        /\ \A j \in DOMAIN input : input[j] \in LineType /\ Behind(input[j])
    BY WireTypes DEF OrderInv, Sorted
  <1>1. CASE input # <<>> /\ input' = Tail(input)
    <2>1. \A i \in DOMAIN input' : i + 1 \in DOMAIN input /\ input'[i] = input[i + 1] /\ i \in Nat
      BY <1>1, WireTypes, TailIndex
    <2>2. \A i, j \in DOMAIN input' : i < j => i + 1 < j + 1
      BY <2>1
    <2> QED
      BY <1>0, <2>1, <2>2 DEF Sorted
  <1>2. ASSUME NEW m \in LineType, Comes(m)
        PROVE  Sorted(Append(input, m))
    <2>1. \A i \in DOMAIN input : Precedes(input[i], m)
      BY <1>0, <1>2 DEF Comes
    <2> QED
      BY <1>0, <2>1, WireTypes, SortedAppend
  <1>3. ASSUME NEW m \in LineType, Comes(m), NEW k \in LineType, Comes(k), Precedes(m, k)
        PROVE  Sorted(Append(Append(input, m), k))
    <2>1. Append(input, m) \in Seq(LineType) /\ Sorted(Append(input, m))
      BY <1>2, <1>3, WireTypes
    <2>2. \A i \in DOMAIN Append(input, m) : Precedes(Append(input, m)[i], k)
      BY <1>0, <1>3, WireTypes, AppendIndex DEF Comes
    <2> QED
      BY <2>1, <2>2, SortedAppend
  <1> QED
    BY <1>0, <1>1, <1>2, <1>3, InputStep

LEMMA OrderStep ==
    ASSUME IInv, OrderInv, UrcsApart, [Next]_vars
    PROVE  OrderInv'
  <1>1. \A i \in DOMAIN input' : Behind(input[i])'
    <2> SUFFICES ASSUME NEW i \in DOMAIN input' PROVE Behind(input[i])'
      OBVIOUS
    <2>1. PICK l \in LineType : l = input'[i] /\ Behind(l)'
      BY InputBehind
    <2> QED
      BY <2>1 DEF Behind
  <1>2. \A i \in DOMAIN input' : \A j \in DOMAIN input' : i < j => Precedes(input'[i], input'[j])
    BY SortedStep DEF Sorted
  <1>3. (readerPc = "process" => Behind(line) /\ \A j \in DOMAIN input : Precedes(line, input[j]))'
    <2> SUFFICES ASSUME readerPc' = "process"
                 PROVE  Behind(line)' /\ \A j \in DOMAIN input' : Precedes(line', input'[j])
      BY DEF Precedes
    <2>1. CASE ReadLine
      <3>1. PICK l \in LineType : l = input[1] /\ l = line' /\ input' = Tail(input) /\ input # <<>>
        BY <2>1, WireTypes, TailIndex DEF ReadLine
      <3>2. Behind(l) /\ \A j \in DOMAIN input : 1 < j => Precedes(l, input[j])
        <4>1. 1 \in DOMAIN input
          BY <3>1, WireTypes, TailIndex
        <4> QED
          BY <3>1, <4>1 DEF OrderInv
      <3>3. Behind(l)'
        BY <3>2, BehindStep
      <3>4. \A j \in DOMAIN input' : j + 1 \in DOMAIN input /\ input'[j] = input[j + 1] /\ 1 < j + 1
        BY <3>1, WireTypes, TailIndex
      <3>5. \A j \in DOMAIN input' : Precedes(l, input'[j])
        BY <3>2, <3>4
      <3>6. Behind(line)'
        BY <3>1, <3>3 DEF Behind
      <3> QED
        BY <3>1, <3>5, <3>6
    <2>2. CASE ~ReadLine
      <3>1. readerPc = "process" /\ line' = line
        <4>1. CASE \E c \in Clients : Call(c) \/ CloseFd(c) \/ ClientStep(c)
          BY <4>1 DEF Call, CloseFd, ClientStep, Lock, RequestBusy, RequestWoken, TakeSlot,
             WritelineCheck, Write, Await, CommandWoken, Timeout, TimedOut, HandshakeRetry,
             HandshakeAnswered, HandshakePause, Return, OnTimeout, CloseSignal, readerVars
        <4>2. CASE ReaderStep
          BY <2>2, <4>2 DEF ReaderStep, ReadLine2, ReadNull, ReaderClosedCheck,
             ReaderClosedSet, ReaderCloseFd, ReaderCloseSignal, ProcessLine
        <4>3. CASE ModemStep \/ UNCHANGED vars
          BY <4>3 DEF ModemStep, vars, readerVars
        <4> QED
          BY <4>1, <4>2, <4>3 DEF Next
      <3>2. PICK l \in LineType : l = line /\ l = line' /\ Behind(l)
                                  /\ \A j \in DOMAIN input : Precedes(l, input[j])
        BY <3>1, WireTypes DEF OrderInv
      <3>3. Behind(l)' /\ \A j \in DOMAIN input' : Precedes(l, input'[j])
        BY <3>2, BehindStep, PrecedesStep
      <3>4. Behind(line)'
        BY <3>2, <3>3 DEF Behind
      <3> QED
        BY <3>2, <3>3, <3>4
    <2> QED
      BY <2>1, <2>2
  <1>4. ModemOrder'
    BY ModemOrderStep
  <1>5. (\A i \in DOMAIN input :
            Behind(input[i]) /\ \A j \in DOMAIN input : i < j => Precedes(input[i], input[j]))'
    BY <1>1, <1>2 DEF Precedes
  <1> QED
    BY <1>3, <1>4, <1>5 DEF OrderInv, ModemOrder

-----------------------------------------------------------------------------
(* The unsolicited lines.                                                   *)

LEMMA ReaderStays ==
    ASSUME [Next]_vars, ~ReadLine, ~ReadLine2, ~ReadNull, ~ProcessLine
    PROVE  /\ readerPc' \in {"readline", "line2", "process"} => readerPc' = readerPc
           /\ line' = line
  <1>1. CASE \E c \in Clients : Call(c) \/ CloseFd(c) \/ ClientStep(c)
    BY <1>1 DEF Call, CloseFd, ClientStep, Lock, RequestBusy, RequestWoken, TakeSlot,
       WritelineCheck, Write, Await, CommandWoken, Timeout, TimedOut, HandshakeRetry,
       HandshakeAnswered, HandshakePause, Return, OnTimeout, CloseSignal, readerVars
  <1>2. CASE ReaderStep
    BY <1>2 DEF ReaderStep, ReaderClosedCheck, ReaderClosedSet, ReaderCloseFd,
       ReaderCloseSignal
  <1>3. CASE ModemStep \/ UNCHANGED vars
    BY <1>3 DEF ModemStep, vars, readerVars
  <1> QED
    BY <1>1, <1>2, <1>3 DEF Next

(* Which lines follow each other in input. *)
Paired(q) ==
    \A i \in DOMAIN q :
         /\ q[i].kind = "sms" => i + 1 \in DOMAIN q /\ q[i + 1].kind = "text"
         /\ i > 1 /\ Loose(q[i]) => q[i - 1].kind = "sms"

LEMMA PairedTail ==
    ASSUME NEW q \in Seq(LineType), q # <<>>, Paired(q)
    PROVE  /\ Paired(Tail(q))
           /\ q[1].kind = "sms" => Tail(q) # <<>> /\ Tail(q)[1].kind = "text"
           /\ q[1].kind # "sms" /\ Tail(q) # <<>> => ~Loose(Tail(q)[1])
  <1> DEFINE t == Tail(q)
  <1>1. /\ 1 \in DOMAIN q /\ \A i \in DOMAIN t : i + 1 \in DOMAIN q /\ t[i] = q[i + 1]
        /\ \A i \in DOMAIN q : i # 1 => i - 1 \in DOMAIN t /\ t[i - 1] = q[i]
        /\ t \in Seq(LineType)
    BY TailIndex
  <1>2. \A i \in DOMAIN t : i \in Nat /\ i >= 1 /\ (i + 1) - 1 = i /\ (i + 1) + 1 \in Nat
                            /\ ((i + 1) + 1) - 1 = i + 1 /\ i + 1 > 1 /\ (i + 1) + 1 # 1
    BY <1>1
  <1> HIDE DEF t
  <1>3. \A i \in DOMAIN t : t[i].kind = "sms" => i + 1 \in DOMAIN t /\ t[i + 1].kind = "text"
    <2> SUFFICES ASSUME NEW i \in DOMAIN t, t[i].kind = "sms"
                 PROVE  i + 1 \in DOMAIN t /\ t[i + 1].kind = "text"
      OBVIOUS
    <2>1. (i + 1) + 1 \in DOMAIN q /\ q[(i + 1) + 1].kind = "text"
      BY <1>1 DEF Paired
    <2> QED
      BY <1>1, <1>2, <2>1
  <1>4. \A i \in DOMAIN t : i > 1 /\ Loose(t[i]) => t[i - 1].kind = "sms"
    <2> SUFFICES ASSUME NEW i \in DOMAIN t, i > 1, Loose(t[i])
                 PROVE  t[i - 1].kind = "sms"
      OBVIOUS
    <2>1. i + 1 \in DOMAIN q /\ i + 1 > 1 /\ Loose(q[i + 1]) /\ (i + 1) - 1 = i
      BY <1>1, <1>2
    <2>2. q[i].kind = "sms"
      BY <2>1 DEF Paired
    <2>3. i \in DOMAIN q /\ i # 1
      <3>1. i \in Nat /\ i # 1 /\ i >= 1
        BY <1>2
      <3>2. i + 1 \in 1 .. Len(q) /\ Len(q) \in Nat
        BY <1>1
      <3> QED
        BY <3>1, <3>2
    <2> QED
      BY <1>1, <2>2, <2>3
  <1>5. q[1].kind = "sms" => t # <<>> /\ t[1].kind = "text"
    <2>1. q[1].kind = "sms" => 1 + 1 \in DOMAIN q /\ q[1 + 1].kind = "text"
      BY <1>1 DEF Paired
    <2>2. 2 \in DOMAIN q => 1 \in DOMAIN t /\ t[1] = q[2]
      BY <1>1
    <2> QED
      BY <1>1, <2>1, <2>2
  <1>6. q[1].kind # "sms" /\ t # <<>> => ~Loose(t[1])
    <2>1. t # <<>> => 1 \in DOMAIN t
      BY <1>1
    <2>2. t # <<>> => 2 \in DOMAIN q /\ t[1] = q[2] /\ 2 - 1 = 1 /\ 2 > 1
      BY <1>1, <2>1
    <2> QED
      BY <2>2 DEF Paired
  <1> QED
    BY <1>3, <1>4, <1>5, <1>6 DEF Paired, t

(* A line that is not loose and not the first of two.                       *)
LEMMA PairedAppend ==
    ASSUME NEW q \in Seq(LineType), Paired(q), NEW m \in LineType, m.kind # "sms", ~Loose(m)
    PROVE  Paired(Append(q, m))
  <1>1. \A i \in DOMAIN q : /\ i \in DOMAIN Append(q, m) /\ Append(q, m)[i] = q[i]
                            /\ i \in Nat /\ i >= 1
    BY AppendIndex
  <1>2. \A i \in DOMAIN Append(q, m) : i \in DOMAIN q \/ Append(q, m)[i] = m
    BY AppendIndex
  <1>3. \A i \in DOMAIN q : i > 1 => i - 1 \in DOMAIN q
    OBVIOUS
  <1> QED
    BY <1>1, <1>2, <1>3 DEF Paired

LEMMA PairedReport ==
    ASSUME NEW q \in Seq(LineType), Paired(q), NEW m \in LineType, m.kind = "sms",
           NEW k \in LineType, k.kind = "text"
    PROVE  Paired(Append(Append(q, m), k))
  <1> DEFINE r == Append(Append(q, m), k)
             n == Len(q)
  <1>1. /\ \A i \in DOMAIN q : i \in DOMAIN r /\ r[i] = q[i] /\ i \in Nat /\ i >= 1
        /\ n + 1 \in DOMAIN r /\ r[n + 1] = m
        /\ n + 2 \in DOMAIN r /\ r[n + 2] = k
        /\ \A i \in DOMAIN r : i \in DOMAIN q \/ i = n + 1 \/ i = n + 2
        /\ n \in Nat
    OBVIOUS
  <1>2. \A i \in DOMAIN q : i > 1 => i - 1 \in DOMAIN q
    OBVIOUS
  <1>3. ~Loose(m)
    BY DEF Loose
  <1> HIDE DEF r, n
  <1>4. \A i \in DOMAIN r :
          /\ r[i].kind = "sms" => i + 1 \in DOMAIN r /\ r[i + 1].kind = "text"
          /\ i > 1 /\ Loose(r[i]) => r[i - 1].kind = "sms"
    BY <1>1, <1>2, <1>3 DEF Paired
  <1> QED
    BY <1>4 DEF Paired, r

LEMMA UrcStep ==
    ASSUME IInv, OrderInv, UrcInv, UrcsApart, [Next]_vars
    PROVE  UrcInv'
  <1> DEFINE Foremost(q, at, l) ==
               /\ at \in {"readline", "process"} /\ q # <<>> => ~Loose(q[1])
               /\ at = "line2" => q # <<>> /\ q[1].kind = "text" /\ l.kind = "sms"
               /\ at = "process" => ~Loose(l) /\ l.kind # "sms"
  <1>0. /\ Paired(input) /\ Foremost(input, readerPc, line)
        /\ input \in Seq(LineType)
    BY WireTypes DEF UrcInv, Paired
  <1>a. ASSUME Paired(input'), Foremost(input', readerPc', line') PROVE UrcInv'
    BY <1>a DEF UrcInv, Paired, Loose, Unwanted
  <1> HIDE DEF Foremost
  <1>1. CASE ReadLine
    <2>1. /\ readerPc = "readline" /\ input # <<>> /\ line' = input[1] /\ input' = Tail(input)
          /\ readerPc' = IF input[1].kind = "sms" THEN "line2" ELSE "process"
      BY <1>0, <1>1, TailIndex DEF ReadLine
    <2>2. ~Loose(input[1])
      BY <1>0, <2>1 DEF Foremost
    <2>3. Foremost(input', readerPc', line')
      BY <1>0, <2>1, <2>2, PairedTail DEF Foremost
    <2> QED
      BY <1>0, <1>a, <2>1, <2>3, PairedTail
  <1>2. CASE ReadLine2
    <2>1. /\ readerPc = "line2" /\ input # <<>> /\ input' = Tail(input)
          /\ readerPc' = "readline"
      BY <1>2 DEF ReadLine2
    <2>2. input[1].kind # "sms"
      BY <1>0, <2>1 DEF Foremost
    <2>3. Foremost(input', readerPc', line')
      BY <1>0, <2>1, <2>2, PairedTail DEF Foremost
    <2> QED
      BY <1>0, <1>a, <2>1, <2>3, PairedTail
  <1>3. CASE ReadNull
    <2>1. input' = input /\ readerPc' = "closed"
      BY <1>3 DEF ReadNull
    <2> QED
      BY <1>0, <1>a, <2>1 DEF Foremost
  <1>4. CASE ProcessLine
    <2>1. input' = input /\ readerPc' = "readline" /\ readerPc = "process"
      BY <1>4 DEF ProcessLine
    <2> QED
      BY <1>0, <1>a, <2>1 DEF Foremost
  <1>5. ASSUME ~ReadLine, ~ReadLine2, ~ReadNull, ~ProcessLine PROVE UrcInv'
    <2>1. /\ readerPc' \in {"readline", "line2", "process"} => readerPc' = readerPc
          /\ line' = line
      BY <1>5, ReaderStays
    <2>2. CASE input' = input
      BY <1>0, <1>a, <2>1, <2>2 DEF Foremost
    <2>3. ASSUME NEW m \in LineType, m.kind # "sms", ~Loose(m), input' = Append(input, m)
          PROVE  UrcInv'
      <3>1. Paired(input')
        BY <1>0, <2>3, PairedAppend
      <3>2. /\ input' # <<>>
            /\ input # <<>> => input'[1] = input[1]
            /\ input = <<>> => input'[1] = m
        BY <1>0, <2>3
      <3>3. Foremost(input', readerPc', line')
        BY <1>0, <2>1, <2>3, <3>2 DEF Foremost
      <3> QED
        BY <1>a, <3>1, <3>3
    <2>4. ASSUME NEW m \in LineType, m.kind = "sms", NEW k \in LineType, k.kind = "text",
                 input' = Append(Append(input, m), k)
          PROVE  UrcInv'
      <3>1. Paired(input')
        BY <1>0, <2>4, PairedReport
      <3>2. /\ input' # <<>>
            /\ input # <<>> => input'[1] = input[1]
            /\ input = <<>> => input'[1] = m
        BY <1>0, <2>4
      <3>3. ~Loose(m)
        BY <2>4 DEF Loose
      <3>4. Foremost(input', readerPc', line')
        BY <1>0, <2>1, <2>4, <3>2, <3>3 DEF Foremost
      <3> QED
        BY <1>a, <3>1, <3>4
    <2>5. CASE ModemStep /\ (ModemInfo \/ ModemPrompt \/ ModemFinal)
      <3>1. PICK m \in LineType : input' = Append(input, m) /\ m.of # 0 /\ m.kind # "sms"
        BY <2>5, AnswerEmitted
      <3>2. ~Loose(m)
        BY <3>1 DEF Loose
      <3> QED
        BY <2>3, <3>1, <3>2
    <2>6. CASE ModemUrc
      BY <2>3, <2>4, <2>6, UrcEmitted
    <2>7. CASE ModemStep /\ (ModemRead \/ ModemPdu \/ ModemGone)
      BY <2>2, <2>7 DEF ModemRead, ModemPdu, ModemGone
    <2>8. CASE \E c \in Clients : Call(c) \/ CloseFd(c) \/ ClientStep(c)
      <3>1. input' = input
        BY <2>8 DEF Call, CloseFd, ClientStep, Lock, RequestBusy, RequestWoken, TakeSlot,
         WritelineCheck, Write, Await, CommandWoken, Timeout, TimedOut, HandshakeRetry,
         HandshakeAnswered, HandshakePause, Return, OnTimeout, CloseSignal
      <3> QED
        BY <2>2, <3>1
    <2>9. CASE ReaderStep \/ UNCHANGED vars
      <3>1. input' = input
        BY <1>5, <2>9 DEF ReaderStep, ReaderClosedCheck, ReaderClosedSet, ReaderCloseFd,
          ReaderCloseSignal, vars
      <3> QED
        BY <2>2, <3>1
    <2> QED
      BY <2>5, <2>6, <2>7, <2>8, <2>9 DEF Next, ModemStep
  <1> QED
    BY <1>1, <1>2, <1>3, <1>4, <1>5

-----------------------------------------------------------------------------
(* The slot and its owner. *)

(* Of processLine(), what the slot's owner can see of it.                   *)
LEMMA ProcessLineClients ==
    ASSUME IInv, ProcessLine
    PROVE  /\ UNCHANGED <<commandmutex, requestmutex, fd, readerClosed, type, responsePrefix,
                          command, err, serial, out, lastSerial, timeouts>>
           /\ pc' = pc \/ \E d \in Clients : pc[d] = "commandwait" /\
                                        pc' = [pc EXCEPT ![d] = "commandwoken"]
  BY DEF ProcessLine, HandleUnsolicited, HandleFinalResponse, HandlePrompt,
         AddIntermediate, SignalCommand, Waiting, history

LEMMA OwnerStep ==
    ASSUME IInv, OwnerInv, [Next]_vars
    PROVE  OwnerInv'
  <1> DEFINE Types == /\ requestmutex \in Clients \cup {None} /\ None \notin Clients
                      /\ pc \in [Clients -> Labels]
                      /\ err \in [Clients -> Errors]
                      /\ command \in [Clients -> Commands \cup {Handshake}]
                      /\ serial \in [Clients -> Nat] /\ lastSerial \in Nat
  <1>0. Types /\ MutexInv /\ SlotOwned /\ NewResponse # None
    BY ConstantsAssumption, NewResponseType DEF IInv, TypeOK, SlotTypes, ClientTypes
  <1> USE <1>0 DEF MutexInv, SlotOwned, CriticalLabels, OwnerLabels, Goto, slotVars, history
  <1>1. ASSUME NEW c \in Clients, Call(c) \/ CloseFd(c) PROVE OwnerInv'
    BY <1>1 DEF Call, CloseFd, OwnerInv
  <1>2. ASSUME NEW c \in Clients, Lock(c) \/ RequestBusy(c) \/ RequestWoken(c) PROVE OwnerInv'
    BY <1>2 DEF Lock, RequestBusy, RequestWoken, OwnerInv
  <1>3. ASSUME NEW c \in Clients, TakeSlot(c) PROVE OwnerInv'
    <2>1. response = None
      BY <1>3 DEF TakeSlot
    <2>2. /\ requestmutex' = c
          /\ err' = [err EXCEPT ![c] = "NOERROR"]
          /\ type' = command[c].type /\ responsePrefix' = command[c].prefix
          /\ pc' = [pc EXCEPT ![c] = "writeline"] /\ command' = command
      BY <1>3, <2>1 DEF TakeSlot
    <2> QED BY <2>2 DEF OwnerInv
  <1>4. ASSUME NEW c \in Clients, WritelineCheck(c) PROVE OwnerInv'
    BY <1>4 DEF WritelineCheck, OwnerInv
  <1>5. ASSUME NEW c \in Clients, Write(c) PROVE OwnerInv'
    <2>1. /\ UNCHANGED <<requestmutex, type, responsePrefix, command, response, readerClosed>>
          /\ requestmutex = c
          /\ \/ /\ serial' = [serial EXCEPT ![c] = lastSerial']
                /\ pc' = [pc EXCEPT ![c] = "await"] /\ UNCHANGED err
             \/ /\ err' = [err EXCEPT ![c] = "GENERIC"]
                /\ pc' = [pc EXCEPT ![c] = "finally"]
                /\ UNCHANGED <<serial, lastSerial>>
      BY <1>5 DEF Write
    <2>2. \A d \in Clients : requestmutex' = d => d = c
      BY <2>1
    <2>3. /\ type = command[c].type /\ responsePrefix = command[c].prefix
          /\ err[c] = "NOERROR"
      BY <1>5, <2>1 DEF OwnerInv, Write
    <2>4. CASE serial' = [serial EXCEPT ![c] = lastSerial'] /\ pc' = [pc EXCEPT ![c] = "await"]
               /\ UNCHANGED err
      BY <2>1, <2>2, <2>3, <2>4 DEF OwnerInv
    <2>5. CASE err' = [err EXCEPT ![c] = "GENERIC"] /\ pc' = [pc EXCEPT ![c] = "finally"]
      BY <2>1, <2>2, <2>3, <2>5 DEF OwnerInv
    <2> QED BY <2>1, <2>4, <2>5
  <1>6. ASSUME NEW c \in Clients, Await(c) PROVE OwnerInv'
    <2>1. /\ UNCHANGED <<requestmutex, type, responsePrefix, command, response, readerClosed,
                         err, serial, lastSerial>>
          /\ requestmutex = c /\ pc[c] = "await"
          /\ \/ pc' = [pc EXCEPT ![c] = "commandwait"]
             \/ /\ response.final # None \/ readerClosed
                /\ pc' = [pc EXCEPT ![c] = "finally"]
      BY <1>6 DEF Await
    <2> QED BY <2>1 DEF OwnerInv
  <1>7. ASSUME NEW c \in Clients, CommandWoken(c) \/ Timeout(c) \/ TimedOut(c) PROVE OwnerInv'
    BY <1>7 DEF CommandWoken, Timeout, TimedOut, OwnerInv
  <1>8. ASSUME NEW c \in Clients, HandshakeRetry(c) \/ HandshakeAnswered(c) \/ Return(c)
        PROVE  OwnerInv'
    <2>1. requestmutex' = None
      BY <1>8 DEF HandshakeRetry, HandshakeAnswered, Return, ReleaseSlot
    <2> QED BY <2>1 DEF OwnerInv
  <1>9. ASSUME NEW c \in Clients, HandshakePause(c) \/ OnTimeout(c) PROVE OwnerInv'
    BY <1>9 DEF HandshakePause, OnTimeout, EndCall, OwnerInv
  <1>10. ASSUME NEW c \in Clients, CloseSignal(c) PROVE OwnerInv'
    BY <1>10 DEF CloseSignal, SignalCommand, Waiting, OwnerInv
  <1>11. CASE ReaderClosedSet \/ ReaderCloseSignal
    BY <1>11 DEF ReaderClosedSet, ReaderCloseSignal, SignalCommand, Waiting, OwnerInv
  <1>12. CASE ProcessLine
    <2>1. response' = response \/ response'.final # None \/ response'.final = response.final
      <3>1. response # None => response \in ResponseType
        BY WireTypes
      <3>2. line # None
        BY <1>12 DEF ProcessLine, IInv, LineInv
      <3> QED
        BY <1>12, <3>1, <3>2 DEF ProcessLine, HandleUnsolicited, HandleFinalResponse,
           HandlePrompt, AddIntermediate, ResponseType
    <2> QED
      BY <1>12, <2>1, ProcessLineClients DEF OwnerInv
  <1>13. CASE ReadLine \/ ReadLine2 \/ ReadNull \/ ReaderClosedCheck \/ ReaderCloseFd
              \/ ModemStep \/ UNCHANGED vars
    BY <1>13 DEF ReadLine, ReadLine2, ReadNull, ReaderClosedCheck, ReaderCloseFd, ModemStep,
       vars, clientVars, OwnerInv
  <1> QED
    BY <1>1, <1>2, <1>3, <1>4, <1>5, <1>6, <1>7, <1>8, <1>9, <1>10, <1>11, <1>12, <1>13
    DEF Next, ClientStep, ReaderStep

(* Nothing but the final response of a command closes the gap; a timeout    *)
(* and a write move both its ends.                                          *)
LEMMA GapStep ==
    ASSUME IInv, OwnerInv, [Next]_vars, NEW k \in Nat, Gap(k),
           ~(ProcessLine /\ response # None /\ Final(line))
    PROVE  Gap(k)'
  <1> DEFINE Types == /\ requestmutex \in Clients \cup {None} /\ None \notin Clients
                      /\ pc \in [Clients -> Labels]
                      /\ timeouts \in Nat /\ lastSerial \in Nat
  <1>0. Types /\ MutexInv /\ SlotOwned /\ NewResponse.final = None
    BY ConstantsAssumption DEF IInv, TypeOK, SlotTypes, ClientTypes, NewResponse
  <1> USE <1>0 DEF MutexInv, SlotOwned, CriticalLabels, OwnerLabels, Goto, slotVars, history,
                   Gap, Waits, Writes
  <1>1. ASSUME NEW c \in Clients, Call(c) \/ CloseFd(c) PROVE Gap(k)'
    BY <1>1 DEF Call, CloseFd
  <1>2. ASSUME NEW c \in Clients, Lock(c) \/ RequestBusy(c) \/ RequestWoken(c) PROVE Gap(k)'
    BY <1>2 DEF Lock, RequestBusy, RequestWoken
  <1>3. ASSUME NEW c \in Clients, TakeSlot(c) PROVE Gap(k)'
    <2>1. response = None
      BY <1>3 DEF TakeSlot
    <2>2. /\ requestmutex' = c /\ requestmutex = None
          /\ UNCHANGED <<readerClosed, timeouts, lastSerial>>
          /\ response' = NewResponse
          /\ pc' = [pc EXCEPT ![c] = "writeline"]
      BY <1>3, <2>1 DEF TakeSlot
    <2> QED BY <2>2
  <1>4. ASSUME NEW c \in Clients, WritelineCheck(c) PROVE Gap(k)'
    BY <1>4 DEF WritelineCheck
  <1>5. ASSUME NEW c \in Clients, Write(c) PROVE Gap(k)'
    <2>1. /\ UNCHANGED <<requestmutex, response, readerClosed, timeouts>>
          /\ requestmutex = c /\ pc[c] = "write"
          /\ \/ lastSerial' = lastSerial + 1 /\ pc' = [pc EXCEPT ![c] = "await"]
             \/ lastSerial' = lastSerial /\ pc' = [pc EXCEPT ![c] = "finally"]
      BY <1>5 DEF Write
    <2> QED BY <2>1
  <1>6. ASSUME NEW c \in Clients, Await(c) PROVE Gap(k)'
    <2>1. /\ UNCHANGED <<requestmutex, response, readerClosed, timeouts, lastSerial>>
          /\ requestmutex = c /\ pc[c] = "await"
          /\ \/ pc' = [pc EXCEPT ![c] = "commandwait"]
             \/ /\ response.final # None \/ readerClosed
                /\ pc' = [pc EXCEPT ![c] = "finally"]
      BY <1>6 DEF Await
    <2> QED BY <2>1
  <1>7. ASSUME NEW c \in Clients, CommandWoken(c) \/ Timeout(c) \/ TimedOut(c) PROVE Gap(k)'
    BY <1>7 DEF CommandWoken, Timeout, TimedOut
  <1>8. ASSUME NEW c \in Clients, HandshakeRetry(c) \/ HandshakeAnswered(c) \/ Return(c)
        PROVE  Gap(k)'
    <2>1. /\ requestmutex' = None /\ UNCHANGED <<readerClosed, timeouts, lastSerial>>
          /\ requestmutex = c /\ pc[c] = "finally"
      BY <1>8 DEF HandshakeRetry, HandshakeAnswered, Return, ReleaseSlot
    <2> QED BY <2>1
  <1>9. ASSUME NEW c \in Clients, HandshakePause(c) \/ OnTimeout(c) PROVE Gap(k)'
    BY <1>9 DEF HandshakePause, OnTimeout
  <1>10. ASSUME NEW c \in Clients, CloseSignal(c) PROVE Gap(k)'
    BY <1>10 DEF CloseSignal, SignalCommand, Waiting
  <1>11. CASE ReaderClosedSet \/ ReaderCloseSignal
    BY <1>11 DEF ReaderClosedSet, ReaderCloseSignal, SignalCommand, Waiting
  <1>12. CASE ProcessLine
    <2>1. (response' = None <=> response = None)
          /\ (response # None => response'.final = response.final)
      <3>1. response # None => response \in ResponseType
        BY WireTypes
      <3>2. response # None => ~HandleFinalResponse \/ ~(line.kind \in {"final_ok", "final_err"})
        BY <1>12 DEF Final
      <3>3. response # None => HandleUnsolicited \/ HandlePrompt \/ AddIntermediate
        BY <1>12 DEF ProcessLine, Final
      <3>4. response = None => response' = None
        BY <1>12 DEF ProcessLine, HandleUnsolicited
      <3>5. response # None => response'.final = response.final
        BY <3>1, <3>3 DEF HandleUnsolicited, HandlePrompt, AddIntermediate, ResponseType
      <3> QED
        BY <1>12, <3>4, <3>5, ProcessLineSlot
    <2> QED
      BY <1>12, <2>1, ProcessLineClients
  <1>13. CASE ReadLine \/ ReadLine2 \/ ReadNull \/ ReaderClosedCheck \/ ReaderCloseFd
              \/ ModemStep \/ UNCHANGED vars
    BY <1>13 DEF ReadLine, ReadLine2, ReadNull, ReaderClosedCheck, ReaderCloseFd, ModemStep,
       vars, clientVars
  <1> QED
    BY <1>1, <1>2, <1>3, <1>4, <1>5, <1>6, <1>7, <1>8, <1>9, <1>10, <1>11, <1>12, <1>13
    DEF Next, ClientStep, ReaderStep

(* The final response is taken: what comes after it is one command later.   *)
LEMMA FinalGap ==
    ASSUME IInv, ProcessLine, response # None, Final(line), Gap(line.of),
           NEW k \in Nat, k > line.of
    PROVE  Gap(k)'
  <1>1. /\ requestmutex \in Clients /\ pc \in [Clients -> Labels] /\ None \notin Clients
        /\ timeouts \in Nat /\ lastSerial \in Nat /\ line.of \in Nat
    BY ConstantsAssumption, WireTypes
    DEF ProcessLine, LineType, IInv, TypeOK, SlotTypes, ClientTypes, SlotOwned
  <1>2. response'.final # None
    <2>1. response \in ResponseType /\ line # None
      BY WireTypes DEF ProcessLine, IInv, LineInv
    <2>2. HandleFinalResponse
      BY DEF ProcessLine, Final
    <2> QED
      BY <2>1, <2>2 DEF HandleFinalResponse, ResponseType
  <1>3. /\ UNCHANGED <<requestmutex, readerClosed, lastSerial, timeouts>>
        /\ \/ pc'[requestmutex] = pc[requestmutex]
           \/ pc[requestmutex] = "commandwait" /\ pc'[requestmutex] = "commandwoken"
    <2>1. UNCHANGED <<requestmutex, readerClosed, lastSerial, timeouts>>
      BY ProcessLineClients
    <2>2. pc' = pc \/ \E d \in Clients : pc[d] = "commandwait" /\
                                        pc' = [pc EXCEPT ![d] = "commandwoken"]
      BY ProcessLineClients
    <2> QED
      BY <1>1, <2>1, <2>2
  <1> QED
    BY <1>1, <1>2, <1>3 DEF Gap, Waits, Writes

(* An answer to command k is still to come, or is in the reader's hand.     *)
InFlight(k) ==
    \/ \E i \in DOMAIN input : input[i].of = k
    \/ readerPc = "process" /\ line.of = k
    \/ modem.phase # "idle" /\ modem.id = k
    \/ \E j \in DOMAIN toModem : toModem[j].kind = "cmd" /\ toModem[j].id = k

LEMMA LagOf ==
    ASSUME IInv, ModemOrder
    PROVE  LagInv <=> \A k \in Nat \ {0} : InFlight(k) => Gap(k)
  <1>1. /\ \A i \in DOMAIN input : input[i].of \in Nat
        /\ readerPc = "process" => line.of \in Nat
        /\ modem.phase # "idle" => modem.id \in Nat \ {0}
        /\ \A j \in DOMAIN toModem : toModem[j].kind = "cmd" => toModem[j].id \in Nat \ {0}
    BY WireTypes DEF ModemOrder, LineType, ModemItems
  <1> QED
    BY <1>1 DEF LagInv, InFlight

(* Only a command that is written has new answers to come. *)
LEMMA InFlightStep ==
    ASSUME IInv, OrderInv, UrcsApart, [Next]_vars, NEW k \in Nat \ {0}, InFlight(k)'
    PROVE  \/ InFlight(k)
           \/ /\ k = lastSerial + 1
              /\ \E c \in Clients : Write(c) /\ lastSerial' = lastSerial + 1
  <1>1. CASE \E i \in DOMAIN input' : input'[i].of = k
    <2>1. CASE input' = input
      BY <1>1, <2>1 DEF InFlight
    <2>2. CASE input # <<>> /\ input' = Tail(input)
      <3>1. \A i \in DOMAIN input' : i + 1 \in DOMAIN input /\ input'[i] = input[i + 1]
        BY <2>2, WireTypes, TailIndex
      <3> QED
        BY <1>1, <3>1 DEF InFlight
    <2>3. CASE ModemStep /\ (ModemInfo \/ ModemPrompt \/ ModemFinal)
      <3>1. PICK m \in LineType : /\ input' = Append(input, m) /\ m.of = modem.id
                                 /\ modem.phase # "idle"
        BY <2>3, AnswerEmitted
      <3>2. \A i \in DOMAIN input' : (i \in DOMAIN input /\ input'[i] = input[i]) \/ input'[i] = m
        BY <3>1, WireTypes, AppendIndex
      <3> QED
        BY <1>1, <3>1, <3>2 DEF InFlight
    <2>4. CASE ModemUrc
      <3>1. ASSUME NEW m \in LineType, m.of = 0, input' = Append(input, m) PROVE InFlight(k)
        <4>1. \A i \in DOMAIN input' : (i \in DOMAIN input /\ input'[i] = input[i]) \/ input'[i] = m
          BY <3>1, WireTypes, AppendIndex
        <4> QED
          BY <1>1, <3>1, <4>1 DEF InFlight
      <3>2. ASSUME NEW m \in LineType, m.of = 0, NEW n \in LineType, n.of = 0,
                   input' = Append(Append(input, m), n)
            PROVE  InFlight(k)
        <4>1. Append(input, m) \in Seq(LineType)
          BY WireTypes
        <4>2. \A i \in DOMAIN input' : \/ i \in DOMAIN input /\ input'[i] = input[i]
                                       \/ input'[i] = m \/ input'[i] = n
          BY <3>2, <4>1, WireTypes, AppendIndex
        <4> QED
          BY <1>1, <3>2, <4>2 DEF InFlight
      <3> QED
        BY <2>4, <3>1, <3>2, UrcEmitted
    <2>5. ModemRead \/ ModemPdu \/ ModemGone => input' = input
      BY DEF ModemRead, ModemPdu, ModemGone
    <2> QED
      BY <2>1, <2>2, <2>3, <2>4, <2>5, WireStep DEF ModemStep
  <1>2. CASE readerPc' = "process" /\ line'.of = k
    <2>1. CASE ReadLine
      <3>1. line' = input[1] /\ 1 \in DOMAIN input
        BY <2>1, WireTypes, TailIndex DEF ReadLine
      <3> QED
        BY <1>2, <3>1 DEF InFlight
    <2>2. CASE ~ReadLine
      <3>1. ~ReadLine2 /\ ~ReadNull /\ ~ProcessLine
        BY <1>2 DEF ReadLine2, ReadNull, ProcessLine
      <3> QED
        BY <1>2, <2>2, <3>1, ReaderStays DEF InFlight
    <2> QED
      BY <2>1, <2>2
  <1>3. CASE modem'.phase # "idle" /\ modem'.id = k
    <2>1. CASE modem' = modem
      BY <1>3, <2>1 DEF InFlight
    <2>2. CASE ModemRead
      <3>1. Head(toModem) = toModem[1] /\ 1 \in DOMAIN toModem
        BY <2>2, WireTypes, TailIndex DEF ModemRead
      <3>2. modem' = modem \/ (Head(toModem).kind = "cmd" /\ modem'.id = Head(toModem).id)
        BY <2>2, WireTypes DEF ModemRead
      <3> QED
        BY <1>3, <2>1, <3>1, <3>2 DEF InFlight
    <2>3. CASE ModemInfo \/ ModemPdu
      <3>1. modem.phase # "idle" /\ (modem'.phase # "idle" => modem'.id = modem.id)
        BY <2>3, WireTypes DEF ModemInfo, ModemPdu, Idle
      <3> QED
        BY <1>3, <3>1 DEF InFlight
    <2>4. CASE ModemPrompt
      <3>1. modem.phase = "prompt" /\ modem' = [modem EXCEPT !.phase = "pdu"]
        BY <2>4 DEF ModemPrompt
      <3>2. modem'.id = modem.id
        BY <3>1, WireTypes
      <3> QED
        BY <1>3, <3>1, <3>2 DEF InFlight
    <2>5. CASE ModemFinal
      BY <1>3, <2>5 DEF ModemFinal, Idle
    <2>6. ModemUrc \/ ModemGone => modem' = modem
      BY DEF ModemUrc, ModemGone
    <2> QED
      BY <2>1, <2>2, <2>3, <2>4, <2>5, <2>6, WireStep DEF ModemStep
  <1>4. CASE \E j \in DOMAIN toModem' : toModem'[j].kind = "cmd" /\ toModem'[j].id = k
    <2>1. CASE toModem' = toModem
      BY <1>4, <2>1 DEF InFlight
    <2>2. ASSUME NEW m \in ModemItems, m.kind # "cmd", toModem' = Append(toModem, m)
          PROVE  InFlight(k)
      <3>1. \A j \in DOMAIN toModem' : toModem'[j].kind = "cmd" =>
               j \in DOMAIN toModem /\ toModem'[j] = toModem[j]
        BY <2>2, WireTypes, AppendIndex
      <3> QED
        BY <1>4, <3>1 DEF InFlight
    <2>3. ASSUME \A c \in Clients : ~Write(c)
          PROVE  lastSerial' = lastSerial
      <3>1. \A c \in Clients : Call(c) \/ CloseFd(c) \/ ClientStep(c) => lastSerial' = lastSerial
        BY <2>3 DEF Call, CloseFd, ClientStep, Lock, RequestBusy, RequestWoken, TakeSlot,
           WritelineCheck, Await, CommandWoken, Timeout, TimedOut, HandshakeRetry,
           HandshakeAnswered, HandshakePause, Return, OnTimeout, CloseSignal, history
      <3>2. ReaderStep => lastSerial' = lastSerial
        BY DEF ReaderStep, ReadLine, ReadLine2, ReadNull, ProcessLine, ReaderClosedCheck,
           ReaderClosedSet, ReaderCloseFd, ReaderCloseSignal, history
      <3>3. ModemStep \/ UNCHANGED vars => lastSerial' = lastSerial
        BY DEF ModemStep, vars, history
      <3> QED
        BY <3>1, <3>2, <3>3 DEF Next
    <2>4. ASSUME lastSerial' = lastSerial + 1, NEW m \in ModemItems,
                 m.id = lastSerial + 1, toModem' = Append(toModem, m)
          PROVE  InFlight(k) \/ (k = lastSerial + 1 /\ \E c \in Clients : Write(c))
      <3>1. \E c \in Clients : Write(c)
        BY <2>3, <2>4, WireTypes
      <3>2. \A j \in DOMAIN toModem' :
               (j \in DOMAIN toModem /\ toModem'[j] = toModem[j]) \/ toModem'[j] = m
        BY <2>4, WireTypes, AppendIndex
      <3> QED
        BY <1>4, <2>4, <3>1, <3>2 DEF InFlight
    <2>5. CASE ModemRead \/ ModemPdu
      <3>1. toModem # <<>> /\ toModem' = Tail(toModem)
        BY <2>5 DEF ModemRead, ModemPdu
      <3>2. \A j \in DOMAIN toModem' : j + 1 \in DOMAIN toModem /\ toModem'[j] = toModem[j + 1]
        BY <3>1, WireTypes, TailIndex
      <3> QED
        BY <1>4, <3>2 DEF InFlight
    <2>6. ModemInfo \/ ModemPrompt \/ ModemFinal \/ ModemUrc \/ ModemGone => toModem' = toModem
      <3>1. ModemPrompt => toModem' = toModem
        BY DEF ModemPrompt
      <3> QED
        BY <3>1 DEF ModemInfo, ModemFinal, ModemUrc, ModemGone
    <2> QED
      BY <2>1, <2>2, <2>4, <2>5, <2>6, WireStep DEF ModemStep
  <1> QED
    BY <1>1, <1>2, <1>3, <1>4 DEF InFlight

(* A final response is not unsolicited. *)
LEMMA FinalOf ==
    ASSUME IInv, UrcInv, readerPc = "process", Final(line)
    PROVE  line.of \in Nat \ {0}
  BY WireTypes DEF UrcInv, Loose, Unwanted, Final, LineType

(* Whatever is in flight when a final response is taken is a later command. *)
LEMMA LaterInFlight ==
    ASSUME IInv, OrderInv, UrcInv, UrcsApart, ProcessLine, Final(line),
           NEW k \in Nat \ {0}, InFlight(k)'
    PROVE  k > line.of
  <1>0. /\ readerPc = "process" /\ readerPc' = "readline"
        /\ input' = input /\ UNCHANGED <<modem, lastSerial>>
    BY DEF ProcessLine, modemVars, history
  <1>1. line.of \in Nat \ {0} /\ line \in LineType
    BY <1>0, FinalOf, WireTypes
  <1>2. Behind(line) /\ \A j \in DOMAIN input : Precedes(line, input[j])
    BY <1>0 DEF OrderInv
  <1>3. CASE \E i \in DOMAIN input' : input'[i].of = k
    BY <1>0, <1>1, <1>2, <1>3 DEF Precedes
  <1>4. CASE modem'.phase # "idle" /\ modem'.id = k
    BY <1>0, <1>1, <1>2, <1>4 DEF Behind
  <1>5. CASE \E j \in DOMAIN toModem' : toModem'[j].kind = "cmd" /\ toModem'[j].id = k
    <2>1. [Next]_vars /\ lastSerial # lastSerial + 1
      BY WireTypes DEF Next, ReaderStep
    <2>2. \E j \in DOMAIN toModem : toModem[j].kind = "cmd" /\ toModem[j].id = k
      <3>1. toModem' = toModem \/ \E m \in ModemItems :
                    m.kind # "cmd" /\ toModem' = Append(toModem, m)
        <4>1. ~ModemStep
          BY <1>0 DEF ModemStep, readerVars
        <4> QED
          BY <1>0, <2>1, <4>1, WireStep
      <3>2. ASSUME NEW m \in ModemItems, m.kind # "cmd", toModem' = Append(toModem, m),
                   NEW j \in DOMAIN toModem', toModem'[j].kind = "cmd"
            PROVE  j \in DOMAIN toModem /\ toModem'[j] = toModem[j]
        BY <3>2, WireTypes, AppendIndex
      <3> QED
        BY <1>5, <3>1, <3>2
    <2> QED
      BY <1>1, <1>2, <2>2 DEF Behind
  <1> QED
    BY <1>0, <1>3, <1>4, <1>5 DEF InFlight

LEMMA LagStep ==
    ASSUME IInv, OrderInv, UrcInv, UrcsApart, LagInv, OwnerInv, ResponseInv, [Next]_vars,
           IInv', OrderInv'
    PROVE  LagInv'
  <1>1. \A k \in Nat \ {0} : InFlight(k) => Gap(k)
    BY LagOf DEF OrderInv, ModemOrder
  <1>2. LagInv' <=> \A k \in Nat \ {0} : InFlight(k)' => Gap(k)'
    <2>1. LagInv' <=> (\A k \in Nat \ {0} : InFlight(k) => Gap(k))'
      BY ModemOrderStep, LagOf, PTL
    <2> QED
      BY <2>1
  <1> SUFFICES ASSUME NEW k \in Nat \ {0}, InFlight(k)' PROVE Gap(k)'
    BY <1>2
  <1>3. CASE ProcessLine /\ response # None /\ Final(line)
    <2>1. k > line.of /\ line.of \in Nat \ {0}
      BY <1>3, LaterInFlight, FinalOf DEF ProcessLine
    <2>2. Gap(line.of)
      BY <1>1, <1>3, <2>1 DEF ProcessLine, InFlight
    <2> QED
      BY <1>3, <2>1, <2>2, FinalGap
  <1>4. CASE ~(ProcessLine /\ response # None /\ Final(line)) /\ InFlight(k)
    BY <1>1, <1>4, GapStep
  <1>5. ASSUME NEW c \in Clients, Write(c), lastSerial' = lastSerial + 1, k = lastSerial + 1
        PROVE  Gap(k)'
    <2>1. /\ UNCHANGED <<requestmutex, response, readerClosed, timeouts>>
          /\ pc' = [pc EXCEPT ![c] = "await"] /\ pc[c] = "write"
      BY <1>5, WireTypes DEF Write, Goto, slotVars
    <2>2. /\ pc \in [Clients -> Labels] /\ requestmutex = c /\ response # None
          /\ c # None /\ lastSerial \in Nat /\ timeouts \in Nat
      <3>1. requestmutex = c /\ response # None
        BY <2>1, ConstantsAssumption DEF IInv, MutexInv, SlotOwned, OwnerLabels
      <3>2. pc \in [Clients -> Labels] /\ lastSerial \in Nat /\ timeouts \in Nat
        BY DEF IInv, TypeOK, SlotTypes, ClientTypes
      <3> QED
        BY <3>1, <3>2, ConstantsAssumption
    <2>3. pc'[c] = "await"
      BY <2>1, <2>2
    <2>4. response.final # None => timeouts > 0
      <3>1. Writes
        BY <2>1, <2>2 DEF Writes
      <3>2. response \in ResponseType
        BY <2>2, WireTypes
      <3>3. response.final # None => response.final.of \in Nat
        BY <3>2 DEF ResponseType, LineType
      <3> QED
        BY <2>2, <3>1, <3>3 DEF ResponseInv, Answers
    <2> QED
      BY <1>5, <2>1, <2>2, <2>3, <2>4 DEF Gap, Waits, Writes
  <1> QED
    BY <1>3, <1>4, <1>5, InFlightStep

-----------------------------------------------------------------------------
(* The lines in the slot. *)

LEMMA AnswersStep ==
    ASSUME IInv, [Next]_vars, response # None, NEW l \in LineType, Answers(l)
    PROVE  Answers(l)'
  <1> DEFINE Types == /\ requestmutex \in Clients \cup {None} /\ None \notin Clients
                      /\ pc \in [Clients -> Labels] /\ l.of \in Nat
                      /\ timeouts \in Nat /\ lastSerial \in Nat
  <1>0. Types /\ MutexInv /\ SlotOwned
    BY ConstantsAssumption DEF IInv, TypeOK, SlotTypes, ClientTypes, LineType
  <1> USE <1>0 DEF MutexInv, SlotOwned, CriticalLabels, OwnerLabels, Goto, slotVars, history,
                   Answers, Writes
  <1>1. ASSUME NEW c \in Clients, Call(c) \/ CloseFd(c) PROVE Answers(l)'
    BY <1>1 DEF Call, CloseFd
  <1>2. ASSUME NEW c \in Clients, Lock(c) \/ RequestBusy(c) \/ RequestWoken(c) PROVE Answers(l)'
    BY <1>2 DEF Lock, RequestBusy, RequestWoken
  <1>3. ASSUME NEW c \in Clients, TakeSlot(c) PROVE Answers(l)'
    BY <1>3 DEF TakeSlot
  <1>4. ASSUME NEW c \in Clients, WritelineCheck(c) PROVE Answers(l)'
    BY <1>4 DEF WritelineCheck
  <1>5. ASSUME NEW c \in Clients, Write(c) PROVE Answers(l)'
    <2>1. /\ UNCHANGED <<requestmutex, readerClosed, timeouts>>
          /\ requestmutex = c /\ pc[c] = "write"
          /\ \/ lastSerial' = lastSerial + 1 /\ pc' = [pc EXCEPT ![c] = "await"]
             \/ lastSerial' = lastSerial /\ pc' = [pc EXCEPT ![c] = "finally"]
      BY <1>5 DEF Write
    <2> QED BY <2>1
  <1>6. ASSUME NEW c \in Clients, Await(c) PROVE Answers(l)'
    <2>1. /\ UNCHANGED <<requestmutex, readerClosed, timeouts, lastSerial>>
          /\ requestmutex = c /\ pc[c] = "await"
          /\ \/ pc' = [pc EXCEPT ![c] = "commandwait"]
             \/ pc' = [pc EXCEPT ![c] = "finally"]
      BY <1>6 DEF Await
    <2> QED BY <2>1
  <1>7. ASSUME NEW c \in Clients, CommandWoken(c) \/ Timeout(c) \/ TimedOut(c) PROVE Answers(l)'
    BY <1>7 DEF CommandWoken, Timeout, TimedOut
  <1>8. ASSUME NEW c \in Clients, HandshakeRetry(c) \/ HandshakeAnswered(c) \/ Return(c)
        PROVE  Answers(l)'
    <2>1. /\ requestmutex' = None /\ UNCHANGED <<readerClosed, timeouts, lastSerial>>
      BY <1>8 DEF HandshakeRetry, HandshakeAnswered, Return, ReleaseSlot
    <2> QED BY <2>1
  <1>9. ASSUME NEW c \in Clients, HandshakePause(c) \/ OnTimeout(c) PROVE Answers(l)'
    BY <1>9 DEF HandshakePause, OnTimeout
  <1>10. ASSUME NEW c \in Clients, CloseSignal(c) PROVE Answers(l)'
    BY <1>10 DEF CloseSignal, SignalCommand, Waiting
  <1>11. CASE ReaderClosedSet \/ ReaderCloseSignal
    BY <1>11 DEF ReaderClosedSet, ReaderCloseSignal, SignalCommand, Waiting
  <1>12. CASE ProcessLine
    BY <1>12, ProcessLineClients
  <1>13. CASE ReadLine \/ ReadLine2 \/ ReadNull \/ ReaderClosedCheck \/ ReaderCloseFd
              \/ ModemStep \/ UNCHANGED vars
    BY <1>13 DEF ReadLine, ReadLine2, ReadNull, ReaderClosedCheck, ReaderCloseFd, ModemStep,
       vars, clientVars
  <1> QED
    BY <1>1, <1>2, <1>3, <1>4, <1>5, <1>6, <1>7, <1>8, <1>9, <1>10, <1>11, <1>12, <1>13
    DEF Next, ClientStep, ReaderStep

(* A line that is put into the slot is late by no more than it may be.      *)
LEMMA AnswersNew ==
    ASSUME IInv, ProcessLine, response # None, Gap(line.of), line.of # 0, Behind(line)
    PROVE  \E l \in LineType : l = line /\ Answers(l)'
  <1>1. /\ line \in LineType /\ line.of \in Nat
        /\ requestmutex \in Clients /\ pc \in [Clients -> Labels] /\ None \notin Clients
        /\ timeouts \in Nat /\ lastSerial \in Nat
    BY ConstantsAssumption, WireTypes
    DEF ProcessLine, LineType, IInv, TypeOK, SlotTypes, ClientTypes, SlotOwned
  <1>2. PICK l \in LineType : l = line
    BY <1>1
  <1>3. /\ UNCHANGED <<requestmutex, readerClosed, lastSerial, timeouts>>
        /\ \/ pc'[requestmutex] = pc[requestmutex]
           \/ pc[requestmutex] = "commandwait" /\ pc'[requestmutex] = "commandwoken"
    <2>1. UNCHANGED <<requestmutex, readerClosed, lastSerial, timeouts>>
      BY ProcessLineClients
    <2>2. pc' = pc \/ \E d \in Clients : pc[d] = "commandwait" /\
                                        pc' = [pc EXCEPT ![d] = "commandwoken"]
      BY ProcessLineClients
    <2> QED
      BY <1>1, <2>1, <2>2
  <1>4. Answers(l)'
    BY <1>1, <1>2, <1>3 DEF Gap, Waits, Writes, Answers, Behind
  <1> QED
    BY <1>2, <1>4

(* An intermediate line of the slot, with respect to all that may follow it. *)
Taken(l) ==
    /\ Answers(l) /\ ~Final(l) /\ Behind(l)
    /\ readerPc = "process" => Precedes(l, line)
    /\ \A j \in DOMAIN input : Precedes(l, input[j])

LEMMA TakenStep ==
    ASSUME IInv, OrderInv, UrcsApart, [Next]_vars, response # None,
           NEW l \in LineType, Taken(l)
    PROVE  Taken(l)'
  <1>1. Answers(l)' /\ Behind(l)' /\ ~Final(l)
    BY AnswersStep, BehindStep DEF Taken
  <1>2. \A j \in DOMAIN input' : Precedes(l, input'[j])
    BY PrecedesStep DEF Taken
  <1>3. readerPc' = "process" => Precedes(l, line')
    <2>1. CASE ReadLine
      <3>1. line' = input[1] /\ 1 \in DOMAIN input
        BY <2>1, WireTypes, TailIndex DEF ReadLine
      <3> QED
        BY <3>1 DEF Taken
    <2>2. CASE ~ReadLine
      <3>1. readerPc' = "process" => ~ReadLine2 /\ ~ReadNull /\ ~ProcessLine
        BY DEF ReadLine2, ReadNull, ProcessLine
      <3> QED
        BY <2>2, <3>1, ReaderStays DEF Taken
    <2> QED
      BY <2>1, <2>2
  <1>4. (readerPc = "process" => Precedes(l, line))' /\ (\A j \in DOMAIN input : Precedes(l, input[j]))'
        /\ (~Final(l))'
    BY <1>1, <1>2, <1>3 DEF Precedes, Final
  <1> QED
    BY <1>1, <1>4 DEF Taken

(* Only an answer is taken for one. *)
LEMMA IntermediateOf ==
    ASSUME IInv, UrcInv, OwnerInv, ProcessLine, response # None, IsIntermediate(line)
    PROVE  line.of # 0
  <1>1. PICK c \in Clients : requestmutex = c
    BY DEF IInv, TypeOK, SlotTypes, SlotOwned
  <1>2. type = command[c].type /\ responsePrefix = command[c].prefix
    BY <1>1 DEF OwnerInv
  <1>3. type # "NO_RESULT"
    BY DEF IsIntermediate
  <1>4. command[c] \in Commands
    <2>1. command[c] \in Commands \cup {Handshake}
      BY DEF IInv, TypeOK, ClientTypes
    <2> QED
      BY <1>2, <1>3, <2>1 DEF Handshake
  <1>5. ~Unwanted(line)
    BY <1>2, <1>3, <1>4 DEF Unwanted, IsIntermediate
  <1> QED
    BY <1>5 DEF UrcInv, Loose, ProcessLine

LEMMA TakenNew ==
    ASSUME IInv, OrderInv, UrcInv, OwnerInv, LagInv, ProcessLine, response # None,
           IsIntermediate(line), ~Final(line), UrcsApart
    PROVE  \E l \in LineType : l = line /\ Taken(l)'
  <1>1. line.of # 0 /\ readerPc = "process" /\ readerPc' = "readline" /\ input' = input
    BY IntermediateOf DEF ProcessLine
  <1>2. Gap(line.of) /\ Behind(line) /\ \A j \in DOMAIN input : Precedes(line, input[j])
    BY <1>1 DEF LagInv, OrderInv
  <1>3. PICK l \in LineType : l = line /\ Answers(l)'
    BY <1>1, <1>2, AnswersNew
  <1>4. Behind(l)'
    <2>1. [Next]_vars
      BY DEF Next, ReaderStep
    <2> QED
      BY <1>2, <1>3, <2>1, BehindStep
  <1>5. (\A j \in DOMAIN input : Precedes(l, input[j]))' /\ (~Final(l))'
    BY <1>1, <1>2, <1>3 DEF Precedes, Final
  <1>6. Taken(l)'
    BY <1>1, <1>3, <1>4, <1>5 DEF Taken
  <1> QED
    BY <1>3, <1>6

(* The intermediate lines, the last one first. *)
NewestFirst(q) == \A i, j \in DOMAIN q : i < j /\ q[i].of = q[j].of => q[j].n < q[i].n

SlotLines(r) ==
    /\ r.final # None => Answers(r.final)
    /\ type \in {"SINGLELINE", "NUMERIC"} => Len(r.inter) <= 1
    /\ \A i \in DOMAIN r.inter : Taken(r.inter[i])
    /\ NewestFirst(r.inter)

LEMMA SlotLinesOf == ResponseInv <=> (response # None => SlotLines(response))
  BY DEF ResponseInv, SlotLines, Taken, NewestFirst

(* What a step does to a response that is in the slot. *)
LEMMA ResponseChange ==
    ASSUME IInv, [Next]_vars, response # None
    PROVE  \/ response' = None
           \/ UNCHANGED <<response, type>>
           \/ /\ ProcessLine /\ UNCHANGED type
              /\ response'.inter = response.inter /\ response'.final = response.final
           \/ /\ ProcessLine /\ Final(line) /\ UNCHANGED type
              /\ response'.inter = response.inter /\ response'.final = line
           \/ /\ ProcessLine /\ ~Final(line) /\ IsIntermediate(line) /\ UNCHANGED type
              /\ response'.inter = Cons(line, response.inter)
              /\ response'.final = response.final
  <1>0. requestmutex # None /\ response \in ResponseType
    BY WireTypes DEF IInv, SlotOwned
  <1>1. ASSUME NEW c \in Clients, Call(c) \/ CloseFd(c) \/ ClientStep(c)
        PROVE  response' = None \/ UNCHANGED <<response, type>>
    <2>1. CASE HandshakeRetry(c) \/ HandshakeAnswered(c) \/ Return(c)
      BY <2>1 DEF HandshakeRetry, HandshakeAnswered, Return, ReleaseSlot
    <2>2. ~TakeSlot(c)
      BY <1>0 DEF TakeSlot
    <2> QED
      BY <1>1, <2>1, <2>2 DEF Call, CloseFd, ClientStep, Lock, RequestBusy, RequestWoken,
         WritelineCheck, Write, Await, CommandWoken, Timeout, TimedOut, HandshakePause,
         OnTimeout, CloseSignal, slotVars
  <1>2. CASE ProcessLine
    <2>1. UNCHANGED type
      BY <1>2 DEF ProcessLine
    <2>2. CASE Final(line) /\ HandleFinalResponse
      BY <1>0, <1>2, <2>1, <2>2 DEF HandleFinalResponse, ResponseType
    <2>3. CASE HandleUnsolicited
      BY <2>1, <2>3 DEF HandleUnsolicited
    <2>4. CASE HandlePrompt
      BY <1>0, <1>2, <2>1, <2>4 DEF HandlePrompt, ResponseType
    <2>5. CASE ~Final(line) /\ IsIntermediate(line) /\ AddIntermediate
      BY <1>0, <1>2, <2>1, <2>5 DEF AddIntermediate, ResponseType
    <2> QED
      BY <1>2, <2>2, <2>3, <2>4, <2>5 DEF ProcessLine, Final
  <1>3. CASE ReaderStep /\ ~ProcessLine
    BY <1>3 DEF ReaderStep, ReadLine, ReadLine2, ReadNull, ReaderClosedCheck,
       ReaderClosedSet, ReaderCloseFd, ReaderCloseSignal, slotVars
  <1>4. CASE ModemStep \/ UNCHANGED vars
    BY <1>4 DEF ModemStep, vars, slotVars
  <1> QED
    BY <1>1, <1>2, <1>3, <1>4 DEF Next

LEMMA ResponseStep ==
    ASSUME IInv, OrderInv, UrcInv, UrcsApart, LagInv, OwnerInv, ResponseInv, [Next]_vars
    PROVE  ResponseInv'
  <1> SUFFICES ASSUME response' # None
               PROVE  /\ response'.final # None => Answers(response.final)'
                      /\ type' \in {"SINGLELINE", "NUMERIC"} => Len(response'.inter) <= 1
                      /\ \A i \in DOMAIN response'.inter : Taken(response.inter[i])'
                      /\ NewestFirst(response'.inter)
    <2>1. ResponseInv' <=> (response # None => SlotLines(response))'
      BY SlotLinesOf, PTL
    <2> QED
      BY <2>1 DEF SlotLines, NewestFirst
  <1>1. CASE response = None
    <2>1. PICK c \in Clients : TakeSlot(c)
      <3>1. ReaderStep => response' = None
        BY <1>1 DEF ReaderStep, ReadLine, ReadLine2, ReadNull, ProcessLine, HandleUnsolicited,
           ReaderClosedCheck, ReaderClosedSet, ReaderCloseFd, ReaderCloseSignal, slotVars
      <3>2. ModemStep \/ UNCHANGED vars => response' = None
        BY <1>1 DEF ModemStep, vars, slotVars
      <3>3. ASSUME NEW c \in Clients, Call(c) \/ CloseFd(c)
            PROVE  response' = None
        BY <1>1, <3>3 DEF Call, CloseFd, slotVars
      <3>4. ASSUME NEW c \in Clients, ClientStep(c), ~TakeSlot(c)
            PROVE  response' = None
        BY <1>1, <3>4 DEF ClientStep, Lock, RequestBusy, RequestWoken, WritelineCheck, Write,
           Await, CommandWoken, Timeout, TimedOut, HandshakeRetry, HandshakeAnswered,
           HandshakePause, Return, OnTimeout, CloseSignal, ReleaseSlot, slotVars
      <3> QED
        BY <3>1, <3>2, <3>3, <3>4 DEF Next
    <2>2. response' = NewResponse
      BY <1>1, <2>1 DEF TakeSlot
    <2>3. response'.final = None /\ response'.inter = <<>>
      BY <2>2 DEF NewResponse
    <2> QED
      BY <2>3 DEF NewestFirst
  <1>2. CASE response # None
    <2> DEFINE q == response.inter
    <2>0. /\ response \in ResponseType /\ q \in Seq(LineType)
          /\ \A i \in DOMAIN q : q[i] \in LineType
          /\ response.final # None => response.final \in LineType
      BY <1>2, WireTypes DEF ResponseType
    <2>1. SlotLines(response)
      BY <1>2, SlotLinesOf
    <2>2. \A l \in LineType : Taken(l) => Taken(l)'
      BY <1>2, TakenStep
    <2>3. \A l \in LineType : Answers(l) => Answers(l)'
      BY <1>2, AnswersStep
    <2>4. \A i \in DOMAIN q : \E l \in LineType : l = q[i] /\ Taken(l)'
      BY <2>0, <2>1, <2>2 DEF SlotLines
    <2>5. ASSUME response'.final = response.final, response'.final # None
          PROVE  Answers(response.final)'
      <3>1. PICK l \in LineType : l = response.final
        BY <2>0, <2>5
      <3>2. Answers(l)'
        BY <2>1, <2>3, <2>5, <3>1 DEF SlotLines
      <3> QED
        BY <2>5, <3>1, <3>2 DEF Answers
    <2>6. ASSUME response'.inter = q, UNCHANGED type
          PROVE  /\ type' \in {"SINGLELINE", "NUMERIC"} => Len(response'.inter) <= 1
                 /\ \A i \in DOMAIN response'.inter : Taken(response.inter[i])'
                 /\ NewestFirst(response'.inter)
      <3>1. ASSUME NEW i \in DOMAIN response'.inter PROVE Taken(response.inter[i])'
        <4>1. PICK l \in LineType : l = response'.inter[i] /\ Taken(l)'
          BY <2>4, <2>6
        <4> QED
          BY <4>1 DEF Taken, Answers, Final, Behind, Precedes
      <3> QED
        BY <2>1, <2>6, <3>1 DEF SlotLines
    <2>7. CASE UNCHANGED <<response, type>>
      BY <2>5, <2>6, <2>7
    <2>8. CASE /\ ProcessLine /\ UNCHANGED type
               /\ response'.inter = q /\ response'.final = response.final
      BY <2>5, <2>6, <2>8
    <2>9. CASE /\ ProcessLine /\ Final(line) /\ UNCHANGED type
               /\ response'.inter = q /\ response'.final = line
      <3>1. line.of # 0 /\ Gap(line.of) /\ Behind(line)
        <4>1. readerPc = "process" /\ line.of # 0
          BY <2>9, FinalOf DEF ProcessLine
        <4> QED
          BY <4>1 DEF LagInv, OrderInv
      <3>2. PICK l \in LineType : l = line /\ Answers(l)'
        BY <1>2, <2>9, <3>1, AnswersNew
      <3>3. Answers(response.final)'
        BY <2>9, <3>2 DEF Answers
      <3> QED
        BY <2>6, <2>9, <3>3
    <2>10. CASE /\ ProcessLine /\ ~Final(line) /\ IsIntermediate(line) /\ UNCHANGED type
                /\ response'.inter = Cons(line, q)
                /\ response'.final = response.final
      <3>1. PICK m \in LineType : m = line /\ Taken(m)'
        BY <1>2, <2>10, TakenNew
      <3>2. /\ Len(response'.inter) = Len(q) + 1
            /\ \A i \in DOMAIN response'.inter :
                  \/ i = 1 /\ response'.inter[i] = m
                  \/ i > 1 /\ i - 1 \in DOMAIN q /\ response'.inter[i] = q[i - 1]
            /\ response'.inter \in Seq(LineType)
        <4>1. response'.inter = Cons(m, q)
          BY <2>10, <3>1
        <4>2. /\ Cons(m, q) \in Seq(LineType) /\ Len(Cons(m, q)) = Len(q) + 1
              /\ \A i \in DOMAIN Cons(m, q) :
                    \/ i = 1 /\ Cons(m, q)[i] = m
                    \/ i > 1 /\ i - 1 \in DOMAIN q /\ Cons(m, q)[i] = q[i - 1]
          <5> HIDE DEF q
          <5> QED
            BY <2>0, ConsIndex
        <4> QED
          BY <4>1, <4>2
      <3>3. type' \in {"SINGLELINE", "NUMERIC"} => Len(response'.inter) <= 1
        <4>1. type = "MULTILINE" \/ q = <<>>
          BY <2>10 DEF IsIntermediate
        <4> QED
          BY <2>10, <3>2, <4>1
      <3>4. ASSUME NEW i \in DOMAIN response'.inter PROVE Taken(response.inter[i])'
        <4>1. PICK l \in LineType : l = response'.inter[i] /\ Taken(l)'
          BY <2>4, <3>1, <3>2
        <4> QED
          BY <4>1 DEF Taken, Answers, Final, Behind, Precedes
      <3>5. NewestFirst(response'.inter)
        <4> SUFFICES ASSUME NEW i \in DOMAIN response'.inter, NEW j \in DOMAIN response'.inter,
                            i < j, response'.inter[i].of = response'.inter[j].of
                     PROVE  response'.inter[j].n < response'.inter[i].n
          BY DEF NewestFirst
        <4>1. /\ i \in Nat /\ j \in Nat /\ j > 1
              /\ j - 1 \in DOMAIN q /\ response'.inter[j] = q[j - 1]
          BY <3>2
        <4>2. CASE i = 1
          <5>1. response'.inter[i] = line
            BY <3>1, <3>2, <4>2
          <5>2. Answers(q[j - 1]) /\ Precedes(q[j - 1], line)
            BY <2>1, <2>10, <4>1 DEF SlotLines, Taken, ProcessLine
          <5>3. q[j - 1].of # 0
            BY <5>2 DEF Answers
          <5> QED
            BY <2>10, <4>1, <5>1, <5>2, <5>3 DEF Precedes
        <4>3. CASE i > 1
          <5>1. i - 1 \in DOMAIN q /\ response'.inter[i] = q[i - 1] /\ i - 1 < j - 1
            BY <3>2, <4>1, <4>3
          <5> QED
            BY <2>1, <4>1, <5>1 DEF SlotLines, NewestFirst
        <4> QED
          BY <3>2, <4>2, <4>3
      <3> QED
        BY <2>5, <2>10, <3>3, <3>4, <3>5
    <2> QED
      BY <1>2, <2>7, <2>8, <2>9, <2>10, ResponseChange
  <1> QED
    BY <1>1, <1>2

-----------------------------------------------------------------------------
(* What calls return. *)

Lag(l, id) == l.of # 0 /\ l.of <= id /\ id <= l.of + timeouts

OutLines(o) ==
    /\ o.final # None => Lag(o.final, o.id)
    /\ \A i \in DOMAIN o.inter : Lag(o.inter[i], o.id)
    /\ o.err = "NOERROR" /\ o.type \in {"SINGLELINE", "NUMERIC"} => Len(o.inter) = 1
    /\ \A i, j \in DOMAIN o.inter :
          i < j /\ o.inter[i].of = o.inter[j].of => o.inter[i].n < o.inter[j].n

AllOutLines == \A c \in Clients : OutLines(out[c])

LEMMA OutOf == OutInv <=> AllOutLines
  BY DEF OutInv, AnswerLag, AnswerComplete, AllOutLines, OutLines, Lag

(* A client that is done returns what is in the slot, in the modem's order. *)
LEMMA OutcomeLines ==
    ASSUME IInv, OwnerInv, ResponseInv, NEW c \in Clients, pc[c] = "finally",
           NEW e \in Errors, e = "NOERROR" => err[c] = "NOERROR"
    PROVE  OutLines(Outcome(c, e))
  <1> DEFINE o == Outcome(c, e)
             q == response.inter
  <1>1. /\ requestmutex = c /\ response # None
        /\ response \in ResponseType /\ q \in Seq(LineType)
        /\ lastSerial \in Nat /\ timeouts \in Nat
    BY ConstantsAssumption, WireTypes
    DEF IInv, SlotOwned, OwnerLabels, ResponseType
  <1>2. /\ type = command[c].type
        /\ err[c] = "NOERROR" => serial[c] = lastSerial
    BY <1>1 DEF OwnerInv
  <1>3. /\ o.id = serial[c] /\ o.type = command[c].type /\ o.err = WrapperError(c, e)
        /\ o.inter = IF err[c] = "NOERROR" THEN Reverse(q) ELSE <<>>
        /\ o.final = IF err[c] = "NOERROR" THEN response.final ELSE None
    BY DEF Outcome
  <1>4. SlotLines(response)
    BY <1>1, SlotLinesOf
  <1> HIDE DEF o
  <1>5. CASE err[c] # "NOERROR"
    <2>1. o.inter = <<>> /\ o.final = None
      BY <1>3, <1>5
    <2>2. o.err # "NOERROR"
      BY <1>3, <1>5 DEF WrapperError
    <2> QED
      BY <2>1, <2>2 DEF OutLines, o
  <1>6. CASE err[c] = "NOERROR"
    <2>1. o.inter = Reverse(q) /\ o.final = response.final /\ o.id = lastSerial
      BY <1>2, <1>3, <1>6
    <2>2. /\ Len(o.inter) = Len(q)
          /\ \A i \in DOMAIN o.inter :
                Len(q) + 1 - i \in DOMAIN q /\ o.inter[i] = q[Len(q) + 1 - i] /\ i \in Nat
      <3>1. Reverse(q) \in Seq(LineType)
        BY <1>1, ReverseIndex
      <3>2. Len(Reverse(q)) = Len(q) /\ \A i \in DOMAIN Reverse(q) :
                Len(q) + 1 - i \in DOMAIN q /\ Reverse(q)[i] = q[Len(q) + 1 - i]
        <4> HIDE DEF q
        <4> QED
          BY <1>1, ReverseIndex
      <3>3. \A i \in DOMAIN Reverse(q) : i \in Nat
        BY <3>1
      <3> QED
        BY <2>1, <3>2, <3>3
    <2>3. o.final # None => Lag(o.final, o.id)
      BY <1>4, <2>1 DEF SlotLines, Answers, Lag
    <2>4. \A i \in DOMAIN o.inter : Lag(o.inter[i], o.id)
      BY <1>4, <2>1, <2>2 DEF SlotLines, Taken, Answers, Lag
    <2>5. o.err = "NOERROR" /\ o.type \in {"SINGLELINE", "NUMERIC"} => Len(o.inter) = 1
      <3> SUFFICES ASSUME o.err = "NOERROR", o.type \in {"SINGLELINE", "NUMERIC"}
                   PROVE  Len(o.inter) = 1
        OBVIOUS
      <3>1. q # <<>>
        BY <1>3 DEF WrapperError
      <3>2. Len(q) <= 1
        BY <1>2, <1>3, <1>4 DEF SlotLines
      <3>3. Len(q) \in Nat /\ Len(q) # 0
        BY <1>1, <3>1
      <3>4. Len(q) = 1
        <4>1. \A n \in Nat : n <= 1 /\ n # 0 => n = 1
          OBVIOUS
        <4> QED
          BY <3>2, <3>3, <4>1
      <3> QED
        BY <2>2, <3>4
    <2>6. ASSUME NEW i \in DOMAIN o.inter, NEW j \in DOMAIN o.inter, i < j,
                 o.inter[i].of = o.inter[j].of
          PROVE  o.inter[i].n < o.inter[j].n
      <3>1. Len(q) \in Nat /\ i \in Nat /\ j \in Nat
        BY <1>1, <2>2
      <3>2. Len(q) + 1 - j < Len(q) + 1 - i
        BY <2>6, <3>1
      <3> QED
        BY <1>4, <2>2, <2>6, <3>2 DEF SlotLines, NewestFirst
    <2> QED
      BY <2>3, <2>4, <2>5, <2>6 DEF OutLines, o
  <1> QED
    BY <1>5, <1>6

(* The slack of an answer grows only. *)
LEMMA TimeoutsGrow ==
    ASSUME IInv, [Next]_vars
    PROVE  /\ timeouts \in Nat /\ timeouts' \in Nat /\ timeouts' >= timeouts
           /\ readerClosed => readerClosed'
  <1>0. timeouts \in Nat
    BY WireTypes
  <1>1. ASSUME NEW c \in Clients, Call(c) \/ CloseFd(c) \/ ClientStep(c)
        PROVE  /\ timeouts' = timeouts \/ timeouts' = timeouts + 1
               /\ readerClosed => readerClosed'
    BY <1>1 DEF Call, CloseFd, ClientStep, Lock, RequestBusy, RequestWoken, TakeSlot,
       WritelineCheck, Write, Await, CommandWoken, Timeout, TimedOut, HandshakeRetry,
       HandshakeAnswered, HandshakePause, Return, OnTimeout, CloseSignal, history
  <1>2. ReaderStep \/ ModemStep \/ UNCHANGED vars =>
           timeouts' = timeouts /\ (readerClosed => readerClosed')
    BY DEF ReaderStep, ReadLine, ReadLine2, ReadNull, ProcessLine, ReaderClosedCheck,
       ReaderClosedSet, ReaderCloseFd, ReaderCloseSignal, ModemStep, vars, history
  <1> QED
    BY <1>0, <1>1, <1>2 DEF Next

LEMMA OutStep ==
    ASSUME IInv, OwnerInv, ResponseInv, OutInv, [Next]_vars
    PROVE  OutInv'
  <1> DEFINE Types == /\ out \in [Clients -> OutType] /\ timeouts \in Nat
                      /\ err \in [Clients -> Errors]
  <1>0. Types /\ \A c \in Clients : OutLines(out[c])
    BY OutOf DEF AllOutLines, IInv, TypeOK, ClientTypes
  <1>1. timeouts' \in Nat /\ timeouts' >= timeouts
    BY TimeoutsGrow
  <1>2. \A o \in OutType : OutLines(o) => OutLines(o)'
    <2> SUFFICES ASSUME NEW o \in OutType, OutLines(o) PROVE OutLines(o)'
      OBVIOUS
    <2>1. /\ o.id \in Nat
          /\ o.final # None => o.final \in LineType
          /\ \A i \in DOMAIN o.inter : o.inter[i] \in LineType
      BY DEF OutType
    <2>2. \A l \in LineType : Lag(l, o.id) => Lag(l, o.id)'
      BY <1>0, <1>1, <2>1 DEF Lag, LineType
    <2>3. /\ o.final # None => Lag(o.final, o.id)'
          /\ \A i \in DOMAIN o.inter : Lag(o.inter[i], o.id)'
      BY <2>1, <2>2 DEF OutLines
    <2> QED
      BY <2>3 DEF OutLines
  <1>3. ASSUME NEW c \in Clients, NEW o \in OutType, OutLines(o), out' = [out EXCEPT ![c] = o]
        PROVE  OutInv'
    <2>1. \A d \in Clients : \E p \in OutType : p = out'[d] /\ OutLines(p)'
      BY <1>0, <1>2, <1>3
    <2>2. \A d \in Clients : OutLines(out[d])'
      BY <2>1 DEF OutLines, Lag
    <2>3. AllOutLines'
      BY <2>2 DEF AllOutLines
    <2> QED
      BY <2>3, OutOf, PTL
  <1>4. CASE out' = out
    <2>1. \A d \in Clients : \E p \in OutType : p = out'[d] /\ OutLines(p)'
      BY <1>0, <1>2, <1>4
    <2>2. \A d \in Clients : OutLines(out[d])'
      BY <2>1 DEF OutLines, Lag
    <2>3. AllOutLines'
      BY <2>2 DEF AllOutLines
    <2> QED
      BY <2>3, OutOf, PTL
  <1>5. ASSUME NEW c \in Clients, Call(c) PROVE OutInv'
    <2>1. NoOut \in OutType /\ OutLines(NoOut) /\ out' = [out EXCEPT ![c] = NoOut]
      BY <1>5 DEF Call, NoOut, OutType, OutLines, Errors, ATCommandTypes
    <2> QED
      BY <1>3, <2>1
  <1>6. ASSUME NEW c \in Clients, HandshakeAnswered(c) PROVE OutInv'
    <2>1. err[c] = "NOERROR" /\ pc[c] = "finally" /\ out' = [out EXCEPT ![c] = Outcome(c, "NOERROR")]
      BY <1>0, <1>6 DEF HandshakeAnswered, NolockError
    <2>2. Outcome(c, "NOERROR") \in OutType
      BY <2>1, OutcomeType DEF Errors
    <2> QED
      BY <1>3, <2>1, <2>2, OutcomeLines DEF Errors
  <1>7. ASSUME NEW c \in Clients, Return(c) PROVE OutInv'
    <2> DEFINE e == NolockError(c)
    <2>1. pc[c] = "finally" /\ out' = [out EXCEPT ![c] = Outcome(c, e)]
      BY <1>7 DEF Return
    <2>2. e \in Errors /\ (e = "NOERROR" => err[c] = "NOERROR")
      BY <1>0 DEF NolockError, Errors
    <2>3. Outcome(c, e) \in OutType
      BY <2>1, <2>2, OutcomeType
    <2> QED
      BY <1>3, <2>1, <2>2, <2>3, OutcomeLines
  <1>8. ASSUME NEW c \in Clients, CloseFd(c) \/ ClientStep(c), ~HandshakeAnswered(c), ~Return(c)
        PROVE  out' = out
    BY <1>8 DEF CloseFd, ClientStep, Lock, RequestBusy, RequestWoken, TakeSlot,
       WritelineCheck, Write, Await, CommandWoken, Timeout, TimedOut, HandshakeRetry,
       HandshakePause, OnTimeout, CloseSignal
  <1>9. ReaderStep \/ ModemStep \/ UNCHANGED vars => out' = out
    BY DEF ReaderStep, ReadLine, ReadLine2, ReadNull, ProcessLine, ReaderClosedCheck,
       ReaderClosedSet, ReaderCloseFd, ReaderCloseSignal, ModemStep, vars, clientVars
  <1> QED
    BY <1>4, <1>5, <1>6, <1>7, <1>8, <1>9 DEF Next

-----------------------------------------------------------------------------
LEMMA UnsolicitedStep ==
    ASSUME IInv, OrderInv, UrcInv, LagInv, FinalNotUnsolicited, [Next]_vars
    PROVE  FinalNotUnsolicited'
  <1>1. CASE ReadLine
    BY <1>1 DEF ReadLine, FinalNotUnsolicited
  <1>2. CASE ReadLine2
    BY <1>2 DEF ReadLine2, UrcInv, FinalNotUnsolicited
  <1>3. CASE ProcessLine
    <2>1. CASE response # None
      <3>1. unsol' = unsol \/ (unsol' = line /\ ~Final(line))
        BY <1>3, <2>1 DEF ProcessLine, Final, HandleUnsolicited, HandleFinalResponse,
           HandlePrompt, AddIntermediate
      <3> QED
        BY <1>3, <3>1, ProcessLineClients DEF FinalNotUnsolicited, Final
    <2>2. CASE response = None
      <3>1. requestmutex = None /\ unsol' = line /\ readerPc = "process"
        BY <1>3, <2>2 DEF ProcessLine, HandleUnsolicited, IInv, SlotOwned
      <3>2. line.of # 0 => Gap(line.of) /\ line.of <= lastSerial
        BY <3>1 DEF LagInv, OrderInv, Behind
      <3>3. /\ line \in LineType /\ line.of \in Nat
            /\ lastSerial \in Nat /\ timeouts \in Nat
        BY <3>1, WireTypes DEF LineType
      <3>4. line.of # 0 => timeouts > 0 \/ readerClosed
        BY <3>1, <3>2, <3>3 DEF Gap, Waits, Writes
      <3> QED
        BY <1>3, <3>1, <3>4, ProcessLineClients DEF FinalNotUnsolicited
    <2> QED
      BY <2>1, <2>2
  <1>4. CASE ~ReadLine /\ ~ReadLine2 /\ ~ProcessLine
    <2>1. unsol' = unsol
      <3>1. ASSUME NEW c \in Clients, Call(c) \/ CloseFd(c) \/ ClientStep(c)
            PROVE  unsol' = unsol
        BY <3>1 DEF Call, CloseFd, ClientStep, Lock, RequestBusy, RequestWoken, TakeSlot,
           WritelineCheck, Write, Await, CommandWoken, Timeout, TimedOut, HandshakeRetry,
           HandshakeAnswered, HandshakePause, Return, OnTimeout, CloseSignal, readerVars
      <3>2. ReaderStep \/ ModemStep \/ UNCHANGED vars => unsol' = unsol
        BY <1>4 DEF ReaderStep, ReadNull, ReaderClosedCheck, ReaderClosedSet, ReaderCloseFd,
           ReaderCloseSignal, ModemStep, vars, readerVars
      <3> QED
        BY <3>1, <3>2 DEF Next
    <2> QED
      BY <2>1, TimeoutsGrow DEF FinalNotUnsolicited
  <1> QED
    BY <1>1, <1>2, <1>3, <1>4

LEMMA PduStep ==
    ASSUME IInv, PduInv, [Next]_vars
    PROVE  PduInv'
  <1>0. /\ response # None => response.pdus \in Nat /\ response \in ResponseType
        /\ requestmutex # None <=> response # None
    BY WireTypes DEF ResponseType, IInv, SlotOwned
  <1>1. CASE UNCHANGED <<response, smsPDU>> \/ response' = None
    BY <1>1 DEF PduInv
  <1>2. ASSUME NEW c \in Clients, TakeSlot(c) PROVE PduInv'
    <2>1. response' = NewResponse
      BY <1>0, <1>2 DEF TakeSlot
    <2> QED
      BY <2>1 DEF NewResponse, PduInv
  <1>3. CASE ProcessLine
    <2>1. CASE HandleUnsolicited
      BY <1>1, <2>1 DEF HandleUnsolicited
    <2>2. CASE response # None /\ (HandleFinalResponse \/ AddIntermediate)
      <3>1. response'.pdus = response.pdus /\ smsPDU' = smsPDU
        BY <1>0, <2>2 DEF HandleFinalResponse, AddIntermediate, ResponseType
      <3> QED
        BY <2>2, <3>1 DEF PduInv
    <2>3. CASE response # None /\ smsPDU /\ HandlePrompt
      <3>1. response'.pdus = response.pdus + 1 /\ smsPDU' = FALSE
        BY <1>0, <2>3 DEF HandlePrompt, ResponseType
      <3> QED
        BY <1>0, <2>3, <3>1 DEF PduInv
    <2> QED
      BY <1>3, <2>1, <2>2, <2>3 DEF ProcessLine
  <1>4. ASSUME NEW c \in Clients, Call(c) \/ CloseFd(c) \/ ClientStep(c), ~TakeSlot(c)
        PROVE  UNCHANGED <<response, smsPDU>> \/ response' = None
    <2>1. CASE HandshakeRetry(c) \/ HandshakeAnswered(c) \/ Return(c)
      BY <2>1 DEF HandshakeRetry, HandshakeAnswered, Return, ReleaseSlot
    <2> QED
      BY <1>4, <2>1 DEF Call, CloseFd, ClientStep, Lock, RequestBusy, RequestWoken,
         WritelineCheck, Write, Await, CommandWoken, Timeout, TimedOut, HandshakePause,
         OnTimeout, CloseSignal, slotVars
  <1>5. CASE ReaderStep /\ ~ProcessLine
    BY <1>1, <1>5 DEF ReaderStep, ReadLine, ReadLine2, ReadNull, ReaderClosedCheck,
       ReaderClosedSet, ReaderCloseFd, ReaderCloseSignal, slotVars
  <1>6. CASE ModemStep \/ UNCHANGED vars
    BY <1>1, <1>6 DEF ModemStep, vars, slotVars
  <1> QED
    BY <1>1, <1>2, <1>3, <1>4, <1>5, <1>6 DEF Next, ClientStep

-----------------------------------------------------------------------------
LEMMA InitAnswers == Init => AInv /\ FinalNotUnsolicited /\ PduInv
  <1> SUFFICES ASSUME Init PROVE AInv /\ FinalNotUnsolicited /\ PduInv
    OBVIOUS
  <1>1. /\ input = <<>> /\ toModem = <<>> /\ modem.phase = "idle" /\ readerPc = "readline"
        /\ response = None /\ requestmutex = None /\ unsol = None
        /\ \A c \in Clients : out[c] = NoOut
    BY DEF Init, Idle
  <1>2. OrderInv /\ UrcInv /\ LagInv
    BY <1>1 DEF OrderInv, UrcInv, LagInv
  <1>3. OwnerInv /\ ResponseInv /\ FinalNotUnsolicited /\ PduInv
    BY <1>1, ConstantsAssumption DEF OwnerInv, ResponseInv, FinalNotUnsolicited, PduInv
  <1>4. AllOutLines
    BY <1>1 DEF AllOutLines, OutLines, NoOut
  <1> QED
    BY <1>2, <1>3, <1>4, OutOf DEF AInv

LEMMA AnswersInvariant ==
    ASSUME UrcsApart
    PROVE  Spec => [](AInv /\ FinalNotUnsolicited)
  <1>1. Init => IInv /\ AInv /\ FinalNotUnsolicited
    BY InitInv, InitAnswers
  <1>2. IInv /\ AInv /\ FinalNotUnsolicited /\ [Next]_vars
           => (IInv /\ AInv /\ FinalNotUnsolicited)'
    <2> SUFFICES ASSUME IInv, AInv, FinalNotUnsolicited, [Next]_vars
                 PROVE  IInv' /\ AInv' /\ FinalNotUnsolicited'
      OBVIOUS
    <2>1. IInv' /\ OrderInv'
      BY StepInv, OrderStep DEF AInv
    <2>2. UrcInv' /\ OwnerInv' /\ ResponseInv' /\ OutInv'
      BY UrcStep, OwnerStep, ResponseStep, OutStep DEF AInv
    <2>3. LagInv'
      BY <2>1, LagStep DEF AInv
    <2>4. FinalNotUnsolicited'
      BY UnsolicitedStep DEF AInv
    <2> QED
      BY <2>1, <2>2, <2>3, <2>4 DEF AInv
  <1> QED
    BY <1>1, <1>2, PTL DEF Spec

(* Whose answer a command gets (atchannel.c, processLine()): with none of   *)
(* the unsolicited lines looking like an answer, all the lines of a         *)
(* response are the modem's for a command that was written at most as many  *)
(* commands earlier as there were timeouts, however the threads interleave. *)
THEOREM AnswersLate ==
    ASSUME UrcsApart
    PROVE  Spec => []AnswerLag
  <1>1. AInv => AnswerLag
    BY DEF AInv, OutInv
  <1> QED
    BY <1>1, AnswersInvariant, PTL

(* at_send_command_singleline() and at_send_command_numeric() succeed with  *)
(* one line, and reverseIntermediates() gives the lines of a multiline      *)
(* answer back in the modem's order.                                        *)
THEOREM AnswersComplete ==
    ASSUME UrcsApart
    PROVE  Spec => []AnswerComplete
  <1>1. AInv => AnswerComplete
    BY DEF AInv, OutInv
  <1> QED
    BY <1>1, AnswersInvariant, PTL

(* processLine() hands a final response of a command to the unsolicited     *)
(* handler only after a timeout or when the channel is closed.              *)
THEOREM FinalsOwned ==
    ASSUME UrcsApart
    PROVE  Spec => []FinalNotUnsolicited
  BY AnswersInvariant, PTL

(* processLine() answers one prompt for each command with an SMS, whatever  *)
(* the modem sends: smsPDU is taken when it is written.                     *)
THEOREM PduSentOnce == Spec => []PduOnce
  <1>1. Init => IInv /\ PduInv
    BY InitInv, InitAnswers
  <1>2. IInv /\ PduInv /\ [Next]_vars => (IInv /\ PduInv)'
    BY StepInv, PduStep
  <1>3. PduInv => PduOnce
    BY DEF PduInv, PduOnce
  <1> QED
    BY <1>1, <1>2, <1>3, PTL DEF Spec
=============================================================================
