------------------------------ MODULE AtChannel ------------------------------
(****************************************************************************)
(* The AT command channel of the radio interface layer                      *)
(* (huawei-generic/atchannel.c) between at_open() and at_close().           *)
(*                                                                          *)
(* Client threads issue commands with at_send_command*() or shake hands     *)
(* with at_handshake(); one reader thread takes lines from the modem and    *)
(* either completes the pending command (struct atcontext: response, type,  *)
(* responsePrefix, smsPDU) or hands the line to the unsolicited handler.    *)
(* Two mutexes and two condition variables order them:                      *)
(*   commandmutex protects the slot of the pending command, and is given up *)
(*                while a thread waits on commandcond or requestcond;       *)
(*   requestmutex is held from the moment a command owns the slot until     *)
(*                the slot is empty again; it is only ever try-locked.      *)
(* The modem is external: it answers the command lines it reads in order,   *)
(* may be arbitrarily late, may send unsolicited lines, may go away.        *)
(*                                                                          *)
(* A command line is identified by the serial number of its write, so that  *)
(* properties can tell whose answer a response is made of; nothing in the   *)
(* model decides on a serial number.                                        *)
(****************************************************************************)
EXTENDS Naturals, FiniteSets, SequencesExt

CONSTANTS
    Clients,              \* threads that issue commands
    LinePrefixes,             \* what lines begin with
    Commands,             \* the commands they may issue: records of CommandType
    Urcs,                 \* unsolicited lines the modem may send
    TimeoutMsec,          \* ac->timeoutMsec; 0 waits for ever
    HandshakeRetryCount,  \* HANDSHAKE_RETRY_COUNT
    PauseDrains,          \* the modem has answered all it read when the pause of
                          \* at_handshake() ends
    MayHandshake,         \* clients that start with at_handshake()
    MayClose,             \* clients that may call at_close()
    MayGo,                \* the modem may go away (end of file, tty error)
    MaxCalls,             \* bound: operations started by the clients together
    MaxUrcs,              \* bound: unsolicited lines sent
    MaxInfo,              \* bound: information lines of a MULTILINE answer
    None                  \* no thread, no response, no line

ATCommandTypes == {"NO_RESULT", "NUMERIC", "SINGLELINE", "MULTILINE"}

(* A command: what at_send_command*() passes on. "formatted" is useap: the  *)
(* line is built in the static strbuf. A NUMERIC answer has prefix "digit"; *)
(* the prefix of a NO_RESULT command only names it.                         *)
CommandType == [type : ATCommandTypes, prefix : LinePrefixes,
                sms : BOOLEAN, formatted : BOOLEAN]

Handshake == [type |-> "NO_RESULT", prefix |-> "ATE0Q0V1",
              sms |-> FALSE, formatted |-> FALSE]

LineKinds == {"final_ok", "final_err", "prompt", "text", "sms"}

(* A line from the modem: "of" is the serial number of the command line it  *)
(* answers, 0 when it is unsolicited; "n" numbers the lines of an answer.   *)
LineType == [kind : LineKinds, prefix : LinePrefixes, of : Nat, n : Nat]

ASSUME ConstantsAssumption ==
    /\ None \notin Clients
    /\ {"none", "", "> ", "pdu", "ATE0Q0V1"} \subseteq LinePrefixes
    /\ Commands \subseteq CommandType
    /\ Handshake \notin Commands
    /\ Urcs \subseteq [kind : {"text", "sms", "final_err"}, prefix : LinePrefixes]
    /\ MayHandshake \subseteq Clients
    /\ MayClose \subseteq Clients
    /\ TimeoutMsec \in Nat
    /\ PauseDrains \in BOOLEAN /\ MayGo \in BOOLEAN
    /\ HandshakeRetryCount \in Nat \ {0}
    /\ MaxCalls \in Nat /\ MaxUrcs \in Nat /\ MaxInfo \in Nat

ResponseType == [inter : Seq(LineType), final : {None} \cup LineType,
                 success : BOOLEAN, pdus : Nat]

(* A formatted line: the command in it, and the client it was formatted for. *)
TextType == [by : Clients, cmd : Commands]

ASSUME NoneAssumption ==
    None \notin LineType /\ None \notin ResponseType /\ None \notin TextType

Errors == {"NOERROR", "TIMEOUT", "CHANNEL_CLOSED", "GENERIC", "MODEM_ERROR",
           "INVALID_RESPONSE", "COMMAND_PENDING"}

VARIABLES
    (* struct atcontext *)
    commandmutex,   \* the thread that holds it across a step, or None
    requestmutex,   \* the thread that holds it, or None
    fd,             \* TRUE while ac->fd is a descriptor (>= 0)
    readerClosed,
    type, responsePrefix, smsPDU, response,
    strbuf,         \* the line at_send_command_full() formatted last, and for whom
    (* the client threads *)
    pc, command, err, tries, calls,
    serial,         \* serial number of the line each client wrote last
    out,            \* what the last call returned
    (* the reader thread *)
    readerPc, line,
    unsol,          \* the line the unsolicited handler got last, until the next line
    (* the modem and the two directions of the tty *)
    input, toModem, modem, eof, urcs,
    (* history *)
    lastSerial, timeouts,
    shaken          \* at_handshake() has succeeded

slotVars   == <<type, responsePrefix, smsPDU, response>>
clientVars == <<pc, command, err, tries, calls, serial, out>>
readerVars == <<readerPc, line, unsol>>
modemVars  == <<modem, eof, urcs>>
history    == <<lastSerial, timeouts, shaken>>
vars == <<commandmutex, requestmutex, fd, readerClosed, slotVars, strbuf,
          clientVars, readerVars, input, toModem, modemVars, history>>

NewResponse == [inter |-> <<>>, final |-> None, success |-> FALSE, pdus |-> 0]
NoOut       == [id |-> 0, err |-> "NOERROR", handshake |-> FALSE,
                type |-> "NO_RESULT", inter |-> <<>>, final |-> None]
Idle        == [phase |-> "idle", id |-> 0, cmd |-> Handshake, n |-> 0]

Init ==
    /\ commandmutex = None /\ requestmutex = None
    /\ fd = TRUE /\ readerClosed = FALSE
    /\ type = "NO_RESULT" /\ responsePrefix = "none" /\ smsPDU = FALSE
    /\ response = None
    /\ strbuf = None
    /\ pc = [c \in Clients |-> "idle"]
    /\ command = [c \in Clients |-> Handshake]
    /\ err = [c \in Clients |-> "NOERROR"]
    /\ tries = [c \in Clients |-> 0]
    /\ calls = 0
    /\ serial = [c \in Clients |-> 0]
    /\ out = [c \in Clients |-> NoOut]
    /\ readerPc = "readline" /\ line = None /\ unsol = None
    /\ input = <<>> /\ toModem = <<>>
    /\ modem = Idle /\ eof = FALSE /\ urcs = 0
    /\ lastSerial = 0 /\ timeouts = 0 /\ shaken = FALSE

-----------------------------------------------------------------------------
(* The condition variables of the channel. *)

Goto(c, label) == pc' = [pc EXCEPT ![c] = label]

(* pthread_cond_signal(&commandcond), in a step that moves the clients as p *)
(* says: one waiting thread, if there is any, wakes up.                     *)
Waiting(p) == {c \in Clients : p[c] = "commandwait"}

SignalCommand(p) ==
    \/ Waiting(p) = {} /\ pc' = p
    \/ \E c \in Waiting(p) : pc' = [p EXCEPT ![c] = "commandwoken"]

(* Mutant: nobody is told that the slot is free. *)
BroadcastRequestLost(c, label) == Goto(c, label)

(* pthread_cond_broadcast(&requestcond), by a thread that goes to label. *)
BroadcastRequest(c, label) ==
    pc' = [d \in Clients |-> IF d = c THEN label
                             ELSE IF pc[d] = "requestwait" THEN "requestwoken"
                             ELSE pc[d]]

-----------------------------------------------------------------------------
(* The client threads. *)

(* at_send_command*() or at_handshake() is called. *)
Call(c) ==
    /\ pc[c] = "idle" /\ calls < MaxCalls
    /\ \/ c \in MayHandshake /\ calls = 0
          /\ command' = [command EXCEPT ![c] = Handshake]
       \/ \E cmd \in Commands : command' = [command EXCEPT ![c] = cmd]
    /\ calls' = calls + 1
    /\ out' = [out EXCEPT ![c] = NoOut]
    /\ Goto(c, "lock")
    /\ UNCHANGED <<commandmutex, requestmutex, fd, readerClosed, slotVars, strbuf,
                   err, tries, serial, readerVars, input, toModem, modemVars, history>>

(* at_send_command_full(): lock commandmutex, format the line in strbuf. *)
Lock(c) ==
    /\ pc[c] = "lock" /\ commandmutex = None
    /\ commandmutex' = c
    /\ strbuf' = IF command[c].formatted THEN [by |-> c, cmd |-> command[c]]
                                         ELSE strbuf
    /\ Goto(c, "trylock")
    /\ UNCHANGED <<requestmutex, fd, readerClosed, slotVars, command, err, tries,
                   calls, serial, out, readerVars, input, toModem, modemVars, history>>

(* pthread_mutex_trylock(&requestmutex) == EBUSY: wait on requestcond. *)
RequestBusy(c) ==
    /\ pc[c] = "trylock" /\ requestmutex # None
    /\ commandmutex' = None
    /\ Goto(c, "requestwait")
    /\ UNCHANGED <<requestmutex, fd, readerClosed, slotVars, strbuf, command, err,
                   tries, calls, serial, out, readerVars, input, toModem,
                   modemVars, history>>

(* pthread_cond_wait(&requestcond) returns. *)
RequestWoken(c) ==
    /\ pc[c] = "requestwoken" /\ commandmutex = None
    /\ commandmutex' = c
    /\ Goto(c, "trylock")
    /\ UNCHANGED <<requestmutex, fd, readerClosed, slotVars, strbuf, command, err,
                   tries, calls, serial, out, readerVars, input, toModem,
                   modemVars, history>>

(* Mutant: the slot is taken without requestmutex. *)
TakeSlotWithoutTrylock(c) ==
    /\ pc[c] = "trylock"
    /\ requestmutex' = c
    /\ err' = [err EXCEPT ![c] = "NOERROR"]
    /\ type' = command[c].type
    /\ responsePrefix' = command[c].prefix
    /\ smsPDU' = command[c].sms
    /\ response' = NewResponse
    /\ Goto(c, "writeline")
    /\ UNCHANGED <<commandmutex, fd, readerClosed, strbuf, command, tries, calls,
                   serial, out, readerVars, input, toModem, modemVars, history>>

(* The slot is taken, unless a response is already in it. *)
TakeSlot(c) ==
    /\ pc[c] = "trylock" /\ requestmutex = None
    /\ requestmutex' = c
    /\ \/ /\ response # None
          /\ err' = [err EXCEPT ![c] = "COMMAND_PENDING"]
          /\ Goto(c, "finally")
          /\ UNCHANGED slotVars
       \/ /\ response = None
          /\ err' = [err EXCEPT ![c] = "NOERROR"]
          /\ type' = command[c].type
          /\ responsePrefix' = command[c].prefix
          /\ smsPDU' = command[c].sms
          /\ response' = NewResponse
          /\ Goto(c, "writeline")
    /\ UNCHANGED <<commandmutex, fd, readerClosed, strbuf, command, tries, calls,
                   serial, out, readerVars, input, toModem, modemVars, history>>

(* writeline(): fd and readerClosed are read before the write. *)
WritelineCheck(c) ==
    /\ pc[c] = "writeline"
    /\ IF ~fd \/ readerClosed
       THEN err' = [err EXCEPT ![c] = "CHANNEL_CLOSED"] /\ Goto(c, "finally")
       ELSE Goto(c, "write") /\ UNCHANGED err
    /\ UNCHANGED <<commandmutex, requestmutex, fd, readerClosed, slotVars, strbuf,
                   command, tries, calls, serial, out, readerVars, input, toModem,
                   modemVars, history>>

(* write(ac->fd): at_close() may have closed the descriptor since the check. *)
Write(c) ==
    LET text == IF command[c].formatted THEN strbuf
                                        ELSE [by |-> c, cmd |-> command[c]]
        id   == lastSerial + 1
    IN  /\ pc[c] = "write"
        /\ \/ /\ fd
              /\ toModem' = IF eof THEN toModem
                            ELSE Append(toModem, [kind |-> "cmd", id |-> id,
                                                  prompt |-> 0, by |-> c,
                                                  text |-> text.by, cmd |-> text.cmd])
              /\ serial' = [serial EXCEPT ![c] = id]
              /\ lastSerial' = id
              /\ Goto(c, "await") /\ UNCHANGED err
           \/ /\ ~fd \/ eof
              /\ err' = [err EXCEPT ![c] = "GENERIC"]
              /\ Goto(c, "finally") /\ UNCHANGED <<toModem, serial, lastSerial>>
        /\ UNCHANGED <<commandmutex, requestmutex, fd, readerClosed, slotVars, strbuf,
                       command, tries, calls, out, readerVars, input, modemVars,
                       timeouts, shaken>>

(* The wait loop: no final response and the reader not closed: wait on      *)
(* commandcond, which gives up commandmutex.                                *)
Await(c) ==
    /\ pc[c] = "await"
    /\ IF response.final = None /\ ~readerClosed
       THEN commandmutex' = None /\ Goto(c, "commandwait")
       ELSE Goto(c, "finally") /\ UNCHANGED commandmutex
    /\ UNCHANGED <<requestmutex, fd, readerClosed, slotVars, strbuf, command, err,
                   tries, calls, serial, out, readerVars, input, toModem,
                   modemVars, history>>

CommandWoken(c) ==
    /\ pc[c] = "commandwoken" /\ commandmutex = None
    /\ commandmutex' = c
    /\ Goto(c, "await")
    /\ UNCHANGED <<requestmutex, fd, readerClosed, slotVars, strbuf, command, err,
                   tries, calls, serial, out, readerVars, input, toModem,
                   modemVars, history>>

(* pthread_cond_timeout_np() gives up. The thread still has to take         *)
(* commandmutex, and reports the timeout whatever happened meanwhile.       *)
TimeoutOf(c) ==
    IF command[c] = Handshake THEN 250 ELSE TimeoutMsec

Timeout(c) ==
    /\ pc[c] = "commandwait" /\ TimeoutOf(c) # 0
    /\ timeouts' = timeouts + 1
    /\ Goto(c, "timedout")
    /\ UNCHANGED <<commandmutex, requestmutex, fd, readerClosed, slotVars, strbuf,
                   command, err, tries, calls, serial, out, readerVars, input,
                   toModem, modemVars, lastSerial, shaken>>

(* Mutant: ETIMEDOUT is returned as it is. *)
TimedOutErrno(c) ==
    /\ pc[c] = "timedout" /\ commandmutex = None
    /\ commandmutex' = c
    /\ err' = [err EXCEPT ![c] = "ETIMEDOUT"]
    /\ Goto(c, "finally")
    /\ UNCHANGED <<requestmutex, fd, readerClosed, slotVars, strbuf, command,
                   tries, calls, serial, out, readerVars, input, toModem,
                   modemVars, history>>

TimedOut(c) ==
    /\ pc[c] = "timedout" /\ commandmutex = None
    /\ commandmutex' = c
    /\ err' = [err EXCEPT ![c] = "TIMEOUT"]
    /\ Goto(c, "finally")
    /\ UNCHANGED <<requestmutex, fd, readerClosed, slotVars, strbuf, command,
                   tries, calls, serial, out, readerVars, input, toModem,
                   modemVars, history>>

(* What at_send_command_full_nolock() returns when the wait loop ended. *)
NolockError(c) ==
    CASE err[c] # "NOERROR" -> err[c]
      [] err[c] = "NOERROR" /\ readerClosed -> "CHANNEL_CLOSED"
      [] err[c] = "NOERROR" /\ ~readerClosed /\ response.success -> "NOERROR"
      [] OTHER -> "MODEM_ERROR"

(* Mutant: only a NUMERIC command needs its line. *)
WrapperErrorNumericOnly(c, e) ==
    IF e = "NOERROR" /\ command[c].type = "NUMERIC" /\ response.inter = <<>>
    THEN "INVALID_RESPONSE" ELSE e

(* The typed wrappers refuse an answer without the line they promise. *)
WrapperError(c, e) ==
    IF /\ e = "NOERROR" /\ command[c].type \in {"SINGLELINE", "NUMERIC"}
       /\ response.inter = <<>>
    THEN "INVALID_RESPONSE" ELSE e

(* What the call tells its caller. A typed wrapper that refuses the answer  *)
(* frees it; its lines are recorded here all the same.                      *)
Outcome(c, e) ==
    [id |-> serial[c], err |-> WrapperError(c, e),
     handshake |-> command[c] = Handshake, type |-> command[c].type,
     inter |-> IF err[c] = "NOERROR" THEN Reverse(response.inter) ELSE <<>>,
     final |-> IF err[c] = "NOERROR" THEN response.final ELSE None]

(* Mutant: clearPendingCommand() is left out. *)
ReleaseSlotKeepsResponse ==
    /\ requestmutex' = None
    /\ UNCHANGED slotVars

(* Label "finally": the slot is cleared, requestcond broadcast, and the     *)
(* mutexes released, in one critical section of commandmutex.               *)
ReleaseSlot ==
    /\ response' = None
    /\ responsePrefix' = "none"
    /\ smsPDU' = FALSE
    /\ requestmutex' = None
    /\ UNCHANGED type

(* at_handshake() tries again without giving up commandmutex. *)
HandshakeRetry(c) ==
    /\ pc[c] = "finally" /\ command[c] = Handshake
    /\ NolockError(c) # "NOERROR" /\ tries[c] + 1 < HandshakeRetryCount
    /\ tries' = [tries EXCEPT ![c] = @ + 1]
    /\ ReleaseSlot
    /\ BroadcastRequest(c, "trylock")
    /\ UNCHANGED <<commandmutex, fd, readerClosed, strbuf, command, err, calls,
                   serial, out, readerVars, input, toModem, modemVars, history>>

(* at_handshake() was answered: it sleeps, holding commandmutex. *)
HandshakeAnswered(c) ==
    /\ pc[c] = "finally" /\ command[c] = Handshake
    /\ NolockError(c) = "NOERROR"
    /\ out' = [out EXCEPT ![c] = Outcome(c, "NOERROR")]
    /\ shaken' = TRUE
    /\ ReleaseSlot
    /\ BroadcastRequest(c, "pause")
    /\ UNCHANGED <<commandmutex, fd, readerClosed, strbuf, command, err, tries, calls,
                   serial, readerVars, input, toModem, modemVars, lastSerial, timeouts>>

(* The locals of a call end with it. *)
EndCall(c) ==
    /\ command' = [command EXCEPT ![c] = Handshake]
    /\ err' = [err EXCEPT ![c] = "NOERROR"]
    /\ tries' = [tries EXCEPT ![c] = 0]
    /\ serial' = [serial EXCEPT ![c] = 0]

HandshakePause(c) ==
    /\ pc[c] = "pause"
    /\ PauseDrains => toModem = <<>> /\ modem.phase = "idle"
    /\ commandmutex' = None
    /\ Goto(c, "idle")
    /\ EndCall(c)
    /\ UNCHANGED <<requestmutex, fd, readerClosed, slotVars, strbuf, calls, out,
                   readerVars, input, toModem, modemVars, history>>

(* The call returns; after a timeout at_send_command_full() runs onTimeout. *)
Return(c) ==
    LET e == NolockError(c)
    IN  /\ pc[c] = "finally"
        /\ command[c] = Handshake => e # "NOERROR" /\ tries[c] + 1 >= HandshakeRetryCount
        /\ out' = [out EXCEPT ![c] = Outcome(c, e)]
        /\ ReleaseSlot
        /\ commandmutex' = None
        /\ BroadcastRequest(c, IF e = "TIMEOUT" /\ command[c] # Handshake
                               THEN "ontimeout" ELSE "idle")
        /\ EndCall(c)
        /\ UNCHANGED <<fd, readerClosed, strbuf, calls, readerVars, input, toModem,
                       modemVars, history>>

(* onTimeout, without a lock: at_send_escape(). *)
OnTimeout(c) ==
    /\ pc[c] = "ontimeout"
    /\ toModem' = IF fd /\ ~eof
                  THEN Append(toModem, [kind |-> "esc", id |-> 0, prompt |-> 0,
                                        by |-> c, text |-> c, cmd |-> Handshake])
                  ELSE toModem
    /\ Goto(c, "idle")
    /\ UNCHANGED <<commandmutex, requestmutex, fd, readerClosed, slotVars, strbuf,
                   command, err, tries, calls, serial, out, readerVars, input,
                   modemVars, history>>

(* at_close() by a client: the descriptor is closed without a lock, then    *)
(* the reader is declared closed and a waiting command woken.               *)
CloseFd(c) ==
    /\ pc[c] = "idle" /\ c \in MayClose /\ calls < MaxCalls
    /\ calls' = calls + 1
    /\ fd' = FALSE
    /\ Goto(c, "atclose")
    /\ UNCHANGED <<commandmutex, requestmutex, readerClosed, slotVars, strbuf,
                   command, err, tries, serial, out, readerVars, input, toModem,
                   modemVars, history>>

CloseSignal(c) ==
    /\ pc[c] = "atclose" /\ commandmutex = None
    /\ readerClosed' = TRUE
    /\ SignalCommand([pc EXCEPT ![c] = "idle"])
    /\ UNCHANGED <<commandmutex, requestmutex, fd, slotVars, strbuf, command, err,
                   tries, calls, serial, out, readerVars, input, toModem,
                   modemVars, history>>

ClientStep(c) ==
    \/ Lock(c) \/ RequestBusy(c) \/ RequestWoken(c) \/ TakeSlot(c)
    \/ WritelineCheck(c) \/ Write(c) \/ Await(c) \/ CommandWoken(c)
    \/ Timeout(c) \/ TimedOut(c) \/ HandshakeRetry(c) \/ HandshakeAnswered(c)
    \/ HandshakePause(c) \/ Return(c) \/ OnTimeout(c) \/ CloseSignal(c)

-----------------------------------------------------------------------------
(* The reader thread. *)

(* readline() returns a line; only the two-line SMS reports take a second   *)
(* line before anything is looked at. After fd is closed there may still be *)
(* lines in ATBuffer.                                                       *)
ReadLine ==
    /\ readerPc = "readline" /\ input # <<>>
    /\ line' = Head(input)
    /\ input' = Tail(input)
    /\ readerPc' = IF Head(input).kind = "sms" THEN "line2" ELSE "process"
    /\ unsol' = None
    /\ UNCHANGED <<commandmutex, requestmutex, fd, readerClosed, slotVars, strbuf,
                   clientVars, toModem, modemVars, history>>

(* The second line, whatever it is, goes to the handler with the first. *)
ReadLine2 ==
    /\ readerPc = "line2" /\ input # <<>>
    /\ unsol' = line
    /\ line' = None
    /\ input' = Tail(input)
    /\ readerPc' = "readline"
    /\ UNCHANGED <<commandmutex, requestmutex, fd, readerClosed, slotVars, strbuf,
                   clientVars, toModem, modemVars, history>>

(* readline() returns NULL: fd is closed, or the tty is at its end. *)
ReadNull ==
    /\ readerPc \in {"readline", "line2"} /\ (~fd \/ eof)
    /\ line' = None
    /\ readerPc' = "closed"
    /\ UNCHANGED <<commandmutex, requestmutex, fd, readerClosed, slotVars, strbuf,
                   clientVars, unsol, input, toModem, modemVars, history>>

(* The line belongs to the pending command as an intermediate response. *)
IsIntermediate(l) ==
    \/ /\ type \in {"NUMERIC", "SINGLELINE"}
       /\ response.inter = <<>> /\ l.prefix = responsePrefix
    \/ /\ type = "MULTILINE"
       /\ responsePrefix \in {l.prefix, ""}

HandleUnsolicited ==
    unsol' = line /\ UNCHANGED <<pc, smsPDU, response, toModem>>

(* ac->success and finalResponse are overwritten if they are set already. *)
HandleFinalResponse ==
    /\ response' = [response EXCEPT !.success = (line.kind = "final_ok"),
                                    !.final = line]
    /\ SignalCommand(pc)
    /\ UNCHANGED <<unsol, smsPDU, toModem>>

(* Mutant: smsPDU is not reset. *)
HandlePromptAgain ==
    /\ toModem' = IF fd /\ ~readerClosed /\ ~eof
                  THEN Append(toModem, [kind |-> "pdu", id |-> serial[requestmutex],
                                        prompt |-> line.of, by |-> requestmutex,
                                        text |-> requestmutex, cmd |-> Handshake])
                  ELSE toModem
    /\ response' = [response EXCEPT !.pdus = @ + 1]
    /\ UNCHANGED <<pc, unsol, smsPDU>>

(* writeCtrlZ(), whose result is ignored. *)
HandlePrompt ==
    /\ toModem' = IF fd /\ ~readerClosed /\ ~eof
                  THEN Append(toModem, [kind |-> "pdu", id |-> serial[requestmutex],
                                        prompt |-> line.of, by |-> requestmutex,
                                        text |-> requestmutex, cmd |-> Handshake])
                  ELSE toModem
    /\ smsPDU' = FALSE
    /\ response' = [response EXCEPT !.pdus = @ + 1]
    /\ UNCHANGED <<pc, unsol>>

(* Mutant: the first intermediate line ends the command. *)
AddIntermediateCompletes ==
    /\ response' = [response EXCEPT !.inter = Cons(line, @), !.final = line,
                                    !.success = TRUE]
    /\ SignalCommand(pc)
    /\ UNCHANGED <<unsol, smsPDU, toModem>>

AddIntermediate ==
    /\ response' = [response EXCEPT !.inter = Cons(line, @)]
    /\ UNCHANGED <<pc, unsol, smsPDU, toModem>>

ProcessLine ==
    /\ readerPc = "process" /\ commandmutex = None
    /\ readerPc' = "readline"
    /\ line' = None
    /\ \/ response = None /\ HandleUnsolicited
       \/ response # None /\ line.kind \in {"final_ok", "final_err"}
          /\ HandleFinalResponse
       \/ response # None /\ line.kind = "prompt" /\ smsPDU /\ HandlePrompt
       \/ /\ response # None /\ line.kind \notin {"final_ok", "final_err"}
          /\ ~(line.kind = "prompt" /\ smsPDU)
          /\ IF IsIntermediate(line) THEN AddIntermediate ELSE HandleUnsolicited
    /\ UNCHANGED <<commandmutex, requestmutex, fd, readerClosed, type, responsePrefix,
                   strbuf, command, err, tries, calls, serial, out, input, modemVars,
                   history>>

(* onReaderClosed(): readerClosed is read without the mutex. *)
ReaderClosedCheck ==
    /\ readerPc = "closed"
    /\ readerPc' = IF readerClosed THEN "exited" ELSE "closing"
    /\ UNCHANGED <<commandmutex, requestmutex, fd, readerClosed, slotVars, strbuf,
                   clientVars, line, unsol, input, toModem, modemVars, history>>

ReaderClosedSet ==
    /\ readerPc = "closing" /\ commandmutex = None
    /\ readerClosed' = TRUE
    /\ SignalCommand(pc)
    /\ readerPc' = "callback"
    /\ UNCHANGED <<commandmutex, requestmutex, fd, slotVars, strbuf, command, err,
                   tries, calls, serial, out, line, unsol, input, toModem,
                   modemVars, history>>

(* The callback, onATReaderClosed() of the RIL, calls at_close(). *)
ReaderCloseFd ==
    /\ readerPc = "callback"
    /\ fd' = FALSE
    /\ readerPc' = "atclose"
    /\ UNCHANGED <<commandmutex, requestmutex, readerClosed, slotVars, strbuf,
                   clientVars, line, unsol, input, toModem, modemVars, history>>

ReaderCloseSignal ==
    /\ readerPc = "atclose" /\ commandmutex = None
    /\ readerClosed' = TRUE
    /\ SignalCommand(pc)
    /\ readerPc' = "exited"
    /\ UNCHANGED <<commandmutex, requestmutex, fd, slotVars, strbuf, command, err,
                   tries, calls, serial, out, line, unsol, input, toModem,
                   modemVars, history>>

ReaderStep ==
    \/ ReadLine \/ ReadLine2 \/ ReadNull \/ ProcessLine \/ ReaderClosedCheck
    \/ ReaderClosedSet \/ ReaderCloseFd \/ ReaderCloseSignal

-----------------------------------------------------------------------------
(* The modem, external: it takes lines in order and finishes one command    *)
(* before it reads the next.                                                *)

Line(kind, prefix, id, n) == [kind |-> kind, prefix |-> prefix, of |-> id, n |-> n]

ModemEmits(lines) == input' = input \o lines

ModemRead ==
    /\ modem.phase = "idle" /\ toModem # <<>>
    /\ toModem' = Tail(toModem)
    /\ modem' = IF Head(toModem).kind # "cmd" THEN modem
                ELSE [phase |-> IF Head(toModem).cmd.sms THEN "prompt" ELSE "run",
                      id |-> Head(toModem).id, cmd |-> Head(toModem).cmd, n |-> 0]
    /\ UNCHANGED <<input, eof, urcs>>

ModemInfo ==
    /\ modem.phase = "run" /\ modem.cmd.type # "NO_RESULT"
    /\ modem.n < IF modem.cmd.type = "MULTILINE" THEN MaxInfo ELSE 1
    /\ ModemEmits(<<Line("text", modem.cmd.prefix, modem.id, modem.n + 1)>>)
    /\ modem' = [modem EXCEPT !.n = @ + 1]
    /\ UNCHANGED <<toModem, eof, urcs>>

ModemPrompt ==
    /\ modem.phase = "prompt"
    /\ ModemEmits(<<Line("prompt", "> ", modem.id, 0)>>)
    /\ modem' = [modem EXCEPT !.phase = "pdu"]
    /\ UNCHANGED <<toModem, eof, urcs>>

(* After the prompt the modem takes what it reads for the message, a        *)
(* command line included; an escape abandons the command.                   *)
ModemPdu ==
    /\ modem.phase = "pdu" /\ toModem # <<>>
    /\ toModem' = Tail(toModem)
    /\ modem' = IF Head(toModem).kind = "esc" THEN Idle
                                              ELSE [modem EXCEPT !.phase = "run"]
    /\ UNCHANGED <<input, eof, urcs>>

ModemFinal ==
    /\ modem.phase \in {"run", "prompt"}
    /\ \E kind \in {"final_ok", "final_err"} :
          /\ modem.phase = "prompt" => kind = "final_err"
          /\ ModemEmits(<<Line(kind, modem.cmd.prefix, modem.id, 0)>>)
    /\ modem' = Idle
    /\ UNCHANGED <<toModem, eof, urcs>>

ModemUrc ==
    /\ urcs < MaxUrcs
    /\ \E u \in Urcs :
          ModemEmits(<<Line(u.kind, u.prefix, 0, 0)>> \o
                     (IF u.kind = "sms" THEN <<Line("text", "pdu", 0, 0)>> ELSE <<>>))
    /\ urcs' = urcs + 1
    /\ UNCHANGED <<toModem, modem, eof>>

ModemGone == MayGo /\ eof' = TRUE /\ UNCHANGED <<input, toModem, modem, urcs>>

ModemStep ==
    /\ ~eof
    /\ \/ ModemRead \/ ModemInfo \/ ModemPrompt \/ ModemPdu
       \/ ModemFinal \/ ModemUrc \/ ModemGone
    /\ UNCHANGED <<commandmutex, requestmutex, fd, readerClosed, slotVars, strbuf,
                   clientVars, readerVars, history>>

-----------------------------------------------------------------------------
Next ==
    \/ \E c \in Clients : Call(c) \/ CloseFd(c) \/ ClientStep(c)
    \/ ReaderStep
    \/ ModemStep

(* A thread that can run does run, and pthread_cond_timeout_np() does give  *)
(* up. Nothing is assumed of the modem: it may never answer.                *)
Fairness ==
    /\ \A c \in Clients : WF_vars(ClientStep(c))
    /\ WF_vars(ReaderStep)

Spec == Init /\ [][Next]_vars /\ Fairness

-----------------------------------------------------------------------------
(* Properties. *)

CriticalLabels == {"trylock", "writeline", "write", "await", "finally", "pause"}
OwnerLabels    == {"writeline", "write", "await", "commandwait", "commandwoken",
                   "timedout", "finally"}
Labels == CriticalLabels \cup OwnerLabels \cup
          {"idle", "lock", "requestwait", "requestwoken", "ontimeout", "atclose"}

ReaderLabels == {"readline", "line2", "process", "closed", "closing", "callback",
                 "atclose", "exited"}

OutType == [id : Nat, err : Errors, handshake : BOOLEAN, type : ATCommandTypes,
            inter : Seq(LineType), final : {None} \cup LineType]

ModemItems == [kind : {"cmd", "pdu", "esc"}, id : Nat, prompt : Nat, by : Clients,
               text : Clients, cmd : Commands \cup {Handshake}]

SlotTypes ==
    /\ commandmutex \in Clients \cup {None}
    /\ requestmutex \in Clients \cup {None}
    /\ fd \in BOOLEAN /\ readerClosed \in BOOLEAN
    /\ type \in ATCommandTypes /\ responsePrefix \in LinePrefixes /\ smsPDU \in BOOLEAN
    /\ response \in {None} \cup ResponseType
    /\ strbuf \in {None} \cup TextType

ClientTypes ==
    /\ pc \in [Clients -> Labels]
    /\ command \in [Clients -> Commands \cup {Handshake}]
    /\ err \in [Clients -> Errors]
    /\ tries \in [Clients -> Nat] /\ calls \in Nat
    /\ serial \in [Clients -> Nat]
    /\ out \in [Clients -> OutType]
    /\ lastSerial \in Nat /\ timeouts \in Nat /\ shaken \in BOOLEAN

ReaderTypes ==
    /\ readerPc \in ReaderLabels
    /\ line \in {None} \cup LineType
    /\ unsol \in {None} \cup LineType

ModemTypes ==
    /\ input \in Seq(LineType)
    /\ toModem \in Seq(ModemItems)
    /\ modem \in [phase : {"idle", "prompt", "pdu", "run"}, id : Nat,
                  cmd : Commands \cup {Handshake}, n : Nat]
    /\ eof \in BOOLEAN /\ urcs \in Nat

(* Every variable keeps to the values the program gives it. *)
TypeOK == SlotTypes /\ ClientTypes /\ ReaderTypes /\ ModemTypes

(* A response is in the slot exactly while one command owns the slot, also  *)
(* while its thread waits and has given up commandmutex. So a command never *)
(* finds another one pending (AT_ERROR_COMMAND_PENDING at atchannel.c:952,  *)
(* whose path would free the other command's response).                     *)
SlotOwned ==
    /\ response # None <=> requestmutex # None
    /\ \A c \in Clients : requestmutex = c <=> pc[c] \in OwnerLabels
    /\ \A c \in Clients : err[c] # "COMMAND_PENDING"

(* A line that no command takes for its answer. *)
Unwanted(l) ==
    /\ l.kind = "text"
    /\ \A cmd \in Commands : cmd.type # "NO_RESULT" =>
          cmd.prefix # l.prefix /\ ~(cmd.type = "MULTILINE" /\ cmd.prefix = "")

(* What the proofs about answers assume of the modem: none of its           *)
(* unsolicited lines is such that a pending command would take it. (For     *)
(* those that are, see the hazards: atchannel.c has only the prefix and the *)
(* kind of a line to tell them apart.)                                      *)
UrcsApart == \A u \in Urcs : u.kind = "sms" \/ Unwanted(u)

(* A command that is answered was answered by the modem's lines for itself, *)
(* or, after timeouts, for a command at most as many lines earlier as there *)
(* were timeouts: each late answer shifts the channel by one command, and   *)
(* nothing else does. No unsolicited line is taken for an answer.           *)
AnswerLag ==
    \A c \in Clients :
        LET lag(l) == l.of # 0 /\ l.of <= out[c].id /\ out[c].id <= l.of + timeouts
        IN  /\ out[c].final # None => lag(out[c].final)
            /\ \A i \in DOMAIN out[c].inter : lag(out[c].inter[i])

(* A SINGLELINE or NUMERIC command that succeeds has exactly one line of    *)
(* answer, and the lines of a MULTILINE answer keep the modem's order.      *)
AnswerComplete ==
    \A c \in Clients :
        LET inter == out[c].inter
        IN  /\ out[c].err = "NOERROR" /\ out[c].type \in {"SINGLELINE", "NUMERIC"}
                  => Len(inter) = 1
            /\ \A i, j \in DOMAIN inter :
                  i < j /\ inter[i].of = inter[j].of => inter[i].n < inter[j].n

(* An SMS is handed to the modem at most once per command, although a late  *)
(* prompt of a command that timed out may come before the command's own.    *)
PduOnce == response # None => response.pdus <= 1

(* The final response of a command goes to the unsolicited handler only if  *)
(* some command timed out or the channel was closed: it is never read       *)
(* before its command is in the slot.                                       *)
FinalNotUnsolicited ==
    unsol # None /\ unsol.kind \in {"final_ok", "final_err"} /\ unsol.of # 0
        => timeouts > 0 \/ readerClosed

(* Every call returns, whether the modem answers or not, whatever the other *)
(* clients do and even if the channel is closed meanwhile: no wakeup of     *)
(* requestcond or commandcond is lost.                                      *)
CallReturns == \A c \in Clients : pc[c] # "idle" ~> pc[c] = "idle"

(* After at_handshake() succeeded and paused, no OK for one of its tries    *)
(* completes a later command (the comment at atchannel.c:1288). The pause   *)
(* is made with commandmutex held: the reader cannot take such an OK in it, *)
(* and the OK is still unread when the next command takes the slot.         *)
HandshakeDrains ==
    \A c \in Clients :
        shaken /\ ~out[c].handshake /\ out[c].final # None
            => out[c].final.prefix # Handshake.prefix

=============================================================================
