-------------------------- MODULE RilRunnerProofs --------------------------
(****************************************************************************)
(* Theorems about RilRunner, for any requests, any number of lives of the   *)
(* channel (each with a reader of its own) and any number of faults: every  *)
(* variable keeps its type, the framework is told of the radio state, and   *)
(* a SIM that is not ready is asked again.                                  *)
(****************************************************************************)
EXTENDS RilRunner, SequenceTheorems, TLAPS

(* The labels setRadioState() and onATTimeout() return to. They are set     *)
(* only while they are used, and a timeout returns through both.            *)
ReturnLabels  == {"open", "signalclose", "isRadioOn", "loop", "request", "complete"}
FailureLabels == {"open", "reset", "loop", "pollagain", "request", "complete"}

ReturnInv ==
    /\ then[Runner] \in ReturnLabels /\ onFailure \in FailureLabels
    /\ pc[Runner] \notin {"announce", "follow"} => then[Runner] = "open"
    /\ pc[Runner] \notin {"announce", "follow", "signalclose"} => onFailure = "open"
    /\ pc[Runner] \in {"announce", "follow"} /\ onFailure # "open"
          => then[Runner] = "signalclose"
    /\ \A g \in Channels : pc[g] \in {"announce", "follow"} => then[g] = "signalclose"

(* A handler has a request; so has a setRadioState() that returns to one.   *)
RequestInv ==
    "complete" \in {then[Runner], onFailure, pc[Runner]}
    \/ pc[Runner] \in {"calls", "handler", "power"}
        => request # <<>>

(* A reader that has not been started is nowhere in the code.               *)
ReaderInv ==
    /\ pc[Runner] = "start" => opens \in Channels
    /\ \A g \in Channels :
          g > opens \/ (g = opens /\ pc[Runner] = "start") => pc[g] = "unborn"

(* As long as the framework has not read the state, a thread is going to    *)
(* announce one, and will find that the state is not its old one.           *)
ToldInv ==
    seen # sState => \E t \in Threads : pc[t] = "announce" /\ oldState[t] # sState

IInv == TypeOK /\ ReturnInv /\ RequestInv /\ ReaderInv /\ ToldInv

-----------------------------------------------------------------------------
LEMMA ThreadFacts ==
    /\ Runner \in Threads /\ Runner \notin Channels
    /\ Channels \subseteq Threads
    /\ \A t \in Threads : t = Runner \/ t \in Channels
  BY RunnerAssumption DEF Runner, Channels, Threads

LEMMA InitInv == Init => IInv
  <1> SUFFICES ASSUME Init PROVE IInv
    OBVIOUS
  <1>0. 0 \in 0 .. MaxOpens /\ 0 \in Nat
    BY RunnerAssumption
  <1>1. ChannelTypes
    BY <1>0 DEF Init, ChannelTypes
  <1>2. QueueTypes
    BY RunnerAssumption DEF Init, QueueTypes, Events
  <1>3. ThreadTypes
    BY <1>0, ThreadFacts
    DEF Init, ThreadTypes, RadioStates, RunnerLabels, ReaderLabels, CloseLabels, Events
  <1>4. ReturnInv /\ RequestInv /\ ToldInv
    BY ThreadFacts DEF Init, ReturnInv, RequestInv, ToldInv, ReturnLabels, FailureLabels
  <1>5. ReaderInv
    BY ThreadFacts DEF Init, ReaderInv
  <1> QED
    BY <1>1, <1>2, <1>3, <1>4, <1>5 DEF IInv, TypeOK

-----------------------------------------------------------------------------
(* A thread that is not announcing goes elsewhere.                          *)
LEMMA ToldMove ==
    ASSUME ThreadTypes, ToldInv, NEW t \in Threads, NEW label, pc[t] # "announce",
           Goto(t, label), UNCHANGED <<seen, sState, oldState>>
    PROVE  ToldInv'
  BY DEF ThreadTypes, ToldInv, Goto

(* A thread sets the state: it has the old one, and will announce.          *)
LEMMA ToldSet ==
    ASSUME ThreadTypes, ToldInv, NEW t \in Threads, NEW s, NEW label,
           pc[t] # "announce", SetRadioState(t, s, label), UNCHANGED seen
    PROVE  ToldInv'
  <1>1. CASE sState' # sState
    BY <1>1 DEF ThreadTypes, ToldInv, SetRadioState, Goto
  <1>2. CASE sState' = sState
    BY <1>2 DEF ThreadTypes, ToldInv, SetRadioState, Goto
  <1> QED
    BY <1>1, <1>2

(* The runner's own steps, but for AtOpenStart, which starts a reader.      *)
RunnerOwn ==
    \/ Open \/ SetCallbacks \/ InitializeCommon \/ ResetClosed \/ InitializeChannel
    \/ IsRadioOn \/ Loop \/ PollSIMState \/ GetSIMStatus \/ PollAgain \/ OnSIMReady
    \/ ProcessRequest \/ GetCurrentCalls \/ Handler \/ HandlerComplete \/ RadioPower

(* The steps a reader does not share with the runner.                       *)
ReaderOwn(g) ==
    \/ ReadLine(g) \/ PollKick(g) \/ Drain(g) \/ PollHangUp(g) \/ Read(g)
    \/ ReaderEnded(g) \/ ReaderDeclares(g) \/ OnATReaderClosed(g)

(* What such a step can be to the radio state.                              *)
Moves(t) ==
    /\ pc[t] \notin {"announce", "follow"}
    /\ \E label \in RunnerLabels \cup ReaderLabels :
          Goto(t, label) /\ label \notin {"announce", "follow"}
    /\ UNCHANGED <<seen, sState, oldState, then>>

Sets(t) ==
    /\ pc[t] \notin {"announce", "follow"}
    /\ \E s \in RadioStates, label \in RunnerLabels \cup ReaderLabels :
          SetRadioState(t, s, label)
    /\ UNCHANGED seen

LEMMA RunnerMoves ==
    ASSUME ThreadTypes, RunnerOwn
    PROVE  Moves(Runner) \/ Sets(Runner)
  <1> USE DEF Moves, Sets, Goto, RunnerLabels, CloseLabels, Events, locals, radio
  <1>0. ASSUME NEW label \in RunnerLabels, CommandTimesOut(label),
               pc[Runner] \notin {"announce", "follow"}
        PROVE  Sets(Runner)
    BY <1>0 DEF CommandTimesOut, RadioStates
  <1>1. CASE Open \/ SetCallbacks \/ ResetClosed \/ PollSIMState \/ PollAgain
    BY <1>1 DEF Open, SetCallbacks, ResetClosed, PollSIMState, PollAgain, Continue
  <1>2. CASE InitializeCommon
    BY <1>0, <1>2 DEF InitializeCommon, Continue
  <1>3. CASE InitializeChannel
    BY <1>3 DEF InitializeChannel, RadioStates
  <1>4. CASE IsRadioOn
    BY <1>0, <1>4 DEF IsRadioOn, Continue, RadioStates
  <1>5. CASE Loop
    BY <1>5 DEF Loop, Continue
  <1>6. CASE GetSIMStatus
    BY <1>0, <1>6 DEF GetSIMStatus, Continue, RadioStates
  <1>7. CASE OnSIMReady
    BY <1>0, <1>7 DEF OnSIMReady, Continue
  <1>8. CASE ProcessRequest \/ GetCurrentCalls \/ HandlerComplete
    BY <1>8 DEF ProcessRequest, GetCurrentCalls, HandlerComplete, Complete, Continue
  <1>9. CASE Handler
    BY <1>0, <1>9 DEF Handler, Complete
  <1>10. CASE RadioPower
    BY <1>0, <1>10 DEF RadioPower, Complete
  <1> QED
    BY <1>1, <1>2, <1>3, <1>4, <1>5, <1>6, <1>7, <1>8, <1>9, <1>10 DEF RunnerOwn

LEMMA ReaderMoves ==
    ASSUME ThreadTypes, NEW g \in Channels, ReaderOwn(g)
    PROVE  Moves(g) \/ Sets(g)
  <1> USE DEF Moves, Sets, Goto, RunnerLabels, ReaderLabels, CloseLabels, locals, radio
  <1>1. CASE ReadLine(g) \/ PollKick(g) \/ Drain(g) \/ PollHangUp(g)
    BY <1>1 DEF ReadLine, PollKick, Drain, PollHangUp
  <1>2. CASE Read(g) \/ ReaderEnded(g) \/ ReaderDeclares(g)
    BY <1>2 DEF Read, ReaderEnded, ReaderDeclares
  <1>3. CASE OnATReaderClosed(g)
    BY <1>3 DEF OnATReaderClosed, RadioStates
  <1> QED
    BY <1>1, <1>2, <1>3 DEF ReaderOwn

LEMMA ToldStep ==
    ASSUME IInv, [Next]_vars
    PROVE  ToldInv'
  <1>0. ThreadTypes /\ ToldInv /\ ReaderInv
    BY DEF IInv, TypeOK
  <1>1. ASSUME NEW t \in Threads, Moves(t) \/ Sets(t) PROVE ToldInv'
    BY <1>0, <1>1, ToldMove, ToldSet DEF Moves, Sets
  <1>2. CASE RunnerOwn
    BY <1>0, <1>1, <1>2, RunnerMoves, ThreadFacts
  <1>3. CASE AtOpenStart
    <2>1. opens \in Channels /\ pc[opens] = "unborn" /\ pc[Runner] = "start"
      BY <1>0, <1>3 DEF ReaderInv, AtOpenStart
    <2> QED
      BY <1>0, <1>3, <2>1, ThreadFacts
      DEF AtOpenStart, ToldInv, ThreadTypes, radio, locals
  <1>4. ASSUME NEW g \in Channels, ReaderOwn(g) PROVE ToldInv'
    BY <1>0, <1>1, <1>4, ReaderMoves, ThreadFacts
  <1>5. ASSUME NEW t \in Threads, Announce(t) PROVE ToldInv'
    BY <1>0, <1>5 DEF Announce, EndSet, Goto, ToldInv, ThreadTypes
  <1>6. ASSUME NEW t \in Threads, Follow(t) PROVE ToldInv'
    BY <1>0, <1>6 DEF Follow, EndSet, Goto, ToldInv, ThreadTypes, radio
  <1>7. ASSUME NEW t \in Threads, SignalCloseQueues(t) PROVE ToldInv'
    BY <1>0, <1>7 DEF SignalCloseQueues, Goto, ToldInv, ThreadTypes, radio
  <1>8. ASSUME NEW t \in Threads, CloseFd(t) \/ ClearFd(t) \/ DeclareClosed(t)
        PROVE  ToldInv'
    BY <1>0, <1>8
    DEF CloseFd, ClearFd, DeclareClosed, Goto, ToldInv, ThreadTypes, radio, locals
  <1>9. CASE (\E t \in Tokens : OnRequest(t)) \/ HangUp \/ UNCHANGED vars
    BY <1>0, <1>9 DEF OnRequest, HangUp, vars, ToldInv, radio, locals
  <1> QED
    BY <1>2, <1>3, <1>4, <1>5, <1>6, <1>7, <1>8, <1>9, ThreadFacts
    DEF Next, RunnerStep, RunnerOwn, ReaderStep, ReaderOwn, ThreadStep

-----------------------------------------------------------------------------
LEMMA ReturnStep ==
    ASSUME IInv, [Next]_vars
    PROVE  ReturnInv'
  <1>0. ThreadTypes /\ ReturnInv /\ ReaderInv
    BY DEF IInv, TypeOK
  <1> USE <1>0, ThreadFacts DEF ThreadTypes, ReturnInv, Goto, ReturnLabels, FailureLabels
  <1>1. ASSUME NEW label \in FailureLabels, CommandTimesOut(label),
               pc[Runner] \notin {"announce", "follow", "signalclose"}
        PROVE  ReturnInv'
    BY <1>1 DEF CommandTimesOut, SetRadioState
  <1>2. CASE Open \/ SetCallbacks \/ ResetClosed \/ PollSIMState \/ PollAgain
    BY <1>2 DEF Open, SetCallbacks, ResetClosed, PollSIMState, PollAgain, Continue, locals
  <1>3. CASE InitializeCommon
    BY <1>1, <1>3 DEF InitializeCommon, Continue, locals
  <1>4. CASE InitializeChannel
    BY <1>4 DEF InitializeChannel, SetRadioState
  <1>5. CASE IsRadioOn
    BY <1>1, <1>5 DEF IsRadioOn, Continue, SetRadioState, locals
  <1>6. CASE Loop
    BY <1>6 DEF Loop, Continue, Events, locals
  <1>7. CASE GetSIMStatus
    BY <1>1, <1>7 DEF GetSIMStatus, Continue, SetRadioState, locals
  <1>8. CASE OnSIMReady
    BY <1>1, <1>8 DEF OnSIMReady, Continue, locals
  <1>9. CASE ProcessRequest
    <2>1. \E label \in {"loop", "calls", "power", "handler"} : Goto(Runner, label)
      BY <1>9, Zenon DEF ProcessRequest, Complete, Continue
    <2>2. UNCHANGED <<then, onFailure>> /\ pc[Runner] = "request"
      BY <1>9 DEF ProcessRequest, Complete, Continue, locals
    <2> QED
      BY <2>1, <2>2
  <1>10. CASE GetCurrentCalls \/ HandlerComplete
    BY <1>10 DEF GetCurrentCalls, HandlerComplete, Complete, locals
  <1>11. CASE Handler
    BY <1>1, <1>11 DEF Handler, Complete
  <1>12. CASE RadioPower
    BY <1>1, <1>12 DEF RadioPower, Complete, SetRadioState
  <1>13. CASE AtOpenStart
    BY <1>13 DEF AtOpenStart, ReaderInv, locals
  <1>14. ASSUME NEW g \in Channels,
                ReadLine(g) \/ PollKick(g) \/ Drain(g) \/ PollHangUp(g)
         PROVE  ReturnInv'
    BY <1>14 DEF ReadLine, PollKick, Drain, PollHangUp, locals
  <1>15. ASSUME NEW g \in Channels, Read(g) \/ ReaderEnded(g) \/ ReaderDeclares(g)
         PROVE  ReturnInv'
    BY <1>15 DEF Read, ReaderEnded, ReaderDeclares, locals
  <1>16. ASSUME NEW g \in Channels, OnATReaderClosed(g)
         PROVE  ReturnInv'
    BY <1>16 DEF OnATReaderClosed, SetRadioState
  <1>17. ASSUME NEW t \in Threads, Announce(t)
         PROVE  ReturnInv'
    BY <1>17 DEF Announce, EndSet
  <1>18. ASSUME NEW t \in Threads, Follow(t)
         PROVE  ReturnInv'
    BY <1>18 DEF Follow, EndSet
  <1>19. ASSUME NEW t \in Threads, SignalCloseQueues(t)
         PROVE  ReturnInv'
    BY <1>19 DEF SignalCloseQueues
  <1>20. ASSUME NEW t \in Threads, CloseFd(t) \/ ClearFd(t) \/ DeclareClosed(t)
         PROVE  ReturnInv'
    BY <1>20 DEF CloseFd, ClearFd, DeclareClosed, locals
  <1>21. CASE (\E t \in Tokens : OnRequest(t)) \/ HangUp \/ UNCHANGED vars
    BY <1>21 DEF OnRequest, HangUp, vars, locals
  <1> QED
    BY <1>2, <1>3, <1>4, <1>5, <1>6, <1>7, <1>8, <1>9, <1>10, <1>11, <1>12, <1>13,
       <1>14, <1>15, <1>16, <1>17, <1>18, <1>19, <1>20, <1>21
    DEF Next, RunnerStep, ReaderStep, ThreadStep

LEMMA RequestStep ==
    ASSUME IInv, [Next]_vars
    PROVE  RequestInv'
  <1>0. ThreadTypes /\ ReturnInv /\ RequestInv /\ ReaderInv
    BY DEF IInv, TypeOK
  <1> USE <1>0, ThreadFacts
      DEF ThreadTypes, ReturnInv, ReturnLabels, FailureLabels, RequestInv, Goto
  <1>1. ASSUME NEW label \in FailureLabels, CommandTimesOut(label),
               pc[Runner] \notin {"announce", "follow", "signalclose"},
               label = "complete" => request # <<>>
        PROVE  RequestInv'
    BY <1>1 DEF CommandTimesOut, SetRadioState
  <1>2. CASE Open \/ SetCallbacks \/ ResetClosed \/ PollSIMState \/ PollAgain
    BY <1>2 DEF Open, SetCallbacks, ResetClosed, PollSIMState, PollAgain, Continue, locals
  <1>3. CASE InitializeCommon
    BY <1>1, <1>3 DEF InitializeCommon, Continue, locals
  <1>4. CASE InitializeChannel
    BY <1>4 DEF InitializeChannel, SetRadioState
  <1>5. CASE IsRadioOn
    BY <1>1, <1>5 DEF IsRadioOn, Continue, SetRadioState, locals
  <1>6. CASE Loop
    BY <1>6 DEF Loop, Continue, Events, locals
  <1>7. CASE GetSIMStatus
    BY <1>1, <1>7 DEF GetSIMStatus, Continue, SetRadioState, locals
  <1>8. CASE OnSIMReady
    BY <1>1, <1>8 DEF OnSIMReady, Continue, locals
  <1>9. CASE ProcessRequest
    <2>1. \/ Goto(Runner, "loop")
          \/ /\ \E label \in {"calls", "power", "handler"} : Goto(Runner, label)
             /\ request # <<>> /\ request' = request
      BY <1>9, Zenon DEF ProcessRequest, Complete, Continue, locals
    <2>2. UNCHANGED <<then, onFailure>> /\ pc[Runner] = "request"
      BY <1>9 DEF ProcessRequest, Complete, Continue, locals
    <2> QED
      BY <2>1, <2>2
  <1>10. CASE GetCurrentCalls \/ HandlerComplete
    BY <1>10 DEF GetCurrentCalls, HandlerComplete, Complete, locals
  <1>11. CASE Handler
    BY <1>1, <1>11 DEF Handler, Complete
  <1>12. CASE RadioPower
    BY <1>1, <1>12 DEF RadioPower, Complete, SetRadioState
  <1>13. CASE AtOpenStart
    BY <1>13 DEF AtOpenStart, ReaderInv, locals
  <1>14. ASSUME NEW g \in Channels,
                ReadLine(g) \/ PollKick(g) \/ Drain(g) \/ PollHangUp(g)
         PROVE  RequestInv'
    BY <1>14 DEF ReadLine, PollKick, Drain, PollHangUp, locals
  <1>15. ASSUME NEW g \in Channels,
                Read(g) \/ ReaderEnded(g) \/ ReaderDeclares(g) \/ OnATReaderClosed(g)
         PROVE  RequestInv'
    BY <1>15 DEF Read, ReaderEnded, ReaderDeclares, OnATReaderClosed, SetRadioState, locals
  <1>16. ASSUME NEW t \in Threads, Announce(t) \/ Follow(t)
         PROVE  RequestInv'
    BY <1>16 DEF Announce, Follow, EndSet
  <1>17. ASSUME NEW t \in Threads, SignalCloseQueues(t)
         PROVE  RequestInv'
    BY <1>17 DEF SignalCloseQueues
  <1>18. ASSUME NEW t \in Threads, CloseFd(t) \/ ClearFd(t) \/ DeclareClosed(t)
         PROVE  RequestInv'
    BY <1>18 DEF CloseFd, ClearFd, DeclareClosed, locals
  <1>19. CASE (\E t \in Tokens : OnRequest(t)) \/ HangUp \/ UNCHANGED vars
    BY <1>19 DEF OnRequest, HangUp, vars, locals
  <1> QED
    BY <1>2, <1>3, <1>4, <1>5, <1>6, <1>7, <1>8, <1>9, <1>10, <1>11, <1>12, <1>13,
       <1>14, <1>15, <1>16, <1>17, <1>18, <1>19
    DEF Next, RunnerStep, ReaderStep, ThreadStep

LEMMA ReaderStepInv ==
    ASSUME IInv, [Next]_vars
    PROVE  ReaderInv'
  <1>0. ThreadTypes /\ ReturnInv /\ ReaderInv
    BY DEF IInv, TypeOK
  <1> USE <1>0, ThreadFacts, RunnerAssumption
      DEF ThreadTypes, ReaderInv, Goto, Channels, history
  <1>1. ASSUME NEW label, Goto(Runner, label), label # "start", opens' = opens
        PROVE  ReaderInv'
    BY <1>1
  <1>2. CASE Open
    BY <1>2 DEF Open
  <1>3. CASE AtOpenStart
    BY <1>3 DEF AtOpenStart
  <1>4. CASE RunnerOwn /\ ~Open
    <2> USE <1>4 DEF RunnerOwn, Continue
    <2>0. ASSUME NEW label, CommandTimesOut(label)
          PROVE  Goto(Runner, "announce") /\ opens' = opens
      BY <2>0 DEF CommandTimesOut, SetRadioState
    <2>1. CASE SetCallbacks \/ ResetClosed \/ PollSIMState \/ PollAgain
      BY <1>1, <2>1 DEF SetCallbacks, ResetClosed, PollSIMState, PollAgain
    <2>2. CASE InitializeCommon \/ OnSIMReady
      BY <1>1, <2>0, <2>2 DEF InitializeCommon, OnSIMReady
    <2>3. CASE InitializeChannel \/ IsRadioOn
      BY <1>1, <2>0, <2>3 DEF InitializeChannel, IsRadioOn, SetRadioState
    <2>4. CASE Loop
      BY <1>1, <2>4 DEF Loop, Events
    <2>5. CASE GetSIMStatus
      BY <1>1, <2>0, <2>5 DEF GetSIMStatus, SetRadioState
    <2>6. CASE ProcessRequest
      <3>1. \E label \in {"loop", "calls", "power", "handler"} : Goto(Runner, label)
        BY <2>6, Zenon DEF ProcessRequest, Complete
      <3>2. opens' = opens
        BY <2>6 DEF ProcessRequest, Complete
      <3> QED
        BY <1>1, <3>1, <3>2
    <2>7. CASE GetCurrentCalls \/ Handler \/ HandlerComplete
      BY <1>1, <2>0, <2>7 DEF GetCurrentCalls, Handler, HandlerComplete, Complete
    <2>8. CASE RadioPower
      BY <1>1, <2>0, <2>8 DEF RadioPower, Complete, SetRadioState
    <2> QED
      BY <2>1, <2>2, <2>3, <2>4, <2>5, <2>6, <2>7, <2>8
  <1>5. ASSUME NEW g \in Channels, ReaderOwn(g)
        PROVE  ReaderInv'
    <2>1. /\ \E label : Goto(g, label)
          /\ opens' = opens /\ pc[g] # "unborn"
      BY <1>5 DEF ReaderOwn, ReadLine, PollKick, Drain, PollHangUp, Read, ReaderEnded,
                  ReaderDeclares, OnATReaderClosed, SetRadioState
    <2> QED
      BY <2>1
  <1>6. ASSUME NEW t \in Threads, ThreadStep(t)
        PROVE  ReaderInv'
    <2>1. opens' = opens /\ pc[t] # "unborn"
      BY <1>6 DEF ThreadStep, Announce, Follow, SignalCloseQueues, CloseFd, ClearFd,
                  DeclareClosed
    <2>2. \E label : Goto(t, label) /\ (t = Runner => label # "start")
      BY <1>6 DEF ThreadStep, Announce, Follow, SignalCloseQueues, CloseFd, ClearFd,
                  DeclareClosed, ReturnInv, ReturnLabels, FailureLabels
    <2> QED
      BY <2>1, <2>2
  <1>7. CASE (\E t \in Tokens : OnRequest(t)) \/ HangUp \/ UNCHANGED vars
    BY <1>7 DEF OnRequest, HangUp, vars
  <1> QED
    BY <1>2, <1>3, <1>4, <1>5, <1>6, <1>7
    DEF Next, RunnerStep, ReaderStep, RunnerOwn, ReaderOwn

-----------------------------------------------------------------------------
(* Types. *)

LEMMA ChannelTypesStep ==
    ASSUME IInv, [Next]_vars
    PROVE  ChannelTypes'
  <1>0. ChannelTypes /\ ThreadTypes
    BY DEF IInv, TypeOK
  <1> USE <1>0, ThreadFacts, RunnerAssumption
      DEF ChannelTypes, Channels, Fds, kernel, ac
  <1>1. CASE Open
    <2>1. /\ opens \in Nat /\ opens < MaxOpens
          /\ UNCHANGED <<hung, readerClosed, onReaderClosed, kicks>>
      BY <1>1 DEF Open, ThreadTypes
    <2>2. PICK n \in Fds : channelOf' = [channelOf EXCEPT ![n] = opens + 1] /\ fd' = n
      BY <1>1 DEF Open
    <2>3. opens + 1 \in 0 .. MaxOpens /\ fd' \in 0 .. MaxOpens
      BY <2>1, <2>2
    <2> QED
      BY <2>1, <2>2, <2>3
  <1>2. CASE AtOpenStart \/ SetCallbacks
    <2>1. /\ UNCHANGED <<channelOf, hung, fd, kicks>>
          /\ readerClosed' \in BOOLEAN /\ onReaderClosed' \in BOOLEAN
      BY <1>2 DEF AtOpenStart, SetCallbacks
    <2> QED
      BY <2>1
  <1>3. CASE HangUp
    <2>1. PICK n \in 1 .. MaxOpens :
             channelOf[n] \notin hung \cup {0} /\ hung' = hung \cup {channelOf[n]}
      BY <1>3 DEF HangUp
    <2>2. channelOf[n] \in 1 .. MaxOpens
      BY <2>1
    <2>3. hung' \subseteq 1 .. MaxOpens
      BY <2>1, <2>2
    <2> QED
      BY <1>3, <2>3 DEF HangUp
  <1>4. ASSUME NEW g \in Channels, Drain(g)
        PROVE  ChannelTypes'
    BY <1>4 DEF Drain
  <1>5. ASSUME NEW g \in Channels, ReaderDeclares(g)
        PROVE  ChannelTypes'
    BY <1>5 DEF ReaderDeclares
  <1>6. ASSUME NEW t \in Threads, CloseFd(t)
        PROVE  ChannelTypes'
    BY <1>6 DEF CloseFd
  <1>7. ASSUME NEW t \in Threads, ClearFd(t) \/ DeclareClosed(t)
        PROVE  ChannelTypes'
    <2>1. 0 \in 0 .. MaxOpens /\ kicks + 1 \in Nat
      OBVIOUS
    <2>2. CASE ClearFd(t)
      BY <2>1, <2>2 DEF ClearFd
    <2>3. CASE DeclareClosed(t)
      BY <2>1, <2>3 DEF DeclareClosed
    <2> QED
      BY <1>7, <2>2, <2>3
  <1>8. ASSUME UNCHANGED <<kernel, ac>>
        PROVE  ChannelTypes'
    BY <1>8
  <1>9. ASSUME NEW g \in Channels, ReaderOwn(g), ~Drain(g), ~ReaderDeclares(g)
        PROVE  UNCHANGED <<kernel, ac>>
    BY <1>9 DEF ReaderOwn, ReadLine, PollKick, PollHangUp, Read, ReaderEnded,
                OnATReaderClosed
  <1>10. ASSUME NEW t \in Threads, Announce(t) \/ Follow(t) \/ SignalCloseQueues(t)
         PROVE  UNCHANGED <<kernel, ac>>
    BY <1>10 DEF Announce, Follow, SignalCloseQueues
  <1>11. CASE \/ InitializeCommon \/ ResetClosed \/ InitializeChannel \/ IsRadioOn \/ Loop
              \/ PollSIMState \/ GetSIMStatus \/ PollAgain \/ OnSIMReady
    BY <1>8, <1>11 DEF InitializeCommon, ResetClosed, InitializeChannel, IsRadioOn, Loop,
       PollSIMState, GetSIMStatus, PollAgain, OnSIMReady, Continue, CommandTimesOut
  <1>12. CASE ProcessRequest \/ GetCurrentCalls \/ Handler \/ HandlerComplete \/ RadioPower
    <2>1. UNCHANGED <<kernel, ac>>
      BY <1>12 DEF ProcessRequest, GetCurrentCalls, Handler, HandlerComplete, RadioPower,
                   Complete, Continue, CommandTimesOut
    <2> QED
      BY <1>8, <2>1
  <1>13. CASE (\E t \in Tokens : OnRequest(t)) \/ UNCHANGED vars
    BY <1>13 DEF OnRequest, vars
  <1> QED
    BY <1>1, <1>2, <1>3, <1>4, <1>5, <1>6, <1>7, <1>8, <1>9, <1>10, <1>11, <1>12, <1>13
    DEF Next, RunnerStep, ReaderStep, ReaderOwn, ThreadStep

LEMMA QueueTypesStep ==
    ASSUME IInv, [Next]_vars
    PROVE  QueueTypes'
  <1>0. QueueTypes
    BY DEF IInv, TypeOK
  <1> USE <1>0 DEF QueueTypes, queue, history, locals
  <1>counted. ASSUME NEW t PROVE [completed EXCEPT ![t] = @ + 1] \in [Tokens -> Nat]
    <2>1. CASE t \in Tokens
      BY <2>1
    <2>2. CASE t \notin Tokens
      <3>1. [completed EXCEPT ![t] = @ + 1] = completed
        BY <2>2, Zenon
      <3> QED
        BY <3>1
    <2> QED
      BY <2>1, <2>2
  <1>due. ASSUME NEW e \in Events PROVE [eventList EXCEPT ![e] = @ + 1] \in [Events -> Nat]
    OBVIOUS
  <1>1. CASE \E t \in Tokens : OnRequest(t)
    BY <1>1 DEF OnRequest
  <1>2. CASE Loop
    <2>1. ASSUME NEW r \in 0 .. Len(requestList),
                 r = IF requestList = <<>> THEN 0 ELSE 1
          PROVE  /\ SubSeq(requestList, 1, r) \in Seq(Tokens)
                 /\ SubSeq(requestList, r + 1, Len(requestList)) \in Seq(Tokens)
      <3>1. r \in Nat /\ Len(requestList) \in Nat /\ r <= Len(requestList)
        BY LenProperties
      <3>2. \A i \in 1 .. r : requestList[i] \in Tokens
        BY <3>1, ElementOfSeq
      <3>3. \A i \in r + 1 .. Len(requestList) : requestList[i] \in Tokens
        BY <3>1, ElementOfSeq
      <3> QED
        BY <3>1, <3>2, <3>3, SubSeqProperties
    <2>2. CASE Continue("closing")
      BY <2>2 DEF Continue
    <2>3. CASE ~Continue("closing")
      <3>1. PICK r \in 0 .. Len(requestList), e \in Events \cup {"none"} :
              /\ r = IF requestList = <<>> THEN 0 ELSE 1
              /\ e # "none" => eventList[e] > 0
              /\ request' = SubSeq(requestList, 1, r)
              /\ requestList' = SubSeq(requestList, r + 1, Len(requestList))
              /\ eventList' = IF e = "none" THEN eventList
                                            ELSE [eventList EXCEPT ![e] = @ - 1]
              /\ UNCHANGED <<closed, history>>
        BY <1>2, <2>3 DEF Loop
      <3>2. eventList' \in [Events -> Nat]
        BY <3>1
      <3> QED
        BY <2>1, <3>1, <3>2
    <2> QED
      BY <2>2, <2>3
  <1>3. ASSUME Complete PROVE QueueTypes'
    <2>1. completed' \in [Tokens -> Nat]
      BY <1>3, <1>counted DEF Complete
    <2> QED
      BY <1>3, <2>1 DEF Complete
  <1>4. ASSUME NEW label, CommandTimesOut(label) PROVE QueueTypes'
    BY <1>4 DEF CommandTimesOut
  <1>5. ASSUME NEW label, Continue(label) PROVE QueueTypes'
    BY <1>5 DEF Continue
  <1>6. CASE Open \/ AtOpenStart \/ SetCallbacks \/ ResetClosed \/ InitializeChannel
    BY <1>6 DEF Open, AtOpenStart, SetCallbacks, ResetClosed, InitializeChannel
  <1>7. CASE InitializeCommon \/ PollSIMState \/ OnSIMReady
    BY <1>4, <1>5, <1>7 DEF InitializeCommon, PollSIMState, OnSIMReady
  <1>8. CASE IsRadioOn \/ GetSIMStatus
    BY <1>4, <1>5, <1>8 DEF IsRadioOn, GetSIMStatus
  <1>9. CASE PollAgain
    BY <1>9 DEF PollAgain, Events
  <1>10. CASE ProcessRequest
    <2>1. \/ Complete
          \/ \E label : Continue(label)
          \/ request' = <<>> /\ UNCHANGED <<queue, history>>
      BY <1>10, Zenon DEF ProcessRequest
    <2>2. CASE request' = <<>> /\ UNCHANGED <<queue, history>>
      BY <2>2
    <2> QED
      BY <1>3, <1>5, <2>1, <2>2
  <1>11. CASE GetCurrentCalls
    <2>1. completed' \in [Tokens -> Nat]
      BY <1>11, <1>counted DEF GetCurrentCalls
    <2> QED
      BY <1>11, <2>1 DEF GetCurrentCalls
  <1>12. CASE Handler \/ HandlerComplete
    BY <1>3, <1>4, <1>12 DEF Handler, HandlerComplete
  <1>13. CASE RadioPower
    BY <1>3, <1>4, <1>13 DEF RadioPower
  <1>14. ASSUME NEW g \in Channels, ReaderOwn(g) PROVE QueueTypes'
    BY <1>14 DEF ReaderOwn, ReadLine, PollKick, Drain, PollHangUp, Read, ReaderEnded,
                 ReaderDeclares, OnATReaderClosed
  <1>15. ASSUME NEW t \in Threads, Follow(t) PROVE QueueTypes'
    <2>1. \/ eventList' = eventList
          \/ \E e \in Events : eventList' = [eventList EXCEPT ![e] = @ + 1]
      BY <1>15, Zenon DEF Follow, Events
    <2>2. UNCHANGED <<closed, requestList, request, history>>
      BY <1>15 DEF Follow
    <2>3. eventList' \in [Events -> Nat]
      BY <1>due, <2>1
    <2> QED
      BY <2>2, <2>3
  <1>16. ASSUME NEW t \in Threads,
                \/ Announce(t) \/ SignalCloseQueues(t) \/ CloseFd(t) \/ ClearFd(t)
                \/ DeclareClosed(t)
         PROVE  QueueTypes'
    BY <1>16 DEF Announce, SignalCloseQueues, CloseFd, ClearFd, DeclareClosed
  <1>17. CASE HangUp \/ UNCHANGED vars
    BY <1>17 DEF HangUp, vars
  <1> QED
    BY <1>1, <1>2, <1>6, <1>7, <1>8, <1>9, <1>10, <1>11, <1>12, <1>13, <1>14, <1>15,
       <1>16, <1>17, ThreadFacts
    DEF Next, RunnerStep, ReaderStep, ReaderOwn, ThreadStep

(* Each thread goes where a thread of its kind may go.                      *)
LEMMA LabelsStep ==
    ASSUME IInv, [Next]_vars
    PROVE  /\ pc' \in [Threads -> RunnerLabels \cup ReaderLabels]
           /\ pc'[Runner] \in RunnerLabels
           /\ \A g \in Channels : pc'[g] \in ReaderLabels
  <1> DEFINE P == /\ pc' \in [Threads -> RunnerLabels \cup ReaderLabels]
                  /\ pc'[Runner] \in RunnerLabels
                  /\ \A g \in Channels : pc'[g] \in ReaderLabels
  <1>0. ThreadTypes /\ ReturnInv /\ ReaderInv
    BY DEF IInv, TypeOK
  <1>1. ASSUME NEW label \in RunnerLabels, Goto(Runner, label) PROVE P
    BY <1>0, <1>1, ThreadFacts DEF ThreadTypes, Goto
  <1>2. ASSUME NEW g \in Channels, NEW label \in ReaderLabels, Goto(g, label) PROVE P
    BY <1>0, <1>2, ThreadFacts DEF ThreadTypes, Goto
  <1>3. ASSUME NEW label, CommandTimesOut(label) PROVE Goto(Runner, "announce")
    BY <1>3 DEF CommandTimesOut, SetRadioState
  <1>4. CASE RunnerOwn
    <2> USE DEF RunnerLabels, CloseLabels, Events
    <2>1. CASE Open \/ SetCallbacks \/ ResetClosed \/ PollSIMState \/ PollAgain
      BY <1>1, <2>1 DEF Open, SetCallbacks, ResetClosed, PollSIMState, PollAgain, Continue
    <2>2. CASE InitializeCommon \/ OnSIMReady
      BY <1>1, <1>3, <2>2 DEF InitializeCommon, OnSIMReady, Continue
    <2>3. CASE InitializeChannel \/ IsRadioOn
      BY <1>1, <1>3, <2>3 DEF InitializeChannel, IsRadioOn, SetRadioState, Continue
    <2>4. CASE Loop
      BY <1>1, <2>4 DEF Loop, Continue
    <2>5. CASE GetSIMStatus
      BY <1>1, <1>3, <2>5 DEF GetSIMStatus, SetRadioState, Continue
    <2>6. CASE ProcessRequest
      <3>1. \E label \in {"loop", "calls", "power", "handler"} : Goto(Runner, label)
        BY <2>6, Zenon DEF ProcessRequest, Complete, Continue
      <3> QED
        BY <1>1, <3>1
    <2>7. CASE GetCurrentCalls \/ Handler \/ HandlerComplete
      BY <1>1, <1>3, <2>7 DEF GetCurrentCalls, Handler, HandlerComplete, Complete
    <2>8. CASE RadioPower
      BY <1>1, <1>3, <2>8 DEF RadioPower, Complete, SetRadioState
    <2> QED
      BY <1>4, <2>1, <2>2, <2>3, <2>4, <2>5, <2>6, <2>7, <2>8 DEF RunnerOwn
  <1>5. CASE AtOpenStart
    BY <1>0, <1>5, ThreadFacts
    DEF AtOpenStart, ReaderInv, ThreadTypes, RunnerLabels, ReaderLabels
  <1>6. ASSUME NEW g \in Channels, ReaderOwn(g) PROVE P
    <2>1. \E label \in ReaderLabels : Goto(g, label)
      BY <1>6 DEF ReaderOwn, ReadLine, PollKick, Drain, PollHangUp, Read, ReaderEnded,
                  ReaderDeclares, OnATReaderClosed, SetRadioState, ReaderLabels, CloseLabels
    <2> QED
      BY <1>2, <2>1
  <1>7. ASSUME NEW t \in Threads, ThreadStep(t) PROVE P
    <2> USE DEF ThreadStep, Announce, Follow, SignalCloseQueues, CloseFd, ClearFd,
                DeclareClosed, RunnerLabels, CloseLabels
    <2>1. CASE t = Runner
      <3>1. \E label \in RunnerLabels : Goto(Runner, label)
        BY <1>0, <1>7, <2>1 DEF ReturnInv, ReturnLabels, FailureLabels
      <3> QED
        BY <1>1, <3>1
    <2>2. CASE t \in Channels
      <3>1. \E label \in ReaderLabels : Goto(t, label)
        BY <1>0, <1>7, <2>2, ThreadFacts DEF ReturnInv, ReaderLabels
      <3> QED
        BY <1>2, <2>2, <3>1
    <2> QED
      BY <2>1, <2>2, ThreadFacts
  <1>8. CASE (\E t \in Tokens : OnRequest(t)) \/ HangUp \/ UNCHANGED vars
    BY <1>0, <1>8 DEF OnRequest, HangUp, vars, ThreadTypes
  <1> QED
    BY <1>4, <1>5, <1>6, <1>7, <1>8, ThreadFacts
    DEF Next, RunnerStep, ReaderStep, RunnerOwn, ReaderOwn

LEMMA ThreadTypesStep ==
    ASSUME IInv, [Next]_vars
    PROVE  ThreadTypes'
  <1> DEFINE Locals == <<oldState, then, onFailure, polled, opens, timeouts>>
             AllLabels == RunnerLabels \cup ReaderLabels
             LocalTypes == /\ sState \in RadioStates /\ seen \in RadioStates
                           /\ oldState \in [Threads -> RadioStates]
                           /\ then \in [Threads -> AllLabels]
                           /\ onFailure \in RunnerLabels
                           /\ polled \in [Channels -> 0 .. MaxOpens]
                           /\ opens \in 0 .. MaxOpens /\ timeouts \in Nat
  <1>0. ChannelTypes /\ ThreadTypes /\ LocalTypes
    BY DEF IInv, TypeOK, ThreadTypes
  <1>1. SUFFICES LocalTypes'
    BY LabelsStep DEF ThreadTypes
  <1>2. ASSUME UNCHANGED <<sState, seen, Locals>> PROVE LocalTypes'
    BY <1>0, <1>2
  <1>3. ASSUME NEW t \in Threads, NEW s \in RadioStates, NEW label \in AllLabels,
               SetRadioState(t, s, label), onFailure' \in RunnerLabels,
               timeouts' \in Nat, UNCHANGED <<seen, polled, opens>>
        PROVE  LocalTypes'
    BY <1>0, <1>3 DEF SetRadioState
  <1>4. ASSUME NEW label \in RunnerLabels, CommandTimesOut(label) PROVE LocalTypes'
    <2>1. /\ SetRadioState(Runner, "UNAVAILABLE", "signalclose") /\ onFailure' = label
          /\ timeouts' \in Nat /\ UNCHANGED <<seen, polled, opens>>
      BY <1>0, <1>4 DEF CommandTimesOut
    <2> QED
      BY <1>3, <2>1, ThreadFacts DEF RunnerLabels, CloseLabels, RadioStates
  <1>5. ASSUME NEW label, Continue(label) PROVE LocalTypes'
    BY <1>2, <1>5 DEF Continue, radio, locals, history
  <1>6. ASSUME Complete PROVE LocalTypes'
    BY <1>2, <1>6 DEF Complete, radio
  <1>7. CASE Open
    <2>1. opens' \in 0 .. MaxOpens
      BY <1>0, <1>7, RunnerAssumption DEF Open
    <2> QED
      BY <1>0, <1>7, <2>1 DEF Open, radio, locals
  <1>8. CASE AtOpenStart \/ SetCallbacks \/ ResetClosed \/ PollAgain \/ GetCurrentCalls
    BY <1>2, <1>8 DEF AtOpenStart, SetCallbacks, ResetClosed, PollAgain, GetCurrentCalls,
                      radio, locals, history
  <1>9. CASE InitializeCommon \/ PollSIMState \/ OnSIMReady
    BY <1>4, <1>5, <1>9 DEF InitializeCommon, PollSIMState, OnSIMReady, RunnerLabels
  <1>10. CASE InitializeChannel
    BY <1>0, <1>3, <1>10, ThreadFacts
    DEF InitializeChannel, RunnerLabels, RadioStates, history
  <1>11. CASE IsRadioOn
    <2>1. CASE SetRadioState(Runner, "SIM_NOT_READY", "loop") /\
               UNCHANGED <<seen, onFailure, polled, history>>
      BY <1>0, <1>3, <2>1, ThreadFacts DEF RunnerLabels, RadioStates, history
    <2> QED
      BY <1>4, <1>5, <1>11, <2>1 DEF IsRadioOn, RunnerLabels
  <1>12. CASE Loop
    <2>1. UNCHANGED <<sState, seen, Locals>>
      BY <1>12 DEF Loop, Continue, radio, locals, history
    <2> QED
      BY <1>2, <2>1
  <1>13. CASE GetSIMStatus
    <2>1. ASSUME NEW s \in {"SIM_READY", "SIM_LOCKED_OR_ABSENT"},
                 SetRadioState(Runner, s, "request"),
                 UNCHANGED <<seen, onFailure, polled, history>>
          PROVE  LocalTypes'
      BY <1>0, <1>3, <2>1, ThreadFacts DEF RunnerLabels, RadioStates, history
    <2> QED
      BY <1>4, <1>5, <1>13, <2>1 DEF GetSIMStatus, RunnerLabels
  <1>14. CASE ProcessRequest
    <2>1. \/ Complete
          \/ \E label : Continue(label)
          \/ UNCHANGED <<radio, oldState, then, onFailure, polled, history>>
      BY <1>14, Zenon DEF ProcessRequest
    <2> QED
      BY <1>2, <1>5, <1>6, <2>1 DEF radio, history
  <1>15. CASE Handler \/ HandlerComplete
    BY <1>4, <1>6, <1>15 DEF Handler, HandlerComplete, RunnerLabels
  <1>16. CASE RadioPower
    <2>1. ASSUME NEW s \in RadioStates, SetRadioState(Runner, s, "complete"),
                 UNCHANGED <<seen, onFailure, polled, history>>
          PROVE  LocalTypes'
      BY <1>0, <1>3, <2>1, ThreadFacts DEF RunnerLabels, history
    <2> QED
      BY <1>4, <1>6, <1>16, <2>1 DEF RadioPower, RunnerLabels
  <1>17. ASSUME NEW g \in Channels, OnATReaderClosed(g) PROVE LocalTypes'
    BY <1>0, <1>3, <1>17, ThreadFacts
    DEF OnATReaderClosed, RunnerLabels, CloseLabels, RadioStates, history
  <1>18. ASSUME NEW g \in Channels, ReaderOwn(g), ~OnATReaderClosed(g)
         PROVE  LocalTypes'
    <2>1. UNCHANGED <<radio, oldState, then, onFailure, history>>
      BY <1>18 DEF ReaderOwn, ReadLine, PollKick, Drain, PollHangUp, Read, ReaderEnded,
                   ReaderDeclares, locals
    <2>2. \/ polled' = polled \/ polled' = [polled EXCEPT ![g] = 0]
          \/ fd # 0 /\ polled' = [polled EXCEPT ![g] = channelOf[fd]]
      BY <1>18 DEF ReaderOwn, ReadLine, PollKick, Drain, PollHangUp, Read, ReaderEnded,
                   ReaderDeclares, locals
    <2>3. 0 \in 0 .. MaxOpens /\ (fd # 0 => channelOf[fd] \in 0 .. MaxOpens)
      BY <1>0, RunnerAssumption DEF ChannelTypes, Fds
    <2>4. polled' \in [Channels -> 0 .. MaxOpens]
      BY <1>0, <2>2, <2>3
    <2> QED
      BY <1>0, <2>1, <2>4 DEF radio, history
  <1>19. ASSUME NEW t \in Threads, Announce(t) \/ Follow(t) PROVE LocalTypes'
    <2>1. /\ oldState' \in [Threads -> RadioStates] /\ then' \in [Threads -> AllLabels]
      BY <1>0, <1>19 DEF Announce, Follow, EndSet, RadioStates, RunnerLabels
    <2>2. seen' \in {seen, sState} /\ UNCHANGED <<sState, onFailure, polled, history>>
      BY <1>19 DEF Announce, Follow, radio
    <2> QED
      BY <1>0, <2>1, <2>2 DEF history
  <1>20. ASSUME NEW t \in Threads, SignalCloseQueues(t) PROVE LocalTypes'
    BY <1>0, <1>20 DEF SignalCloseQueues, RunnerLabels, radio, history
  <1>21. ASSUME NEW t \in Threads, CloseFd(t) \/ ClearFd(t) \/ DeclareClosed(t)
         PROVE  LocalTypes'
    BY <1>2, <1>21 DEF CloseFd, ClearFd, DeclareClosed, radio, locals, history
  <1>22. CASE (\E t \in Tokens : OnRequest(t)) \/ HangUp \/ UNCHANGED vars
    BY <1>2, <1>22 DEF OnRequest, HangUp, vars, radio, locals, history
  <1> QED
    BY <1>7, <1>8, <1>9, <1>10, <1>11, <1>12, <1>13, <1>14, <1>15, <1>16, <1>17, <1>18,
       <1>19, <1>20, <1>21, <1>22, ThreadFacts
    DEF Next, RunnerStep, ReaderStep, ReaderOwn, ThreadStep

-----------------------------------------------------------------------------
(* IInv holds whatever the threads do, and nothing of it depends on the     *)
(* fairness of their scheduling.                                            *)
THEOREM InductiveInvariant == Spec => []IInv
  <1>1. Init => IInv
    BY InitInv
  <1>2. IInv /\ [Next]_vars => IInv'
    BY ToldStep, ReturnStep, RequestStep, ReaderStepInv, ChannelTypesStep,
       QueueTypesStep, ThreadTypesStep
    DEF IInv, TypeOK
  <1> QED
    BY <1>1, <1>2, PTL DEF Spec

(* Every variable keeps its type; in particular the runner and the readers  *)
(* return from setRadioState() and onATTimeout() into code of their own     *)
(* (huaweigeneric-ril.c:471-496, 6225-6245).                              *)
THEOREM RunnerTypeCorrect == Spec => []TypeOK
  <1>1. IInv => TypeOK
    BY DEF IInv
  <1> QED
    BY <1>1, InductiveInvariant, PTL

(* However the runner and the readers interleave in setRadioState(), which  *)
(* compares the states after it has released s_state_mutex, the framework   *)
(* is told of the state that lasts (huaweigeneric-ril.c:471-496).         *)
THEOREM StateAnnounced == Spec => []RadioStateAnnounced
  <1>1. IInv => RadioStateAnnounced
    BY DEF IInv, ToldInv, RadioStateAnnounced
  <1> QED
    BY <1>1, InductiveInvariant, PTL
-----------------------------------------------------------------------------
(* The poll of the SIM. *)

PollLabels == {"pollSIMState", "getSIMStatus", "pollagain"}

(* While the SIM is not ready a poll is due, or is being made, or a thread  *)
(* in setRadioState() is going to have one made: the one that set the state *)
(* found another one before, so that it does not stop at the comparison.    *)
PolledInv ==
    sState = "SIM_NOT_READY" =>
        \/ eventList["pollSIMState"] > 0
        \/ \E t \in Threads :
              pc[t] = "follow" \/ (pc[t] = "announce" /\ oldState[t] # "SIM_NOT_READY")
        \/ pc[Runner] \in PollLabels

(* A thread that is not on its way to a poll goes elsewhere.                *)
LEMMA PolledMove ==
    ASSUME ThreadTypes, PolledInv, NEW t \in Threads, NEW label,
           pc[t] \notin {"announce", "follow"},
           pc[t] \notin PollLabels \/ sState # "SIM_NOT_READY" \/ label \in PollLabels,
           Goto(t, label), UNCHANGED <<sState, oldState>>,
           eventList["pollSIMState"] > 0 =>
               eventList'["pollSIMState"] > 0 \/ (t = Runner /\ label \in PollLabels)
    PROVE  PolledInv'
  <1>1. pc'[t] = label /\ \A u \in Threads : u # t => pc'[u] = pc[u]
    BY DEF ThreadTypes, Goto
  <1>2. Runner \in Threads /\ \A g \in Channels : g # Runner
    BY ThreadFacts
  <1>3. t # Runner => pc[t] \notin PollLabels
    BY ThreadFacts DEF ThreadTypes, ReaderLabels, CloseLabels, PollLabels
  <1> QED
    BY <1>1, <1>2, <1>3 DEF PolledInv

(* A thread sets the state.                                                 *)
LEMMA PolledSet ==
    ASSUME ThreadTypes, PolledInv, NEW t \in Threads, NEW s, NEW label,
           pc[t] \notin {"announce", "follow"}, pc[t] \notin PollLabels \/ s # "SIM_NOT_READY",
           SetRadioState(t, s, label), UNCHANGED eventList
    PROVE  PolledInv'
  <1>1. /\ pc'[t] = "announce" /\ oldState'[t] = sState /\ sState' = s
        /\ \A u \in Threads : u # t => pc'[u] = pc[u] /\ oldState'[u] = oldState[u]
    BY DEF ThreadTypes, SetRadioState, Goto
  <1>2. Runner \in Threads
    BY ThreadFacts
  <1>3. CASE s = "SIM_NOT_READY" /\ sState = "SIM_NOT_READY"
    BY <1>1, <1>2, <1>3 DEF PolledInv
  <1>4. CASE ~(s = "SIM_NOT_READY" /\ sState = "SIM_NOT_READY")
    BY <1>1, <1>4 DEF PolledInv
  <1> QED
    BY <1>3, <1>4

LEMMA PolledStep ==
    ASSUME IInv, PolledInv, [Next]_vars
    PROVE  PolledInv'
  <1>0. /\ ThreadTypes /\ ReaderInv /\ PolledInv /\ eventList \in [Events -> Nat]
        /\ "pollSIMState" \in Events /\ "onSIMReady" \in Events
    BY DEF IInv, TypeOK, QueueTypes, Events
  <1>1. ASSUME NEW t \in Threads, Moves(t), pc[t] \notin PollLabels, UNCHANGED eventList
        PROVE  PolledInv'
    BY <1>0, <1>1, PolledMove DEF Moves
  <1>2. ASSUME NEW t \in Threads, Sets(t), pc[t] \notin PollLabels, UNCHANGED eventList
        PROVE  PolledInv'
    BY <1>0, <1>2, PolledSet DEF Sets
  <1>3. ASSUME NEW label, Continue(label), pc[Runner] \in PollLabels,
               label \in PollLabels \/ sState # "SIM_NOT_READY"
        PROVE  PolledInv'
    BY <1>0, <1>3, ThreadFacts, PolledMove DEF Continue, PollLabels, queue, radio, locals
  <1>4. CASE RunnerOwn /\ pc[Runner] \notin PollLabels /\ UNCHANGED eventList
    BY <1>0, <1>1, <1>2, <1>4, RunnerMoves, ThreadFacts
  <1>5. CASE Loop /\ ~(UNCHANGED eventList)
    <2>1. PICK e \in Events :
             /\ pc[Runner] = "loop"
             /\ eventList' = [eventList EXCEPT ![e] = @ - 1]
             /\ Goto(Runner, e) /\ UNCHANGED <<sState, oldState>>
      BY <1>5 DEF Loop, Continue, queue, radio
    <2>2. e = "pollSIMState" \/ eventList'["pollSIMState"] = eventList["pollSIMState"]
      BY <1>0, <2>1
    <2> QED
      BY <1>0, <2>1, <2>2, ThreadFacts, PolledMove DEF PollLabels, Events
  <1>6. CASE PollSIMState
    <2>1. sState = "SIM_NOT_READY" => Continue("getSIMStatus")
      BY <1>6 DEF PollSIMState
    <2>2. pc[Runner] \in PollLabels /\ \E label : Continue(label)
      BY <1>6 DEF PollSIMState, PollLabels
    <2>3. "getSIMStatus" \in PollLabels
      BY DEF PollLabels
    <2> QED
      BY <1>3, <2>1, <2>2, <2>3
  <1>7. CASE GetSIMStatus
    <2>1. pc[Runner] \in PollLabels /\ pc[Runner] \notin {"announce", "follow"} /\ "pollagain" \in PollLabels
      BY <1>7 DEF GetSIMStatus, PollLabels
    <2>2. ASSUME NEW s \in RadioStates \ {"SIM_NOT_READY"}, NEW label,
                 SetRadioState(Runner, s, label), UNCHANGED eventList
          PROVE  PolledInv'
      BY <1>0, <2>1, <2>2, ThreadFacts, PolledSet
    <2>3. CASE Continue("pollagain")
      BY <1>3, <2>1, <2>3
    <2>4. CASE CommandTimesOut("pollagain")
      BY <2>2, <2>4 DEF CommandTimesOut, RadioStates, queue
    <2>5. CASE /\ \E s \in {"SIM_READY", "SIM_LOCKED_OR_ABSENT"} : SetRadioState(Runner, s, "request")
               /\ UNCHANGED queue
      BY <2>2, <2>5 DEF RadioStates, queue
    <2> QED
      BY <1>7, <2>3, <2>4, <2>5 DEF GetSIMStatus
  <1>8. CASE PollAgain
    <2>1. eventList'["pollSIMState"] > 0
      BY <1>0, <1>8 DEF PollAgain
    <2> QED
      BY <2>1 DEF PolledInv
  <1>9. CASE AtOpenStart
    <2>1. opens \in Channels /\ pc[opens] = "unborn" /\ pc[Runner] = "start"
      BY <1>0, <1>9 DEF ReaderInv, AtOpenStart
    <2> QED
      BY <1>0, <1>9, <2>1, ThreadFacts
      DEF AtOpenStart, PolledInv, PollLabels, ThreadTypes, radio, locals, queue
  <1>10. ASSUME NEW g \in Channels, ReaderOwn(g) PROVE PolledInv'
    <2>1. pc[g] \notin PollLabels
      BY <1>0 DEF ThreadTypes, ReaderLabels, CloseLabels, PollLabels
    <2>2. UNCHANGED eventList
      BY <1>10 DEF ReaderOwn, ReadLine, PollKick, Drain, PollHangUp, Read, ReaderEnded,
                   ReaderDeclares, OnATReaderClosed, queue
    <2> QED
      BY <1>0, <1>1, <1>2, <1>10, <2>1, <2>2, ReaderMoves, ThreadFacts
  <1>11. ASSUME NEW t \in Threads, Announce(t) PROVE PolledInv'
    <2>1. pc[t] = "announce" /\ UNCHANGED <<sState, eventList>>
      BY <1>11 DEF Announce, queue
    <2>2. \A u \in Threads : u # t => pc'[u] = pc[u] /\ oldState'[u] = oldState[u]
      BY <1>0, <1>11 DEF Announce, EndSet, Goto, ThreadTypes
    <2>3. sState # oldState[t] => pc'[t] = "follow"
      BY <1>0, <1>11 DEF Announce, Goto, ThreadTypes
    <2>4. pc[Runner] \in PollLabels => pc'[Runner] \in PollLabels
      BY <2>1, <2>2, ThreadFacts DEF PollLabels
    <2> QED
      BY <1>0, <2>1, <2>2, <2>3, <2>4 DEF PolledInv
  <1>12. ASSUME NEW t \in Threads, Follow(t) PROVE PolledInv'
    <2>1. sState' = sState
      BY <1>12 DEF Follow, radio
    <2>2. sState = "SIM_NOT_READY" => eventList'["pollSIMState"] = eventList["pollSIMState"] + 1
      BY <1>0, <1>12 DEF Follow
    <2>3. eventList["pollSIMState"] + 1 > 0
      BY <1>0
    <2> QED
      BY <2>1, <2>2, <2>3 DEF PolledInv
  <1>13. ASSUME NEW t \in Threads, SignalCloseQueues(t) \/ CloseFd(t) \/ ClearFd(t) \/ DeclareClosed(t)
         PROVE  PolledInv'
    <2>1. /\ pc[t] \notin {"announce", "follow"} /\ pc[t] \notin PollLabels
          /\ UNCHANGED <<eventList, sState, oldState>>
          /\ \E label : Goto(t, label)
      BY <1>13 DEF SignalCloseQueues, CloseFd, ClearFd, DeclareClosed, PollLabels, queue, radio, locals
    <2> QED
      BY <1>0, <2>1, PolledMove
  <1>14. CASE (\E t \in Tokens : OnRequest(t)) \/ HangUp \/ UNCHANGED vars
    BY <1>0, <1>14 DEF OnRequest, HangUp, vars, PolledInv, radio, locals, queue
  <1>15. CASE RunnerOwn
    <2>1. CASE Loop \/ PollSIMState \/ GetSIMStatus \/ PollAgain
      <3>1. Loop => pc[Runner] \notin PollLabels
        BY DEF Loop, PollLabels
      <3> QED
        BY <1>4, <1>5, <1>6, <1>7, <1>8, <1>15, <2>1, <3>1
    <2>2. CASE ~(Loop \/ PollSIMState \/ GetSIMStatus \/ PollAgain)
      <3>1. pc[Runner] \notin PollLabels /\ UNCHANGED eventList
        BY <1>15, <2>2
        DEF RunnerOwn, Open, SetCallbacks, InitializeCommon, ResetClosed, InitializeChannel,
            IsRadioOn, OnSIMReady, ProcessRequest, GetCurrentCalls, Handler, HandlerComplete,
            RadioPower, Continue, CommandTimesOut, Complete, PollLabels, queue
      <3> QED
        BY <1>4, <1>15, <3>1
    <2> QED
      BY <2>1, <2>2
  <1> QED
    BY <1>9, <1>10, <1>11, <1>12, <1>13, <1>14, <1>15, ThreadFacts
    DEF Next, RunnerStep, RunnerOwn, ReaderStep, ReaderOwn, ThreadStep

(* Whatever restarts of the channel and changes of the state by the readers *)
(* come between: while the SIM is not ready a poll of it is due whenever    *)
(* the runner looks for work, so that the phone cannot get stuck without a  *)
(* SIM (huaweigeneric-ril.c:471-496, pollSIMState()).                       *)
THEOREM SimStaysPolled == Spec => []SimPolled
  <1>1. Init => PolledInv
    BY DEF Init, PolledInv
  <1>2. IInv /\ PolledInv => SimPolled
    <2> SUFFICES ASSUME IInv, PolledInv, sState = "SIM_NOT_READY", pc[Runner] = "loop",
                        \A g \in Channels : pc[g] \notin {"announce", "follow"}
                 PROVE  eventList["pollSIMState"] > 0
      BY DEF SimPolled
    <2> QED
      BY ThreadFacts DEF PolledInv, PollLabels
  <1>3. IInv /\ PolledInv /\ [Next]_vars => PolledInv'
    BY PolledStep
  <1> QED
    BY <1>1, <1>2, <1>3, InductiveInvariant, PTL DEF Spec
=============================================================================
