------------------------------ MODULE EventList ------------------------------
(****************************************************************************)
(* The timed events of the runner and the polls that live in them           *)
(* (huawei-generic/huaweigeneric-ril.c: enqueueRILEvent(), queueRunner(),   *)
(* pollOperatorSelected(), checkMessageStorageReady()).                     *)
(*                                                                          *)
(* The list is doubly linked and sorted by time. The reader thread and the  *)
(* runner put events in, each in two steps: the clock is read before        *)
(* queueMutex is taken. A poll puts itself into the list again; the poll    *)
(* for the operator carries the token of a request it has to complete.      *)
(*                                                                          *)
(* Times are in seconds and relative to now, so that time may pass for      *)
(* ever.                                                                    *)
(****************************************************************************)
EXTENDS Integers, FiniteSets, Sequences

CONSTANTS
    Tokens,         \* SET_NETWORK_SELECTION_AUTOMATIC requests
    MaxNodes,       \* bound: RILEvents allocated at one time
    Repoll,         \* REPOLL_OPERATOR_SELECTED, 30 in the code
    MaxLate,        \* bound: seconds by which the runner may be late
    MaxUrcs         \* bound: events of the reader at one time

Nodes   == 1 .. MaxNodes        \* 0 stands for NULL
Threads == {"runner", "reader"}

CheckMessageStorage == "checkMessageStorageReady"   \* 3 s
PollOperator        == "pollOperatorSelected"       \* 2 s
OnUrc               == "urc"                        \* at once
Callbacks == {CheckMessageStorage, PollOperator, OnUrc}

NoToken == "none"

ASSUME EventAssumption ==
    /\ IsFiniteSet(Tokens) /\ NoToken \notin Tokens
    /\ MaxNodes \in Nat \ {0} /\ Repoll \in Nat /\ MaxLate \in Nat \ {0} /\ MaxUrcs \in Nat

VARIABLES
    (* struct RILEvent, and q->eventList *)
    eventList, next, prev, abstime, eventCallback,
    poll,           \* its param: [t, loopcount] of struct operatorPollParams
    live,           \* the nodes allocated
    (* the threads *)
    adding,         \* the node a thread has filled in and not inserted, or 0
    running,        \* the event the runner is handling, or 0
    request,        \* the request it handles after that, a sequence
    (* the requests *)
    requestList, submitted, completed

list      == <<eventList, next, prev>>
nodes     == <<abstime, eventCallback, poll>>
requests  == <<requestList, submitted, completed>>
eventVars == <<list, nodes, live, adding, running, request, requests>>

NoPoll == [t |-> NoToken, loopcount |-> 0]

EventInit ==
    /\ eventList = 0
    /\ next = [n \in Nodes |-> 0] /\ prev = [n \in Nodes |-> 0]
    /\ abstime = [n \in Nodes |-> 0]
    /\ eventCallback = [n \in Nodes |-> OnUrc] /\ poll = [n \in Nodes |-> NoPoll]
    /\ live = {} /\ adding = [h \in Threads |-> 0]
    /\ running = 0 /\ request = <<>>
    /\ requestList = <<>> /\ submitted = {} /\ completed = [t \in Tokens |-> 0]

(* The nodes from the head on, in order. *)
Nth[i \in 0 .. MaxNodes] ==
    IF i = 0 THEN eventList
    ELSE LET before == Nth[i - 1] IN IF before = 0 THEN 0 ELSE next[before]

InList == {Nth[i] : i \in 0 .. MaxNodes} \ {0}
Order  == [i \in 1 .. Cardinality(InList) |-> Nth[i - 1]]

-----------------------------------------------------------------------------
(* enqueueRILEvent() *)

(* A new node, its time from the clock; the mutex comes later. *)
NewEvent(thread, callback, params, delay) ==
    \E n \in Nodes \ live :
        /\ \A m \in Nodes \ live : n <= m
        /\ live' = live \cup {n}
        /\ eventCallback' = [eventCallback EXCEPT ![n] = callback]
        /\ poll' = [poll EXCEPT ![n] = params]
        /\ abstime' = [abstime EXCEPT ![n] = delay]
        /\ next' = [next EXCEPT ![n] = 0] /\ prev' = [prev EXCEPT ![n] = 0]
        /\ adding' = [adding EXCEPT ![thread] = n]
        /\ UNCHANGED eventList

(* Mutant: the first node that is not earlier. *)
LaterOrSame(e) ==
    LET order == Order
        later == {i \in DOMAIN order : abstime[order[i]] >= abstime[e]}
    IN  IF later = {} THEN 0 ELSE order[CHOOSE i \in later : \A j \in later : i <= j]

(* The first node of the list that is later than e, 0 if there is none. *)
Later(e) ==
    LET order == Order
        later == {i \in DOMAIN order : abstime[order[i]] > abstime[e]}
    IN  IF later = {} THEN 0 ELSE order[CHOOSE i \in later : \A j \in later : i <= j]

(* Mutant: the link back is forgotten. *)
InsertBeforeHalf(e, tmp) ==
    /\ next' = [next EXCEPT ![prev[tmp]] = e, ![e] = tmp]
    /\ prev' = [prev EXCEPT ![e] = prev[tmp]]
    /\ UNCHANGED eventList

InsertFirst(e) ==
    /\ next' = [next EXCEPT ![e] = eventList]
    /\ prev' = [prev EXCEPT ![eventList] = e]
    /\ eventList' = e

InsertBefore(e, tmp) ==
    /\ next' = [next EXCEPT ![prev[tmp]] = e, ![e] = tmp]
    /\ prev' = [prev EXCEPT ![e] = prev[tmp], ![tmp] = e]
    /\ UNCHANGED eventList

InsertLast(e, last) ==
    /\ next' = [next EXCEPT ![last] = e]
    /\ prev' = [prev EXCEPT ![e] = last]
    /\ UNCHANGED eventList

(* With queueMutex: into the list, before the first node that is later. *)
Insert(thread) ==
    LET e == adding[thread]
        tmp == Later(e)
    IN  /\ e # 0
        /\ \/ eventList = 0 /\ eventList' = e /\ UNCHANGED <<next, prev>>
           \/ eventList # 0 /\ tmp = eventList /\ InsertFirst(e)
           \/ eventList # 0 /\ tmp \notin {0, eventList} /\ InsertBefore(e, tmp)
           \/ eventList # 0 /\ tmp = 0 /\ InsertLast(e, Order[Len(Order)])
        /\ adding' = [adding EXCEPT ![thread] = 0]
        /\ UNCHANGED <<nodes, live, running, request, requests>>

-----------------------------------------------------------------------------
(* The reader, the framework and the clock. *)

(* onUnsolicited() enqueues an event that is due at once; setRadioState(),  *)
(* which the reader also runs, starts the storage poll.                     *)
Urcs == {n \in live : eventCallback[n] # PollOperator}

OnUnsolicited ==
    /\ adding["reader"] = 0 /\ Cardinality(Urcs) < MaxUrcs
    /\ \E callback \in {OnUrc, CheckMessageStorage} :
          NewEvent("reader", callback, NoPoll, 0)
    /\ UNCHANGED <<running, request, requests>>

Submit(t) ==
    /\ t \notin submitted
    /\ submitted' = submitted \cup {t}
    /\ requestList' = Append(requestList, t)
    /\ UNCHANGED <<list, nodes, live, adding, running, request, completed>>

(* A second passes, unless the runner is already too late. *)
Tick ==
    /\ \A n \in live : n # running => abstime[n] > -MaxLate
    /\ abstime' = [n \in Nodes |-> IF n \in live \ {running} THEN abstime[n] - 1
                                                             ELSE abstime[n]]
    /\ live \ {running} # {}
    /\ UNCHANGED <<list, eventCallback, poll, live, adding, running, request, requests>>

-----------------------------------------------------------------------------
(* The runner. *)

RunnerIdle == running = 0 /\ request = <<>> /\ adding["runner"] = 0

(* One turn of queueRunner(): the first event, if its time is over, and the *)
(* first request. prev of the new head is left as it was.                   *)
Turn ==
    /\ RunnerIdle
    /\ \E r \in 0 .. Len(requestList) :
          /\ r = IF requestList = <<>> THEN 0 ELSE 1
          /\ request' = SubSeq(requestList, 1, r)
          /\ requestList' = SubSeq(requestList, r + 1, Len(requestList))
    /\ IF eventList # 0 /\ abstime[eventList] < 0
       THEN running' = eventList /\ eventList' = next[eventList]
       ELSE requestList # <<>> /\ UNCHANGED <<running, eventList>>
    /\ UNCHANGED <<next, prev, nodes, live, adding, submitted, completed>>

(* RIL_onRequestComplete() *)
Complete(t) == completed' = [completed EXCEPT ![t] = @ + 1]

(* The callback returns, and the event is freed; its time and links mean    *)
(* nothing any more.                                                        *)
Return ==
    /\ running' = 0 /\ live' = live \ {running}
    /\ abstime' = [abstime EXCEPT ![running] = 0]
    /\ eventCallback' = [eventCallback EXCEPT ![running] = OnUrc]
    /\ poll' = [poll EXCEPT ![running] = NoPoll]
    /\ next' = [next EXCEPT ![running] = 0] /\ prev' = [prev EXCEPT ![running] = 0]
    /\ UNCHANGED eventList

(* The event goes into the list again: the callback calls enqueueRILEvent() *)
(* and returns.                                                             *)
Again(callback, params, delay) ==
    /\ running' = 0
    /\ \E n \in Nodes \ live :
         /\ \A m \in Nodes \ live : n <= m
         /\ live' = (live \ {running}) \cup {n}
         /\ eventCallback' = [eventCallback EXCEPT ![n] = callback, ![running] = OnUrc]
         /\ poll' = [poll EXCEPT ![n] = params, ![running] = NoPoll]
         /\ abstime' = [abstime EXCEPT ![n] = delay, ![running] = 0]
         /\ next' = [next EXCEPT ![n] = 0, ![running] = 0]
         /\ prev' = [prev EXCEPT ![n] = 0, ![running] = 0]
         /\ adding' = [adding EXCEPT !["runner"] = n]
    /\ UNCHANGED eventList

(* isSimSmsStorageFull(), onSIMReady(), sendCallStateChanged() and others:  *)
(* they end.                                                                *)
RunUrc ==
    /\ running # 0 /\ eventCallback[running] = OnUrc
    /\ Return
    /\ UNCHANGED <<adding, request, requests>>

(* checkMessageStorageReady(): AT+CPMS? and setPreferredMessageStorage()    *)
(* both succeed, or it tries again in three seconds.                        *)
RunCheckMessageStorage ==
    /\ running # 0 /\ eventCallback[running] = CheckMessageStorage
    /\ \/ Return /\ UNCHANGED adding
       \/ Again(CheckMessageStorage, NoPoll, 3)
    /\ UNCHANGED <<request, requests>>

(* Mutants of pollOperatorSelected(): it polls once more; after the last    *)
(* poll it completes the request and goes on; it does not count.            *)
RunPollOperatorOneMore ==
    /\ running # 0 /\ eventCallback[running] = PollOperator
    /\ LET params == poll[running] IN
       \/ Return /\ Complete(params.t) /\ UNCHANGED adding
       \/ /\ params.loopcount <= Repoll
          /\ Again(PollOperator, [params EXCEPT !.loopcount = @ + 1], 2)
          /\ UNCHANGED completed
    /\ UNCHANGED <<request, requestList, submitted>>

RunPollOperatorNoReturn ==
    /\ running # 0 /\ eventCallback[running] = PollOperator
    /\ LET params == poll[running] IN
       \/ /\ Return /\ Complete(params.t) /\ UNCHANGED adding
       \/ /\ IF params.loopcount >= Repoll THEN Complete(params.t) ELSE UNCHANGED completed
          /\ Again(PollOperator, [params EXCEPT !.loopcount = (@ + 1) % (Repoll + 1)], 2)
    /\ UNCHANGED <<request, requestList, submitted>>

RunPollOperatorUncounted ==
    /\ running # 0 /\ eventCallback[running] = PollOperator
    /\ LET params == poll[running] IN
       \/ Return /\ Complete(params.t) /\ UNCHANGED adding
       \/ /\ params.loopcount < Repoll
          /\ Again(PollOperator, params, 2)
          /\ UNCHANGED completed
    /\ UNCHANGED <<request, requestList, submitted>>

(* pollOperatorSelected(): an error, an operator, or registration denied    *)
(* complete the request; no operator yet polls again, Repoll times at most. *)
RunPollOperator ==
    /\ running # 0 /\ eventCallback[running] = PollOperator
    /\ LET params == poll[running] IN
       \/ Return /\ Complete(params.t) /\ UNCHANGED adding
       \/ /\ params.loopcount < Repoll
          /\ Again(PollOperator, [params EXCEPT !.loopcount = @ + 1], 2)
          /\ UNCHANGED completed
    /\ UNCHANGED <<request, requestList, submitted>>

(* requestSetNetworkSelectionAutomatic(): whichever of its commands fails,  *)
(* the request is completed; otherwise the first poll is put in the list.   *)
ProcessRequest ==
    /\ running = 0 /\ adding["runner"] = 0 /\ request # <<>>
    /\ \/ /\ Complete(Head(request))
          /\ UNCHANGED <<list, nodes, live, adding>>
       \/ /\ NewEvent("runner", PollOperator, [t |-> Head(request), loopcount |-> 0], 2)
          /\ UNCHANGED completed
    /\ request' = <<>>
    /\ UNCHANGED <<running, requestList, submitted>>

EventRunnerStep ==
    Turn \/ RunUrc \/ RunCheckMessageStorage \/ RunPollOperator \/ ProcessRequest
    \/ Insert("runner")

EventNext ==
    \/ OnUnsolicited \/ Insert("reader") \/ Tick
    \/ \E t \in Tokens : Submit(t)
    \/ EventRunnerStep

EventSpec == EventInit /\ [][EventNext]_eventVars

-----------------------------------------------------------------------------
(* Properties. *)

(* Every variable keeps to the values the program gives it. *)
EventTypeOK ==
    /\ eventList \in Nodes \cup {0} /\ live \subseteq Nodes
    /\ next \in [Nodes -> Nodes \cup {0}] /\ prev \in [Nodes -> Nodes \cup {0}]
    /\ abstime \in [Nodes -> -MaxLate .. 3]
    /\ eventCallback \in [Nodes -> Callbacks]
    /\ poll \in [Nodes -> [t : Tokens \cup {NoToken}, loopcount : 0 .. Repoll]]
    /\ adding \in [Threads -> Nodes \cup {0}] /\ running \in Nodes \cup {0}
    /\ request \in Seq(Tokens) /\ requestList \in Seq(Tokens)
    /\ submitted \subseteq Tokens /\ completed \in [Tokens -> Nat]

(* The linked list leads to every event that is allocated, but the one that *)
(* is handled and those a thread is about to put in, and to no event that   *)
(* was freed; and the links back that an insertion follows, those of all    *)
(* nodes but the first, agree with the links forward: the first node's,     *)
(* which Turn leaves dangling, is never followed.                           *)
ListSound ==
    /\ InList = live \ ({running} \cup {adding[h] : h \in Threads})
    /\ Nth[MaxNodes] = 0
    /\ \A i \in 2 .. Len(Order) : prev[Order[i]] = Order[i - 1]

(* The list as EventQueue sees it. *)
Events == [i \in DOMAIN Order |-> [id |-> Order[i], due |-> abstime[Order[i]]]]

Queue == INSTANCE EventQueue WITH
    Ids    <- Nodes,
    Delays <- -MaxLate .. 3,
    queue  <- Events

(* The linked list is a queue by time, first in first out for equal times.  *)
ListIsQueue == Queue!Spec

(* Where the token of a request can be. *)
Places(t) ==
    Cardinality({i \in DOMAIN requestList : requestList[i] = t})
    + Cardinality({i \in DOMAIN request : request[i] = t})
    + Cardinality({n \in live : poll[n].t = t})
    + completed[t]

(* Between its submission and for ever after, a token is in exactly one     *)
(* place: it waits, or one poll has it, or it was completed, once. So no    *)
(* poll survives its request, and no request loses its poll.                *)
TokenInOnePlace == \A t \in Tokens : Places(t) = IF t \in submitted THEN 1 ELSE 0

(* A request for automatic network selection is answered in the end,        *)
(* however long the modem has no operator and whatever other events come.   *)
OperatorAnswered == \A t \in Tokens : t \in submitted ~> completed[t] > 0
=============================================================================
