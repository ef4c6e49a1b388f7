---------------------------- MODULE NetworkInfo ----------------------------
(****************************************************************************)
(* What the RIL tells of the network (huawei-generic/huaweigeneric-ril.c:   *)
(* requestRegistrationState(), requestGprsRegistrationState(),              *)
(* requestNeighboringCellIds(), requestOrSendPDPContextList(),              *)
(* request{Set,Get}PreferredNetworkType(), initializeChannel()).            *)
(*                                                                          *)
(* The answers of the modem have optional fields at either end, so the      *)
(* number of commas, and a quotation mark, decide what a field means. An    *)
(* unsolicited line may be taken for the answer.                            *)
(****************************************************************************)
EXTENDS Tokens

CONSTANT MaxTypes       \* bound: types of which the modem may be set to any

ASSUME NetworkAssumption == MaxTypes \in Nat \ {0}

VARIABLES
    network,        \* of the modem: stat, lac, cid and act, as it writes them
    sysCfg,         \* of the modem: the first value of AT^SYSCFG
    preferred,      \* history: the types the modem may be set to, as far as
                    \* the framework and initializeChannel() can tell
    info            \* the answer under way, with what the modem had said

networkVars == <<network, sysCfg, preferred, info>>

Networks ==
    [stat : {<<"1">>, <<"2">>, <<"5">>}, act : {<<"0">>, <<"2">>},
     place : {[lac |-> <<"0">>, cid |-> <<"0">>], [lac |-> <<"1", "F">>, cid |-> <<"2", "B">>]}]
Cids == 1 .. 2

(* What the modem knows of its contexts; it may be anything at any time.    *)
ContextStates == [Cids -> {"undefined", "inactive", "active"}]

Nothing == [request |-> "none", errno |-> "none"]
Tell(request, said, answer) ==
    info' = [request |-> request, errno |-> "SUCCESS", said |-> said, answer |-> answer]
Fail(request) == info' = [request |-> request, errno |-> "GENERIC_FAILURE"]

NetworkInit ==
    /\ network \in Networks /\ sysCfg = 2 /\ preferred = {3}
    /\ info = Nothing

(* The phone moves. *)
Move == network' \in Networks \ {network} /\ UNCHANGED <<sysCfg, preferred, info>>

(* The framework takes an answer before the runner calls the next handler.  *)
Take == info # Nothing /\ info' = Nothing /\ UNCHANGED <<network, sysCfg, preferred>>

-----------------------------------------------------------------------------
(* Registration. *)

Join(fields) == FoldLeft(LAMBDA s, f : s \o <<",">> \o f, Head(fields), Tail(fields))
Quoted(s) == <<Quote>> \o s \o <<Quote>>

(* The fields +CREG: and +CGREG: have, solicited (with n first) or not; of  *)
(* +CREG: the sources know no unsolicited form with the technology.         *)
Locations == LET p == network.place IN
    {<<>>, <<p.lac, p.cid>>, <<Quoted(p.lac), Quoted(p.cid)>>}

Line(fields) == <<Blank>> \o Join(fields)

CregLines ==
    {Line(<<network.stat>> \o place) : place \in Locations}
    \cup {Line(<<<<"2">>, network.stat>> \o place) : place \in Locations}
    \cup {Line(<<<<"2">>, network.stat>> \o place \o <<network.act>>) : place \in Locations \ {<<>>}}

(* With the access technology the place is quoted, if it is not solicited.  *)
CgregLines ==
    LET p == network.place IN
    CregLines \cup {Line(<<network.stat, Quoted(p.lac), Quoted(p.cid), network.act>>)}

(* The fields a handler reads in turn; it makes no use of "skip".           *)
Field(read, name, t) ==
    [ok |-> read.ok /\ t.ok, cur |-> t.cur, values |-> [read.values EXCEPT ![name] = t.value]]

Fields(line, names) ==
    FoldLeft(LAMBDA read, name :
                Field(read, name, NextInt(read.cur, IF name \in {"lac", "cid"} THEN 16 ELSE 10)),
             [ok |-> TRUE, cur |-> line, values |-> [stat |-> 0, lac |-> -1, cid |-> -1, act |-> 0, skip |-> 0]],
             names)

VoiceFields(line) ==
    CASE Commas(line) = 0         -> <<"stat">>
      [] Commas(line) = 1         -> <<"skip", "stat">>
      [] Commas(line) = 2         -> <<"stat", "lac", "cid">>
      [] Commas(line) \in {3, 4}  -> <<"skip", "stat", "lac", "cid">>

(* The second field begins with a quotation mark.                           *)
LacSecond(line) == LET rest == NextInt(line, 10).cur IN rest # <<>> /\ rest[1] = Quote

(* Mutant: four fields are those of the solicited line, as for +CREG:.      *)
DataFieldsSolicited(line) ==
    CASE Commas(line) = 4 -> <<"skip", "stat", "lac", "cid", "act">>
      [] OTHER            -> VoiceFields(line)

DataFields(line) ==
    CASE Commas(line) = 3 /\ LacSecond(line)  -> <<"stat", "lac", "cid", "act">>
      [] Commas(line) = 4                     -> <<"skip", "stat", "lac", "cid", "act">>
      [] OTHER                                -> VoiceFields(line)

(* A value that is not given is NULL.                                       *)
If(given, value) == IF given THEN {value} ELSE {}

(* RIL_REQUEST_VOICE_REGISTRATION_STATE. *)
RequestRegistrationState ==
    /\ \/ Fail("VOICE")
       \/ \E line \in CregLines : \E r \in {Fields(line, VoiceFields(line))} :
             LET v == r.values IN
             IF ~r.ok THEN Fail("VOICE")
             ELSE Tell("VOICE", line, [stat |-> {v.stat}, lac |-> If(v.lac > 0, v.lac),
                                       cid |-> If(v.cid > 0, v.cid), act |-> {}])
    /\ UNCHANGED <<network, sysCfg, preferred>>

(* RIL_REQUEST_DATA_REGISTRATION_STATE. *)
RequestGprsRegistrationState ==
    /\ \/ Fail("DATA")
       \/ \E line \in CgregLines : \E r \in {Fields(line, DataFields(line))} :
             LET v == r.values IN
             IF ~r.ok THEN Fail("DATA")
             ELSE Tell("DATA", line, [stat |-> {v.stat}, lac |-> If(v.lac >= 0, v.lac),
                                      cid |-> If(v.cid >= 0, v.cid),
                                      act |-> If(v.stat \in {1, 5}, v.act)])
    /\ UNCHANGED <<network, sysCfg, preferred>>

(* RIL_REQUEST_GET_NEIGHBORING_CELL_IDS: the own cell, and AT+CSQ, which    *)
(* may fail.                                                                *)
RequestNeighboringCellIds ==
    /\ \/ Fail("CELLS")
       \/ \E line \in CregLines :
          \E act \in {IF Commas(line) = 4 THEN <<"skip">> ELSE <<>>} :
          \E r \in {Fields(line, VoiceFields(line) \o act)} :
             LET v == r.values IN
             IF ~r.ok \/ Commas(line) < 2 THEN Fail("CELLS")
             ELSE Tell("CELLS", line, [stat |-> {}, lac |-> {v.lac}, cid |-> {v.cid}, act |-> {}])
    /\ UNCHANGED <<network, sysCfg, preferred>>

-----------------------------------------------------------------------------
(* Contexts: AT+CGACT? gives the state of each, AT+CGDCONT? its definition; *)
(* between the two they may have changed. The answer is for the contexts of *)
(* the first list, and defined if the second has them.                      *)

Listed(states) ==
    FoldLeft(LAMBDA cids, cid : IF states[cid] = "undefined" THEN cids ELSE Append(cids, cid),
             <<>>, <<1, 2>>)

RequestOrSendPDPContextList ==
    /\ \/ Fail("CONTEXTS")
       \/ \E before, after \in ContextStates :
             LET first == Listed(before) second == Listed(after) IN
             Tell("CONTEXTS", before,
                  [i \in DOMAIN first |->
                     [cid |-> first[i], active |-> before[first[i]] = "active",
                      status |-> IF \E j \in DOMAIN second : second[j] = first[i] THEN 0 ELSE -1]])
    /\ UNCHANGED <<network, sysCfg, preferred>>

-----------------------------------------------------------------------------
(* The preferred type: 0, PREF_NET_TYPE_GSM_WCDMA, asks for 3G only, 1,     *)
(* PREF_NET_TYPE_GSM_ONLY, for 2G only, others for both. After AT^SYSCFG,   *)
(* AT+COPS=0 is sent, and either may fail.                                  *)

Configuration(type) == CASE type = 1 -> 13 [] type = 0 -> 14 [] OTHER -> 2

(* AT^SYSCFG failed, its answer came too late, or AT+COPS=0 failed: it may  *)
(* have been carried out.                                                   *)
MayBeSet(type) ==
    /\ sysCfg' \in {sysCfg, Configuration(type)}
    /\ preferred' = preferred \cup {type} /\ Cardinality(preferred') <= MaxTypes

RequestSetPreferredNetworkType(type) ==
    /\ \/ Fail("SET_TYPE") /\ MayBeSet(type)
       \/ /\ Tell("SET_TYPE", type, type)
          /\ sysCfg' = Configuration(type) /\ preferred' = {type}
    /\ UNCHANGED network

(* initializeChannel(): a channel that is opened again is set to both, with *)
(* AT^SYSCFG=2,2, whatever the framework had set; nobody looks whether the  *)
(* command failed.                                                          *)
InitializeSysCfg == MayBeSet(3) /\ UNCHANGED <<network, info>>

RequestGetPreferredNetworkType ==
    /\ \/ Fail("GET_TYPE")
       \/ Tell("GET_TYPE", preferred, CASE sysCfg = 13 -> 1 [] sysCfg = 14 -> 0 [] OTHER -> 3)
    /\ UNCHANGED <<network, sysCfg, preferred>>

NetworkNext ==
    \/ Take
    \/ /\ info = Nothing
       /\ \/ Move \/ RequestRegistrationState \/ RequestGprsRegistrationState
          \/ RequestNeighboringCellIds \/ RequestOrSendPDPContextList
          \/ \E type \in 0 .. 3 : RequestSetPreferredNetworkType(type)
          \/ RequestGetPreferredNetworkType
          \/ InitializeSysCfg

-----------------------------------------------------------------------------
(* Properties. *)

NetworkTypeOK ==
    /\ network \in Networks /\ sysCfg \in {2, 13, 14} /\ preferred \subseteq 0 .. 3
    /\ info.errno \in {"none", "SUCCESS", "GENERIC_FAILURE"}

Hex(s) == NextInt(s, 16).value

(* Whichever of its forms a line of the modem has, the framework is told    *)
(* the registration, the place and the technology of the network, or that   *)
(* they are not known, and never one for another; a place that is written   *)
(* is told, unless it is 0. A context is told with its own state, as it was *)
(* when it was asked for. The preferred type is read back as the one set    *)
(* last; or, if a request failed or the channel was opened since, as one    *)
(* that was set then, or the one before. (2 is none the modem knows.)       *)
NetworkTold ==
    info.errno = "SUCCESS" =>
       /\ info.request \in {"VOICE", "DATA", "CELLS"} =>
             LET lac == Hex(network.place.lac) cid == Hex(network.place.cid) IN
             /\ info.answer.stat \subseteq {Hex(network.stat)}
             /\ info.answer.lac \subseteq {lac} /\ info.answer.cid \subseteq {cid}
             /\ info.answer.act \subseteq {Hex(network.act), 0}
             /\ Commas(info.said) >= 2 /\ lac > 0 => info.answer.lac # {} /\ info.answer.cid # {}
       /\ info.request = "CONTEXTS" =>
             LET before == info.said IN
             /\ {info.answer[i].cid : i \in DOMAIN info.answer} =
                   {cid \in Cids : before[cid] # "undefined"}
             /\ \A i \in DOMAIN info.answer :
                   info.answer[i].active = (before[info.answer[i].cid] = "active")
       /\ info.request = "GET_TYPE" =>
             info.answer \in {IF type = 2 THEN 3 ELSE type : type \in info.said}
=============================================================================
