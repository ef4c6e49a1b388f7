------------------------------- MODULE DataCall -------------------------------
(****************************************************************************)
(* The data connection (huawei-generic/huaweigeneric-ril.c: killConn(),     *)
(* requestSetupDefaultPDP(), requestDeactivateDefaultPDP(),                 *)
(* wait_for_property(); files/etc/ppp/ip-up, ip-down).                      *)
(*                                                                          *)
(* The RIL, pppd and pppd's scripts share no lock: the RIL looks whether    *)
(* ppp0 is there, and whether the property net.ppp0.local-ip has a value.   *)
(* A connection is a number, and an address is that of a connection; 0 is   *)
(* no connection, and an empty property.                                    *)
(****************************************************************************)
EXTENDS Naturals, Sequences

CONSTANTS
    KillEvery,      \* 5: killall in every so many turns
    KillTurns,      \* 25: turns before killConn() gives up
    WaitTurns,      \* 10: seconds for wait_for_property()
    MaxConns        \* bound: how often pppd is started

ASSUME DataAssumption ==
    /\ KillEvery \in Nat \ {0} /\ KillTurns \in Nat /\ WaitTurns \in Nat \ {0}
    /\ MaxConns \in Nat

VARIABLES
    pppd,           \* "none", "starting" or "up"; ppp0 is there unless "none"
    killed,         \* killall has reached it
    conn,           \* the connection it makes or last made
    script,         \* what ip-up and ip-down have still to set
    local_ip, gw,   \* the properties net.ppp0.*
    setup,          \* where the request is
    turn,           \* the turns of its loop
    answer          \* to the last request

properties == <<local_ip, gw>>
pppVars    == <<pppd, killed, conn, script>>
dataVars   == <<pppVars, properties, setup, turn, answer>>

NoAnswer == [kind |-> "none", address |-> 0, gateway |-> 0]
Answer(kind, address, gateway) == [kind |-> kind, address |-> address, gateway |-> gateway]

DataInit ==
    /\ pppd = "none" /\ killed = FALSE /\ conn = 0 /\ script = <<>>
    /\ local_ip = 0 /\ gw = 0
    /\ setup = "idle" /\ turn = 0 /\ answer = NoAnswer

-----------------------------------------------------------------------------
(* pppd. It runs one script at a time, in the order of the events.          *)

IpUp(n) == <<[name |-> "local_ip", value |-> n], [name |-> "gw", value |-> n]>>
IpDown  == <<[name |-> "local_ip", value |-> 0], [name |-> "gw", value |-> 0]>>

PppUp ==
    /\ pppd = "starting" /\ ~killed
    /\ pppd' = "up" /\ script' = IpUp(conn)
    /\ UNCHANGED <<killed, conn, properties, setup, turn, answer>>

(* It is killed, it loses the line, or it cannot agree with the other side. *)
PppEnds ==
    /\ pppd # "none"
    /\ pppd' = "none" /\ killed' = FALSE
    /\ script' = IF pppd = "up" THEN script \o IpDown ELSE script
    /\ UNCHANGED <<conn, properties, setup, turn, answer>>

ScriptSets ==
    /\ script # <<>>
    /\ script' = Tail(script)
    /\ local_ip' = IF Head(script).name = "local_ip" THEN Head(script).value ELSE local_ip
    /\ gw' = IF Head(script).name = "gw" THEN Head(script).value ELSE gw
    /\ UNCHANGED <<pppd, killed, conn, setup, turn, answer>>

-----------------------------------------------------------------------------
(* The requests. A setup kills the connection and makes another.            *)

Request(name) ==
    /\ setup = "idle"
    /\ setup' = name /\ turn' = 0 /\ answer' = NoAnswer
    /\ UNCHANGED <<pppVars, properties>>

Killing == {"setup", "deactivate"}

Failed(kind) == setup' = "idle" /\ turn' = 0 /\ answer' = Answer(kind, 0, 0)

(* A turn of killConn() with ppp0 there; two seconds pass.                  *)
KillTurn ==
    /\ setup \in Killing /\ pppd # "none"
    /\ killed' = (killed \/ turn % KillEvery = 0)
    /\ \/ turn <= KillTurns /\ turn' = turn + 1 /\ UNCHANGED <<setup, answer>>
       \/ turn > KillTurns /\ Failed("failure")
    /\ UNCHANGED <<pppd, conn, script, properties>>

(* Mutant: after the first killall it does not wait for ppp0 to go. *)
KilledAtOnce ==
    /\ setup \in Killing /\ (pppd = "none" \/ turn > 0)
    /\ \/ Failed("failure")
       \/ setup = "setup" /\ setup' = "dial" /\ turn' = 0 /\ UNCHANGED answer
       \/ setup = "deactivate" /\ Failed("deactivated")
    /\ UNCHANGED <<pppVars, properties>>

(* ppp0 is gone, and AT+CGACT=0 takes the context down; or it is refused.   *)
Killed ==
    /\ setup \in Killing /\ pppd = "none"
    /\ \/ Failed("failure")
       \/ setup = "setup" /\ setup' = "dial" /\ turn' = 0 /\ UNCHANGED answer
       \/ setup = "deactivate" /\ Failed("deactivated")
    /\ UNCHANGED <<pppVars, properties>>

(* The settings of the context, whose errors are ignored, and ATD*99.       *)
Dial ==
    /\ setup = "dial"
    /\ \/ setup' = "pppd" /\ UNCHANGED <<turn, answer>>
       \/ Failed("failure")
    /\ UNCHANGED <<pppVars, properties>>

(* system("pppd ..."), whose result is ignored. The two sleeps and the      *)
(* commands since ppp0 has gone are taken to be longer than a script.       *)
StartPppd ==
    /\ setup = "pppd" /\ script = <<>>
    /\ setup' = "wait" /\ turn' = 0
    /\ \/ conn < MaxConns /\ conn' = conn + 1 /\ pppd' = "starting" /\ killed' = FALSE
       \/ UNCHANGED <<conn, pppd, killed>>
    /\ UNCHANGED <<script, properties, answer>>

(* wait_for_property(): an empty property counts as none. *)
WaitTurn ==
    /\ setup = "wait"
    /\ \/ local_ip # 0 /\ setup' = "read" /\ turn' = 0 /\ UNCHANGED answer
       \/ local_ip = 0 /\ turn + 1 < WaitTurns /\ turn' = turn + 1 /\ UNCHANGED <<setup, answer>>
       \/ local_ip = 0 /\ turn + 1 >= WaitTurns /\ Failed("failure")
    /\ UNCHANGED <<pppVars, properties>>

(* The properties are read, once more, and the request answered.            *)
Read ==
    /\ setup = "read"
    /\ setup' = "idle" /\ turn' = 0 /\ answer' = Answer("success", local_ip, gw)
    /\ UNCHANGED <<pppVars, properties>>

DataNext ==
    \/ PppUp \/ PppEnds \/ ScriptSets
    \/ \E name \in Killing : Request(name)
    \/ KillTurn \/ Killed \/ Dial \/ StartPppd \/ WaitTurn \/ Read

DataSpec == DataInit /\ [][DataNext]_dataVars

-----------------------------------------------------------------------------
(* Properties. *)

(* Every variable keeps to the values the program gives it. *)
DataTypeOK ==
    /\ pppd \in {"none", "starting", "up"} /\ killed \in BOOLEAN
    /\ conn \in 0 .. MaxConns /\ {local_ip, gw} \subseteq 0 .. MaxConns
    /\ setup \in Killing \cup {"idle", "dial", "pppd", "wait", "read"}
    /\ turn \in 0 .. KillTurns + WaitTurns + 1
    /\ answer.kind \in {"none", "failure", "deactivated", "success"}

(* The address a data call is answered with is never that of an earlier     *)
(* connection, however that one ended (killed, or by itself, at any moment  *)
(* of its scripts), and after a successful deactivation no pppd is left.    *)
FreshAddress ==
    /\ answer.kind = "success" => answer.address \in {0, conn}
    /\ answer.kind = "deactivated" => pppd = "none"
=============================================================================
