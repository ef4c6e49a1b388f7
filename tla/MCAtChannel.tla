---------------------------- MODULE MCAtChannel ----------------------------
(* Instances of AtChannel for TLC. *)
EXTENDS AtChannel, TLC

Cmd(t, p, s, f) == [type |-> t, prefix |-> p, sms |-> s, formatted |-> f]

SendCommand == Cmd("NO_RESULT", "none", FALSE, TRUE)      \* at_send_command()
Multiline   == Cmd("MULTILINE", "+CLCC:", FALSE, TRUE)
Sms         == Cmd("SINGLELINE", "+CMGS:", TRUE, FALSE)

AllPrefixes == {"none", "", "> ", "pdu", "ATE0Q0V1", "+CLCC:",
                "+CMGS:", "+CMT:"}

MixedCommands == {Sms, Multiline}
PlainCommands == {SendCommand}

CmtUrc  == {[kind |-> "sms", prefix |-> "+CMT:"]}
NoUrcs  == {}

(* What AtChannelProofs asks of the unsolicited lines, here true of +CMT.   *)
ASSUME UrcsAssumption == UrcsApart

ClientSymmetry == Permutations(Clients)
=============================================================================
