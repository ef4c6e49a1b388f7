---------------------------- MODULE DeviceProofs ----------------------------
(****************************************************************************)
(* The device HALs, for all values of their constants: the streams of the   *)
(* audio HAL, its echo reference and its HDMI port, the line reader of the  *)
(* GPS and its notices, the frames an audio read counts, the buffers of the *)
(* voice tunnel, and the preview of the camera. The last section is about   *)
(* all of them together: the composition of MCDevices.                      *)
(****************************************************************************)
EXTENDS MCDevices, SequenceTheorems, TLAPS

-----------------------------------------------------------------------------
(* AudioHal: the types, the echo reference on both sides, the active        *)
(* streams, and the HDMI port, for any echo references and effects.         *)
(*                                                                          *)
(* All of it rests on the device's mutex: between the steps in which an     *)
(* input starts or stops it is held, so that no other call sees the input   *)
(* half way.                                                                *)

(* Where a thread holds the mutex of the device. *)
DeviceLabels == Labels \ {"idle", "writing", "reading"}

Starting == {"getref", "create", "open"}

OpTypes == {Idle} \cup OutCalls \cup InCalls \cup Calls("binder")

(* What a call brings with it has its type. *)
OpInv ==
    /\ op \in [AudioThreads -> OpTypes]
    /\ \A t \in AudioThreads : at[t] = "mode" => op[t].mode \in Modes

LockInv == \A t \in AudioThreads : at[t] \in DeviceLabels => lock["device"] = t

(* The output is never seen half way, and without it there is no reference. *)
OutInv ==
    /\ adev.active_output = ~out.standby /\ (out.pcm # Null) = ~out.standby
    /\ out.standby => out.echo = Null
    /\ HdmiRouted

EchoInv ==
    /\ EchoRefSound
    /\ adev.echo # Null /\ ~out.standby => out.echo = adev.echo

(* The input: what a thread finds on its way through a start or a standby,  *)
(* and what everybody finds when no thread is on such a way.                *)
InInv ==
    /\ \A t \in AudioThreads :
          /\ at[t] \in Starting => adev.active_input /\ in.standby /\ ~in.pcm
          /\ at[t] \in {"getref", "create"} => in.echo = Null
          /\ at[t] = "create" => adev.echo = Null
          /\ at[t] = "putref" => ~adev.active_input /\ ~in.standby /\ ~in.pcm /\ in.echo # Null
    /\ (\A t \in AudioThreads : at[t] \notin Starting \cup {"putref"}) =>
          adev.active_input = ~in.standby /\ in.pcm = ~in.standby

AdevTypes ==
    [mode : Modes, route : Routes, in_call : BOOLEAN,
     active_output : BOOLEAN, active_input : BOOLEAN, echo : Refs \cup {Null}]

OutTypes ==
    [standby : BOOLEAN, pcm : {Port[r] : r \in Routes} \cup {Null}, echo : Refs \cup {Null}]

InTypes ==
    [standby : BOOLEAN, pcm : BOOLEAN, echo : Refs \cup {Null}, need : BOOLEAN,
     preprocessors : SUBSET Effects]

AudioStreams ==
    /\ adev \in AdevTypes /\ out \in OutTypes /\ in \in InTypes /\ refs \subseteq Refs
    /\ OutInv /\ EchoInv

IInv == AudioTypeOK /\ OpInv /\ LockInv /\ OutInv /\ EchoInv /\ InInv

-----------------------------------------------------------------------------
(* The calls. *)

LEMMA CallParts ==
    ASSUME NEW c \in OpTypes
    PROVE  /\ c.name = "out_set_parameters" => c.route \in Routes
           /\ c.name \in {"in_add_audio_effect", "in_remove_audio_effect"} => c.effect \in Effects
  <1>1. CASE c \in OutCalls
    BY <1>1 DEF OutCalls
  <1>2. CASE c \in InCalls
    BY <1>2 DEF InCalls
  <1>3. CASE c \in Calls("binder")
    BY <1>3 DEF Calls
  <1> QED
    BY <1>1, <1>2, <1>3 DEF OpTypes, Idle

LEMMA CallsAreOps ==
    ASSUME NEW t \in AudioThreads, NEW c \in Calls(t)
    PROVE  c \in OpTypes /\ (First(t) = "mode" => c.mode \in Modes)
  <1>1. c \in OpTypes
    BY DEF OpTypes, Calls, AudioThreads
  <1>2. First(t) = "mode" => t = "binder"
    BY DEF First, AudioThreads
  <1>3. t = "binder" => c.mode \in Modes
    BY DEF Calls
  <1> QED
    BY <1>1, <1>2, <1>3

LEMMA FirstLabel ==
    ASSUME NEW t \in AudioThreads
    PROVE  First(t) \in {"out", "in", "mode"}
  BY DEF First

(* What Lock and Finish make of the mutexes. *)
LEMMA LocksType ==
    ASSUME AudioTypeOK, NEW t \in AudioThreads, NEW l \in Locks
    PROVE  /\ [lock EXCEPT ![l] = t] \in [Locks -> AudioThreads \cup {Nobody}]
           /\ [lock EXCEPT ![l] = Nobody] \in [Locks -> AudioThreads \cup {Nobody}]
           /\ [k \in Locks |-> IF lock[k] = t THEN Nobody ELSE lock[k]]
                 \in [Locks -> AudioThreads \cup {Nobody}]
  BY DEF AudioTypeOK

LEMMA PortType == \A r \in Routes : Port[r] \in {Port[q] : q \in Routes} /\ Port[r] # Null
  BY DEF Port, Routes, Null

-----------------------------------------------------------------------------
(* The first state. *)

LEMMA AudioInitInv == AudioInit => IInv
  <1> SUFFICES ASSUME AudioInit PROVE IInv
    OBVIOUS
  <1> USE DEF AudioInit
  <1>1. AudioTypeOK
    BY DEF AudioTypeOK, NewInput, Labels, Modes, Routes
  <1>2. OpInv
    BY DEF OpInv, OpTypes
  <1>3. LockInv
    BY DEF LockInv, DeviceLabels
  <1>4. OutInv
    BY DEF OutInv, HdmiRouted
  <1>5. EchoInv
    BY DEF EchoInv, EchoRefSound, NewInput
  <1>6. InInv
    BY DEF InInv, NewInput, Starting
  <1> QED
    BY <1>1, <1>2, <1>3, <1>4, <1>5, <1>6 DEF IInv

-----------------------------------------------------------------------------
(* How a step goes on. *)

(* InputStandby() ends the call or goes on to put the reference back.       *)
LEMMA StandbyShape ==
    ASSUME NEW t \in AudioThreads, NEW input, InputStandby(t, input)
    PROVE  Finish(t) \/ (Go(t, "putref") /\ UNCHANGED op /\ lock' = [lock EXCEPT !["in"] = t])
  BY DEF InputStandby, EndStandby

(* Every step of a call goes to a label, none to "mode", and keeps what the *)
(* call brought with it until the call ends.                                *)
LEMMA StepShape ==
    ASSUME NEW t \in AudioThreads, AudioStep(t)
    PROVE  \/ Finish(t)
           \/ \E label \in Labels \ {"idle", "mode"} : Go(t, label) /\ UNCHANGED op
  <1> USE StandbyShape DEF Labels
  <1>1. CASE OutStandby(t) \/ OutSetParameters(t) \/ OutWritten(t) \/ InReadDone(t)
    BY <1>1 DEF OutStandby, OutSetParameters, OutWritten, InReadDone
  <1>2. CASE OutWrite(t)
    BY <1>2 DEF OutWrite, StartFails
  <1>3. CASE InStandby(t)
    BY <1>3 DEF InStandby
  <1>4. CASE ChangeEffect(t)
    BY <1>4 DEF ChangeEffect
  <1>5. CASE InRead(t)
    BY <1>5 DEF InRead
  <1>6. CASE GetEchoPut(t) \/ GetEchoCreate(t) \/ OpenInput(t)
    BY <1>6 DEF GetEchoPut, GetEchoCreate, OpenInput
  <1>7. CASE PutEcho(t)
    BY <1>7 DEF PutEcho, EndStandby
  <1>8. CASE SetMode(t)
    BY <1>8 DEF SetMode
  <1>9. CASE ForceOutput(t)
    BY <1>9 DEF ForceOutput
  <1>10. CASE ForceInput(t)
    BY <1>10 DEF ForceInput
  <1> QED
    BY <1>1, <1>2, <1>3, <1>4, <1>5, <1>6, <1>7, <1>8, <1>9, <1>10 DEF AudioStep

LEMMA OpStep ==
    ASSUME AudioTypeOK, OpInv, NEW t \in AudioThreads, CallAudio(t) \/ AudioStep(t)
    PROVE  OpInv'
  <1> USE DEF AudioTypeOK, OpInv
  <1>1. CASE CallAudio(t)
    <2>1. PICK c \in Calls(t) : op' = [op EXCEPT ![t] = c]
      BY <1>1 DEF CallAudio
    <2>2. at' = [at EXCEPT ![t] = First(t)]
      BY <1>1 DEF CallAudio, Go
    <2> QED
      BY <2>1, <2>2, CallsAreOps
  <1>2. CASE Finish(t)
    BY <1>2 DEF Finish, Go, OpTypes
  <1>3. ASSUME NEW label \in Labels \ {"idle", "mode"}, Go(t, label), UNCHANGED op
        PROVE  OpInv'
    BY <1>3 DEF Go
  <1> QED
    BY <1>1, <1>2, <1>3, StepShape

LEMMA AtStep ==
    ASSUME AudioTypeOK, NEW t \in AudioThreads, CallAudio(t) \/ AudioStep(t)
    PROVE  at' \in [AudioThreads -> Labels]
  <1> USE DEF AudioTypeOK
  <1>1. CASE CallAudio(t)
    BY <1>1, FirstLabel DEF CallAudio, Go, Labels
  <1>2. CASE Finish(t)
    BY <1>2 DEF Finish, Go, Labels
  <1> QED
    BY <1>1, <1>2, StepShape DEF Go

-----------------------------------------------------------------------------
(* The mutexes. *)

LEMMA LockTypeStep ==
    ASSUME AudioTypeOK, NEW t \in AudioThreads, CallAudio(t) \/ AudioStep(t)
    PROVE  lock' \in [Locks -> AudioThreads \cup {Nobody}]
  <1> USE DEF AudioTypeOK, Locks
  <1>1. CASE CallAudio(t)
    BY <1>1 DEF CallAudio, Lock
  <1>2. CASE Finish(t)
    BY <1>2 DEF Finish
  <1>3. CASE UNCHANGED lock
    BY <1>3
  <1>4. CASE lock' = [lock EXCEPT !["in"] = t]
    BY <1>4
  <1>5. CASE OutWrite(t)
    BY <1>2, <1>5 DEF OutWrite, StartFails
  <1>6. CASE InRead(t)
    BY <1>6 DEF InRead
  <1>7. CASE OpenInput(t)
    BY <1>7 DEF OpenInput
  <1> QED
    BY <1>1, <1>2, <1>3, <1>4, <1>5, <1>6, <1>7, StandbyShape
    DEF AudioStep, OutStandby, OutSetParameters, OutWritten, InStandby, ChangeEffect,
        GetEchoPut, GetEchoCreate, InReadDone, PutEcho, EndStandby, SetMode, ForceOutput,
        ForceInput

(* Two threads are never in a section of the device's mutex.                *)
LEMMA Alone ==
    ASSUME LockInv, NEW t \in AudioThreads, NEW u \in AudioThreads,
           at[t] \in DeviceLabels, at[u] \in DeviceLabels
    PROVE  u = t
  BY DEF LockInv

LEMMA LockFinish ==
    ASSUME AudioTypeOK, LockInv, NEW t \in AudioThreads, Finish(t)
    PROVE  LockInv'
  BY DEF AudioTypeOK, LockInv, Finish, Go, DeviceLabels, Locks, AudioThreads, Nobody

LEMMA LockGo ==
    ASSUME AudioTypeOK, LockInv, NEW t \in AudioThreads, at[t] \in DeviceLabels,
           NEW label, Go(t, label), label \in DeviceLabels => lock'["device"] = t
    PROVE  LockInv'
  BY Alone DEF AudioTypeOK, LockInv, Go

LEMMA LockStep ==
    ASSUME AudioTypeOK, LockInv, NEW t \in AudioThreads, CallAudio(t) \/ AudioStep(t)
    PROVE  LockInv'
  <1>1. CASE CallAudio(t)
    <2>1. lock["device"] = Nobody /\ lock'["device"] = t /\ at' = [at EXCEPT ![t] = First(t)]
      BY <1>1 DEF CallAudio, Lock, Go, AudioTypeOK, Locks
    <2>2. \A u \in AudioThreads : at[u] \notin DeviceLabels
      BY <2>1 DEF LockInv, AudioThreads, Nobody
    <2> QED
      BY <2>1, <2>2 DEF AudioTypeOK, LockInv
  <1>2. CASE Finish(t)
    BY <1>2, LockFinish
  <1>3. ASSUME at[t] \in DeviceLabels, NEW label, Go(t, label),
               UNCHANGED lock \/ lock' = [lock EXCEPT !["in"] = t]
        PROVE  LockInv'
    <2>1. lock'["device"] = t
      BY <1>3 DEF LockInv, AudioTypeOK, Locks
    <2> QED
      BY <1>3, <2>1, LockGo
  <1>4. CASE OutWrite(t)
    BY <1>2, <1>4, LockGo DEF OutWrite, StartFails, DeviceLabels, Labels
  <1>5. CASE InRead(t)
    <2>1. at[t] \in DeviceLabels
      BY <1>5 DEF InRead, DeviceLabels, Labels
    <2>2. CASE in.standby
      BY <1>3, <1>5, <2>1, <2>2 DEF InRead
    <2>3. CASE ~in.standby
      BY <1>5, <2>1, <2>3, LockGo DEF InRead, DeviceLabels
    <2> QED
      BY <2>2, <2>3
  <1>6. CASE OpenInput(t)
    BY <1>6, LockGo DEF OpenInput, DeviceLabels, Labels
  <1>7. CASE InStandby(t) \/ ChangeEffect(t) \/ ForceInput(t)
    <2>1. at[t] \in DeviceLabels
      BY <1>7 DEF InStandby, ChangeEffect, ForceInput, DeviceLabels, Labels
    <2> QED
      BY <1>2, <1>3, <1>7, <2>1, StandbyShape DEF InStandby, ChangeEffect, ForceInput
  <1>8. CASE GetEchoPut(t) \/ GetEchoCreate(t) \/ SetMode(t) \/ ForceOutput(t)
    <2>1. at[t] \in DeviceLabels
      BY <1>8 DEF GetEchoPut, GetEchoCreate, SetMode, ForceOutput, DeviceLabels, Labels
    <2> QED
      BY <1>2, <1>3, <1>8, <2>1 DEF GetEchoPut, GetEchoCreate, SetMode, ForceOutput
  <1> QED
    BY <1>1, <1>2, <1>4, <1>5, <1>6, <1>7, <1>8
    DEF AudioStep, OutStandby, OutSetParameters, OutWritten, InReadDone, PutEcho, EndStandby

-----------------------------------------------------------------------------
(* The streams: types, the output, the echo reference. *)

LEMMA InCallKeeps ==
    ASSUME NEW t, NEW a \in AdevTypes
    PROVE  /\ InCall(t, a) \in AdevTypes
           /\ InCall(t, a).active_output = a.active_output /\ InCall(t, a).route = a.route
           /\ InCall(t, a).echo = a.echo /\ InCall(t, a).active_input = a.active_input
  BY DEF InCall, AdevTypes

LEMMA EndStandbyKeeps ==
    ASSUME NEW t, NEW input \in InTypes, EndStandby(t, input)
    PROVE  in' \in InTypes /\ in'.echo \in {input.echo, Null}
  BY DEF EndStandby, NewInput, InTypes

(* What InputStandby() makes of the device, the streams and the references. *)
LEMMA StandbyStep ==
    ASSUME adev \in AdevTypes, NEW t, NEW input \in InTypes, InputStandby(t, input)
    PROVE  /\ adev' \in AdevTypes /\ in' \in InTypes /\ out' = out /\ refs' = refs
           /\ adev'.active_output = adev.active_output /\ adev'.route = adev.route
           /\ adev'.echo = adev.echo /\ in'.echo \in {input.echo, Null}
  <1> DEFINE stopped == [adev EXCEPT !.active_input = FALSE]
  <1>1. /\ stopped \in AdevTypes /\ stopped.active_output = adev.active_output
        /\ stopped.route = adev.route /\ stopped.echo = adev.echo
    BY DEF AdevTypes
  <1>2. CASE input.standby
    BY <1>2, InCallKeeps, EndStandbyKeeps DEF InputStandby
  <1>3. CASE ~input.standby /\ input.echo = Null
    <2>1. [input EXCEPT !.standby = TRUE, !.pcm = FALSE] \in InTypes
          /\ [input EXCEPT !.standby = TRUE, !.pcm = FALSE].echo = input.echo
      BY DEF InTypes
    <2>2. adev' = InCall(t, stopped)
          /\ EndStandby(t, [input EXCEPT !.standby = TRUE, !.pcm = FALSE])
          /\ out' = out /\ refs' = refs
      BY <1>3 DEF InputStandby
    <2> HIDE DEF stopped
    <2>3. /\ adev' \in AdevTypes /\ adev'.active_output = stopped.active_output
          /\ adev'.route = stopped.route /\ adev'.echo = stopped.echo
      BY <2>2, <1>1, InCallKeeps
    <2>4. in' \in InTypes /\ in'.echo \in {input.echo, Null}
      BY <2>1, <2>2, EndStandbyKeeps
    <2> QED
      BY <2>2, <2>3, <2>4, <1>1
  <1>4. CASE ~input.standby /\ input.echo # Null
    BY <1>4 DEF InputStandby, AdevTypes, InTypes
  <1> QED
    BY <1>2, <1>3, <1>4

LEMMA StreamsStandby ==
    ASSUME AudioStreams, NEW t, NEW input \in InTypes, input.echo = in.echo, InputStandby(t, input)
    PROVE  AudioStreams'
  <1>1. /\ adev' \in AdevTypes /\ in' \in InTypes /\ out' = out /\ refs' = refs
        /\ adev'.active_output = adev.active_output /\ adev'.route = adev.route
        /\ adev'.echo = adev.echo /\ in'.echo \in {in.echo, Null}
    BY StandbyStep DEF AudioStreams
  <1> QED
    BY <1>1 DEF AudioStreams, OutInv, EchoInv, HdmiRouted, EchoRefSound

LEMMA StreamsInput ==
    ASSUME AudioStreams, adev' \in AdevTypes, in' \in InTypes, UNCHANGED <<out, refs>>,
           adev'.active_output = adev.active_output, adev'.route = adev.route,
           adev'.echo = adev.echo, in'.echo = in.echo
    PROVE  AudioStreams'
  BY DEF AudioStreams, OutInv, EchoInv, HdmiRouted, EchoRefSound

LEMMA StreamsOutputStandby ==
    ASSUME AudioStreams, OutputStandby, UNCHANGED <<in, refs>>
    PROVE  AudioStreams'
  <1>1. CASE out.standby
    BY <1>1 DEF OutputStandby, AudioStreams, OutInv, EchoInv, HdmiRouted, EchoRefSound
  <1>2. CASE ~out.standby
    <2>1. /\ out' \in OutTypes /\ out'.standby = TRUE /\ out'.pcm = Null /\ out'.echo = Null
      BY <1>2 DEF OutputStandby, Standby, AudioStreams, OutTypes
    <2>2. /\ adev' \in AdevTypes /\ adev'.active_output = FALSE /\ adev'.echo = adev.echo
      BY <1>2 DEF OutputStandby, AudioStreams, AdevTypes
    <2> QED
      BY <2>1, <2>2 DEF AudioStreams, OutInv, EchoInv, HdmiRouted, EchoRefSound
  <1> QED
    BY <1>1, <1>2

LEMMA PortHdmi == \A r \in Routes : (Port[r] = "PORT_SPDIF") = (r = "AUX_DIGITAL")
  BY DEF Port, Routes

LEMMA StreamsRoute ==
    ASSUME AudioStreams, OpInv, NEW t \in AudioThreads, OutSetParameters(t)
    PROVE  AudioStreams'
  <1> DEFINE val == op[t].route
             hdmi == (val = "AUX_DIGITAL") # (adev.route = "AUX_DIGITAL")
  <1>1. val \in Routes
    BY CallParts DEF OutSetParameters, OpInv
  <1>2. CASE adev.active_output /\ ~out.standby /\ hdmi
    <2>1. out' = Standby(out) /\ adev' = [adev EXCEPT !.route = val, !.active_output = FALSE]
          /\ UNCHANGED <<in, refs>>
      BY <1>2 DEF OutSetParameters
    <2>2. /\ out' \in OutTypes /\ out'.standby = TRUE /\ out'.pcm = Null /\ out'.echo = Null
      BY <2>1 DEF Standby, AudioStreams, OutTypes
    <2>3. /\ adev' \in AdevTypes /\ adev'.active_output = FALSE /\ adev'.echo = adev.echo
      BY <1>1, <2>1 DEF AudioStreams, AdevTypes
    <2> QED
      BY <2>1, <2>2, <2>3 DEF AudioStreams, OutInv, EchoInv, HdmiRouted, EchoRefSound
  <1>3. CASE ~(adev.active_output /\ ~out.standby /\ hdmi)
    <2>1. out' = out /\ adev' = [adev EXCEPT !.route = val] /\ UNCHANGED <<in, refs>>
      BY <1>3 DEF OutSetParameters
    <2>2. /\ adev' \in AdevTypes /\ adev'.active_output = adev.active_output
          /\ adev'.echo = adev.echo /\ adev'.route = val
      BY <1>1, <2>1 DEF AudioStreams, AdevTypes
    <2>3. out.standby \/ (adev'.route = "AUX_DIGITAL") = (adev.route = "AUX_DIGITAL")
      BY <1>3, <2>2 DEF AudioStreams, OutInv
    <2> QED
      BY <2>1, <2>2, <2>3 DEF AudioStreams, OutInv, EchoInv, HdmiRouted, EchoRefSound
  <1> QED
    BY <1>2, <1>3

LEMMA StreamsWrite ==
    ASSUME AudioStreams, NEW t \in AudioThreads, OutWrite(t)
    PROVE  AudioStreams'
  <1>1. CASE out.standby /\ StartFails(t)
    <2>1. /\ adev' \in AdevTypes /\ adev'.active_output = FALSE /\ adev'.echo = adev.echo
          /\ UNCHANGED <<out, in, refs>>
      BY <1>1 DEF StartFails, AudioStreams, AdevTypes
    <2> QED
      BY <1>1, <2>1 DEF AudioStreams, OutInv, EchoInv, HdmiRouted, EchoRefSound
  <1>2. CASE out.standby /\ StartOutput /\ UNCHANGED <<in, refs>>
    <2>1. /\ adev' \in AdevTypes /\ adev'.active_output = TRUE /\ adev'.echo = adev.echo
          /\ adev'.route = adev.route /\ adev.route \in Routes
      BY <1>2 DEF StartOutput, AudioStreams, AdevTypes
    <2>2. /\ out'.standby = FALSE /\ out'.pcm = Port[adev.route] /\ out'.echo = adev.echo
          /\ out' \in OutTypes
      BY <1>2, <2>1 DEF StartOutput, AudioStreams, OutTypes, OutInv, AdevTypes
    <2> QED
      BY <1>2, <2>1, <2>2, PortHdmi, PortType
      DEF AudioStreams, OutInv, EchoInv, HdmiRouted, EchoRefSound
  <1>3. CASE UNCHANGED <<adev, out, in, refs>>
    BY <1>3 DEF AudioStreams, OutInv, EchoInv, HdmiRouted, EchoRefSound
  <1> QED
    BY <1>1, <1>2, <1>3 DEF OutWrite

(* The reference that goes is the one both streams use, if they use any.    *)
LEMMA PutOutKeeps ==
    ASSUME AudioStreams, NEW r, r # Null, r = adev.echo
    PROVE  /\ PutOut(r) \in OutTypes /\ PutOut(r).echo = Null
           /\ PutOut(r).standby = out.standby /\ PutOut(r).pcm = out.pcm
           /\ refs \ {r} = {}
  BY DEF PutOut, AudioStreams, OutTypes, OutInv, EchoInv, EchoRefSound

LEMMA StreamsGetEchoPut ==
    ASSUME AudioStreams, InInv, NEW t \in AudioThreads, GetEchoPut(t)
    PROVE  AudioStreams' /\ adev'.echo = Null
  <1>1. in.echo = Null
    BY DEF GetEchoPut, InInv
  <1>2. CASE adev.echo = Null
    BY <1>2 DEF GetEchoPut, AudioStreams, OutInv, EchoInv, HdmiRouted, EchoRefSound
  <1>3. CASE adev.echo # Null
    <2>1. /\ out' = PutOut(adev.echo) /\ refs' = refs \ {adev.echo}
          /\ adev' = [adev EXCEPT !.echo = Null] /\ in' = in
      BY <1>3 DEF GetEchoPut
    <2>2. /\ adev' \in AdevTypes /\ adev'.active_output = adev.active_output
          /\ adev'.echo = Null /\ adev'.route = adev.route
      BY <2>1 DEF AudioStreams, AdevTypes
    <2> QED
      BY <1>1, <1>3, <2>1, <2>2, PutOutKeeps
      DEF AudioStreams, OutInv, EchoInv, HdmiRouted, EchoRefSound
  <1> QED
    BY <1>2, <1>3

LEMMA StreamsGetEchoCreate ==
    ASSUME AudioStreams, InInv, NEW t \in AudioThreads, GetEchoCreate(t)
    PROVE  AudioStreams'
  <1>1. CASE UNCHANGED <<adev, out, in, refs>>
    BY <1>1 DEF AudioStreams, OutInv, EchoInv, HdmiRouted, EchoRefSound
  <1>2. ASSUME NEW r \in Refs \ refs, adev.active_output, refs' = refs \cup {r},
               adev' = [adev EXCEPT !.echo = r], out' = [out EXCEPT !.echo = r],
               in' = [in EXCEPT !.echo = r]
        PROVE  AudioStreams'
    <2>1. adev.echo = Null
      BY DEF GetEchoCreate, InInv
    <2>2. /\ adev' \in AdevTypes /\ adev'.active_output = adev.active_output
          /\ adev'.echo = r /\ adev'.route = adev.route
      BY <1>2 DEF AudioStreams, AdevTypes
    <2>3. /\ out' \in OutTypes /\ out'.echo = r /\ out'.standby = out.standby
          /\ out'.pcm = out.pcm
      BY <1>2 DEF AudioStreams, OutTypes
    <2>4. in' \in InTypes /\ in'.echo = r
      BY <1>2 DEF AudioStreams, InTypes
    <2> QED
      BY <1>2, <2>1, <2>2, <2>3, <2>4, AudioAssumption
      DEF AudioStreams, OutInv, EchoInv, HdmiRouted, EchoRefSound
  <1> QED
    BY <1>1, <1>2 DEF GetEchoCreate

LEMMA StreamsPutEcho ==
    ASSUME AudioStreams, InInv, NEW t \in AudioThreads, PutEcho(t)
    PROVE  AudioStreams'
  <1> DEFINE input == [in EXCEPT !.echo = Null, !.standby = TRUE]
             without == [adev EXCEPT !.echo = Null]
  <1>1. in.echo # Null /\ in.echo = adev.echo
    BY DEF PutEcho, InInv, AudioStreams, EchoInv, EchoRefSound
  <1>2. input \in InTypes /\ input.echo = Null
    BY DEF AudioStreams, InTypes
  <1>3. /\ without \in AdevTypes /\ without.active_output = adev.active_output
        /\ without.echo = Null /\ without.route = adev.route
    BY DEF AudioStreams, AdevTypes
  <1>4. /\ out' = PutOut(in.echo) /\ refs' = refs \ {in.echo}
        /\ adev' = InCall(t, without) /\ EndStandby(t, input)
    BY <1>1 DEF PutEcho
  <1> HIDE DEF input, without
  <1>5. in' \in InTypes /\ in'.echo = Null
    BY <1>2, <1>4, EndStandbyKeeps
  <1>6. /\ adev' \in AdevTypes /\ adev'.active_output = adev.active_output
        /\ adev'.echo = Null /\ adev'.route = adev.route
    BY <1>3, <1>4, InCallKeeps
  <1> QED
    BY <1>1, <1>4, <1>5, <1>6, PutOutKeeps
    DEF AudioStreams, OutInv, EchoInv, HdmiRouted, EchoRefSound

LEMMA StreamsUnchanged ==
    ASSUME AudioStreams, UNCHANGED <<adev, out, in, refs>>
    PROVE  AudioStreams'
  BY DEF AudioStreams, OutInv, EchoInv, HdmiRouted, EchoRefSound

LEMMA StreamsChangeEffect ==
    ASSUME AudioStreams, OpInv, NEW t \in AudioThreads, ChangeEffect(t)
    PROVE  AudioStreams'
  <1> DEFINE e == op[t].effect
             add == op[t].name = "in_add_audio_effect"
             changed == [in EXCEPT
                !.preprocessors = IF add THEN @ \cup {e} ELSE @ \ {e},
                !.need = IF e = AEC THEN add ELSE @]
  <1>1. e \in Effects
    BY CallParts DEF ChangeEffect, OpInv
  <1>2. changed \in InTypes /\ changed.echo = in.echo
    BY <1>1 DEF AudioStreams, InTypes
  <1>3. CASE UNCHANGED <<adev, out, in, refs>>
    BY <1>3, StreamsUnchanged
  <1>4. CASE InputStandby(t, changed)
    <2> HIDE DEF changed
    <2> QED
      BY <1>2, <1>4, StreamsStandby
  <1>5. CASE in' = changed /\ UNCHANGED <<adev, out, refs>>
    <2> HIDE DEF changed
    <2> QED
      BY <1>2, <1>5, StreamsInput DEF AudioStreams
  <1> QED
    BY <1>3, <1>4, <1>5 DEF ChangeEffect

(* InRead, OpenInput and SetMode change the device and the input alone.     *)
LEMMA StreamsInputSteps ==
    ASSUME AudioStreams, OpInv, NEW t \in AudioThreads, InRead(t) \/ OpenInput(t) \/ SetMode(t)
    PROVE  AudioStreams'
  <1>1. /\ adev' \in AdevTypes /\ adev'.active_output = adev.active_output
        /\ adev'.route = adev.route /\ adev'.echo = adev.echo
    <2>1. CASE InRead(t)
      BY <2>1 DEF InRead, AudioStreams, AdevTypes
    <2>2. CASE OpenInput(t)
      BY <2>2 DEF OpenInput, AudioStreams, AdevTypes
    <2>3. CASE SetMode(t)
      <3>1. op[t].mode \in Modes
        BY <2>3 DEF SetMode, OpInv
      <3>2. \/ adev' = [adev EXCEPT !.mode = op[t].mode, !.in_call = FALSE]
            \/ adev' = [adev EXCEPT !.mode = op[t].mode]
        BY <2>3 DEF SetMode
      <3>3. adev \in AdevTypes
        BY DEF AudioStreams
      <3> QED
        BY <3>1, <3>2, <3>3 DEF AdevTypes
    <2> QED
      BY <2>1, <2>2, <2>3
  <1>2. in' \in InTypes /\ in'.echo = in.echo /\ UNCHANGED <<out, refs>>
    <2>1. in' = in \/ in' = [in EXCEPT !.standby = FALSE, !.pcm = TRUE]
      BY DEF InRead, OpenInput, SetMode
    <2>2. UNCHANGED <<out, refs>>
      BY DEF InRead, OpenInput, SetMode
    <2>3. in \in InTypes
      BY DEF AudioStreams
    <2> QED
      BY <2>1, <2>2, <2>3 DEF InTypes
  <1> QED
    BY <1>1, <1>2, StreamsInput

LEMMA StreamsStep ==
    ASSUME AudioStreams, OpInv, InInv, NEW t \in AudioThreads, CallAudio(t) \/ AudioStep(t)
    PROVE  AudioStreams'
  <1>1. in \in InTypes
    BY DEF AudioStreams
  <1>2. CASE CallAudio(t) \/ OutWritten(t) \/ InReadDone(t)
    BY <1>2, StreamsUnchanged DEF CallAudio, OutWritten, InReadDone
  <1>3. CASE OutStandby(t)
    BY <1>3, StreamsOutputStandby DEF OutStandby
  <1>4. CASE InStandby(t)
    BY <1>1, <1>4, StreamsStandby DEF InStandby
  <1>5. CASE ForceOutput(t)
    BY <1>5, StreamsOutputStandby, StreamsUnchanged DEF ForceOutput
  <1>6. CASE ForceInput(t)
    <2>1. CASE adev.active_input
      BY <1>1, <1>6, <2>1, StreamsStandby DEF ForceInput
    <2>2. CASE ~adev.active_input
      <3>1. adev' = InCall(t, adev) /\ UNCHANGED <<out, in, refs>>
        BY <1>6, <2>2 DEF ForceInput
      <3> QED
        BY <3>1, InCallKeeps, StreamsInput DEF AudioStreams
    <2> QED
      BY <2>1, <2>2
  <1> QED
    BY <1>2, <1>3, <1>4, <1>5, <1>6, StreamsRoute, StreamsWrite, StreamsGetEchoPut,
       StreamsGetEchoCreate, StreamsPutEcho, StreamsChangeEffect, StreamsInputSteps
    DEF AudioStep

-----------------------------------------------------------------------------
(* The input. *)

Special == Starting \cup {"putref"}

LEMMA SpecialHeld == Special \subseteq DeviceLabels
  BY DEF Special, Starting, DeviceLabels, Labels

(* A step that leaves the input as it is, and does not lead to a start or a *)
(* standby.                                                                 *)
LEMMA InKeep ==
    ASSUME at \in [AudioThreads -> Labels], InInv, NEW t \in AudioThreads,
           at[t] \notin Special, NEW label, label \notin Special, Go(t, label),
           adev'.active_input = adev.active_input, adev'.echo = adev.echo,
           in'.standby = in.standby, in'.pcm = in.pcm, in'.echo = in.echo
    PROVE  InInv'
  <1>1. \A u \in AudioThreads : at'[u] = IF u = t THEN label ELSE at[u]
    BY DEF Go
  <1> QED
    BY <1>1 DEF InInv, Special, Starting

(* A step of the only thread with the device's mutex that leaves the input  *)
(* settled.                                                                 *)
LEMMA InSettles ==
    ASSUME at \in [AudioThreads -> Labels], LockInv, NEW t \in AudioThreads,
           at[t] \in DeviceLabels, NEW label, label \notin Special, Go(t, label),
           adev'.active_input = ~in'.standby, in'.pcm = ~in'.standby
    PROVE  InInv'
  <1>1. \A u \in AudioThreads : at'[u] \notin Special
    BY Alone, SpecialHeld DEF Go
  <1> QED
    BY <1>1 DEF InInv, Special, Starting

(* ... and one that does not.                                               *)
LEMMA InStarts ==
    ASSUME at \in [AudioThreads -> Labels], LockInv, NEW t \in AudioThreads,
           at[t] \in DeviceLabels, NEW label \in Special, Go(t, label),
           label \in Starting => adev'.active_input /\ in'.standby /\ ~in'.pcm,
           label \in {"getref", "create"} => in'.echo = Null,
           label = "create" => adev'.echo = Null,
           label = "putref" => ~adev'.active_input /\ ~in'.standby /\ ~in'.pcm /\ in'.echo # Null
    PROVE  InInv'
  <1>1. \A u \in AudioThreads : at'[u] \in Special => u = t
    BY Alone, SpecialHeld DEF Go
  <1>2. at'[t] = label
    BY DEF Go
  <1> QED
    BY <1>1, <1>2 DEF InInv, Special, Starting

LEMMA InAtRest ==
    ASSUME LockInv, InInv, NEW t \in AudioThreads, at[t] \in DeviceLabels \ Special
    PROVE  adev.active_input = ~in.standby /\ in.pcm = ~in.standby
  <1>1. \A u \in AudioThreads : at[u] \notin Special
    BY Alone, SpecialHeld
  <1> QED
    BY <1>1 DEF InInv, Special

LEMMA EndStandbyRests ==
    ASSUME NEW t, NEW input \in InTypes, EndStandby(t, input), input.standby, ~input.pcm
    PROVE  in'.standby = TRUE /\ in'.pcm = FALSE /\ Go(t, "idle")
  BY DEF EndStandby, NewInput, InTypes, Finish

LEMMA InStandbyStep ==
    ASSUME at \in [AudioThreads -> Labels], adev \in AdevTypes, LockInv, InInv,
           NEW t \in AudioThreads, at[t] \in DeviceLabels \ Special,
           NEW input \in InTypes, InputStandby(t, input),
           input.standby = in.standby, input.pcm = in.pcm
    PROVE  InInv'
  <1>1. adev.active_input = ~in.standby /\ in.pcm = ~in.standby
    BY InAtRest
  <1>2. "idle" \notin Special
    BY DEF Special, Starting
  <1>3. CASE input.standby
    <2>1. adev' = InCall(t, adev) /\ EndStandby(t, input)
      BY <1>3 DEF InputStandby
    <2> QED
      BY <1>1, <1>2, <1>3, <2>1, EndStandbyRests, InCallKeeps, InSettles
  <1>4. CASE ~input.standby /\ input.echo = Null
    <2> DEFINE stopped == [adev EXCEPT !.active_input = FALSE]
               closed == [input EXCEPT !.standby = TRUE, !.pcm = FALSE]
    <2>1. stopped \in AdevTypes /\ stopped.active_input = FALSE
      BY DEF AdevTypes
    <2>2. closed \in InTypes /\ closed.standby /\ ~closed.pcm
      BY DEF InTypes
    <2>3. adev' = InCall(t, stopped) /\ EndStandby(t, closed)
      BY <1>4 DEF InputStandby
    <2> HIDE DEF stopped, closed
    <2> QED
      BY <1>2, <2>1, <2>2, <2>3, EndStandbyRests, InCallKeeps, InSettles
  <1>5. CASE ~input.standby /\ input.echo # Null
    <2>1. /\ adev'.active_input = FALSE /\ in'.pcm = FALSE /\ in'.standby = FALSE
          /\ in'.echo # Null /\ Go(t, "putref")
      BY <1>5 DEF InputStandby, AdevTypes, InTypes
    <2> QED
      BY <2>1, InStarts DEF Special, Starting
  <1> QED
    BY <1>3, <1>4, <1>5

LEMMA InStep ==
    ASSUME at \in [AudioThreads -> Labels], AudioStreams, OpInv, LockInv, InInv,
           NEW t \in AudioThreads, CallAudio(t) \/ AudioStep(t)
    PROVE  InInv'
  <1> USE DEF AudioStreams
  <1>0. DeviceLabels \ Special = {"out", "in", "mode", "forceout", "forcein"}
    BY DEF DeviceLabels, Labels, Special, Starting
  <1>1. /\ "idle" \notin Special /\ "writing" \notin Special /\ "reading" \notin Special
        /\ {"out", "in", "mode", "forceout", "forcein"} \cap Special = {}
        /\ Special = {"getref", "create", "open", "putref"}
    BY DEF Special, Starting
  <1>2. CASE CallAudio(t) \/ OutWritten(t) \/ InReadDone(t)
    BY <1>1, <1>2, FirstLabel, InKeep DEF CallAudio, OutWritten, InReadDone, Finish
  <1>3. CASE OutStandby(t)
    <2>1. adev'.active_input = adev.active_input /\ adev'.echo = adev.echo
      BY <1>3 DEF OutStandby, OutputStandby, AdevTypes
    <2> QED
      BY <1>1, <1>3, <2>1, InKeep DEF OutStandby, Finish
  <1>4. CASE OutSetParameters(t)
    <2>1. adev'.active_input = adev.active_input /\ adev'.echo = adev.echo
      BY <1>4 DEF OutSetParameters, AdevTypes
    <2> QED
      BY <1>1, <1>4, <2>1, InKeep DEF OutSetParameters, Finish
  <1>5. CASE OutWrite(t)
    <2>1. adev'.active_input = adev.active_input /\ adev'.echo = adev.echo /\ in' = in
      BY <1>5 DEF OutWrite, StartFails, StartOutput, AdevTypes
    <2>2. Go(t, "idle") \/ Go(t, "writing")
      BY <1>5 DEF OutWrite, StartFails, Finish
    <2> QED
      BY <1>1, <1>5, <2>1, <2>2, InKeep DEF OutWrite
  <1>6. CASE InStandby(t)
    BY <1>0, <1>6, InStandbyStep DEF InStandby
  <1>7. CASE ChangeEffect(t)
    <2> DEFINE e == op[t].effect
               add == op[t].name = "in_add_audio_effect"
               changed == [in EXCEPT
                  !.preprocessors = IF add THEN @ \cup {e} ELSE @ \ {e},
                  !.need = IF e = AEC THEN add ELSE @]
    <2>1. e \in Effects
      BY <1>7, CallParts DEF ChangeEffect, OpInv
    <2>2. changed \in InTypes /\ changed.echo = in.echo
          /\ changed.standby = in.standby /\ changed.pcm = in.pcm
      BY <2>1 DEF InTypes
    <2>3. at[t] = "in"
      BY <1>7 DEF ChangeEffect
    <2>4. CASE InputStandby(t, changed)
      <3> HIDE DEF changed
      <3> QED
        BY <1>0, <2>2, <2>3, <2>4, InStandbyStep
    <2>5. CASE Finish(t) /\ UNCHANGED adev /\ (in' = in \/ in' = changed)
      <3> HIDE DEF changed
      <3> QED
        BY <1>1, <2>2, <2>3, <2>5, InKeep DEF Finish
    <2> QED
      BY <1>7, <2>4, <2>5 DEF ChangeEffect
  <1>8. CASE InRead(t)
    <2>1. at[t] = "in" /\ at[t] \in DeviceLabels \ Special
      BY <1>0, <1>8 DEF InRead
    <2>2. CASE in.standby
      <3>1. in.pcm = FALSE
        BY <2>1, <2>2, InAtRest
      <3>2. adev'.active_input = TRUE /\ in' = in
        BY <1>8, <2>2 DEF InRead, AdevTypes
      <3>3. (Go(t, "getref") /\ in.echo = Null) \/ Go(t, "open")
        BY <1>8, <2>2 DEF InRead
      <3> QED
        BY <1>1, <2>1, <2>2, <3>1, <3>2, <3>3, InStarts
    <2>3. CASE ~in.standby
      BY <1>1, <1>8, <2>1, <2>3, InKeep DEF InRead
    <2> QED
      BY <2>2, <2>3
  <1>9. CASE GetEchoPut(t)
    <2>1. at[t] = "getref" /\ at[t] \in DeviceLabels /\ adev.active_input
          /\ in.standby /\ ~in.pcm /\ in.echo = Null
      BY <1>9 DEF GetEchoPut, InInv, Starting, DeviceLabels, Labels
    <2>2. adev'.active_input = adev.active_input /\ adev'.echo = Null /\ in' = in
      BY <1>9 DEF GetEchoPut, AdevTypes
    <2> QED
      BY <1>1, <1>9, <2>1, <2>2, InStarts DEF GetEchoPut
  <1>10. CASE GetEchoCreate(t)
    <2>1. at[t] = "create" /\ at[t] \in DeviceLabels /\ adev.active_input
          /\ in.standby /\ ~in.pcm
      BY <1>10 DEF GetEchoCreate, InInv, Starting, DeviceLabels, Labels
    <2>2. adev'.active_input = adev.active_input
      BY <1>10 DEF GetEchoCreate, AdevTypes
    <2>3. in'.standby = in.standby /\ in'.pcm = in.pcm
      BY <1>10 DEF GetEchoCreate, InTypes
    <2> QED
      BY <1>1, <1>10, <2>1, <2>2, <2>3, InStarts DEF GetEchoCreate
  <1>11. CASE OpenInput(t)
    <2>1. at[t] \in DeviceLabels /\ adev.active_input /\ in.standby /\ ~in.pcm
      BY <1>11 DEF OpenInput, InInv, Starting, DeviceLabels, Labels
    <2>2. adev'.active_input = ~in'.standby /\ in'.pcm = ~in'.standby
      BY <1>11, <2>1 DEF OpenInput, AdevTypes, InTypes
    <2> QED
      BY <1>1, <1>11, <2>1, <2>2, InSettles DEF OpenInput
  <1>12. CASE PutEcho(t)
    <2> DEFINE input == [in EXCEPT !.echo = Null, !.standby = TRUE]
               without == [adev EXCEPT !.echo = Null]
    <2>1. at[t] \in DeviceLabels /\ ~adev.active_input /\ ~in.pcm
      BY <1>12 DEF PutEcho, InInv, DeviceLabels, Labels
    <2>2. input \in InTypes /\ input.standby /\ ~input.pcm
      BY <2>1 DEF InTypes
    <2>3. without \in AdevTypes /\ without.active_input = FALSE
      BY <2>1 DEF AdevTypes
    <2>4. (adev' = InCall(t, without) \/ adev' = InCall(t, adev)) /\ EndStandby(t, input)
      BY <1>12 DEF PutEcho
    <2> HIDE DEF input, without
    <2>5. adev'.active_input = FALSE
      BY <2>1, <2>3, <2>4, InCallKeeps
    <2>6. in'.standby = TRUE /\ in'.pcm = FALSE /\ Go(t, "idle")
      BY <2>2, <2>4, EndStandbyRests
    <2> QED
      BY <1>1, <2>1, <2>5, <2>6, InSettles
  <1>13. CASE SetMode(t)
    <2>1. adev'.active_input = adev.active_input /\ adev'.echo = adev.echo /\ in' = in
      BY <1>13 DEF SetMode, AdevTypes
    <2>2. Go(t, "idle") \/ Go(t, "forceout")
      BY <1>13 DEF SetMode, Finish
    <2> QED
      BY <1>1, <1>13, <2>1, <2>2, InKeep DEF SetMode
  <1>14. CASE ForceOutput(t)
    <2>1. adev'.active_input = adev.active_input /\ adev'.echo = adev.echo
      BY <1>14 DEF ForceOutput, OutputStandby, AdevTypes
    <2> QED
      BY <1>1, <1>14, <2>1, InKeep DEF ForceOutput
  <1>15. CASE ForceInput(t)
    <2>1. at[t] = "forcein" /\ at[t] \in DeviceLabels \ Special
      BY <1>0, <1>15 DEF ForceInput
    <2>2. CASE adev.active_input
      BY <1>15, <2>1, <2>2, InStandbyStep DEF ForceInput
    <2>3. CASE ~adev.active_input
      <3>1. adev' = InCall(t, adev) /\ Finish(t) /\ in' = in
        BY <1>15, <2>3 DEF ForceInput
      <3> QED
        BY <1>1, <2>1, <3>1, InCallKeeps, InKeep DEF Finish
    <2> QED
      BY <2>2, <2>3
  <1> QED
    BY <1>2, <1>3, <1>4, <1>5, <1>6, <1>7, <1>8, <1>9, <1>10, <1>11, <1>12, <1>13, <1>14, <1>15
    DEF AudioStep

-----------------------------------------------------------------------------
(* The theorems. *)

LEMMA TypeStreams == AudioTypeOK /\ OutInv /\ EchoInv => AudioStreams
  BY DEF AudioTypeOK, AudioStreams, AdevTypes, OutTypes, InTypes

LEMMA AudioStepInv == IInv /\ [AudioNext]_audioVars => IInv'
  <1> SUFFICES ASSUME IInv, [AudioNext]_audioVars PROVE IInv'
    OBVIOUS
  <1>1. AudioStreams
    BY TypeStreams DEF IInv
  <1>2. ASSUME NEW t \in AudioThreads, CallAudio(t) \/ AudioStep(t) PROVE IInv'
    <2>1. AudioStreams'
      BY <1>1, <1>2, StreamsStep DEF IInv
    <2>2. lock' \in [Locks -> AudioThreads \cup {Nobody}] /\ at' \in [AudioThreads -> Labels]
      BY <1>2, LockTypeStep, AtStep DEF IInv
    <2>3. AudioTypeOK'
      BY <2>1, <2>2 DEF AudioTypeOK, AudioStreams, AdevTypes, OutTypes, InTypes
    <2>4. OpInv' /\ LockInv'
      BY <1>2, OpStep, LockStep DEF IInv
    <2>5. InInv'
      BY <1>1, <1>2, InStep DEF IInv, AudioTypeOK
    <2> QED
      BY <2>1, <2>3, <2>4, <2>5 DEF IInv, AudioStreams
  <1>3. CASE UNCHANGED audioVars
    BY <1>3 DEF audioVars, IInv, AudioTypeOK, OpInv, LockInv, OutInv, HdmiRouted, EchoInv,
       EchoRefSound, InInv
  <1> QED
    BY <1>2, <1>3 DEF AudioNext

LEMMA AudioInvariant == AudioSpec => []IInv
  BY AudioInitInv, AudioStepInv, PTL DEF AudioSpec

(* The types of AudioHal hold in every state, for any references and        *)
(* effects.                                                                 *)
THEOREM AudioTypeCorrect == AudioSpec => []AudioTypeOK
  BY AudioInvariant, PTL DEF IInv

(* However playback, record and mode changes interleave: there is one echo  *)
(* reference at most, the device knows it, and neither stream uses one that *)
(* put_echo_reference() has released.                                       *)
THEOREM EchoReferenceSound == AudioSpec => []EchoRefSound
  BY AudioInvariant, PTL DEF IInv, EchoInv

(* However they interleave: an echo canceller that runs and an output that  *)
(* runs have one reference in common, whichever of them started first and   *)
(* whichever starts of either failed before.                                *)
THEOREM EchoReferenceShared == AudioSpec => []EchoBothSides
  <1>1. IInv => EchoBothSides
    BY DEF IInv, EchoInv, EchoRefSound, EchoBothSides
  <1> QED
    BY <1>1, AudioInvariant, PTL

(* Whenever the device's mutex is free, the active streams are those that   *)
(* run, and their PCMs are open: force_all_standby() misses none.           *)
THEOREM ActiveStreamsRun == AudioSpec => []ActiveRuns
  <1>1. IInv => ActiveRuns
    <2> SUFFICES ASSUME IInv, lock["device"] = Nobody
                 PROVE  /\ adev.active_output = ~out.standby /\ (out.pcm # Null) = ~out.standby
                        /\ adev.active_input = ~in.standby /\ in.pcm = ~in.standby
      BY DEF ActiveRuns
    <2>1. \A t \in AudioThreads : at[t] \notin Special
      BY SpecialHeld DEF IInv, LockInv, AudioThreads, Nobody
    <2> QED
      BY <2>1 DEF IInv, OutInv, InInv, Special
  <1> QED
    BY <1>1, AudioInvariant, PTL

(* Whatever route the framework sets while the output runs, stops or fails  *)
(* to start: it plays to the HDMI port if and only if that is the route.    *)
THEOREM HdmiFollowsRoute == AudioSpec => []HdmiRouted
  BY AudioInvariant, PTL DEF IInv, OutInv

-----------------------------------------------------------------------------
(* NmeaReader *)

(* Outside of a line too long, the buffer holds what has come of the line,  *)
(* with what sessions before had sent of theirs.                            *)
NmeaInv ==
    /\ NmeaTypeOK /\ ParsedWhole
    /\ overflow => pos = 0
    /\ ~overflow => pos = cut + column

LEMMA NmeaStep == NmeaInv /\ [NmeaNext]_nmeaVars => NmeaInv'
  <1> SUFFICES ASSUME NmeaInv, [NmeaNext]_nmeaVars PROVE NmeaInv'
    OBVIOUS
  <1> USE NmeaAssumption DEF NmeaInv, NmeaTypeOK, ParsedWhole
  <1>1. ASSUME NEW newline \in BOOLEAN, AddC(newline), newline \/ cut + column + 1 < MaxLine
        PROVE NmeaInv'
    <2>1. /\ column' = (IF newline THEN 0 ELSE column + 1) /\ cut' = (IF newline THEN 0 ELSE cut)
          /\ column' \in Nat /\ cut' \in Nat /\ cut' + column' < MaxLine
      <3>1. column' = (IF newline THEN 0 ELSE column + 1) /\ cut' = (IF newline THEN 0 ELSE cut)
        BY <1>1 DEF AddC
      <3> QED
        BY <1>1, <3>1
    <2>2. CASE overflow /\ Skips(newline)
      <3>1. overflow' = ~newline /\ UNCHANGED <<pos, parsed>> /\ pos = 0
        BY <2>2 DEF Skips
      <3>2. overflow' \in BOOLEAN /\ (~overflow' => newline)
        BY <3>1
      <3>3. NmeaTypeOK'
        BY <2>1, <3>1, <3>2
      <3> QED
        BY <2>1, <3>1, <3>2, <3>3
    <2>3. CASE ~overflow /\ pos >= BufferSize /\ Overflows
      BY <2>1, <2>3 DEF Overflows
    <2>4. CASE ~overflow /\ pos < BufferSize /\ Stores(newline)
      BY <2>1, <2>4 DEF Stores
    <2> QED
      BY <1>1, <2>2, <2>3, <2>4 DEF AddC
  <1>2. CASE NextSession
    BY <1>2 DEF NextSession
  <1>3. CASE NmeaReaderInit
    <2>0. ~overflow' /\ overflow' \in BOOLEAN
      BY <1>3, Zenon DEF NmeaReaderInit
    <2>1. pos' = 0 /\ column' = 0 /\ cut' = 0 /\ parsed' = parsed
      BY <1>3, Zenon DEF NmeaReaderInit
    <2>2. parsed \in [from : 1 - MaxLine .. 1, to : 1 .. MaxLine, cut : 0 .. MaxLine - 1]
      BY Zenon
    <2>3. NmeaTypeOK'
      BY <2>0, <2>1, <2>2
    <2> QED
      BY <2>0, <2>1, <2>3
  <1>4. CASE UNCHANGED nmeaVars
    BY <1>4 DEF nmeaVars
  <1> QED
    BY <1>1, <1>2, <1>3, <1>4 DEF NmeaNext

LEMMA NmeaBegins == NmeaInit => NmeaInv
  <1> SUFFICES ASSUME NmeaInit PROVE NmeaInv
    OBVIOUS
  <1>1. NmeaTypeOK
    <2>1. overflow \in BOOLEAN
      BY DEF NmeaInit
    <2>2. pos = 0 /\ column = 0 /\ cut = 0 /\ parsed = [from |-> 1, to |-> 1, cut |-> 0]
      BY DEF NmeaInit
    <2>3. parsed \in [from : 1 - MaxLine .. 1, to : 1 .. MaxLine, cut : 0 .. MaxLine - 1]
      BY <2>2, NmeaAssumption
    <2> QED
      BY <2>1, <2>2, <2>3, NmeaAssumption DEF NmeaTypeOK
  <1>2. ParsedWhole
    BY NmeaAssumption DEF NmeaInit, ParsedWhole
  <1>3. pos = 0 /\ column = 0 /\ cut = 0
    BY DEF NmeaInit
  <1> QED
    BY <1>1, <1>2, <1>3 DEF NmeaInv

(* Whatever the receiver sends and wherever its sessions end, what is       *)
(* parsed is a whole line that fits the buffer, behind what a session cut   *)
(* off in mid-line left there (nmea_reader_addc(), nmea_reader_init()).     *)
THEOREM LinesWhole == NmeaSpec => []ParsedWhole
  <1>1. NmeaInv => ParsedWhole
    BY DEF NmeaInv
  <1> QED
    BY <1>1, NmeaBegins, NmeaStep, PTL DEF NmeaSpec

-----------------------------------------------------------------------------
(* Gps *)

(* A notice whose callback has read the fix is the only one, and the reader *)
(* waits for its end.                                                       *)
NoticeInv ==
    /\ StatusInOrder /\ fixSem \in BOOLEAN /\ told \subseteq notices
    /\ FixNotLost /\ ("fix" \in told => ~unseen)

LEMMA TellInv ==
    ASSUME NoticeInv, NEW kind, Tell(kind), UNCHANGED <<told, reader>>
    PROVE  NoticeInv'
  BY DEF NoticeInv, StatusInOrder, FixNotLost, Tell, Notify, notice, reader

LEMMA NoticeStill ==
    ASSUME NoticeInv, UNCHANGED <<notice, told, reader>>
    PROVE  NoticeInv'
  BY DEF NoticeInv, StatusInOrder, FixNotLost, notice, reader

LEMMA GpsStep == NoticeInv /\ [GpsNext]_gpsVars => NoticeInv'
  <1> SUFFICES ASSUME NoticeInv, [GpsNext]_gpsVars PROVE NoticeInv'
    OBVIOUS
  <1>1. CASE FrameworkCall
    <2>1. CASE StateDone
      BY <2>1 DEF NoticeInv, StatusInOrder, FixNotLost, StateDone, Statuses
    <2>2. CASE UNCHANGED <<notice, told, reader>>
      BY <2>2, NoticeStill
    <2> QED
      BY <1>1, <2>1, <2>2 DEF FrameworkCall, StateInit, SetCallbacks, Command
  <1>2. CASE GpsThread
    <2>1. ASSUME NEW status, Tell(status), UNCHANGED <<told, reader>> PROVE NoticeInv'
      BY <2>1, TellInv
    <2>2. CASE UNCHANGED <<notice, told, reader>>
      BY <2>2, NoticeStill
    <2>3. CASE Parse
      <3>1. notices = {} /\ told = {}
        BY <2>3 DEF Parse, NoticeInv, StatusInOrder
      <3> QED
        BY <2>3, <3>1 DEF Parse, Parsed, NoticeInv, StatusInOrder, FixNotLost, notice
    <2> QED
      BY <1>2, <2>1, <2>2, <2>3 DEF GpsThread, EngineOn, ReadCommand, SessionBegin, SessionEnd,
         ReceiverReady, Forward, EngineOff
  <1>3. ASSUME NEW t \in Timers, TimerStep(t) PROVE NoticeInv'
    BY <1>3, TellInv, NoticeStill
       DEF TimerStep, TimerLooks, TimerLooksForSv, TimerNotifies, TimerWakes
  <1>4. ASSUME NEW kind \in Kinds, NoticeCallback(kind) PROVE NoticeInv'
    BY <1>4 DEF NoticeCallback, NoticeInv, StatusInOrder, FixNotLost, notice
  <1>5. ASSUME NEW kind \in Kinds, NoticeEnds(kind) PROVE NoticeInv'
    <2>1. kind \in notices /\ notices' = {} /\ told' = {} /\ fixSem' = TRUE
      BY <1>5 DEF NoticeEnds, NoticeInv, StatusInOrder
    <2>2. unseen' = unseen /\ (kind = "fix" => ~unseen) /\ fixFlags' = (fixFlags /\ kind # "fix")
      BY <1>5 DEF NoticeEnds, NoticeInv
    <2> QED
      BY <2>1, <2>2 DEF NoticeInv, StatusInOrder, FixNotLost
  <1>6. CASE UNCHANGED gpsVars
    BY <1>6, NoticeStill DEF gpsVars
  <1> QED
    BY <1>1, <1>2, <1>3, <1>4, <1>5, <1>6 DEF GpsNext

LEMMA NoticesBegin == GpsInit => NoticeInv
  BY DEF GpsInit, NoticeInv, StatusInOrder, FixNotLost, Statuses

(* Whoever posts, command thread or any number of timer threads, finds the  *)
(* notice before at its end: the thread made for a status finds that status *)
(* (gps_status_cb(), gps_status_thread_cb()).                               *)
THEOREM NoticesInOrder == GpsSpec => []StatusInOrder
  <1>1. NoticeInv => StatusInOrder
    BY DEF NoticeInv
  <1> QED
    BY <1>1, NoticesBegin, GpsStep, PTL DEF GpsSpec

(* And what the reader finds while a fix is being reported is not cleared   *)
(* with it (gps_location_thread_cb()).                                      *)
THEOREM FixesKept == GpsSpec => []FixNotLost
  <1>1. NoticeInv => FixNotLost
    BY DEF NoticeInv
  <1> QED
    BY <1>1, NoticesBegin, GpsStep, PTL DEF GpsSpec

(* The types of Gps. What is told is a notice of the framework's kinds.     *)
LEMMA TellType ==
    ASSUME GpsTypeOK, NEW kind \in Kinds, Tell(kind)
    PROVE  /\ fixSem' \in BOOLEAN /\ gpsStatus' \in Statuses \cup {"NONE"}
           /\ notices' \subseteq Kinds /\ told \subseteq notices'
  BY DEF GpsTypeOK, Tell, Notify, notice

LEMMA GpsTypeStep == GpsTypeOK /\ [GpsNext]_gpsVars => GpsTypeOK'
  <1> SUFFICES ASSUME GpsTypeOK, [GpsNext]_gpsVars PROVE GpsTypeOK'
    OBVIOUS
  <1> USE GpsAssumption
  <1>k. Statuses \subseteq Kinds /\ {"nmea", "fix", "sv"} \subseteq Kinds
    BY DEF Kinds
  <1>1. CASE FrameworkCall
    <2>1. CASE StateInit \/ SetCallbacks
      BY <2>1 DEF GpsTypeOK, StateInit, SetCallbacks, notice, reader, timer
    <2>2. ASSUME NEW cmd \in {"START", "STOP", "QUIT"}, Command(cmd) PROVE GpsTypeOK'
      <3>1. control' \in Seq({"START", "STOP", "QUIT"}) /\ Len(control') <= MaxCommands
        BY <2>2 DEF GpsTypeOK, Command
      <3>2. framework' \in {"idle", "cleanup"}
        BY <2>2 DEF Command
      <3> QED
        BY <2>2, <3>1, <3>2 DEF GpsTypeOK, Command, notice, reader, timer
    <2>3. CASE StateDone
      <3>1. <<>> \in Seq({"START", "STOP", "QUIT"}) /\ Len(<<>>) = 0 /\ 0 <= MaxCommands
        BY EmptySeq
      <3>2. control' = <<>> /\ notices' = {} /\ fixSem' = TRUE /\ gpsStatus' = "NONE"
        BY <2>3 DEF StateDone
      <3> QED
        BY <2>3, <3>1, <3>2 DEF GpsTypeOK, StateDone, timer
    <2> QED
      BY <1>1, <2>1, <2>2, <2>3 DEF FrameworkCall
  <1>2. CASE GpsThread
    <2>1. CASE EngineOn \/ Forward \/ EngineOff
      <3>1. \E kind \in Kinds : Tell(kind)
        BY <1>k, <2>1 DEF EngineOn, Forward, EngineOff, Statuses
      <3>2. PICK kind \in Kinds : Tell(kind)
        BY <3>1
      <3>3. /\ fixSem' \in BOOLEAN /\ gpsStatus' \in Statuses \cup {"NONE"}
            /\ notices' \subseteq Kinds /\ told \subseteq notices'
        BY <3>2, TellType
      <3> QED
        BY <2>1, <3>3 DEF GpsTypeOK, EngineOn, Forward, EngineOff, session, reader, timer
    <2>2. CASE ReadCommand
      <3>1. control' \in Seq({"START", "STOP", "QUIT"}) /\ Len(control') <= MaxCommands
        <4>1. control \in Seq({"START", "STOP", "QUIT"}) /\ control # <<>>
              /\ control' = Tail(control) /\ Len(control) <= MaxCommands
          BY <2>2 DEF GpsTypeOK, ReadCommand
        <4>2. Tail(control) \in Seq({"START", "STOP", "QUIT"}) /\ Len(Tail(control)) = Len(control) - 1
          BY <4>1, HeadTailProperties
        <4> QED
          BY <4>1, <4>2, LenProperties
      <3>2. /\ gpsInit' \in {"none", "init", "start"} /\ gpsFd' \in BOOLEAN
            /\ gpsAt' \in {"none", "on", "loop", "begin", "join", "nmea", "parse", "off"}
        BY <2>2 DEF GpsTypeOK, ReadCommand, HangUp
      <3> QED
        BY <2>2, <3>1, <3>2 DEF GpsTypeOK, ReadCommand, notice, reader, timer
    <2>3. CASE SessionBegin
      <3>1. /\ fixSem' \in BOOLEAN /\ gpsStatus' \in Statuses \cup {"NONE"}
            /\ notices' \subseteq Kinds /\ told \subseteq notices'
        BY <1>k, <2>3, TellType DEF SessionBegin, Statuses
      <3> QED
        BY <2>3, <3>1 DEF GpsTypeOK, SessionBegin, reader, timer
    <2>4. CASE SessionEnd
      <3>1. /\ fixSem' \in BOOLEAN /\ gpsStatus' \in Statuses \cup {"NONE"}
            /\ notices' \subseteq Kinds /\ told \subseteq notices'
        BY <1>k, <2>4, TellType DEF SessionEnd, Statuses
      <3> QED
        BY <2>4, <3>1 DEF GpsTypeOK, SessionEnd, reader, timer
    <2>5. CASE ReceiverReady \/ Parse
      BY <2>5 DEF GpsTypeOK, ReceiverReady, Parse, Parsed, HangUp, notice, reader, timer, session
    <2> QED
      BY <1>2, <2>1, <2>2, <2>3, <2>4, <2>5 DEF GpsThread
  <1>3. ASSUME NEW t \in Timers, TimerStep(t) PROVE GpsTypeOK'
    <2>1. /\ fixSem' \in BOOLEAN /\ gpsStatus' \in Statuses \cup {"NONE"}
          /\ notices' \subseteq Kinds /\ told \subseteq notices'
      <3>1. CASE UNCHANGED notice
        BY <3>1 DEF GpsTypeOK, notice
      <3>2. CASE TimerNotifies(t)
        BY <1>k, <3>2, TellType DEF TimerNotifies
      <3> QED
        BY <1>3, <3>1, <3>2 DEF TimerStep, TimerLooks, TimerLooksForSv, TimerWakes
    <2>2. timerAt' \in [Timers -> {"none", "look", "looksv", "fix", "sv", "sleep"}]
      BY <1>3 DEF GpsTypeOK, TimerStep, TimerLooks, TimerLooksForSv, TimerNotifies, TimerWakes, GoesTo
    <2> QED
      BY <1>3, <2>1, <2>2 DEF GpsTypeOK, TimerStep, session, reader
  <1>4. ASSUME NEW kind \in Kinds, NoticeCallback(kind) \/ NoticeEnds(kind) PROVE GpsTypeOK'
    <2>1. /\ {fixSem', fixFlags', svChanged', unseen'} \subseteq BOOLEAN
          /\ notices' \subseteq Kinds /\ told' \subseteq notices'
      <3>1. CASE NoticeCallback(kind)
        BY <3>1 DEF GpsTypeOK, NoticeCallback, notice
      <3>2. CASE NoticeEnds(kind)
        BY <3>2 DEF GpsTypeOK, NoticeEnds
      <3> QED
        BY <1>4, <3>1, <3>2
    <2> QED
      BY <1>4, <2>1 DEF GpsTypeOK, NoticeCallback, NoticeEnds, notice, session, timer
  <1>5. CASE UNCHANGED gpsVars
    BY <1>5 DEF GpsTypeOK, gpsVars, session, notice, reader, timer
  <1> QED
    BY <1>1, <1>2, <1>3, <1>4, <1>5 DEF GpsNext

-----------------------------------------------------------------------------
(* AudioCapture *)

CaptureInv == CaptureTypeOK /\ CaptureInside

LEMMA LeftOverLess ==
    ASSUME NEW a \in Int PROVE a % Period \in Nat /\ a % Period < Period
  BY CaptureAssumption

LEMMA CaptureStep == CaptureInv /\ [CaptureNext]_captureVars => CaptureInv'
  <1> SUFFICES ASSUME CaptureInv, [CaptureNext]_captureVars PROVE CaptureInv'
    OBVIOUS
  <1> USE CaptureAssumption DEF CaptureInv, CaptureTypeOK, CaptureInside
  <1>1. CASE StartRead
    BY <1>1 DEF StartRead
  <1>2. CASE Reload
    <2>1. LeftOver(frames - proc_frames_in) \in Nat /\ LeftOver(frames - proc_frames_in) < Period
      BY LeftOverLess DEF LeftOver
    <2> QED
      BY <1>2, <2>1 DEF Reload, Larger
  <1>3. CASE ReloadNot
    BY <1>3 DEF ReloadNot
  <1>4. CASE PushEchoReference
    BY <1>4 DEF PushEchoReference, Larger, Smaller
  <1>5. CASE Process
    BY <1>5 DEF Process
  <1>6. CASE Restart
    BY <1>6 DEF Restart
  <1>7. CASE UNCHANGED captureVars
    BY <1>7 DEF captureVars
  <1> QED
    BY <1>1, <1>2, <1>3, <1>4, <1>5, <1>6, <1>7 DEF CaptureNext

LEMMA CaptureBegins == CaptureInit => CaptureInv
  BY CaptureAssumption DEF CaptureInit, CaptureInv, CaptureTypeOK, CaptureInside

(* For every size of the period, every sequence of reads and every pace of  *)
(* the effects, process_frames() and push_echo_reference() write inside of  *)
(* their buffers.                                                           *)
THEOREM ReadsInside == CaptureSpec => []CaptureInside
  <1>1. CaptureInv => CaptureInside
    BY DEF CaptureInv
  <1> QED
    BY <1>1, CaptureBegins, CaptureStep, PTL DEF CaptureSpec

-----------------------------------------------------------------------------
(* AudioTunnel: samples *)

LEMMA SamplesAre ==
    ASSUME NEW from \in Nat, NEW n \in Nat
    PROVE  /\ Samples(from, n) \in Seq(Nat) /\ Len(Samples(from, n)) = n
           /\ \A i \in 1 .. n : Samples(from, n)[i] = from + i
  <1>1. Samples(from, n) \in [1 .. n -> Nat]
    BY DEF Samples
  <1>2. Samples(from, n) \in Seq(Nat)
    BY <1>1, IsASeq DEF Samples
  <1> QED
    BY <1>1, <1>2, LenProperties DEF Samples

LEMMA SamplesGoOn ==
    ASSUME NEW from \in Nat, NEW m \in Nat, NEW n \in Nat
    PROVE  Samples(from, m) \o Samples(from + m, n) = Samples(from, m + n)
  <1> DEFINE a == Samples(from, m)
             b == Samples(from + m, n)
             c == Samples(from, m + n)
  <1>1. a \in Seq(Nat) /\ Len(a) = m /\ \A i \in 1 .. m : a[i] = from + i
    BY SamplesAre
  <1>2. b \in Seq(Nat) /\ Len(b) = n /\ \A i \in 1 .. n : b[i] = from + m + i
    <2>1. from + m \in Nat
      OBVIOUS
    <2> QED
      BY <2>1, SamplesAre
  <1>3. c \in Seq(Nat) /\ Len(c) = m + n /\ \A i \in 1 .. m + n : c[i] = from + i
    <2>1. m + n \in Nat
      OBVIOUS
    <2> QED
      BY <2>1, SamplesAre
  <1> HIDE DEF a, b, c
  <1>4. a \o b \in Seq(Nat) /\ Len(a \o b) = m + n
    BY <1>1, <1>2, ConcatProperties
  <1>5. ASSUME NEW i \in 1 .. m + n PROVE (a \o b)[i] = from + i
    <2>1. CASE i <= m
      BY <1>1, <1>2, <2>1, ConcatProperties
    <2>2. CASE i > m
      <3>1. (a \o b)[i] = b[i - m]
        BY <1>1, <1>2, <2>2, ConcatProperties
      <3>2. i - m \in 1 .. n
        BY <2>2
      <3> QED
        BY <1>2, <3>1, <3>2
    <2>3. i <= m \/ i > m
      OBVIOUS
    <2> QED
      BY <2>1, <2>2, <2>3
  <1>6. a \o b = c
    BY <1>3, <1>4, <1>5, SeqEqual
  <1> QED
    BY <1>6 DEF a, b, c

LEMMA Joined ==
    ASSUME NEW s \in Seq(Nat), NEW t \in Seq(Nat), NEW u \in Seq(Nat)
    PROVE  (s \o t) \o u = s \o (t \o u)
  <1>1. /\ s \o t \in Seq(Nat) /\ Len(s \o t) = Len(s) + Len(t)
        /\ t \o u \in Seq(Nat) /\ Len(t \o u) = Len(t) + Len(u)
        /\ (s \o t) \o u \in Seq(Nat) /\ s \o (t \o u) \in Seq(Nat)
    BY ConcatProperties
  <1>2. Len((s \o t) \o u) = Len(s) + Len(t) + Len(u)
    BY <1>1, ConcatProperties
  <1>3. Len(s \o (t \o u)) = Len(s) + Len(t) + Len(u)
    BY <1>1, ConcatProperties
  <1>4. \A i \in 1 .. Len(s) + Len(t) + Len(u) : ((s \o t) \o u)[i] = (s \o (t \o u))[i]
    BY <1>1, ConcatProperties
  <1> QED
    BY <1>1, <1>2, <1>3, <1>4, SeqEqual

LEMMA SamplesAfter ==
    ASSUME NEW from \in Nat, NEW n \in Nat, NEW k \in 0 .. n
    PROVE  /\ SubSeq(Samples(from, n), k + 1, n) = Samples(from + k, n - k)
           /\ SubSeq(Samples(from, n), 1, k) = Samples(from, k)
  <1> DEFINE s == Samples(from, n)
  <1>1. s \in Seq(Nat) /\ Len(s) = n /\ \A i \in 1 .. n : s[i] = from + i
    BY SamplesAre
  <1>2. /\ Samples(from + k, n - k) \in Seq(Nat) /\ Len(Samples(from + k, n - k)) = n - k
        /\ \A i \in 1 .. n - k : Samples(from + k, n - k)[i] = from + k + i
    <2>1. from + k \in Nat /\ n - k \in Nat
      OBVIOUS
    <2> QED
      BY <2>1, SamplesAre
  <1>3. /\ Samples(from, k) \in Seq(Nat) /\ Len(Samples(from, k)) = k
        /\ \A i \in 1 .. k : Samples(from, k)[i] = from + i
    BY SamplesAre
  <1> HIDE DEF s
  <1>4. /\ SubSeq(s, k + 1, n) \in Seq(Nat) /\ Len(SubSeq(s, k + 1, n)) = n - k
        /\ \A i \in 1 .. n - k : SubSeq(s, k + 1, n)[i] = s[k + i]
    <2>1. k + 1 \in Int /\ n \in Int /\ \A i \in k + 1 .. n : s[i] \in Nat
      BY <1>1
    <2>2. /\ SubSeq(s, k + 1, n) \in Seq(Nat)
          /\ Len(SubSeq(s, k + 1, n)) = IF k + 1 <= n THEN n - (k + 1) + 1 ELSE 0
          /\ \A i \in 1 .. n - (k + 1) + 1 : SubSeq(s, k + 1, n)[i] = s[k + 1 + i - 1]
      BY <2>1, SubSeqProperties
    <2>3. /\ (IF k + 1 <= n THEN n - (k + 1) + 1 ELSE 0) = n - k
          /\ n - (k + 1) + 1 = n - k /\ \A i \in 1 .. n - k : k + 1 + i - 1 = k + i
      OBVIOUS
    <2> QED
      BY <2>2, <2>3
  <1>5. /\ SubSeq(s, 1, k) \in Seq(Nat) /\ Len(SubSeq(s, 1, k)) = k
        /\ \A i \in 1 .. k : SubSeq(s, 1, k)[i] = s[i]
    <2>1. 1 \in Int /\ k \in Int /\ \A i \in 1 .. k : s[i] \in Nat
      BY <1>1
    <2>2. /\ SubSeq(s, 1, k) \in Seq(Nat)
          /\ Len(SubSeq(s, 1, k)) = IF 1 <= k THEN k - 1 + 1 ELSE 0
          /\ \A i \in 1 .. k - 1 + 1 : SubSeq(s, 1, k)[i] = s[1 + i - 1]
      BY <2>1, SubSeqProperties
    <2>3. /\ (IF 1 <= k THEN k - 1 + 1 ELSE 0) = k
          /\ k - 1 + 1 = k /\ \A i \in 1 .. k : 1 + i - 1 = i
      OBVIOUS
    <2> QED
      BY <2>2, <2>3
  <1>6. SubSeq(s, k + 1, n) = Samples(from + k, n - k)
    BY <1>1, <1>2, <1>4, SeqEqual
  <1>7. SubSeq(s, 1, k) = Samples(from, k)
    BY <1>1, <1>3, <1>5, SeqEqual
  <1> QED
    BY <1>6, <1>7 DEF s

(* Moving the first samples of one buffer to the end of another. *)
LEMMA Moved ==
    ASSUME NEW a \in Seq(Nat), NEW b \in Seq(Nat), NEW k \in 0 .. Len(b)
    PROVE  /\ a \o SubSeq(b, 1, k) \in Seq(Nat) /\ Len(a \o SubSeq(b, 1, k)) = Len(a) + k
           /\ SubSeq(b, k + 1, Len(b)) \in Seq(Nat)
           /\ Len(SubSeq(b, k + 1, Len(b))) = Len(b) - k
           /\ (a \o SubSeq(b, 1, k)) \o SubSeq(b, k + 1, Len(b)) = a \o b
  <1> DEFINE first == SubSeq(b, 1, k)
             rest  == SubSeq(b, k + 1, Len(b))
  <1>0. Len(b) \in Nat /\ \A i \in 1 .. Len(b) : b[i] \in Nat
    BY LenProperties, ElementOfSeq
  <1>1. first \in Seq(Nat) /\ Len(first) = k
    BY <1>0, SubSeqProperties
  <1>2. rest \in Seq(Nat) /\ Len(rest) = Len(b) - k
    BY <1>0, SubSeqProperties
  <1>3. first \o rest = b
    <2>0. 1 \in 1 .. Len(b) + 1 /\ k \in 1 - 1 .. Len(b) /\ Len(b) \in k .. Len(b)
      BY <1>0
    <2>1. first \o rest = SubSeq(b, 1, Len(b))
      BY <2>0, ConcatAdjacentSubSeq, Zenon
    <2> QED
      BY <2>1, SubSeqFull
  <1> HIDE DEF first, rest
  <1>4. (a \o first) \o rest = a \o b
    <2>1. (a \o first) \o rest = a \o (first \o rest)
      <3>1. first \in Seq(Nat) /\ rest \in Seq(Nat)
        BY <1>1, <1>2
      <3> QED
        BY <3>1, Joined
    <2> QED
      BY <2>1, <1>3, Zenon
  <1>5. a \o first \in Seq(Nat) /\ Len(a \o first) = Len(a) + k
    BY <1>1, ConcatProperties
  <1> QED
    BY <1>1, <1>2, <1>4, <1>5 DEF first, rest

LEMMA Earlier ==
    ASSUME NEW a \in Nat, NEW b \in Nat, NEW top \in Nat, a <= top, b > top
    PROVE  a < b
  OBVIOUS

LEMMA FrameMore ==
    ASSUME NEW n \in Nat, n % FrameSize = 0
    PROVE  (n + FrameSize) % FrameSize = 0
  <1> DEFINE F == FrameSize
             p == n \div F
  <1>1. F \in Nat /\ F > 0
    BY TunnelAssumption
  <1>2. p \in Nat /\ n = p * F
    BY <1>1
  <1>3. n + F = (p + 1) * F /\ p + 1 \in Nat
    BY <1>1, <1>2
  <1>4. \A q \in Nat : (q * F) % F = 0
    BY <1>1
  <1> QED
    BY <1>3, <1>4

(* Where the elements of two buffers are when one is put behind the other.  *)
LEMMA Behind ==
    ASSUME NEW s \in Seq(Nat), NEW t \in Seq(Nat)
    PROVE  /\ s \o t \in Seq(Nat) /\ Len(s \o t) = Len(s) + Len(t)
           /\ Len(s) \in Nat /\ Len(t) \in Nat
           /\ \A i \in 1 .. Len(s) : (s \o t)[i] = s[i]
           /\ \A i \in 1 .. Len(t) : (s \o t)[Len(s) + i] = t[i]
           /\ \A i \in Len(s) + 1 .. Len(s) + Len(t) : (s \o t)[i] = t[i - Len(s)]
  <1> DEFINE u == s \o t
             m == Len(s)
             n == Len(t)
  <1>1. m \in Nat /\ n \in Nat
    BY LenProperties
  <1>2. /\ u \in Seq(Nat) /\ Len(u) = m + n
        /\ \A i \in 1 .. m + n : u[i] = IF i <= m THEN s[i] ELSE t[i - m]
    BY ConcatProperties
  <1> HIDE DEF u, m, n
  <1>3. \A i \in 1 .. m : u[i] = s[i]
    BY <1>1, <1>2
  <1>4. \A i \in m + 1 .. m + n : u[i] = t[i - m]
    BY <1>1, <1>2
  <1>5. ASSUME NEW i \in 1 .. n PROVE u[m + i] = t[i]
    <2>1. m + i \in m + 1 .. m + n /\ (m + i) - m = i
      BY <1>1
    <2>2. u[m + i] = t[(m + i) - m]
      BY <1>4, <2>1
    <2> QED
      BY <2>1, <2>2
  <1> QED
    BY <1>1, <1>2, <1>3, <1>4, <1>5 DEF u, m, n

(* What ascends goes on ascending behind samples that are all earlier.      *)
LEMMA Extended ==
    ASSUME NEW s \in Seq(Nat), NEW t \in Seq(Nat), NEW top \in Nat,
           Ascending(s), \A i \in 1 .. Len(s) : s[i] <= top,
           Ascending(t), \A i \in 1 .. Len(t) : t[i] # Silence => t[i] > top
    PROVE  Ascending(s \o t)
  <1>1. /\ s \o t \in Seq(Nat) /\ Len(s \o t) = Len(s) + Len(t)
        /\ Len(s) \in Nat /\ Len(t) \in Nat
        /\ \A i \in 1 .. Len(s) : (s \o t)[i] = s[i]
        /\ \A i \in 1 .. Len(t) : (s \o t)[Len(s) + i] = t[i]
    BY ConcatProperties, LenProperties
  <1>2. /\ \A i \in 1 .. Len(s) : s[i] \in Nat
        /\ \A i \in 1 .. Len(t) : t[i] \in Nat
    BY ElementOfSeq
  <1> SUFFICES ASSUME NEW i \in 1 .. Len(s \o t), NEW j \in 1 .. Len(s \o t), i < j,
                      (s \o t)[j] # Silence
               PROVE  (s \o t)[i] < (s \o t)[j]
    BY DEF Ascending
  <1>3. CASE j <= Len(s)
    BY <1>1, <1>3 DEF Ascending
  <1>4. CASE j > Len(s)
    <2>1. j - Len(s) \in 1 .. Len(t) /\ (s \o t)[j] = t[j - Len(s)]
      BY <1>1, <1>4
    <2>2. CASE i <= Len(s)
      <3>1. (s \o t)[i] <= top /\ (s \o t)[i] \in Nat
        BY <1>1, <1>2, <2>2
      <3>2. (s \o t)[j] > top /\ (s \o t)[j] \in Nat
        BY <1>2, <2>1
      <3> QED
        BY <3>1, <3>2, Earlier, Zenon
    <2>3. CASE i > Len(s)
      <3>1. i - Len(s) \in 1 .. Len(t) /\ (s \o t)[i] = t[i - Len(s)]
        BY <1>1, <2>3
      <3>2. i - Len(s) < j - Len(s)
        BY <1>1
      <3>3. t[j - Len(s)] # Silence
        BY <2>1
      <3>4. t[i - Len(s)] < t[j - Len(s)]
        <4>1. \A a, b \in 1 .. Len(t) : a < b /\ t[b] # Silence => t[a] < t[b]
          BY Zenon DEF Ascending
        <4> QED
          BY <2>1, <3>1, <3>2, <3>3, <4>1
      <3> QED
        BY <2>1, <3>1, <3>4
    <2> QED
      BY <1>1, <2>2, <2>3
  <1> QED
    BY <1>1, <1>3, <1>4

-----------------------------------------------------------------------------
(* AudioTunnel: threads and buffers *)

(* What the descriptors of the two streams are to the callbacks, and how    *)
(* far the runner has got in gsm_audio_tunnel_stop().                       *)
BufferInv ==
    /\ streams \subseteq {"record", "play"}
    /\ streams # {} => buffers /\ running
    /\ record # "idle" => "record" \in streams
    /\ play # "idle" => "play" \in streams
    /\ stopper = "deleterecord" => "play" \notin streams
    /\ stopper = "free" => streams = {}

(* SamplesInOrder, with the types it needs; a callback that asks the modem  *)
(* for a frame has used up the frame before.                                *)
SampleTypes ==
    /\ rec_buf \in Seq(Nat) /\ sent \in Seq(Nat) /\ play_buf \in Seq(Nat) /\ played \in Seq(Nat)
    /\ recorded \in Nat /\ refused \in Nat /\ received \in Nat /\ need \in Nat
    /\ record \in {"idle", "callback", "modemAudioOut"}
    /\ (record = "modemAudioOut") = (Len(rec_buf) >= FrameSize)
    /\ Len(rec_buf) <= recorded /\ Len(play_buf) < FrameSize
    /\ play \in {"idle", "modemAudioIn"}
    /\ play = "modemAudioIn" => play_buf = <<>> /\ need > 0

SampleInv == SampleTypes /\ SamplesInOrder

LEMMA BufferStep == BufferInv /\ [TunnelNext]_tunnelVars => BufferInv'
  <1> SUFFICES ASSUME BufferInv, [TunnelNext]_tunnelVars PROVE BufferInv'
    OBVIOUS
  <1> USE DEF BufferInv
  <1>1. CASE StartTunnel
    BY <1>1 DEF StartTunnel
  <1>2. CASE StopTunnel
    BY <1>2 DEF StopTunnel
  <1>3. CASE StopWaiting
    BY <1>3 DEF StopWaiting, ctx
  <1>4. CASE DeleteTrack
    BY <1>4 DEF DeleteTrack
  <1>5. CASE DeleteRecord
    BY <1>5 DEF DeleteRecord
  <1>6. CASE FreeTunnel
    BY <1>6 DEF FreeTunnel
  <1>7. CASE RecordCallback
    BY <1>7 DEF RecordCallback
  <1>8. CASE Recorded
    BY <1>8 DEF Recorded
  <1>9. CASE PlayCallback
    BY <1>9 DEF PlayCallback
  <1>10. CASE ModemAudioIn \/ ModemAudioOut
    BY <1>10 DEF ModemAudioIn, ModemAudioOut
  <1>11. CASE FallSilent
    BY <1>11 DEF FallSilent, ctx
  <1>12. CASE UNCHANGED tunnelVars
    BY <1>12 DEF tunnelVars, ctx
  <1> QED
    BY <1>1, <1>2, <1>3, <1>4, <1>5, <1>6, <1>7, <1>8, <1>9, <1>10, <1>11, <1>12
       DEF TunnelNext, StopStep, PlayStep

LEMMA NoSamples == Samples(0, 0) = <<>>
  BY SamplesAre, EmptySeq

LEMMA NothingHeard ==
    /\ <<>> \in Seq(Nat) /\ Len(<<>>) = 0 /\ <<>> \o <<>> = <<>>
    /\ FrameSize \in Nat /\ FrameSize > 0 /\ 0 % FrameSize = 0
    /\ Samples(0, 0) = <<>> /\ Ascending(<<>>)
  <1>1. <<>> \in Seq(Nat) /\ Len(<<>>) = 0 /\ FrameSize \in Nat /\ FrameSize > 0
    BY TunnelAssumption, EmptySeq
  <1>2. <<>> \o <<>> = <<>> /\ 0 % FrameSize = 0
    BY <1>1, ConcatEmptySeq, EmptySeq
  <1> QED
    BY <1>1, <1>2, NoSamples DEF Ascending

(* A start or the end of a stop: nothing has been recorded or played.       *)
LEMMA SamplesBegin ==
    ASSUME rec_buf' = <<>>, play_buf' = <<>>, sent' = <<>>, played' = <<>>,
           recorded' = 0, refused' = 0, received' = 0, need' = need, play' = play,
           need \in Nat, play \in {"idle", "modemAudioIn"}, play = "modemAudioIn" => need > 0,
           record' \in {"idle", "callback"}
    PROVE  SampleInv'
  <1>1. SampleTypes'
    BY NothingHeard DEF SampleTypes
  <1>2. Done' = 0 /\ Heard' = <<>>
    <2>1. Done' = 0 - 0 /\ Heard' = <<>>
      BY NothingHeard, Zenon DEF Done, Heard
    <2> QED
      BY <2>1
  <1>3. SamplesInOrder'
    BY <1>2, NothingHeard DEF SamplesInOrder
  <1> QED
    BY <1>1, <1>3 DEF SampleInv

(* Neither side of the samples changes. *)
RecordSide == <<rec_buf, recorded, sent, refused>>
PlaySide   == <<play_buf, played, received>>

LEMMA SamplesStill ==
    ASSUME SampleInv, UNCHANGED <<RecordSide, PlaySide, need>>,
           play' = play \/ play' = "idle",
           record' = record \/ (record = "idle" /\ record' = "callback")
    PROVE  SampleInv'
  <1>1. SampleTypes'
    BY DEF SampleInv, SampleTypes, RecordSide, PlaySide
  <1>2. Done' = Done /\ Heard' = Heard /\ UNCHANGED <<rec_buf, sent, refused, received>>
    BY DEF Done, Heard, RecordSide, PlaySide
  <1>3. SamplesInOrder'
    BY <1>2 DEF SampleInv, SamplesInOrder
  <1> QED
    BY <1>1, <1>3 DEF SampleInv

LEMMA RecordSideInv ==
    ASSUME SampleInv, SampleTypes', UNCHANGED PlaySide,
           rec_buf' = Samples(Done', Len(rec_buf')), Done' % FrameSize = 0,
           Ascending(sent'), \A i \in 1 .. Len(sent') : sent'[i] \in 1 .. Done',
           Len(sent') + refused' = Done'
    PROVE  SampleInv'
  BY DEF SampleInv, SamplesInOrder, Heard, PlaySide

LEMMA PlaySideInv ==
    ASSUME SampleInv, SampleTypes', UNCHANGED RecordSide,
           Ascending(Heard'), Len(Heard') % FrameSize = 0,
           {Heard'[i] : i \in 1 .. Len(Heard')} \ {Silence} = 1 .. received'
    PROVE  SampleInv'
  <1>1. Done' = Done
    BY DEF Done, RecordSide
  <1> QED
    BY <1>1 DEF SampleInv, SamplesInOrder, RecordSide

LEMMA RecordedSo ==
    ASSUME SampleInv
    PROVE  /\ rec_buf \in Seq(Nat) /\ sent \in Seq(Nat) /\ recorded \in Nat /\ refused \in Nat
           /\ Len(rec_buf) \in Nat /\ Len(sent) \in Nat /\ Done \in Nat
           /\ rec_buf = Samples(Done, Len(rec_buf)) /\ recorded = Done + Len(rec_buf)
  <1>1. /\ rec_buf \in Seq(Nat) /\ sent \in Seq(Nat) /\ recorded \in Nat /\ refused \in Nat
        /\ Len(rec_buf) <= recorded
    BY DEF SampleInv, SampleTypes
  <1>2. Len(rec_buf) \in Nat /\ Len(sent) \in Nat
    BY <1>1, LenProperties
  <1>3. rec_buf = Samples(Done, Len(rec_buf))
    BY Zenon DEF SampleInv, SamplesInOrder
  <1>4. Done \in Nat /\ recorded = Done + Len(rec_buf)
    BY <1>1, <1>2 DEF Done
  <1> QED
    BY <1>1, <1>2, <1>3, <1>4

LEMMA RecordedInv == SampleInv /\ Recorded => SampleInv'
  <1> SUFFICES ASSUME SampleInv, Recorded PROVE SampleInv'
    OBVIOUS
  <1>1. PICK n \in Counts :
          recorded' = recorded + n /\ Sending(rec_buf \o Samples(recorded, n))
    BY DEF Recorded
  <1> DEFINE len == Len(rec_buf)
  <1>2. /\ n \in Nat /\ rec_buf \in Seq(Nat) /\ recorded \in Nat /\ len \in Nat /\ Done \in Nat
        /\ rec_buf = Samples(Done, len) /\ recorded = Done + len /\ FrameSize \in Nat
    BY TunnelAssumption, RecordedSo
  <1>3. /\ rec_buf' = Samples(Done, len + n)
        /\ record' = IF Len(rec_buf') < FrameSize THEN "idle" ELSE "modemAudioOut"
    <2>1. Samples(Done, len) \o Samples(Done + len, n) = Samples(Done, len + n)
      BY <1>2, SamplesGoOn
    <2>2. rec_buf \o Samples(recorded, n) = Samples(Done, len + n)
      BY <1>2, <2>1, Zenon
    <2> QED
      BY <1>1, <2>2, Zenon DEF Sending
  <1>4. rec_buf' \in Seq(Nat) /\ Len(rec_buf') = len + n
    BY <1>2, <1>3, SamplesAre
  <1>5. Done' = Done
    BY <1>1, <1>2, <1>4 DEF Done
  <1>6. UNCHANGED <<sent, refused, play_buf, played, received, need, play>>
    BY DEF Recorded
  <1>7. SampleTypes'
    BY <1>1, <1>2, <1>3, <1>4, <1>6 DEF SampleInv, SampleTypes
  <1> QED
    BY <1>3, <1>4, <1>5, <1>6, <1>7, RecordSideInv DEF SampleInv, SamplesInOrder, PlaySide

LEMMA ModemAudioOutInv == SampleInv /\ ModemAudioOut => SampleInv'
  <1> SUFFICES ASSUME SampleInv, ModemAudioOut PROVE SampleInv'
    OBVIOUS
  <1> DEFINE len  == Len(rec_buf)
             done == Done
             F    == FrameSize
             m    == Len(sent)
  <1>1. PICK k \in 0 .. F : sent' = sent \o SubSeq(rec_buf, 1, k) /\ refused' = refused + F - k
    BY DEF ModemAudioOut
  <1> DEFINE new == Samples(done, k)
  <1>k. k \in Nat
    BY TunnelAssumption
  <1>2. len \in Nat /\ done \in Nat /\ F \in Nat /\ F > 0 /\ m \in Nat /\ len >= F
        /\ recorded \in Nat /\ refused \in Nat /\ sent \in Seq(Nat)
    <2>1. record = "modemAudioOut"
      BY DEF ModemAudioOut
    <2>2. Len(rec_buf) >= FrameSize
      BY <2>1 DEF SampleInv, SampleTypes
    <2> QED
      BY TunnelAssumption, RecordedSo, <2>2
  <1>3. rec_buf = Samples(done, len) /\ recorded = done + len
    BY RecordedSo
  <1>4. m + refused = done /\ done % F = 0
    BY DEF SampleInv, SamplesInOrder
  <1>5. Ascending(sent) /\ \A i \in 1 .. m : sent[i] \in 1 .. done
    BY DEF SampleInv, SamplesInOrder
  <1>6. SubSeq(rec_buf, 1, k) = new /\ SubSeq(rec_buf, F + 1, len) = Samples(done + F, len - F)
    <2>1. k \in 0 .. len /\ F \in 0 .. len
      BY <1>2
    <2>2. /\ SubSeq(Samples(done, len), 1, k) = Samples(done, k)
          /\ SubSeq(Samples(done, len), F + 1, len) = Samples(done + F, len - F)
      BY <1>2, <2>1, SamplesAfter
    <2> QED
      BY <1>3, <2>2, Zenon
  <1>7. /\ rec_buf' = Samples(done + F, len - F)
        /\ record' = IF Len(rec_buf') < F THEN "idle" ELSE "modemAudioOut"
        /\ UNCHANGED <<play_buf, played, received, recorded, need, play>>
    BY <1>6 DEF ModemAudioOut, Sending
  <1>8. /\ new \in Seq(Nat) /\ Len(new) = k /\ \A i \in 1 .. k : new[i] = done + i
    BY <1>k, <1>2, SamplesAre
  <1>9. sent' = sent \o new
    BY <1>1, <1>6, Zenon
  <1>10. rec_buf' \in Seq(Nat) /\ Len(rec_buf') = len - F
    <2>1. done + F \in Nat /\ len - F \in Nat
      BY <1>2
    <2> QED
      BY <1>7, <2>1, SamplesAre
  <1>11. Done' = recorded - (len - F)
    BY <1>7, <1>10 DEF Done
  <1> HIDE DEF len, done, F, m, new
  <1>12. Done' = done + F
    BY <1>2, <1>3, <1>11
  <1>13. /\ sent' \in Seq(Nat) /\ Len(sent') = m + k
         /\ \A i \in 1 .. m : sent'[i] = sent[i]
         /\ \A i \in m + 1 .. m + k : sent'[i] = new[i - m]
    <2> USE DEF m
    <2> QED
      BY <1>2, <1>8, <1>9, Behind, Zenon
  <1>14. Ascending(sent')
    <2>1. Ascending(new)
      BY <1>2, <1>8 DEF Ascending
    <2>2. \A i \in 1 .. Len(new) : new[i] # Silence => new[i] > done
      BY <1>2, <1>8
    <2>3. \A i \in 1 .. Len(sent) : sent[i] <= done
      BY <1>5 DEF m
    <2> QED
      BY <1>2, <1>5, <1>8, <1>9, <2>1, <2>2, <2>3, Extended
  <1>15. ASSUME NEW i \in 1 .. m + k PROVE sent'[i] \in 1 .. done + F
    <2>1. CASE i <= m
      <3>1. sent'[i] \in 1 .. done
        <4>1. i \in 1 .. m
          BY <1>k, <1>2, <2>1
        <4>2. sent'[i] = sent[i] /\ sent[i] \in 1 .. done
          BY <1>5, <1>13, <4>1
        <4> QED
          BY <4>2
      <3> QED
        BY <1>2, <3>1
    <2>2. CASE i > m
      <3>1. i - m \in 1 .. k /\ i \in m + 1 .. m + k
        BY <1>k, <1>2, <2>2
      <3>2. sent'[i] = done + (i - m)
        BY <1>8, <1>13, <3>1
      <3> QED
        BY <1>2, <3>1, <3>2
    <2> QED
      BY <1>2, <2>1, <2>2
  <1>16. Len(sent') + refused' = Done' /\ Done' % F = 0 /\ refused' \in Nat
    <2>1. (m + k) + (refused + F - k) = done + F /\ (done + F) % F = 0 /\ refused + F - k \in Nat
      BY <1>k, <1>2, <1>4, FrameMore DEF F
    <2>2. refused' = refused + F - k
      BY <1>1 DEF F
    <2> QED
      BY <1>12, <1>13, <2>1, <2>2
  <1>17. SampleTypes'
    <2>1. Len(rec_buf') <= recorded'
      BY <1>2, <1>3, <1>7, <1>10
    <2> QED
      BY <1>2, <1>7, <1>10, <1>13, <1>16, <2>1 DEF SampleInv, SampleTypes, F
  <1>18. rec_buf' = Samples(Done', Len(rec_buf'))
    BY <1>7, <1>10, <1>12, Zenon
  <1>19. \A i \in 1 .. Len(sent') : sent'[i] \in 1 .. Done'
    BY <1>12, <1>13, <1>15
  <1> QED
    BY <1>7, <1>14, <1>16, <1>17, <1>18, <1>19, RecordSideInv DEF PlaySide, F

LEMMA PlayCallbackInv == SampleInv /\ PlayCallback => SampleInv'
  <1> SUFFICES ASSUME SampleInv, PlayCallback PROVE SampleInv'
    OBVIOUS
  <1>1. CASE quit_flag
    BY <1>1, SamplesStill DEF PlayCallback, RecordSide, PlaySide
  <1>2. CASE ~quit_flag
    <2>1. PICK n \in Counts :
            LET k == Fewer(n, Len(play_buf)) IN
            /\ played' = played \o SubSeq(play_buf, 1, k)
            /\ play_buf' = SubSeq(play_buf, k + 1, Len(play_buf))
            /\ need' = n - k
            /\ play' = IF n = k THEN "idle" ELSE "modemAudioIn"
      BY <1>2 DEF PlayCallback
    <2> DEFINE k == Fewer(n, Len(play_buf))
    <2>2. /\ n \in Nat /\ play_buf \in Seq(Nat) /\ played \in Seq(Nat) /\ Len(play_buf) \in Nat
          /\ Len(play_buf) < FrameSize
      BY TunnelAssumption, LenProperties DEF SampleInv, SampleTypes
    <2>3. k \in 0 .. Len(play_buf) /\ k <= n /\ (n # k => k = Len(play_buf))
      BY <2>2 DEF Fewer
    <2>4. played' = played \o SubSeq(play_buf, 1, k)
          /\ play_buf' = SubSeq(play_buf, k + 1, Len(play_buf))
          /\ need' = n - k /\ play' = IF n = k THEN "idle" ELSE "modemAudioIn"
      BY <2>1
    <2> HIDE DEF k
    <2>5. /\ played' \in Seq(Nat) /\ play_buf' \in Seq(Nat)
          /\ Len(play_buf') = Len(play_buf) - k
          /\ played' \o play_buf' = played \o play_buf
      BY <2>2, <2>3, <2>4, Moved
    <2>6. play' = "modemAudioIn" => play_buf' = <<>> /\ need' > 0
      BY <2>2, <2>3, <2>4, <2>5, EmptySeq
    <2>7. UNCHANGED <<RecordSide, record, received>>
      BY DEF PlayCallback, RecordSide
    <2>8. Heard' = Heard
      BY <2>5 DEF Heard
    <2>9. Len(play_buf') < FrameSize /\ FrameSize \in Nat
      BY <2>2, <2>3, <2>5, TunnelAssumption
    <2>10. need' \in Nat /\ play' \in {"idle", "modemAudioIn"}
      BY <2>2, <2>3, <2>4
    <2>11. SampleTypes'
      BY <2>5, <2>6, <2>7, <2>9, <2>10 DEF SampleInv, SampleTypes, RecordSide
    <2> QED
      BY <2>7, <2>8, <2>11, PlaySideInv DEF SampleInv, SamplesInOrder
  <1> QED
    BY <1>1, <1>2

LEMMA FrameIs ==
    ASSUME received \in Nat, NEW got \in 0 .. FrameSize
    PROVE  /\ Frame(got) \in Seq(Nat) /\ Len(Frame(got)) = FrameSize
           /\ \A i \in 1 .. FrameSize : Frame(got)[i] = IF i <= got THEN received + i ELSE Silence
           /\ Ascending(Frame(got))
           /\ {Frame(got)[i] : i \in 1 .. FrameSize} \ {Silence} = received + 1 .. received + got
  <1> DEFINE f == Frame(got)
  <1>1. FrameSize \in Nat /\ FrameSize > 0
    BY TunnelAssumption
  <1>2. f \in [1 .. FrameSize -> Nat]
    BY <1>1 DEF Frame, Silence
  <1>3. f \in Seq(Nat) /\ Len(f) = FrameSize
    BY <1>1, <1>2, IsASeq, LenProperties DEF Frame
  <1>4. \A i \in 1 .. FrameSize : f[i] = IF i <= got THEN received + i ELSE Silence
    BY DEF Frame
  <1> HIDE DEF f
  <1>5. Ascending(f)
    BY <1>1, <1>3, <1>4 DEF Ascending, Silence
  <1>6. {f[i] : i \in 1 .. FrameSize} \ {Silence} = received + 1 .. received + got
    <2>1. ASSUME NEW m \in received + 1 .. received + got
          PROVE  m \in {f[i] : i \in 1 .. FrameSize} \ {Silence}
      <3>1. m - received \in 1 .. FrameSize /\ f[m - received] = m
        BY <1>1, <1>4
      <3> QED
        BY <3>1 DEF Silence
    <2>2. ASSUME NEW i \in 1 .. FrameSize, f[i] # Silence
          PROVE  f[i] \in received + 1 .. received + got
      BY <1>1, <1>4, <2>2
    <2> QED
      BY <2>1, <2>2
  <1> QED
    BY <1>3, <1>4, <1>5, <1>6 DEF f

LEMMA ModemAudioInInv == SampleInv /\ ModemAudioIn => SampleInv'
  <1> SUFFICES ASSUME SampleInv, ModemAudioIn PROVE SampleInv'
    OBVIOUS
  <1> DEFINE k == Fewer(need, FrameSize)
  <1>1. PICK got \in 0 .. FrameSize :
          /\ received' = received + got
          /\ played' = played \o SubSeq(Frame(got), 1, k)
          /\ play_buf' = SubSeq(Frame(got), k + 1, FrameSize)
    BY DEF ModemAudioIn
  <1> DEFINE frame == Frame(got)
  <1>2. /\ FrameSize \in Nat /\ FrameSize > 0 /\ need \in Nat /\ need > 0
        /\ received \in Nat /\ played \in Seq(Nat) /\ play_buf = <<>> /\ Len(played) \in Nat
    BY TunnelAssumption, LenProperties DEF ModemAudioIn, SampleInv, SampleTypes
  <1>3. /\ frame \in Seq(Nat) /\ Len(frame) = FrameSize /\ Ascending(frame)
        /\ \A i \in 1 .. FrameSize : frame[i] = IF i <= got THEN received + i ELSE Silence
        /\ {frame[i] : i \in 1 .. FrameSize} \ {Silence} = received + 1 .. received + got
    BY <1>2, FrameIs
  <1>4. k \in 1 .. FrameSize /\ k <= need /\ (need # k => k = FrameSize)
    BY <1>2 DEF Fewer
  <1>5. need' = need - k /\ play' = IF need = k THEN "idle" ELSE "modemAudioIn"
    BY DEF ModemAudioIn
  <1>6. played' = played \o SubSeq(frame, 1, k) /\ play_buf' = SubSeq(frame, k + 1, FrameSize)
    BY <1>1
  <1>7. /\ Ascending(played) /\ Len(played) % FrameSize = 0
        /\ {played[i] : i \in 1 .. Len(played)} \ {Silence} = 1 .. received
    <2>1. Heard = played
      BY <1>2, ConcatEmptySeq DEF Heard
    <2> QED
      BY <2>1 DEF SampleInv, SamplesInOrder
  <1> HIDE DEF frame, k
  <1>8. /\ played' \in Seq(Nat) /\ play_buf' \in Seq(Nat)
        /\ Len(play_buf') = FrameSize - k /\ Heard' = played \o frame
    <2>1. k \in 0 .. Len(frame)
      BY <1>2, <1>3, <1>4
    <2> QED
      BY <1>2, <1>3, <1>6, <2>1, Moved DEF Heard
  <1>9. play' = "modemAudioIn" => play_buf' = <<>> /\ need' > 0
    BY <1>2, <1>4, <1>5, <1>8, EmptySeq
  <1>10. UNCHANGED <<RecordSide, record>>
    BY DEF ModemAudioIn, RecordSide
  <1>11. SampleTypes'
    <2>1. /\ Len(play_buf') < FrameSize /\ need' \in Nat /\ received' \in Nat
          /\ play' \in {"idle", "modemAudioIn"}
      BY <1>1, <1>2, <1>4, <1>5, <1>8
    <2> QED
      BY <1>8, <1>9, <1>10, <2>1 DEF SampleInv, SampleTypes, RecordSide
  <1> DEFINE heard == played \o frame
  <1>12. /\ heard \in Seq(Nat) /\ Len(heard) = Len(played) + FrameSize
         /\ \A i \in 1 .. Len(played) : heard[i] = played[i]
         /\ \A i \in 1 .. FrameSize : heard[Len(played) + i] = frame[i]
    BY <1>2, <1>3, Behind, Zenon
  <1>13. \A i \in 1 .. Len(played) : played[i] \in 0 .. received
    <2> SUFFICES ASSUME NEW i \in 1 .. Len(played) PROVE played[i] \in 0 .. received
      OBVIOUS
    <2>1. played[i] = Silence \/ played[i] \in 1 .. received
      BY <1>7
    <2> QED
      BY <1>2, <2>1 DEF Silence
  <1>14. Ascending(heard)
    <2>1. \A i \in 1 .. Len(frame) : frame[i] # Silence => frame[i] > received
      BY <1>2, <1>3
    <2>2. \A i \in 1 .. Len(played) : played[i] <= received
      BY <1>2, <1>13
    <2> QED
      BY <1>2, <1>3, <1>7, <2>1, <2>2, Extended
  <1> HIDE DEF heard
  <1>15. {heard[i] : i \in 1 .. Len(heard)} \ {Silence} = 1 .. received + got
    <2>1. ASSUME NEW m \in 1 .. received + got
          PROVE  m \in {heard[i] : i \in 1 .. Len(heard)} \ {Silence}
      <3>1. CASE m <= received
        <4>1. m \in 1 .. received
          BY <1>2, <3>1
        <4>2. m \in {played[i] : i \in 1 .. Len(played)}
          BY <1>7, <4>1
        <4>3. PICK i \in 1 .. Len(played) : m = played[i]
          BY <4>2
        <4>4. i \in 1 .. Len(heard) /\ heard[i] = m
          BY <1>2, <1>12, <4>3
        <4> QED
          BY <4>4 DEF Silence
      <3>2. CASE m > received
        <4>1. m \in received + 1 .. received + got
          BY <1>2, <3>2
        <4>2. m \in {frame[i] : i \in 1 .. FrameSize}
          BY <1>3, <4>1
        <4>3. PICK i \in 1 .. FrameSize : m = frame[i]
          BY <4>2
        <4>4. Len(played) + i \in 1 .. Len(heard) /\ heard[Len(played) + i] = m
          BY <1>2, <1>12, <4>3
        <4> QED
          BY <4>4 DEF Silence
      <3> QED
        BY <1>2, <3>1, <3>2
    <2>2. ASSUME NEW i \in 1 .. Len(heard), heard[i] # Silence
          PROVE  heard[i] \in 1 .. received + got
      <3>1. CASE i <= Len(played)
        <4>1. i \in 1 .. Len(played)
          BY <1>2, <1>12, <3>1
        <4>2. heard[i] = played[i] /\ played[i] \in 0 .. received
          BY <1>12, <1>13, <4>1
        <4> QED
          BY <1>2, <2>2, <4>2 DEF Silence
      <3>2. CASE i > Len(played)
        <4>1. i - Len(played) \in 1 .. FrameSize /\ heard[i] = frame[i - Len(played)]
          BY <1>2, <1>12, <3>2
        <4>2. frame[i - Len(played)] # Silence
          BY <2>2, <4>1
        <4>3. frame[i - Len(played)] \in received + 1 .. received + got
          BY <1>3, <4>1, <4>2
        <4> QED
          BY <1>2, <4>1, <4>3
      <3> QED
        BY <1>2, <1>12, <3>1, <3>2
    <2> QED
      BY <2>1, <2>2
  <1>16. Len(heard) % FrameSize = 0
    BY <1>2, <1>7, <1>12, FrameMore
  <1>17. Heard' = heard
    BY <1>8 DEF heard
  <1> QED
    BY <1>1, <1>10, <1>11, <1>14, <1>15, <1>16, <1>17, PlaySideInv

LEMMA SampleStep == BufferInv /\ SampleInv /\ [TunnelNext]_tunnelVars => SampleInv'
  <1> SUFFICES ASSUME BufferInv, SampleInv, [TunnelNext]_tunnelVars PROVE SampleInv'
    OBVIOUS
  <1> USE DEF RecordSide, PlaySide
  <1>1. CASE StartTunnel
    <2>1. record = "idle" /\ record' = record
      BY <1>1 DEF StartTunnel, BufferInv
    <2> QED
      BY <1>1, <2>1, SamplesBegin DEF StartTunnel, SampleInv, SampleTypes
  <1>2. CASE FreeTunnel
    <2>1. record = "idle" /\ record' = record
      BY <1>2 DEF FreeTunnel, BufferInv
    <2> QED
      BY <1>2, <2>1, SamplesBegin DEF FreeTunnel, SampleInv, SampleTypes
  <1>3. CASE StopTunnel \/ StopWaiting \/ DeleteTrack \/ DeleteRecord
    BY <1>3, SamplesStill DEF StopTunnel, StopWaiting, DeleteTrack, DeleteRecord, ctx, audio
  <1>4. CASE RecordCallback \/ FallSilent
    BY <1>4, SamplesStill DEF RecordCallback, FallSilent, ctx, audio
  <1>5. CASE UNCHANGED tunnelVars
    BY <1>5, SamplesStill DEF tunnelVars, ctx, audio
  <1> QED
    BY <1>1, <1>2, <1>3, <1>4, <1>5, RecordedInv, ModemAudioOutInv, PlayCallbackInv,
       ModemAudioInInv DEF TunnelNext, StopStep, PlayStep

LEMMA TunnelBegins == TunnelInit => BufferInv /\ SampleInv
  <1>1. TunnelInit => BufferInv
    BY DEF TunnelInit, BufferInv
  <1>2. TunnelInit => SampleInv
    <2> SUFFICES ASSUME TunnelInit PROVE SampleInv
      OBVIOUS
    <2>1. SampleTypes
      BY NothingHeard DEF TunnelInit, SampleTypes
    <2>2. Done = 0 /\ Heard = <<>>
      <3>1. Done = 0 - 0 /\ Heard = <<>>
        BY NothingHeard, Zenon DEF TunnelInit, Done, Heard
      <3> QED
        BY <3>1
    <2> QED
      BY <2>1, <2>2, NothingHeard DEF TunnelInit, SampleInv, SamplesInOrder
  <1> QED
    BY <1>1, <1>2

(* For every size of frame and every sequence of lengths the media library  *)
(* may ask for, a callback never runs on freed buffers.                     *)
THEOREM BuffersKept == TunnelSpec => []CallbackHasBuffers
  <1>1. BufferInv => CallbackHasBuffers
    BY DEF BufferInv, CallbackHasBuffers
  <1> QED
    BY <1>1, TunnelBegins, BufferStep, PTL DEF TunnelSpec

(* And however much of each frame the port takes or gives, the modem lacks  *)
(* only the samples its port refused, and the phone hears each sample of    *)
(* the modem once, in order, the rest of a frame being silence.             *)
THEOREM SamplesKept == TunnelSpec => []SamplesInOrder
  <1>1. SampleInv => SamplesInOrder
    BY DEF SampleInv
  <1> QED
    BY <1>1, TunnelBegins, BufferStep, SampleStep, PTL DEF TunnelSpec

(* The types of AudioTunnel: what the proofs above need of them, and flags. *)
TunnelInv == BufferInv /\ SampleInv /\ TunnelTypeOK

LEMMA TunnelTypeStep == TunnelInv /\ [TunnelNext]_tunnelVars => TunnelTypeOK'
  <1> SUFFICES ASSUME TunnelInv, [TunnelNext]_tunnelVars PROVE TunnelTypeOK'
    OBVIOUS
  <1>1. BufferInv' /\ SampleInv'
    BY BufferStep, SampleStep DEF TunnelInv
  <1>2. /\ (record' = "modemAudioOut") = (Len(rec_buf') >= FrameSize)
        /\ Len(play_buf') < FrameSize /\ streams' \subseteq {"record", "play"}
        /\ {need', recorded', refused', received'} \subseteq Nat
        /\ record' \in {"idle", "callback", "modemAudioOut"} /\ play' \in {"idle", "modemAudioIn"}
    BY <1>1 DEF BufferInv, SampleInv, SampleTypes
  <1>3. /\ {running', quit_flag', rec_thread_exited', play_thread_exited', buffers', silent'}
             \subseteq BOOLEAN
        /\ stopper' \in {"idle", "waiting", "deletetrack", "deleterecord", "free"}
    <2> USE DEF TunnelInv, TunnelTypeOK
    <2>1. CASE StartTunnel \/ StopTunnel
      BY <2>1 DEF StartTunnel, StopTunnel, audio
    <2>2. CASE StopStep
      BY <2>2 DEF StopStep, StopWaiting, DeleteTrack, DeleteRecord, FreeTunnel, ctx, audio
    <2>3. CASE RecordCallback \/ Recorded \/ ModemAudioOut
      BY <2>3 DEF RecordCallback, Recorded, ModemAudioOut, audio
    <2>4. CASE PlayStep \/ FallSilent
      BY <2>4 DEF PlayStep, PlayCallback, ModemAudioIn, FallSilent, ctx
    <2>5. CASE UNCHANGED tunnelVars
      BY <2>5 DEF tunnelVars, ctx, audio
    <2> QED
      BY <2>1, <2>2, <2>3, <2>4, <2>5 DEF TunnelNext
  <1> QED
    BY <1>2, <1>3 DEF TunnelTypeOK

-----------------------------------------------------------------------------
(* Camera *)

(* Who holds the mutex, and what that says of the preview thread: whoever   *)
(* waits for it has asked it to end, and it does not take the mutex then.   *)
MutexInv ==
    /\ appAt # "idle" => mLock = "app" /\ mPreviewThread /\ exitPending
    /\ \A p \in Pictures :
          /\ pictureAt[p] \in {"stop", "capture"} => mLock = p
          /\ pictureAt[p] = "stop" => mPreviewThread /\ exitPending
          /\ pictureAt[p] = "capture" => ~mPreviewThread /\ ~exitPending
    /\ exitPending => mLock \notin {"free", "preview"}
    /\ (mLock = "preview") = (previewAt = "grab")

(* A preview thread that was not asked to end is there, with a camera that  *)
(* streams frames of the size the heaps were made for.                      *)
PreviewInv ==
    /\ camera.streaming = mPreviewThread
    /\ previewAt # "none" => mPreviewThread
    /\ mPreviewThread /\ ~exitPending => previewAt # "none"
    /\ mPreviewThread /\ appAt = "idle" =>
          /\ camera.size = heaps.raw /\ heaps.preview = mParameters.preview
          /\ mRecordingEnabled /\ mMsgVideo => heaps.video = camera.size

CameraInv == CameraTypeOK /\ MutexInv /\ PreviewInv

Asked == [{"preview", "video", "picture"} -> Sizes \cup {0}]

LEMMA HeapsAre ==
    ASSUME NEW rec, NEW msg, NEW pars \in Asked
    PROVE  /\ HeapsFor(rec, msg, pars) \in
                [{"raw", "preview", "video", "picture"} -> Sizes \cup {0}]
           /\ HeapsFor(rec, msg, pars).raw = IF rec /\ msg THEN pars.video ELSE pars.preview
           /\ HeapsFor(rec, msg, pars).preview = pars.preview
           /\ HeapsFor(rec, msg, pars).video = pars.video
  BY DEF HeapsFor, RawSize, Asked

LEMMA CaptureMakes ==
    ASSUME CameraTypeOK, Capture(mRecordingEnabled, mMsgVideo, mParameters)
    PROVE  /\ mParameters' \in Asked
           /\ heaps' \in [{"raw", "preview", "video", "picture"} -> Sizes \cup {0}]
           /\ jpegOf' \in Pictures \cup {"none"}
           /\ camera' \in [open : BOOLEAN, streaming : BOOLEAN, size : Sizes \cup {0}]
           /\ \/ camera'.streaming = TRUE /\ mPreviewThread' = TRUE /\ previewAt' = "loop"
              \/ camera'.streaming = FALSE /\ mPreviewThread' = FALSE /\ previewAt' = "none"
           /\ camera'.size = heaps'.raw /\ heaps'.preview = mParameters'.preview
           /\ mRecordingEnabled /\ mMsgVideo => heaps'.video = camera'.size
  <1> DEFINE rec   == mRecordingEnabled
             msg   == mMsgVideo
             which == IF rec /\ msg THEN "video" ELSE "preview"
  <1>1. PICK given \in Sizes :
            /\ mParameters' = [mParameters EXCEPT ![which] = given]
            /\ MakeHeaps(rec, msg, [mParameters EXCEPT ![which] = given])
            /\ Streams(given)
    BY DEF Capture
  <1>2. mParameters \in Asked /\ jpegOf \in Pictures \cup {"none"}
    BY DEF CameraTypeOK, Asked
  <1>3. /\ mParameters' \in Asked
        /\ rec /\ msg => mParameters'.video = given
        /\ ~(rec /\ msg) => mParameters'.preview = given
    BY <1>1, <1>2 DEF Asked
  <1>4. heaps' = HeapsFor(rec, msg, mParameters') /\ jpegOf' \in {jpegOf, "none"}
    BY <1>1 DEF MakeHeaps
  <1>5. /\ heaps' \in [{"raw", "preview", "video", "picture"} -> Sizes \cup {0}]
        /\ heaps'.raw = given /\ heaps'.preview = mParameters'.preview
        /\ rec /\ msg => heaps'.video = given
    BY <1>3, <1>4, HeapsAre
  <1>6. /\ camera' \in [open : BOOLEAN, streaming : BOOLEAN, size : Sizes \cup {0}]
        /\ camera'.size = given
        /\ \/ camera'.streaming = TRUE /\ mPreviewThread' = TRUE /\ previewAt' = "loop"
           \/ camera'.streaming = FALSE /\ mPreviewThread' = FALSE /\ previewAt' = "none"
    <2>1. ASSUME NEW s \in BOOLEAN, camera' = [open |-> TRUE, streaming |-> s, size |-> given]
          PROVE  /\ camera' \in [open : BOOLEAN, streaming : BOOLEAN, size : Sizes \cup {0}]
                 /\ camera'.size = given /\ camera'.streaming = s
      BY <2>1
    <2>2. CASE /\ camera' = [open |-> TRUE, streaming |-> TRUE, size |-> given]
               /\ mPreviewThread' = TRUE /\ previewAt' = "loop"
      BY <2>1, <2>2
    <2>3. CASE Without([open |-> TRUE, streaming |-> FALSE, size |-> given])
      BY <2>1, <2>3 DEF Without
    <2> QED
      BY <1>1, <2>2, <2>3 DEF Streams
  <1> QED
    BY <1>2, <1>3, <1>4, <1>5, <1>6

LEMMA NoCaptureMakes ==
    ASSUME NoCapture(mParameters)
    PROVE  /\ mParameters' = mParameters
           /\ camera' \in [open : BOOLEAN, streaming : BOOLEAN, size : Sizes \cup {0}]
           /\ camera'.streaming = FALSE /\ mPreviewThread' = FALSE /\ previewAt' = "none"
  BY DEF NoCapture, Without, Closed

LEMMA CameraTypeStep == CameraTypeOK /\ [CameraNext]_cameraVars => CameraTypeOK'
  <1> SUFFICES ASSUME CameraTypeOK, [CameraNext]_cameraVars PROVE CameraTypeOK'
    OBVIOUS
  <1> USE CameraAssumption DEF CameraTypeOK
  <1>1. ASSUME NEW rec \in BOOLEAN, NEW msg \in BOOLEAN,
               NEW pars \in Asked, ChangeTo(rec, msg, pars)
        PROVE  CameraTypeOK'
    <2>1. mRecordingEnabled' \in BOOLEAN /\ mMsgVideo' \in BOOLEAN
      BY <1>1 DEF ChangeTo
    <2>2. mParameters' \in [{"preview", "video", "picture"} -> Sizes \cup {0}]
      BY <1>1 DEF ChangeTo, Asked
    <2>3. /\ heaps' \in [{"raw", "preview", "video", "picture"} -> Sizes \cup {0}]
          /\ jpegOf' \in Pictures \cup {"none"}
      BY <1>1, HeapsAre DEF ChangeTo, MakeHeaps
    <2>4. /\ mLock' \in {"free", "app", "preview"} \cup Pictures
          /\ appAt' \in {"idle", "stop", "restart"} /\ exitPending' \in BOOLEAN
      BY <1>1 DEF ChangeTo
    <2>5. UNCHANGED <<mPreviewThread, previewAt, camera, stalled, pictureAt, jpegSent>>
      BY <1>1 DEF ChangeTo, picture
    <2> QED
      BY <2>1, <2>2, <2>3, <2>4, <2>5
  <1>2. CASE SetParameters
    <2>1. PICK pars \in [{"preview", "video", "picture"} -> Sizes] :
                ChangeTo(mRecordingEnabled, mMsgVideo, pars)
      BY <1>2 DEF SetParameters
    <2>2. pars \in Asked
      BY DEF Asked
    <2> QED
      BY <1>1, <2>1, <2>2
  <1>3. CASE EnableMsgType \/ SwitchRecording
    <2>1. mParameters \in Asked
      BY DEF Asked
    <2>2. mRecordingEnabled \in BOOLEAN /\ mMsgVideo \in BOOLEAN
      <3>1. {mRecordingEnabled, mMsgVideo} \subseteq BOOLEAN
        BY Zenon
      <3> QED
        BY <3>1, Zenon
    <2> QED
      BY <1>1, <1>3, <2>1, <2>2, Zenon DEF EnableMsgType, SwitchRecording
  <1>4. CASE StartPreview
    <2>1. UNCHANGED <<mLock, exitPending, mRecordingEnabled, mMsgVideo, stalled, appAt, pictureAt,
                      jpegSent>>
      BY <1>4 DEF StartPreview, picture
    <2>2. CASE Capture(mRecordingEnabled, mMsgVideo, mParameters)
      BY <2>1, <2>2, CaptureMakes DEF Asked
    <2>3. CASE NoCapture(mParameters) /\ UNCHANGED <<heaps, jpegOf>>
      BY <2>1, <2>3, NoCaptureMakes
    <2> QED
      BY <1>4, <2>2, <2>3 DEF StartPreview
  <1>5. CASE StopPreview
    BY <1>5 DEF StopPreview, hw, picture
  <1>6. CASE PreviewStopped
    <2>1. /\ UNCHANGED <<mRecordingEnabled, mMsgVideo, stalled, pictureAt, jpegSent>>
          /\ exitPending' = FALSE /\ mLock' = "free" /\ appAt' = "idle"
      BY <1>6 DEF PreviewStopped, picture
    <2>2. CASE Without(Closed) /\ UNCHANGED <<mParameters, heaps, jpegOf>>
      BY <2>1, <2>2 DEF Without, Closed
    <2>3. CASE Capture(mRecordingEnabled, mMsgVideo, mParameters)
      BY <2>1, <2>3, CaptureMakes DEF Asked
    <2>4. CASE NoCapture(mParameters) /\ MakeHeaps(mRecordingEnabled, mMsgVideo, mParameters)
      BY <2>1, <2>4, NoCaptureMakes, HeapsAre DEF MakeHeaps, Asked
    <2> QED
      BY <1>6, <2>2, <2>3, <2>4 DEF PreviewStopped
  <1>7. CASE PreviewStep \/ CameraStalls
    BY <1>7 DEF PreviewStep, PreviewTurn, PreviewGrab, PreviewCallback, PreviewCalls,
           CameraStalls, previewRest, preview, hw, picture
  <1>8. ASSUME NEW p \in Pictures, TakePicture(p) \/ PictureCallback(p)
        PROVE  CameraTypeOK'
    BY <1>8 DEF TakePicture, PictureCallback, preview, hw
  <1>9. ASSUME NEW p \in Pictures, PictureStart(p) PROVE CameraTypeOK'
    BY <1>9 DEF PictureStart, hw
  <1>10. ASSUME NEW p \in Pictures, PictureStopped(p) PROVE CameraTypeOK'
    <2>1. camera' \in [open : BOOLEAN, streaming : BOOLEAN, size : Sizes \cup {0}]
      BY <1>10 DEF PictureStopped, Closed
    <2> QED
      BY <1>10, <2>1 DEF PictureStopped, hw
  <1>11. ASSUME NEW p \in Pictures, PictureCapture(p) PROVE CameraTypeOK'
    <2>1. /\ camera' \in [open : BOOLEAN, streaming : BOOLEAN, size : Sizes \cup {0}]
          /\ mParameters' \in Asked
          /\ jpegSent' \subseteq Pictures /\ jpegOf' \in Pictures \cup {"none"}
          /\ heaps' = heaps \/ heaps' = HeapsFor(mRecordingEnabled, mMsgVideo, mParameters')
      <3> DEFINE NotOpened ==
                   /\ \E open \in BOOLEAN : camera' = [Closed EXCEPT !.open = open]
                   /\ jpegSent' = jpegSent \ {p} /\ UNCHANGED <<mParameters, heaps, jpegOf>>
                 Given(given) ==
                   LET real == [mParameters EXCEPT !.picture = given] IN
                   /\ camera' = Closed /\ mParameters' = real
                   /\ heaps' = HeapsFor(mRecordingEnabled, mMsgVideo, real)
                   /\ \/ jpegSent' = jpegSent \cup {p} /\ jpegOf' = p
                      \/ /\ jpegSent' = jpegSent \ {p}
                         /\ MakeHeaps(mRecordingEnabled, mMsgVideo, real)
      <3>1. NotOpened \/ \E given \in Sizes \cup {0} : Given(given)
        BY <1>11 DEF PictureCapture
      <3>2. CASE NotOpened
        BY <3>2 DEF Closed, Asked
      <3>3. ASSUME NEW given \in Sizes \cup {0}, Given(given)
            PROVE  /\ camera' \in [open : BOOLEAN, streaming : BOOLEAN, size : Sizes \cup {0}]
                   /\ mParameters' \in Asked
                   /\ jpegSent' \subseteq Pictures /\ jpegOf' \in Pictures \cup {"none"}
                   /\ heaps' = HeapsFor(mRecordingEnabled, mMsgVideo, mParameters')
        BY <3>3 DEF Closed, Asked, MakeHeaps
      <3> HIDE DEF NotOpened, Given
      <3> QED
        BY <3>1, <3>2, <3>3, Zenon
    <2>2. heaps' \in [{"raw", "preview", "video", "picture"} -> Sizes \cup {0}]
      BY <2>1, HeapsAre
    <2> QED
      BY <1>11, <2>1, <2>2 DEF PictureCapture, preview, Asked
  <1>12. CASE UNCHANGED cameraVars
    BY <1>12 DEF cameraVars, preview, hw, picture
  <1> QED
    BY <1>2, <1>3, <1>4, <1>5, <1>6, <1>7, <1>8, <1>9, <1>10, <1>11, <1>12
       DEF CameraNext, CameraCall, PictureStep

LEMMA CameraMutexStep ==
    CameraTypeOK /\ MutexInv /\ PreviewInv /\ [CameraNext]_cameraVars => MutexInv'
  <1> SUFFICES ASSUME CameraTypeOK, MutexInv, PreviewInv, [CameraNext]_cameraVars
               PROVE  MutexInv'
    OBVIOUS
  <1>1. ASSUME NEW rec, NEW msg, NEW pars, ChangeTo(rec, msg, pars) PROVE MutexInv'
    BY <1>1 DEF ChangeTo, MutexInv, picture
  <1>2. CASE SetParameters \/ EnableMsgType \/ SwitchRecording
    BY <1>1, <1>2, Zenon DEF SetParameters, EnableMsgType, SwitchRecording
  <1>3. CASE StartPreview
    <2>1. /\ previewAt' \in {"loop", "none"} /\ previewAt # "grab" /\ ~exitPending
          /\ mLock = "free" /\ appAt = "idle"
      BY <1>3, CaptureMakes, NoCaptureMakes DEF StartPreview, MutexInv
    <2>2. UNCHANGED <<mLock, exitPending, appAt, pictureAt>>
      BY <1>3 DEF StartPreview, picture
    <2>3. \A p \in Pictures : pictureAt[p] \notin {"stop", "capture"}
      BY <2>1, CameraAssumption DEF MutexInv
    <2> QED
      BY <2>1, <2>2, <2>3 DEF MutexInv
  <1>4. CASE StopPreview
    BY <1>4 DEF StopPreview, MutexInv, picture
  <1>5. CASE PreviewStopped
    <2>1. /\ previewAt' \in {"loop", "none"} /\ exitPending' = FALSE
          /\ mLock = "app" /\ mLock' = "free" /\ appAt' = "idle" /\ UNCHANGED pictureAt
      BY <1>5, CaptureMakes, NoCaptureMakes DEF PreviewStopped, MutexInv, Without, picture
    <2>2. \A p \in Pictures : pictureAt[p] \notin {"stop", "capture"}
      BY <2>1, CameraAssumption DEF MutexInv
    <2> QED
      BY <2>1, <2>2 DEF MutexInv
  <1>6. CASE PreviewStep \/ CameraStalls
    BY <1>6, CameraAssumption
       DEF PreviewStep, PreviewTurn, PreviewGrab, PreviewCallback, PreviewCalls,
           CameraStalls, previewRest, preview, MutexInv, hw, picture
  <1>7. ASSUME NEW p \in Pictures, TakePicture(p) \/ PictureCallback(p) PROVE MutexInv'
    BY <1>7 DEF TakePicture, PictureCallback, MutexInv, CameraTypeOK, preview, hw
  <1>8. ASSUME NEW p \in Pictures, PictureStart(p) PROVE MutexInv'
    BY <1>8, CameraAssumption DEF PictureStart, MutexInv, CameraTypeOK, hw
  <1>9. ASSUME NEW p \in Pictures, PictureStopped(p) PROVE MutexInv'
    BY <1>9, CameraAssumption DEF PictureStopped, MutexInv, CameraTypeOK, hw
  <1>10. ASSUME NEW p \in Pictures, PictureCapture(p) PROVE MutexInv'
    <2>1. /\ mLock = p /\ mLock' = "free" /\ pictureAt' = [pictureAt EXCEPT ![p] = "callback"]
          /\ UNCHANGED <<mPreviewThread, exitPending, previewAt, appAt>> /\ ~exitPending
      BY <1>10 DEF PictureCapture, MutexInv, preview
    <2>2. appAt = "idle" /\ previewAt # "grab"
      BY <2>1, CameraAssumption DEF MutexInv
    <2>3. \A q \in Pictures : q # p => pictureAt[q] \notin {"stop", "capture"}
      BY <2>1 DEF MutexInv
    <2> QED
      BY <2>1, <2>2, <2>3 DEF MutexInv, CameraTypeOK
  <1>11. CASE UNCHANGED cameraVars
    BY <1>11 DEF cameraVars, MutexInv, preview, picture
  <1> QED
    BY <1>2, <1>3, <1>4, <1>5, <1>6, <1>7, <1>8, <1>9, <1>10, <1>11
       DEF CameraNext, CameraCall, PictureStep

LEMMA CameraPreviewStep ==
    CameraTypeOK /\ MutexInv /\ PreviewInv /\ [CameraNext]_cameraVars => PreviewInv'
  <1> SUFFICES ASSUME CameraTypeOK, MutexInv, PreviewInv, [CameraNext]_cameraVars
               PROVE  PreviewInv'
    OBVIOUS
  <1>1. ASSUME NEW rec \in BOOLEAN, NEW msg \in BOOLEAN, NEW pars \in Asked,
               ChangeTo(rec, msg, pars)
        PROVE  PreviewInv'
    <2>1. /\ UNCHANGED <<mPreviewThread, previewAt, camera>> /\ appAt = "idle" /\ ~exitPending
          /\ mRecordingEnabled' = rec /\ mMsgVideo' = msg /\ mParameters' = pars
      BY <1>1 DEF ChangeTo, MutexInv
    <2>2. CASE /\ pars = mParameters
               /\ ~((rec \/ mRecordingEnabled) /\ (msg \/ mMsgVideo))
               /\ UNCHANGED <<mLock, exitPending, appAt, heaps, jpegOf>>
      BY <2>1, <2>2 DEF PreviewInv
    <2>3. CASE appAt' = "restart" /\ exitPending' = TRUE
      BY <2>1, <2>3 DEF PreviewInv
    <2>4. CASE /\ ~(mPreviewThread /\ StopsPreview(rec, msg, pars))
               /\ MakeHeaps(rec, msg, pars) /\ UNCHANGED <<mLock, appAt, exitPending>>
      <3>1. heaps' = HeapsFor(rec, msg, pars)
        BY <2>4 DEF MakeHeaps
      <3>2. /\ heaps'.raw = IF rec /\ msg THEN pars.video ELSE pars.preview
            /\ heaps'.preview = pars.preview /\ heaps'.video = pars.video
        BY <3>1, HeapsAre
      <3>3. ASSUME mPreviewThread PROVE heaps'.raw = heaps.raw
        BY <2>4, <3>1, <3>3 DEF StopsPreview
      <3> QED
        BY <2>1, <2>4, <3>2, <3>3 DEF PreviewInv
    <2> QED
      BY <1>1, <2>2, <2>3, <2>4 DEF ChangeTo
  <1>2. CASE SetParameters
    <2>1. PICK pars \in [{"preview", "video", "picture"} -> Sizes] :
                ChangeTo(mRecordingEnabled, mMsgVideo, pars)
      BY <1>2 DEF SetParameters
    <2>2. pars \in Asked /\ mRecordingEnabled \in BOOLEAN /\ mMsgVideo \in BOOLEAN
      BY DEF Asked, CameraTypeOK
    <2> QED
      BY <1>1, <2>1, <2>2
  <1>3. CASE EnableMsgType \/ SwitchRecording
    <2>1. mParameters \in Asked /\ mRecordingEnabled \in BOOLEAN /\ mMsgVideo \in BOOLEAN
      BY DEF Asked, CameraTypeOK
    <2> QED
      BY <1>1, <1>3, <2>1, Zenon DEF EnableMsgType, SwitchRecording
  <1>4. CASE StartPreview
    <2>1. ~exitPending /\ UNCHANGED <<exitPending, appAt, mRecordingEnabled, mMsgVideo>>
      BY <1>4 DEF StartPreview, MutexInv
    <2>2. CASE Capture(mRecordingEnabled, mMsgVideo, mParameters)
      BY <2>1, <2>2, CaptureMakes DEF PreviewInv
    <2>3. CASE NoCapture(mParameters)
      BY <2>1, <2>3, NoCaptureMakes DEF PreviewInv
    <2> QED
      BY <1>4, <2>2, <2>3 DEF StartPreview
  <1>5. CASE StopPreview
    BY <1>5 DEF StopPreview, PreviewInv, hw
  <1>6. CASE PreviewStopped
    <2>1. UNCHANGED <<mRecordingEnabled, mMsgVideo>>
      BY <1>6 DEF PreviewStopped
    <2>2. CASE Without(Closed)
      BY <2>2 DEF PreviewInv, Without, Closed
    <2>3. CASE Capture(mRecordingEnabled, mMsgVideo, mParameters)
      BY <2>1, <2>3, CaptureMakes DEF PreviewInv
    <2>4. CASE NoCapture(mParameters)
      BY <2>4, NoCaptureMakes DEF PreviewInv
    <2> QED
      BY <1>6, <2>2, <2>3, <2>4 DEF PreviewStopped
  <1>7. CASE PreviewStep \/ CameraStalls
    BY <1>7 DEF PreviewStep, PreviewTurn, PreviewGrab, PreviewCallback, PreviewCalls,
           CameraStalls, previewRest, preview, PreviewInv, hw
  <1>8. ASSUME NEW p \in Pictures, TakePicture(p) \/ PictureCallback(p) PROVE PreviewInv'
    BY <1>8 DEF TakePicture, PictureCallback, PreviewInv, preview, hw
  <1>9. ASSUME NEW p \in Pictures, PictureStart(p) PROVE PreviewInv'
    <2>1. appAt = "idle" /\ ~exitPending
      BY <1>9 DEF PictureStart, MutexInv
    <2> QED
      BY <1>9, <2>1 DEF PictureStart, PreviewInv, hw
  <1>10. ASSUME NEW p \in Pictures, PictureStopped(p) PROVE PreviewInv'
    BY <1>10 DEF PictureStopped, PreviewInv, Closed
  <1>11. ASSUME NEW p \in Pictures, PictureCapture(p) PROVE PreviewInv'
    <2>1. ~mPreviewThread /\ previewAt = "none" /\ UNCHANGED <<mPreviewThread, previewAt>>
      BY <1>11 DEF PictureCapture, MutexInv, PreviewInv, preview
    <2>2. camera'.streaming = FALSE
      <3>1. Closed.streaming = FALSE /\ \A open : [Closed EXCEPT !.open = open].streaming = FALSE
        BY DEF Closed
      <3>2. camera' = Closed \/ \E open : camera' = [Closed EXCEPT !.open = open]
        BY <1>11, Zenon DEF PictureCapture
      <3> QED
        BY <3>1, <3>2, Zenon
    <2>3. mPreviewThread' = FALSE /\ previewAt' = "none"
      BY <2>1 DEF CameraTypeOK
    <2> QED
      BY <2>2, <2>3 DEF PreviewInv
  <1>12. CASE UNCHANGED cameraVars
    BY <1>12 DEF cameraVars, PreviewInv, preview, hw
  <1> QED
    BY <1>2, <1>3, <1>4, <1>5, <1>6, <1>7, <1>8, <1>9, <1>10, <1>11, <1>12
       DEF CameraNext, CameraCall, PictureStep

LEMMA CameraBegins == CameraInit => CameraInv
  <1> SUFFICES ASSUME CameraInit PROVE CameraInv
    OBVIOUS
  <1>1. /\ heaps \in [{"raw", "preview", "video", "picture"} -> Sizes \cup {0}]
        /\ camera \in [open : BOOLEAN, streaming : BOOLEAN, size : Sizes \cup {0}]
        /\ mParameters \in [{"preview", "video", "picture"} -> Sizes \cup {0}]
    BY DEF CameraInit, Closed
  <1>2. CameraTypeOK
    BY <1>1 DEF CameraInit, CameraTypeOK
  <1>3. MutexInv
    BY DEF CameraInit, MutexInv
  <1>4. PreviewInv
    BY DEF CameraInit, PreviewInv, Closed
  <1> QED
    BY <1>2, <1>3, <1>4 DEF CameraInv

LEMMA CameraStep == CameraInv /\ [CameraNext]_cameraVars => CameraInv'
  BY CameraTypeStep, CameraMutexStep, CameraPreviewStep DEF CameraInv

LEMMA CameraSafe == CameraSpec => []CameraInv
  BY CameraBegins, CameraStep, PTL DEF CameraSpec

LEMMA CameraSound == CameraInv => StreamsForPreview /\ FrameFits
  <1>1. CameraInv => StreamsForPreview
    BY DEF CameraInv, CameraTypeOK, MutexInv, PreviewInv, StreamsForPreview
  <1>2. CameraInv => FrameFits
    BY CameraAssumption DEF CameraInv, CameraTypeOK, MutexInv, PreviewInv, FrameFits
  <1> QED
    BY <1>1, <1>2

(* However calls of the application, a start that fails half way and any    *)
(* number of pictures come together, the preview thread is there exactly    *)
(* while the camera streams ...                                             *)
THEOREM PreviewStreams == CameraSpec => []StreamsForPreview
  BY CameraSafe, CameraSound, PTL

(* ... and captures into heaps of the size of its frames.                   *)
THEOREM FramesFit == CameraSpec => []FrameFits
  BY CameraSafe, CameraSound, PTL

-----------------------------------------------------------------------------
(* All of them together. A behaviour of MCDevices is one of each part, or   *)
(* of one that stays where it is.                                           *)

LEMMA EachPartMoves ==
    ASSUME [Next]_vars
    PROVE  /\ [AudioNext]_audioVars /\ [CaptureNext]_captureVars /\ [TunnelNext]_tunnelVars
           /\ [CameraNext]_cameraVars /\ [GpsNext]_gpsVars /\ [NmeaNext]_nmeaVars
  BY Zenon DEF Next, vars, halRest, captureRest, tunnelRest, cameraRest, gpsRest, nmeaRest

DeviceInv ==
    IInv /\ CaptureInv /\ TunnelInv /\ CameraInv /\ GpsTypeOK /\ NoticeInv /\ NmeaInv

LEMMA DevicesBegin == Init => DeviceInv
  <1> SUFFICES ASSUME Init PROVE DeviceInv
    OBVIOUS
  <1>1. IInv /\ CaptureInv /\ CameraInv /\ NmeaInv
    BY AudioInitInv, CaptureBegins, CameraBegins, NmeaBegins DEF Init
  <1>2. TunnelInv
    <2>1. TunnelInit
      BY DEF Init
    <2>2. BufferInv /\ SampleInv
      BY <2>1, TunnelBegins
    <2>3. TunnelTypeOK
      BY <2>1, <2>2 DEF TunnelInit, TunnelTypeOK, BufferInv, SampleInv, SampleTypes
    <2> QED
      BY <2>2, <2>3 DEF TunnelInv
  <1>3. GpsTypeOK
    <2>1. <<>> \in Seq({"START", "STOP", "QUIT"}) /\ Len(<<>>) = 0 /\ 0 <= MaxCommands
      BY EmptySeq, GpsAssumption
    <2>2. GpsInit
      BY DEF Init
    <2> QED
      BY <2>1, <2>2 DEF GpsInit, GpsTypeOK
  <1>4. NoticeInv
    BY NoticesBegin DEF Init
  <1> QED
    BY <1>1, <1>2, <1>3, <1>4 DEF DeviceInv

LEMMA DevicesStep == DeviceInv /\ [Next]_vars => DeviceInv'
  <1> SUFFICES ASSUME DeviceInv, [Next]_vars PROVE DeviceInv'
    OBVIOUS
  <1>1. IInv' /\ CaptureInv' /\ CameraInv' /\ NmeaInv'
    BY EachPartMoves, AudioStepInv, CaptureStep, CameraStep, NmeaStep DEF DeviceInv
  <1>2. GpsTypeOK' /\ NoticeInv'
    BY EachPartMoves, GpsTypeStep, GpsStep DEF DeviceInv
  <1>3. TunnelInv'
    BY EachPartMoves, BufferStep, SampleStep, TunnelTypeStep DEF DeviceInv, TunnelInv
  <1> QED
    BY <1>1, <1>2, <1>3 DEF DeviceInv

(* Every variable of every device layer keeps its type, for any sizes,      *)
(* lengths, timers, pictures and effects (struct shuttle_audio_device,      *)
(* GsmAudioTunnel, CameraHardware, GpsState, NmeaReader).                   *)
THEOREM DeviceTypesCorrect == Spec => []TypeOK
  <1>1. DeviceInv => TypeOK
    BY DEF DeviceInv, IInv, CaptureInv, TunnelInv, CameraInv, NmeaInv, TypeOK
  <1> QED
    BY <1>1, DevicesBegin, DevicesStep, PTL DEF Spec

(* And what is proved of each part alone holds of it among the others: the  *)
(* safety properties of Devices_streams for all values of the constants.    *)
THEOREM DevicesSafe ==
    Spec => [](/\ EchoRefSound /\ EchoBothSides /\ ActiveRuns /\ HdmiRouted
               /\ CaptureInside /\ CallbackHasBuffers /\ SamplesInOrder
               /\ FrameFits /\ StreamsForPreview
               /\ StatusInOrder /\ FixNotLost /\ ParsedWhole)
  <1>1. DeviceInv => /\ CaptureInside /\ CallbackHasBuffers /\ SamplesInOrder
                     /\ FrameFits /\ StreamsForPreview
                     /\ StatusInOrder /\ FixNotLost /\ ParsedWhole
    BY CameraSound DEF DeviceInv, CaptureInv, TunnelInv, BufferInv, CallbackHasBuffers, SampleInv,
       NoticeInv, NmeaInv
  <1>2. Spec => AudioSpec
    <2>1. Init => AudioInit
      BY DEF Init
    <2>2. [Next]_vars => [AudioNext]_audioVars
      BY EachPartMoves
    <2> QED
      BY <2>1, <2>2, PTL DEF Spec, AudioSpec
  <1> QED
    BY <1>1, <1>2, DevicesBegin, DevicesStep, EchoReferenceSound, EchoReferenceShared,
       ActiveStreamsRun, HdmiFollowsRoute, PTL DEF Spec
=============================================================================
