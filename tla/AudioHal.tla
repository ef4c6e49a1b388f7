------------------------------ MODULE AudioHal ------------------------------
(****************************************************************************)
(* The audio HAL (audio/audio_hw.c): one output and one input stream of the *)
(* device, their start and standby, routing, the call mode, and the echo    *)
(* reference an input with an echo canceller shares with the output.        *)
(*                                                                          *)
(* The playback thread writes, the record thread reads, a binder thread     *)
(* changes the mode. Device and streams have a mutex each, taken in the     *)
(* order hw device > in stream > out stream. A section of one mutex in      *)
(* which nothing blocks is one step.                                        *)
(****************************************************************************)
EXTENDS FiniteSets, Naturals

CONSTANTS
    Refs,           \* echo references; a released one may be handed out again
    Effects         \* the effects that can be put on the input

Nobody == "nobody"      \* holds a mutex that is free
Null   == "null"
AEC    == "AEC"         \* the effect that needs an echo reference

ASSUME AudioAssumption == Null \notin Refs /\ Refs # {} /\ IsFiniteSet(Effects)

AudioThreads == {"playback", "record", "binder"}
Locks        == {"device", "in", "out"}
Routes       == {"SPEAKER", "AUX_DIGITAL", "SCO"}
Modes        == {"NORMAL", "RINGTONE", "IN_CALL"}

Port == [SPEAKER |-> "PORT_MM", AUX_DIGITAL |-> "PORT_SPDIF", SCO |-> "PORT_VOICE"]

VARIABLES
    lock,       \* who holds each mutex
    adev,       \* struct shuttle_audio_device
    out,        \* struct shuttle_stream_out; its pcm is the port, or Null
    in,         \* struct shuttle_stream_in
    refs,       \* the echo references that exist
    op,         \* what each thread is doing
    at          \* where it is

audioVars == <<lock, adev, out, in, refs, op, at>>

NewInput == [standby |-> TRUE, pcm |-> FALSE, echo |-> Null, need |-> FALSE,
             preprocessors |-> {}]

Idle == [name |-> "none"]

(* adev_open(), adev_open_output_stream(), adev_open_input_stream() *)
AudioInit ==
    /\ lock = [l \in Locks |-> Nobody]
    /\ adev = [mode |-> "NORMAL", route |-> "SPEAKER", in_call |-> FALSE,
               active_output |-> FALSE, active_input |-> FALSE, echo |-> Null]
    /\ out = [standby |-> TRUE, pcm |-> Null, echo |-> Null]
    /\ in = NewInput
    /\ refs = {}
    /\ op = [t \in AudioThreads |-> Idle] /\ at = [t \in AudioThreads |-> "idle"]

Go(t, label) == at' = [at EXCEPT ![t] = label]

Lock(t, l) == lock[l] = Nobody /\ lock' = [lock EXCEPT ![l] = t]

(* The call ends and releases what it holds. *)
Finish(t) ==
    /\ lock' = [l \in Locks |-> IF lock[l] = t THEN Nobody ELSE lock[l]]
    /\ op' = [op EXCEPT ![t] = Idle]
    /\ Go(t, "idle")

-----------------------------------------------------------------------------
(* Calls of the framework. *)

OutCalls == {[name |-> "out_write"], [name |-> "out_standby"]}
            \cup {[name |-> "out_set_parameters", route |-> r] : r \in Routes}

InCalls == {[name |-> n] : n \in {"in_read", "in_standby", "in_set_parameters",
                                  "adev_close_input_stream"}}
           \cup {[name |-> n, effect |-> e] :
                    n \in {"in_add_audio_effect", "in_remove_audio_effect"}, e \in Effects}

Calls(t) ==
    CASE t = "playback" -> OutCalls
      [] t = "record"   -> InCalls
      [] OTHER          -> {[name |-> "adev_set_mode", mode |-> m] : m \in Modes}

First(t) == CASE t = "playback" -> "out" [] t = "record" -> "in" [] OTHER -> "mode"

(* Mutant: out_write() takes the mutex of the device only to start. *)
CallAudioIfStandby(t) ==
    /\ at[t] = "idle"
    /\ \E c \in Calls(t) :
         /\ IF c.name = "out_write" /\ ~out.standby THEN UNCHANGED lock ELSE Lock(t, "device")
         /\ op' = [op EXCEPT ![t] = c]
    /\ Go(t, First(t))
    /\ UNCHANGED <<adev, out, in, refs>>

(* Every call takes the mutex of the device first. (One that waits for it   *)
(* has changed nothing, and is not made yet.)                               *)
CallAudio(t) ==
    /\ at[t] = "idle"
    /\ Lock(t, "device")
    /\ \E c \in Calls(t) : op' = [op EXCEPT ![t] = c]
    /\ Go(t, First(t))
    /\ UNCHANGED <<adev, out, in, refs>>

-----------------------------------------------------------------------------
(* The output stream. *)

(* do_output_standby(): the reference is told that nobody writes any more. *)
Standby(o) == [o EXCEPT !.standby = TRUE, !.pcm = Null, !.echo = Null]

OutputStandby ==
    /\ out' = IF out.standby THEN out ELSE Standby(out)
    /\ adev' = IF out.standby THEN adev ELSE [adev EXCEPT !.active_output = FALSE]

(* out_standby() *)
OutStandby(t) ==
    /\ at[t] = "out" /\ op[t].name = "out_standby" /\ lock["out"] = Nobody
    /\ OutputStandby
    /\ Finish(t)
    /\ UNCHANGED <<in, refs>>

(* Mutant: the new route is compared after it is stored. *)
OutSetParametersLate(t) ==
    /\ at[t] = "out" /\ op[t].name = "out_set_parameters" /\ lock["out"] = Nobody
    /\ adev' = [adev EXCEPT !.route = op[t].route]
    /\ Finish(t)
    /\ UNCHANGED <<out, in, refs>>

(* out_set_parameters(): the stream is stopped on the way to or from HDMI,  *)
(* to be opened again on the right port by the next write.                  *)
OutSetParameters(t) ==
    /\ at[t] = "out" /\ op[t].name = "out_set_parameters" /\ lock["out"] = Nobody
    /\ LET val  == op[t].route
           hdmi == (val = "AUX_DIGITAL") # (adev.route = "AUX_DIGITAL")
       IN IF adev.active_output /\ ~out.standby /\ hdmi
          THEN out' = Standby(out) /\ adev' = [adev EXCEPT !.route = val, !.active_output = FALSE]
          ELSE adev' = [adev EXCEPT !.route = val] /\ UNCHANGED out
    /\ Finish(t)
    /\ UNCHANGED <<in, refs>>

(* Mutant: after pcm_open() failed the stream is still the active one. *)
StartFailsActive(t) ==
    /\ adev' = [adev EXCEPT !.active_output = TRUE]
    /\ Finish(t)
    /\ UNCHANGED <<out, in, refs>>

(* start_output_stream(), when pcm_open() fails: out_write() returns. *)
StartFails(t) ==
    /\ adev' = [adev EXCEPT !.active_output = FALSE]
    /\ Finish(t)
    /\ UNCHANGED <<out, in, refs>>

(* Mutant: a stream that starts again does not get the reference back. *)
StartOutputAlone ==
    /\ adev' = [adev EXCEPT !.active_output = TRUE]
    /\ out' = [out EXCEPT !.standby = FALSE, !.pcm = Port[adev.route]]

(* start_output_stream() *)
StartOutput ==
    /\ adev' = [adev EXCEPT !.active_output = TRUE]
    /\ out' = [standby |-> FALSE, pcm |-> Port[adev.route],
               echo |-> IF adev.echo # Null THEN adev.echo ELSE out.echo]

(* out_write(): started if need be; then the mutex of the device is given   *)
(* up before the frames are written, at the pace of the hardware.           *)
OutWrite(t) ==
    /\ at[t] = "out" /\ op[t].name = "out_write" /\ lock["out"] = Nobody
    /\ \/ /\ out.standby /\ StartFails(t)
       \/ /\ IF out.standby THEN StartOutput ELSE UNCHANGED <<adev, out>>
          /\ lock' = [l \in Locks |-> IF l = "out" THEN t
                                      ELSE IF lock[l] = t THEN Nobody ELSE lock[l]]
          /\ Go(t, "writing")
          /\ UNCHANGED <<in, refs, op>>

OutWritten(t) ==
    /\ at[t] = "writing"
    /\ Finish(t)
    /\ UNCHANGED <<adev, out, in, refs>>

-----------------------------------------------------------------------------
(* The echo reference. put_echo_reference() and get_echo_reference() run    *)
(* with the mutexes of the device and of the input held, and take that of   *)
(* the output when a stream is active.                                      *)

OutFree == adev.active_output => lock["out"] = Nobody

(* Mutant: the output is not told. *)
PutOutForgotten(r) == out

(* put_echo_reference(): the output stops writing, the reference goes. *)
PutOut(r) ==
    IF adev.active_output /\ out.echo = r THEN [out EXCEPT !.echo = Null] ELSE out

(* get_echo_reference(), first the reference that is there already ... *)
GetEchoPut(t) ==
    /\ at[t] = "getref"
    /\ IF adev.echo = Null THEN UNCHANGED <<adev, out, refs>>
       ELSE /\ OutFree
            /\ out' = PutOut(adev.echo)
            /\ refs' = refs \ {adev.echo}
            /\ adev' = [adev EXCEPT !.echo = Null]
    /\ Go(t, "create")
    /\ UNCHANGED <<lock, in, op>>

(* ... then a new one, for the active output if there is one. *)
GetEchoCreate(t) ==
    /\ at[t] = "create"
    /\ \/ UNCHANGED <<adev, out, in, refs>>     \* no output, or no reference
       \/ /\ adev.active_output /\ OutFree
          /\ \E r \in Refs \ refs :
               /\ refs' = refs \cup {r}
               /\ adev' = [adev EXCEPT !.echo = r]
               /\ out' = [out EXCEPT !.echo = r]
               /\ in' = [in EXCEPT !.echo = r]
    /\ Go(t, "open")
    /\ UNCHANGED <<lock, op>>

-----------------------------------------------------------------------------
(* The input stream. *)

(* The last part of a call that had the input in standby. *)
EndStandby(t, input) ==
    /\ in' = IF op[t].name = "adev_close_input_stream" THEN NewInput ELSE input
    /\ Finish(t)

(* The call ends, and in_call follows the mode (select_mode()). *)
InCall(t, a) == IF t = "binder" THEN [a EXCEPT !.in_call = (a.mode = "IN_CALL")] ELSE a

(* do_input_standby(): the PCM is closed; a reference is put back, for      *)
(* which the output has to be waited for.                                   *)
InputStandby(t, input) ==
    IF input.standby
    THEN /\ adev' = InCall(t, adev)
         /\ EndStandby(t, input) /\ UNCHANGED <<out, refs>>
    ELSE IF input.echo = Null
    THEN /\ adev' = InCall(t, [adev EXCEPT !.active_input = FALSE])
         /\ EndStandby(t, [input EXCEPT !.standby = TRUE, !.pcm = FALSE])
         /\ UNCHANGED <<out, refs>>
    ELSE /\ adev' = [adev EXCEPT !.active_input = FALSE]
         /\ in' = [input EXCEPT !.pcm = FALSE]
         /\ lock' = [lock EXCEPT !["in"] = t]
         /\ Go(t, "putref")
         /\ UNCHANGED <<out, refs, op>>

PutEcho(t) ==
    /\ at[t] = "putref" /\ OutFree
    /\ IF in.echo = adev.echo
       THEN /\ out' = PutOut(in.echo)
            /\ refs' = refs \ {in.echo}
            /\ adev' = InCall(t, [adev EXCEPT !.echo = Null])
       ELSE adev' = InCall(t, adev) /\ UNCHANGED <<out, refs>>
    /\ EndStandby(t, [in EXCEPT !.echo = Null, !.standby = TRUE])

(* in_standby(), adev_close_input_stream(), and in_set_parameters() with a  *)
(* source or a device that is new. (One that is not changes nothing.)       *)
InStandby(t) ==
    /\ at[t] = "in" /\ lock["in"] = Nobody
    /\ op[t].name \in {"in_standby", "in_set_parameters", "adev_close_input_stream"}
    /\ InputStandby(t, in)

(* in_add_audio_effect(), in_remove_audio_effect(): the echo canceller has  *)
(* the input start again, with or without a reference.                      *)
ChangeEffect(t) ==
    /\ at[t] = "in" /\ lock["in"] = Nobody
    /\ op[t].name \in {"in_add_audio_effect", "in_remove_audio_effect"}
    /\ LET e   == op[t].effect
           add == op[t].name = "in_add_audio_effect"
           changed == [in EXCEPT
               !.preprocessors = IF add THEN @ \cup {e} ELSE @ \ {e},
               !.need = IF e = AEC THEN add ELSE @]
       IN IF add = (e \in in.preprocessors) THEN Finish(t) /\ UNCHANGED <<adev, out, in, refs>>
          ELSE IF e = AEC THEN InputStandby(t, changed)
          ELSE in' = changed /\ Finish(t) /\ UNCHANGED <<adev, out, refs>>

(* in_read() *)
InRead(t) ==
    /\ at[t] = "in" /\ op[t].name = "in_read" /\ lock["in"] = Nobody
    /\ IF in.standby
       THEN /\ lock' = [lock EXCEPT !["in"] = t]
            /\ adev' = [adev EXCEPT !.active_input = TRUE]
            /\ Go(t, IF in.need /\ in.echo = Null THEN "getref" ELSE "open")
       ELSE /\ lock' = [lock EXCEPT !["device"] = Nobody, !["in"] = t]
            /\ Go(t, "reading")
            /\ UNCHANGED adev
    /\ UNCHANGED <<out, in, refs, op>>

(* Mutant: the active input is noted when the PCM is open. *)
OpenInputUnnoted(t) ==
    /\ at[t] = "open"
    /\ in' = [in EXCEPT !.standby = FALSE, !.pcm = TRUE]
    /\ adev' = [adev EXCEPT !.active_input = FALSE]
    /\ lock' = [lock EXCEPT !["device"] = Nobody]
    /\ Go(t, "reading")
    /\ UNCHANGED <<out, refs, op>>

(* start_input_stream(): pcm_open(), which may fail. The reference stays    *)
(* where it is then, and in_read() sleeps with the input's mutex.           *)
OpenInput(t) ==
    /\ at[t] = "open"
    /\ \/ in' = [in EXCEPT !.standby = FALSE, !.pcm = TRUE] /\ UNCHANGED adev
       \/ adev' = [adev EXCEPT !.active_input = FALSE] /\ UNCHANGED in
    /\ lock' = [lock EXCEPT !["device"] = Nobody]
    /\ Go(t, "reading")
    /\ UNCHANGED <<out, refs, op>>

InReadDone(t) ==
    /\ at[t] = "reading"
    /\ Finish(t)
    /\ UNCHANGED <<adev, out, in, refs>>

-----------------------------------------------------------------------------
(* The mode. *)

(* adev_set_mode(), select_mode(): entering or leaving a call stops all. *)
SetMode(t) ==
    /\ at[t] = "mode"
    /\ LET call == op[t].mode = "IN_CALL" IN
       IF op[t].mode # adev.mode /\ call # adev.in_call
       THEN adev' = [adev EXCEPT !.mode = op[t].mode, !.in_call = FALSE]
            /\ Go(t, "forceout") /\ UNCHANGED <<lock, op>>
       ELSE adev' = [adev EXCEPT !.mode = op[t].mode] /\ Finish(t)
    /\ UNCHANGED <<out, in, refs>>

(* force_all_standby(), first the output ... *)
ForceOutput(t) ==
    /\ at[t] = "forceout" /\ OutFree
    /\ IF adev.active_output THEN OutputStandby ELSE UNCHANGED <<adev, out>>
    /\ Go(t, "forcein")
    /\ UNCHANGED <<lock, in, refs, op>>

(* ... then the input. *)
ForceInput(t) ==
    /\ at[t] = "forcein"
    /\ IF adev.active_input
       THEN lock["in"] = Nobody /\ InputStandby(t, in)
       ELSE adev' = InCall(t, adev) /\ Finish(t) /\ UNCHANGED <<out, in, refs>>

-----------------------------------------------------------------------------
(* Everything but the start of a call. *)
AudioStep(t) ==
    \/ OutStandby(t) \/ OutSetParameters(t) \/ OutWrite(t) \/ OutWritten(t)
    \/ InStandby(t) \/ ChangeEffect(t) \/ InRead(t)
    \/ GetEchoPut(t) \/ GetEchoCreate(t) \/ OpenInput(t) \/ InReadDone(t) \/ PutEcho(t)
    \/ SetMode(t) \/ ForceOutput(t) \/ ForceInput(t)

AudioNext == \E t \in AudioThreads : CallAudio(t) \/ AudioStep(t)

AudioSpec == AudioInit /\ [][AudioNext]_audioVars

-----------------------------------------------------------------------------
(* Properties. *)

Labels == {"idle", "out", "in", "mode", "writing", "getref", "create", "open",
           "reading", "putref", "forceout", "forcein"}

(* Every variable keeps to the values the program gives it. *)
AudioTypeOK ==
    /\ lock \in [Locks -> AudioThreads \cup {Nobody}]
    /\ adev \in [mode : Modes, route : Routes, in_call : BOOLEAN,
                 active_output : BOOLEAN, active_input : BOOLEAN, echo : Refs \cup {Null}]
    /\ out \in [standby : BOOLEAN, pcm : {Port[r] : r \in Routes} \cup {Null},
                echo : Refs \cup {Null}]
    /\ in \in [standby : BOOLEAN, pcm : BOOLEAN, echo : Refs \cup {Null}, need : BOOLEAN,
               preprocessors : SUBSET Effects]
    /\ refs \subseteq Refs
    /\ at \in [AudioThreads -> Labels]

(* Whichever streams start, fail to start, stop or are closed, in whatever  *)
(* order: at most one echo reference exists, the device knows it, and       *)
(* neither stream ever uses one that was released.                          *)
EchoRefSound ==
    /\ refs = {adev.echo} \ {Null}
    /\ {in.echo, out.echo} \subseteq {adev.echo, Null}

(* A running canceller and a running output work on the same reference,     *)
(* also after the output went through standby in between. Of a canceller    *)
(* started with no output active, which has no reference, it says nothing.  *)
EchoBothSides ==
    (~in.standby /\ in.echo # Null /\ ~out.standby) => out.echo = in.echo

(* With the device's mutex free, a stream is the active one if and only if  *)
(* it is not in standby, and its PCM is open if and only if it is not: a    *)
(* mode change or a new echo canceller finds every running stream.          *)
ActiveRuns ==
    lock["device"] = Nobody =>
        /\ adev.active_output = ~out.standby /\ (out.pcm # Null) = ~out.standby
        /\ adev.active_input = ~in.standby /\ in.pcm = ~in.standby

(* An output that plays to HDMI has the HDMI port open, and no other.       *)
HdmiRouted ==
    ~out.standby => (out.pcm = "PORT_SPDIF") = (adev.route = "AUX_DIGITAL")

(* Whoever holds the mutex of the device gives it up again, although it may *)
(* wait for a stream's mutex, which is held while frames are written or     *)
(* read: a stream that works on end cannot keep the others out, since it    *)
(* needs the device's mutex for its next frames.                            *)
DeviceReleased ==
    \A t \in AudioThreads : lock["device"] = t ~> lock["device"] # t
=============================================================================
