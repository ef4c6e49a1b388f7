---------------------------- MODULE AudioCapture ----------------------------
(****************************************************************************)
(* How in_read() of the audio HAL counts frames when the input has          *)
(* preprocessors (audio/audio_hw.c: process_frames(), read_frames(),        *)
(* push_echo_reference()). Frames come from the kernel a period at a time,  *)
(* wait in one buffer for the preprocessors, and the frames of the echo     *)
(* reference in another; what one read leaves over the next one finds.      *)
(****************************************************************************)
EXTENDS Integers

CONSTANTS
    Period,         \* config.period_size
    Requests,       \* the numbers of frames a read may ask for
    Dry             \* bound: how often in a row the effects produce nothing

ASSUME CaptureAssumption ==
    /\ Period \in Nat \ {0} /\ Requests \subseteq Nat \ {0} /\ Dry \in Nat

VARIABLES
    frames_in,                          \* frames of the last period not used yet
    proc_frames_in, proc_buf_size,      \* captured and not processed
    ref_frames_in, ref_buf_size,        \* of the echo reference
    frames, frames_wr,                  \* of this read: wanted, and written
    dry, step

captureVars == <<frames_in, proc_frames_in, proc_buf_size, ref_frames_in, ref_buf_size,
                 frames, frames_wr, dry, step>>

CaptureInit ==
    /\ frames_in = 0 /\ proc_frames_in = 0 /\ proc_buf_size = 0
    /\ ref_frames_in = 0 /\ ref_buf_size = 0
    /\ frames = 0 /\ frames_wr = 0 /\ dry = 0 /\ step = "idle"

Larger(a, b)  == IF a > b THEN a ELSE b
Smaller(a, b) == IF a < b THEN a ELSE b

(* in_read() calls process_frames(). *)
StartRead ==
    /\ step = "idle"
    /\ frames' \in Requests
    /\ frames_wr' = 0 /\ dry' = 0 /\ step' = "reload"
    /\ UNCHANGED <<frames_in, proc_frames_in, proc_buf_size, ref_frames_in, ref_buf_size>>

(* What read_frames() leaves of the last period after n frames: get_next_   *)
(* buffer() reads another whenever none is left.                            *)
LeftOver(n) == (frames_in - n) % Period

(* Mutant: the buffer grows by what is missing only. *)
ReloadGrowsLess ==
    /\ step = "reload" /\ proc_frames_in < frames
    /\ proc_buf_size' = Larger(proc_buf_size, frames - proc_frames_in)
    /\ \/ /\ proc_frames_in' = frames
          /\ frames_in' = LeftOver(frames - proc_frames_in)
          /\ step' = "push"
       \/ /\ frames - proc_frames_in > frames_in
          /\ frames_in' = 0 /\ step' = "idle" /\ UNCHANGED proc_frames_in
    /\ UNCHANGED <<ref_frames_in, ref_buf_size, frames, frames_wr, dry>>

(* The buffer is filled up to the frames wanted, and grows for it. When     *)
(* pcm_read() fails, the read ends, and what it had got is lost.            *)
Reload ==
    /\ step = "reload" /\ proc_frames_in < frames
    /\ proc_buf_size' = Larger(proc_buf_size, frames)
    /\ \/ /\ proc_frames_in' = frames
          /\ frames_in' = LeftOver(frames - proc_frames_in)
          /\ step' = "push"
       \/ /\ frames - proc_frames_in > frames_in
          /\ frames_in' = 0 /\ step' = "idle" /\ UNCHANGED proc_frames_in
    /\ UNCHANGED <<ref_frames_in, ref_buf_size, frames, frames_wr, dry>>

ReloadNot ==
    /\ step = "reload" /\ proc_frames_in >= frames
    /\ step' = "push"
    /\ UNCHANGED <<frames_in, proc_frames_in, proc_buf_size, ref_frames_in, ref_buf_size,
                   frames, frames_wr, dry>>

(* push_echo_reference(), or no reference: as many frames of the reference  *)
(* as were captured, unless read() of the reference fails; the effects take *)
(* some of them.                                                            *)
PushEchoReference ==
    /\ step = "push"
    /\ \/ UNCHANGED <<ref_frames_in, ref_buf_size>>
       \/ LET n == proc_frames_in IN
          /\ ref_buf_size' = IF ref_frames_in < n THEN Larger(ref_buf_size, n) ELSE ref_buf_size
          /\ \E got \in {ref_frames_in, Larger(ref_frames_in, n)} :
             \E used \in 0 .. Smaller(got, n) : ref_frames_in' = got - used
    /\ step' = "process"
    /\ UNCHANGED <<frames_in, proc_frames_in, proc_buf_size, frames, frames_wr, dry>>

(* The effects consume and produce what they like, within what they are     *)
(* offered; without output, more is read.                                   *)
Process ==
    /\ step = "process"
    /\ \E consumed \in 0 .. proc_frames_in, produced \in 0 .. frames - frames_wr :
         /\ produced = 0 => dry < Dry
         /\ dry' = IF produced = 0 THEN dry + 1 ELSE 0
         /\ proc_frames_in' = proc_frames_in - consumed
         /\ frames_wr' = frames_wr + produced
         /\ step' = IF frames_wr + produced < frames THEN "reload" ELSE "idle"
    /\ UNCHANGED <<frames_in, proc_buf_size, ref_frames_in, ref_buf_size, frames>>

(* do_input_standby() and start_input_stream() between two reads: with a    *)
(* resampler the rest of the period is dropped, the other buffers are kept. *)
Restart ==
    /\ step = "idle"
    /\ frames_in' = 0
    /\ UNCHANGED <<proc_frames_in, proc_buf_size, ref_frames_in, ref_buf_size, frames,
                   frames_wr, dry, step>>

CaptureNext ==
    StartRead \/ Reload \/ ReloadNot \/ PushEchoReference \/ Process \/ Restart

CaptureSpec == CaptureInit /\ [][CaptureNext]_captureVars

(* Every variable keeps to the values the program gives it. *)
CaptureTypeOK ==
    /\ \A n \in {frames_in, proc_frames_in, proc_buf_size, ref_frames_in, ref_buf_size,
                 frames, frames_wr, dry} : n \in Nat
    /\ step \in {"idle", "reload", "push", "process"}

(* No sequence of reads of different lengths, failed reads and restarts     *)
(* makes a count larger than its buffer: the writes at proc_buf +           *)
(* proc_frames_in, ref_buf + ref_frames_in and buffer + frames_wr stay      *)
(* inside, and a read never gives more than it was asked for.               *)
CaptureInside ==
    /\ frames_in < Period
    /\ proc_frames_in <= proc_buf_size
    /\ ref_frames_in <= ref_buf_size
    /\ frames_wr <= frames
=============================================================================
