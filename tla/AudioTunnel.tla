---------------------------- MODULE AudioTunnel ----------------------------
(****************************************************************************)
(* The voice audio tunnel between the modem's audio port and the phone      *)
(* (huawei-generic/audiochannel.cpp; startAudioTunnel() and                 *)
(* stopAudioTunnel() of huaweigeneric-ril.c).                               *)
(*                                                                          *)
(* The runner starts and stops it; a record thread and a playback thread of *)
(* the media library call back with buffers of any length, which are cut    *)
(* into frames for the modem and put together from frames of the modem. The *)
(* port is not waited for: it may take less than a frame, or give less. A   *)
(* write or read of an odd number of bytes, half a sample, is left out.     *)
(****************************************************************************)
EXTENDS Integers, Sequences

CONSTANTS
    FrameSize,      \* samples in a frame of the modem
    Counts,         \* the lengths of a callback's buffer
    MaxSamples,     \* bound: samples recorded, and frames played
    MayFallSilent   \* the modem may stop sending audio

ASSUME TunnelAssumption ==
    /\ FrameSize \in Nat \ {0} /\ Counts \subseteq Nat /\ MaxSamples \in Nat
    /\ MayFallSilent \in BOOLEAN

VARIABLES
    (* struct GsmAudioTunnel *)
    running, quit_flag, rec_thread_exited, play_thread_exited,
    rec_buf,            \* the samples in it, and while frames are sent those to come
    play_buf,           \* the samples in it; their length is play_buf_count
    buffers,            \* they are allocated, and the descriptor is open
    streams,            \* the AudioRecord and AudioTrack that exist
    (* the threads *)
    stopper,            \* where the runner is in gsm_audio_tunnel_stop()
    record, play,       \* where the callbacks are
    need,               \* the samples the playback callback still has to give
    (* the modem *)
    silent,             \* it sends no audio any more
    recorded, sent,     \* history: samples from the microphone; what the modem got
    refused,            \* history: how many samples its port did not take
    received, played    \* history: samples from the modem; what the phone played

ctx      == <<running, quit_flag, rec_thread_exited, play_thread_exited, rec_buf,
              play_buf, buffers, streams>>
audio    == <<silent, recorded, sent, refused, received, played>>
tunnelVars == <<ctx, stopper, record, play, need, audio>>

TunnelInit ==
    /\ running = FALSE /\ quit_flag = FALSE
    /\ rec_thread_exited = FALSE /\ play_thread_exited = FALSE
    /\ rec_buf = <<>> /\ play_buf = <<>> /\ buffers = FALSE /\ streams = {}
    /\ stopper = "idle" /\ record = "idle" /\ play = "idle" /\ need = 0
    /\ silent = FALSE
    /\ recorded = 0 /\ sent = <<>> /\ refused = 0 /\ received = 0 /\ played = <<>>

(* The samples of a direction are numbered from 1. *)
Samples(from, n) == [i \in 1 .. n |-> from + i]

Silence == 0

-----------------------------------------------------------------------------
(* The runner. *)

(* startAudioTunnel(), gsm_audio_tunnel_start(): when a command, the port   *)
(* or a stream fails, all that was made is released, and nothing has        *)
(* changed.                                                                 *)
StartTunnel ==
    /\ stopper = "idle" /\ ~running
    /\ running' = TRUE /\ quit_flag' = FALSE
    /\ rec_thread_exited' = FALSE /\ play_thread_exited' = FALSE
    /\ rec_buf' = <<>> /\ play_buf' = <<>>
    /\ buffers' = TRUE /\ streams' = {"record", "play"}
    /\ recorded' = 0 /\ sent' = <<>> /\ refused' = 0 /\ received' = 0 /\ played' = <<>>
    /\ UNCHANGED <<stopper, record, play, need, silent>>

StopTunnel ==
    /\ stopper = "idle" /\ running
    /\ quit_flag' = TRUE
    /\ stopper' = "waiting"
    /\ UNCHANGED <<running, rec_thread_exited, play_thread_exited, rec_buf, play_buf,
                   buffers, streams, record, play, need, audio>>

(* Both callbacks have seen quit_flag, or ten seconds each have passed. *)
StopWaiting ==
    /\ stopper = "waiting"
    /\ stopper' = "deletetrack"
    /\ UNCHANGED <<ctx, record, play, need, audio>>

(* Mutant: the buffers are freed with the streams still there. *)
DeleteTrackAndFree ==
    /\ stopper = "deletetrack" /\ play = "idle"
    /\ streams' = streams \ {"play"}
    /\ buffers' = FALSE
    /\ stopper' = "deleterecord"
    /\ UNCHANGED <<running, quit_flag, rec_thread_exited, play_thread_exited, rec_buf,
                   play_buf, record, play, need, audio>>

(* stop() and delete: the destructor waits for the stream's thread. *)
DeleteTrack ==
    /\ stopper = "deletetrack" /\ play = "idle"
    /\ streams' = streams \ {"play"}
    /\ stopper' = "deleterecord"
    /\ UNCHANGED <<running, quit_flag, rec_thread_exited, play_thread_exited, rec_buf,
                   play_buf, buffers, record, play, need, audio>>

DeleteRecord ==
    /\ stopper = "deleterecord" /\ record = "idle"
    /\ streams' = streams \ {"record"}
    /\ stopper' = "free"
    /\ UNCHANGED <<running, quit_flag, rec_thread_exited, play_thread_exited, rec_buf,
                   play_buf, buffers, record, play, need, audio>>

(* The buffers, the descriptor, and memset() of the whole structure. *)
FreeTunnel ==
    /\ stopper = "free"
    /\ running' = FALSE /\ quit_flag' = FALSE
    /\ rec_thread_exited' = FALSE /\ play_thread_exited' = FALSE
    /\ rec_buf' = <<>> /\ play_buf' = <<>> /\ buffers' = FALSE
    /\ stopper' = "idle"
    /\ recorded' = 0 /\ sent' = <<>> /\ refused' = 0 /\ received' = 0 /\ played' = <<>>
    /\ UNCHANGED <<streams, record, play, need, silent>>

-----------------------------------------------------------------------------
(* AndroidRecorderCallback() *)

RecordCallback ==
    /\ record = "idle" /\ "record" \in streams
    /\ IF quit_flag THEN rec_thread_exited' = TRUE /\ UNCHANGED record
                    ELSE record' = "callback" /\ UNCHANGED rec_thread_exited
    /\ UNCHANGED <<running, quit_flag, play_thread_exited, rec_buf, play_buf, buffers,
                   streams, stopper, play, need, audio>>

(* Mutant: a frame that is just full is not sent. *)
SendingFuller(samples) ==
    /\ rec_buf' = samples
    /\ record' = IF Len(samples) <= FrameSize THEN "idle" ELSE "modemAudioOut"

(* As long as there is a whole frame it is sent; the rest stays in rec_buf. *)
Sending(samples) ==
    /\ rec_buf' = samples
    /\ record' = IF Len(samples) < FrameSize THEN "idle" ELSE "modemAudioOut"

(* Mutant: the samples left over are overwritten when no frame is full yet. *)
RecordedLost ==
    /\ record = "callback"
    /\ \E n \in Counts :
         /\ recorded + n <= MaxSamples /\ recorded' = recorded + n
         /\ Sending(IF Len(rec_buf) + n < FrameSize THEN Samples(recorded, n)
                    ELSE rec_buf \o Samples(recorded, n))
    /\ UNCHANGED <<running, quit_flag, rec_thread_exited, play_thread_exited, play_buf,
                   buffers, streams, stopper, play, need, silent, sent, refused, received,
                   played>>

(* The samples are put behind those left over. *)
Recorded ==
    /\ record = "callback"
    /\ \E n \in Counts :
         /\ recorded + n <= MaxSamples /\ recorded' = recorded + n
         /\ Sending(rec_buf \o Samples(recorded, n))
    /\ UNCHANGED <<running, quit_flag, rec_thread_exited, play_thread_exited, play_buf,
                   buffers, streams, stopper, play, need, silent, sent, refused, received,
                   played>>

(* modemAudioOut() for the next whole frame: write() on a port opened with  *)
(* O_NONBLOCK takes what it has room for, or fails. Nobody looks at the     *)
(* result, and what it did not take is gone.                                *)
ModemAudioOut ==
    /\ record = "modemAudioOut"
    /\ \E k \in 0 .. FrameSize :
         /\ sent' = sent \o SubSeq(rec_buf, 1, k)
         /\ refused' = refused + FrameSize - k
    /\ Sending(SubSeq(rec_buf, FrameSize + 1, Len(rec_buf)))
    /\ UNCHANGED <<running, quit_flag, rec_thread_exited, play_thread_exited, play_buf,
                   buffers, streams, stopper, play, need, silent, recorded, received, played>>

-----------------------------------------------------------------------------
(* AndroidPlayerCallback() *)

Fewer(a, b) == IF a < b THEN a ELSE b

(* First what is left over from the last frame. *)
PlayCallback ==
    /\ play = "idle" /\ "play" \in streams
    /\ IF quit_flag
       THEN /\ play_thread_exited' = TRUE
            /\ UNCHANGED <<play, need, play_buf, played>>
       ELSE \E n \in Counts :
            LET k == Fewer(n, Len(play_buf)) IN
            /\ Len(played) + n <= MaxSamples
            /\ played' = played \o SubSeq(play_buf, 1, k)
            /\ play_buf' = SubSeq(play_buf, k + 1, Len(play_buf))
            /\ need' = n - k
            /\ play' = IF n = k THEN "idle" ELSE "modemAudioIn"
            /\ UNCHANGED play_thread_exited
    /\ UNCHANGED <<running, quit_flag, rec_thread_exited, rec_buf, buffers, streams,
                   stopper, record, silent, recorded, sent, refused, received>>

(* A frame of which the modem gave so many samples, completed with silence. *)
Frame(got) == [i \in 1 .. FrameSize |-> IF i <= got THEN received + i ELSE Silence]

(* modemAudioIn() gets a frame: read() on a port opened with O_NONBLOCK     *)
(* fails with EAGAIN, and is tried again, until the modem sends some of it, *)
(* or fails for another reason. What is not needed stays in play_buf.       *)
ModemAudioIn ==
    /\ play = "modemAudioIn" /\ ~silent
    /\ \E got \in 0 .. FrameSize :
         LET k == Fewer(need, FrameSize) IN
         /\ received' = received + got
         /\ played' = played \o SubSeq(Frame(got), 1, k)
         /\ play_buf' = SubSeq(Frame(got), k + 1, FrameSize)
         /\ need' = need - k
         /\ play' = IF need = k THEN "idle" ELSE "modemAudioIn"
    /\ UNCHANGED <<running, quit_flag, rec_thread_exited, play_thread_exited, rec_buf,
                   buffers, streams, stopper, record, silent, recorded, sent, refused>>

(* External: the call is over, and the modem sends no more audio. *)
FallSilent ==
    /\ MayFallSilent /\ ~silent
    /\ silent' = TRUE
    /\ UNCHANGED <<ctx, stopper, record, play, need, recorded, sent, refused, received, played>>

-----------------------------------------------------------------------------
StopStep == StopWaiting \/ DeleteTrack \/ DeleteRecord \/ FreeTunnel
PlayStep == PlayCallback \/ ModemAudioIn

TunnelNext ==
    \/ StartTunnel \/ StopTunnel \/ StopStep
    \/ RecordCallback \/ Recorded \/ ModemAudioOut \/ PlayStep
    \/ FallSilent

(* Each thread runs when it can. *)
TunnelSpec ==
    /\ TunnelInit /\ [][TunnelNext]_tunnelVars
    /\ WF_tunnelVars(StopStep) /\ WF_tunnelVars(ModemAudioIn)
    /\ WF_tunnelVars(Recorded \/ ModemAudioOut)

-----------------------------------------------------------------------------
(* Properties. *)

(* Every variable keeps to the values the program gives it. *)
TunnelTypeOK ==
    /\ {running, quit_flag, rec_thread_exited, play_thread_exited, buffers, silent}
         \subseteq BOOLEAN
    /\ (record = "modemAudioOut") = (Len(rec_buf) >= FrameSize)
    /\ Len(play_buf) < FrameSize
    /\ streams \subseteq {"record", "play"}
    /\ stopper \in {"idle", "waiting", "deletetrack", "deleterecord", "free"}
    /\ record \in {"idle", "callback", "modemAudioOut"} /\ play \in {"idle", "modemAudioIn"}
    /\ {need, recorded, refused, received} \subseteq Nat

(* However long a callback takes, and even if stop has given up waiting for *)
(* it, it never runs on buffers that are freed.                             *)
CallbackHasBuffers == (record # "idle" \/ play # "idle") => buffers

(* Samples, none of them twice or before an earlier one, and silence. *)
Ascending(s) == \A i, j \in 1 .. Len(s) : i < j /\ s[j] # Silence => s[i] < s[j]

(* The microphone's samples up to the last frame that was cut off; what the *)
(* phone has heard, or will from play_buf.                                  *)
Done  == recorded - Len(rec_buf)
Heard == played \o play_buf

(* Whatever lengths come after one another, and however much of each frame  *)
(* the port takes or gives: the microphone's samples are cut into whole     *)
(* frames, the modem gets them in order and none twice, and lacks only what *)
(* its port refused; the phone hears every sample of the modem once and in  *)
(* order, with silence in between to make up whole frames.                  *)
SamplesInOrder ==
    /\ rec_buf = Samples(Done, Len(rec_buf)) /\ Done % FrameSize = 0
    /\ Ascending(sent) /\ \A i \in 1 .. Len(sent) : sent[i] \in 1 .. Done
    /\ Len(sent) + refused = Done
    /\ Ascending(Heard) /\ Len(Heard) % FrameSize = 0
    /\ {Heard[i] : i \in 1 .. Len(Heard)} \ {Silence} = 1 .. received

(* "If some samples missing, complete them with silence"                    *)
(* (audiochannel.cpp:98): a playback callback that gets no samples returns. *)
SilenceCompletes == play = "modemAudioIn" ~> play = "idle"
=============================================================================
