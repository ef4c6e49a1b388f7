----------------------------- MODULE MCDevices -----------------------------
(****************************************************************************)
(* The device HALs, which share no state: the audio HAL's streams, the      *)
(* frames a read of it counts, the voice tunnel, the camera, the GPS and    *)
(* its line reader. A behaviour is one of one part; the others stay in      *)
(* their initial state.                                                     *)
(****************************************************************************)
EXTENDS AudioHal, AudioCapture, AudioTunnel, Camera, Gps, NmeaReader

CONSTANTS e1, e2

VARIABLE part

halRest     == <<part, captureVars, tunnelVars, cameraVars, gpsVars, nmeaVars>>
captureRest == <<part, audioVars, tunnelVars, cameraVars, gpsVars, nmeaVars>>
tunnelRest  == <<part, audioVars, captureVars, cameraVars, gpsVars, nmeaVars>>
cameraRest  == <<part, audioVars, captureVars, tunnelVars, gpsVars, nmeaVars>>
gpsRest     == <<part, audioVars, captureVars, tunnelVars, cameraVars, nmeaVars>>
nmeaRest    == <<part, audioVars, captureVars, tunnelVars, cameraVars, gpsVars>>
vars        == <<audioVars, halRest>>

Init ==
    /\ part \in {"hal", "capture", "tunnel", "camera", "gps", "nmea"}
    /\ AudioInit /\ CaptureInit /\ TunnelInit /\ CameraInit /\ GpsInit /\ NmeaInit
    (* the parts that stay where they are need one initial state *)
    /\ part # "camera" => mParameters = [use \in {"preview", "video", "picture"} |-> 1]
    /\ part # "gps" => tmrThread = CHOOSE t \in Timers : TRUE

Next ==
    \/ part = "hal" /\ AudioNext /\ UNCHANGED halRest
    \/ part = "capture" /\ CaptureNext /\ UNCHANGED captureRest
    \/ part = "tunnel" /\ TunnelNext /\ UNCHANGED tunnelRest
    \/ part = "camera" /\ CameraNext /\ UNCHANGED cameraRest
    \/ part = "gps" /\ GpsNext /\ UNCHANGED gpsRest
    \/ part = "nmea" /\ NmeaNext /\ UNCHANGED nmeaRest

(* A call, once made, goes on whenever it can; nobody need make another. A  *)
(* notice of the GPS ends: the framework's callbacks return.                *)
Fairness ==
    /\ \A t \in AudioThreads : WF_vars(part = "hal" /\ AudioStep(t) /\ UNCHANGED halRest)
    /\ WF_vars(part = "camera" /\ PreviewStep /\ UNCHANGED cameraRest)
    /\ WF_vars(part = "camera" /\ PreviewStopped /\ UNCHANGED cameraRest)
    /\ \A p \in Pictures : WF_vars(part = "camera" /\ PictureStopped(p) /\ UNCHANGED cameraRest)
    /\ WF_vars(part = "gps" /\ Running /\ SessionEnd /\ UNCHANGED gpsRest)
    /\ \A t \in Timers : WF_vars(part = "gps" /\ Running /\ TimerStep(t) /\ UNCHANGED gpsRest)
    /\ WF_vars(part = "gps" /\ Running /\ UNCHANGED gpsRest
               /\ \E kind \in Kinds : NoticeCallback(kind) \/ NoticeEnds(kind))

Spec == Init /\ [][Next]_vars /\ Fairness

(* Every variable of each part keeps to the values the program gives it. *)
TypeOK ==
    /\ AudioTypeOK /\ CaptureTypeOK /\ TunnelTypeOK
    /\ CameraTypeOK /\ GpsTypeOK /\ NmeaTypeOK
=============================================================================
