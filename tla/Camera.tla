------------------------------- MODULE Camera -------------------------------
(****************************************************************************)
(* The camera HAL (libcamera/CameraHardware.cpp, V4L2Camera.cpp): one       *)
(* mutex, the application's calls, the preview thread, and a thread for     *)
(* each picture. Whoever stops the preview holds the mutex until the        *)
(* preview thread has ended.                                                *)
(*                                                                          *)
(* A size stands for width, height and format of a frame; a heap is its     *)
(* size. Out of memory is left out, and a callback that starts or stops the *)
(* preview itself: the calls of a callback are those that only look, under  *)
(* the mutex, as isPreviewEnabled() or getParameters().                     *)
(****************************************************************************)
EXTENDS Naturals

CONSTANTS
    Sizes,          \* the sizes an application may ask for
    Pictures        \* threads that take a picture

ASSUME CameraAssumption ==
    /\ Sizes \subseteq Nat \ {0} /\ Sizes # {}
    /\ Pictures \cap {"free", "app", "preview", "none"} = {}

VARIABLES
    mLock,          \* who holds the mutex
    mPreviewThread, \* there is a preview thread
    exitPending,    \* it was asked to end
    mParameters,    \* the sizes of preview, video and picture
    mRecordingEnabled, mMsgVideo,   \* mMsgEnabled & CAMERA_MSG_VIDEO_FRAME
    heaps,          \* what the heaps were made for; 0 before the first time
    camera,         \* the V4L2 device: open, streaming, and the frame's size
    stalled,        \* it gives no more frames: VIDIOC_DQBUF does not return
    previewAt, appAt, pictureAt,    \* where the threads are
    jpegSent,       \* the picture threads that have a JPEG to give
    jpegOf          \* whose picture the JPEG heap holds

hw      == <<mParameters, mRecordingEnabled, mMsgVideo>>
preview == <<mPreviewThread, exitPending, previewAt>>
picture == <<pictureAt, jpegSent>>
cameraVars == <<mLock, preview, hw, heaps, camera, stalled, appAt, picture, jpegOf>>

Closed == [open |-> FALSE, streaming |-> FALSE, size |-> 0]

CameraInit ==
    /\ mLock = "free" /\ mPreviewThread = FALSE /\ exitPending = FALSE
    /\ mParameters \in [{"preview", "video", "picture"} -> Sizes]
    /\ mRecordingEnabled = FALSE /\ mMsgVideo = FALSE
    /\ heaps = [raw |-> 0, preview |-> 0, video |-> 0, picture |-> 0]
    /\ camera = Closed /\ stalled = FALSE
    /\ previewAt = "none" /\ appAt = "idle"
    /\ pictureAt = [p \in Pictures |-> "idle"]
    /\ jpegSent = {} /\ jpegOf = "none"

-----------------------------------------------------------------------------
(* initHeapLocked() *)

(* While it records, the camera captures in the size of the video. *)
RawSize(rec, msg, pars) == IF rec /\ msg THEN pars.video ELSE pars.preview

HeapsFor(rec, msg, pars) ==
    [raw     |-> RawSize(rec, msg, pars), preview |-> pars.preview,
     video   |-> pars.video, picture |-> pars.picture]

(* Mutant: only a change of the preview's own size stops it. *)
StopsOwnPreview(rec, msg, pars) == heaps.preview # HeapsFor(rec, msg, pars).preview

(* A heap the preview thread uses would change: it has to be stopped. *)
StopsPreview(rec, msg, pars) ==
    \E h \in {"raw", "preview", "video"} : heaps[h] # HeapsFor(rec, msg, pars)[h]

(* The heaps are made anew where the size changed; the JPEG is gone then. *)
MakeHeaps(rec, msg, pars) ==
    /\ heaps' = HeapsFor(rec, msg, pars)
    /\ jpegOf' = IF heaps.picture = pars.picture THEN jpegOf ELSE "none"

-----------------------------------------------------------------------------
(* startPreviewLocked(): open(), format and buffers, heaps, streaming, and  *)
(* the thread. A step that fails leaves what the steps before it did.       *)

Without(capture) == camera' = capture /\ mPreviewThread' = FALSE /\ previewAt' = "none"

(* Mutant: the thread starts although streaming does not. *)
StreamsAnyway(size) ==
    /\ camera' \in {[open |-> TRUE, streaming |-> s, size |-> size] : s \in BOOLEAN}
    /\ mPreviewThread' = TRUE /\ previewAt' = "loop"

Streams(size) ==
    \/ /\ camera' = [open |-> TRUE, streaming |-> TRUE, size |-> size]
       /\ mPreviewThread' = TRUE /\ previewAt' = "loop"
    \/ Without([open |-> TRUE, streaming |-> FALSE, size |-> size])

(* open() or Init() fails. *)
NoCapture(pars) ==
    /\ \E open \in BOOLEAN : Without([Closed EXCEPT !.open = open])
    /\ mParameters' = pars

(* The device may give a smaller frame: that is then what was asked for. *)
Capture(rec, msg, pars) ==
    LET which == IF rec /\ msg THEN "video" ELSE "preview" IN
    \E given \in {size \in Sizes : size <= pars[which]} :
        LET real == [pars EXCEPT ![which] = given] IN
        mParameters' = real /\ MakeHeaps(rec, msg, real) /\ Streams(given)

-----------------------------------------------------------------------------
(* The application's calls, under the mutex. *)

Unchanged(rec, msg, pars) ==
    rec = mRecordingEnabled /\ msg = mMsgVideo /\ pars = mParameters

(* setParameters(), enableMsgType(), disableMsgType(), startRecording() and *)
(* stopRecording(): the heaps follow; a running preview is stopped for it.  *)
ChangeTo(rec, msg, pars) ==
    /\ appAt = "idle" /\ mLock = "free" /\ ~Unchanged(rec, msg, pars)
    /\ mRecordingEnabled' = rec /\ mMsgVideo' = msg /\ mParameters' = pars
    /\ LET both == (rec \/ mRecordingEnabled) /\ (msg \/ mMsgVideo) IN
       IF pars = mParameters /\ ~both
       THEN UNCHANGED <<mLock, exitPending, appAt, heaps, jpegOf>>   \* no initHeapLocked()
       ELSE IF mPreviewThread /\ StopsPreview(rec, msg, pars)
       THEN /\ mLock' = "app" /\ appAt' = "restart" /\ exitPending' = TRUE
            /\ UNCHANGED <<heaps, jpegOf>>
       ELSE /\ MakeHeaps(rec, msg, pars)
            /\ UNCHANGED <<mLock, appAt, exitPending>>
    /\ UNCHANGED <<mPreviewThread, previewAt, camera, stalled, picture>>

SetParameters ==
    \E pars \in [{"preview", "video", "picture"} -> Sizes] :
        ChangeTo(mRecordingEnabled, mMsgVideo, pars)

EnableMsgType == ChangeTo(mRecordingEnabled, ~mMsgVideo, mParameters)

SwitchRecording == ChangeTo(~mRecordingEnabled, mMsgVideo, mParameters)

StartPreview ==
    /\ appAt = "idle" /\ mLock = "free" /\ ~mPreviewThread
    /\ \/ Capture(mRecordingEnabled, mMsgVideo, mParameters)
       \/ NoCapture(mParameters) /\ UNCHANGED <<heaps, jpegOf>>
    /\ UNCHANGED <<mLock, exitPending, mRecordingEnabled, mMsgVideo, stalled, appAt, picture>>

(* stopPreview(), releaseCamera() *)
StopPreview ==
    /\ appAt = "idle" /\ mLock = "free" /\ mPreviewThread
    /\ mLock' = "app" /\ appAt' = "stop" /\ exitPending' = TRUE
    /\ UNCHANGED <<mPreviewThread, previewAt, hw, heaps, camera, stalled, picture, jpegOf>>

(* requestExitAndWait() returns, Uninit() takes the frames still queued,    *)
(* and the camera is closed. If only the heaps had to change, they are      *)
(* made, and the preview starts again.                                      *)
PreviewStopped ==
    /\ appAt \in {"stop", "restart"} /\ previewAt = "none" /\ ~stalled
    /\ exitPending' = FALSE
    /\ \/ /\ appAt = "stop" /\ Without(Closed)
          /\ UNCHANGED <<mParameters, heaps, jpegOf>>
       \/ appAt = "restart" /\ Capture(mRecordingEnabled, mMsgVideo, mParameters)
       \/ /\ appAt = "restart" /\ NoCapture(mParameters)
          /\ MakeHeaps(mRecordingEnabled, mMsgVideo, mParameters)
    /\ mLock' = "free" /\ appAt' = "idle"
    /\ UNCHANGED <<mRecordingEnabled, mMsgVideo, stalled, picture>>

TakePicture(p) ==
    /\ pictureAt[p] = "idle"
    /\ pictureAt' = [pictureAt EXCEPT ![p] = "start"]
    /\ UNCHANGED <<mLock, preview, hw, heaps, camera, stalled, appAt, jpegSent, jpegOf>>

-----------------------------------------------------------------------------
(* previewThread() *)

previewRest == <<mPreviewThread, exitPending, hw, heaps, camera, stalled, appAt, picture, jpegOf>>

(* Mutant: it waits for the mutex. *)
PreviewTurnLocks ==
    /\ previewAt = "loop" /\ mLock = "free"
    /\ IF exitPending THEN previewAt' = "none" /\ UNCHANGED mLock
       ELSE mLock' = "preview" /\ previewAt' = "grab"
    /\ UNCHANGED previewRest

(* The thread only tries to lock, and in between looks whether to end. *)
PreviewTurn ==
    /\ previewAt = "loop"
    /\ IF exitPending THEN previewAt' = "none" /\ UNCHANGED mLock
       ELSE mLock = "free" /\ mLock' = "preview" /\ previewAt' = "grab"
    /\ UNCHANGED previewRest

(* A frame is captured, converted for recorder, application and window.     *)
(* Callbacks, if there are any, are called after the mutex is released.     *)
PreviewGrab ==
    /\ previewAt = "grab" /\ ~stalled
    /\ mLock' = "free" /\ previewAt' \in {"callback", "loop"}
    /\ UNCHANGED previewRest

(* The callback returns, or calls a method of the HAL first. *)
PreviewCallback ==
    /\ previewAt = "callback"
    /\ previewAt' \in {"loop", "calls"}
    /\ UNCHANGED <<mLock, previewRest>>

(* Such a method waits for the mutex. *)
PreviewCalls ==
    /\ previewAt = "calls" /\ mLock = "free"
    /\ previewAt' = "loop"
    /\ UNCHANGED <<mLock, previewRest>>

(* External: the sensor or its driver stops giving frames. *)
CameraStalls ==
    /\ ~stalled /\ stalled' = TRUE
    /\ UNCHANGED <<mLock, preview, hw, heaps, camera, appAt, picture, jpegOf>>

-----------------------------------------------------------------------------
(* pictureThread() *)

PictureStart(p) ==
    /\ pictureAt[p] = "start" /\ mLock = "free"
    /\ mLock' = p
    /\ pictureAt' = [pictureAt EXCEPT ![p] = IF mPreviewThread THEN "stop" ELSE "capture"]
    /\ exitPending' = mPreviewThread
    /\ UNCHANGED <<mPreviewThread, previewAt, hw, heaps, camera, stalled, appAt, jpegSent, jpegOf>>

PictureStopped(p) ==
    /\ pictureAt[p] = "stop" /\ previewAt = "none" /\ ~stalled
    /\ mPreviewThread' = FALSE /\ exitPending' = FALSE /\ camera' = Closed
    /\ pictureAt' = [pictureAt EXCEPT ![p] = "capture"]
    /\ UNCHANGED <<mLock, previewAt, hw, heaps, stalled, appAt, jpegSent, jpegOf>>

(* The camera opens and gives a picture, compressed when JPEGs are wanted   *)
(* (an Init() that fails goes unnoticed and leaves the size 0), and closes; *)
(* or it does not open.                                                     *)
PictureCapture(p) ==
    /\ pictureAt[p] = "capture"
    /\ \/ /\ \E open \in BOOLEAN : camera' = [Closed EXCEPT !.open = open]
          /\ jpegSent' = jpegSent \ {p} /\ UNCHANGED <<mParameters, heaps, jpegOf>>
       \/ \E given \in {size \in Sizes \cup {0} : size <= mParameters.picture} :
            LET real == [mParameters EXCEPT !.picture = given] IN
            /\ ~stalled
            /\ camera' = Closed /\ mParameters' = real
            /\ heaps' = HeapsFor(mRecordingEnabled, mMsgVideo, real)
            /\ \/ jpegSent' = jpegSent \cup {p} /\ jpegOf' = p
               \/ jpegSent' = jpegSent \ {p} /\ MakeHeaps(mRecordingEnabled, mMsgVideo, real)
    /\ mLock' = "free"
    /\ pictureAt' = [pictureAt EXCEPT ![p] = "callback"]
    /\ UNCHANGED <<mRecordingEnabled, mMsgVideo, preview, stalled, appAt>>

(* Shutter, raw and JPEG callbacks, without the mutex. Nobody waits for this *)
(* thread to end: a call to the HAL from here would just wait its turn.     *)
PictureCallback(p) ==
    /\ pictureAt[p] = "callback"
    /\ pictureAt' = [pictureAt EXCEPT ![p] = "idle"]
    /\ jpegSent' = jpegSent \ {p}
    /\ UNCHANGED <<mLock, preview, hw, heaps, camera, stalled, appAt, jpegOf>>

-----------------------------------------------------------------------------
PreviewStep == PreviewTurn \/ PreviewGrab \/ PreviewCallback \/ PreviewCalls
PictureStep(p) ==
    PictureStart(p) \/ PictureStopped(p) \/ PictureCapture(p) \/ PictureCallback(p)
CameraCall ==
    \/ SetParameters \/ EnableMsgType \/ SwitchRecording
    \/ StartPreview \/ StopPreview
    \/ \E p \in Pictures : TakePicture(p)

CameraNext ==
    \/ CameraCall \/ PreviewStopped \/ PreviewStep \/ CameraStalls
    \/ \E p \in Pictures : PictureStep(p)

CameraSpec ==
    /\ CameraInit /\ [][CameraNext]_cameraVars
    /\ WF_cameraVars(PreviewStep) /\ WF_cameraVars(PreviewStopped)
    /\ \A p \in Pictures : WF_cameraVars(PictureStopped(p))

-----------------------------------------------------------------------------
(* Properties. *)

(* Every variable keeps to the values the program gives it. *)
CameraTypeOK ==
    /\ mLock \in {"free", "app", "preview"} \cup Pictures
    /\ {mPreviewThread, exitPending, mRecordingEnabled, mMsgVideo} \subseteq BOOLEAN /\ stalled \in BOOLEAN
    /\ mParameters \in [{"preview", "video", "picture"} -> Sizes \cup {0}]
    /\ heaps \in [{"raw", "preview", "video", "picture"} -> Sizes \cup {0}]
    /\ camera \in [open : BOOLEAN, streaming : BOOLEAN, size : Sizes \cup {0}]
    /\ previewAt \in {"none", "loop", "grab", "callback", "calls"}
    /\ appAt \in {"idle", "stop", "restart"}
    /\ pictureAt \in [Pictures -> {"idle", "start", "stop", "capture", "callback"}]
    /\ jpegSent \subseteq Pictures /\ jpegOf \in Pictures \cup {"none"}

(* "We are warrantied here that the current capture size IS exacty equal to *)
(* the video size" (CameraHardware.cpp:1340): whenever the preview thread   *)
(* captures, the camera streams frames of the size the raw heap was made    *)
(* for, and while recording the recorder's heap is of that size too.        *)
FrameFits ==
    previewAt = "grab" =>
        /\ mLock = "preview" /\ camera.streaming
        /\ camera.size = heaps.raw /\ heaps.preview = mParameters.preview
        /\ (mRecordingEnabled /\ mMsgVideo) => heaps.video = camera.size

(* Between two calls the camera streams if and only if there is a preview   *)
(* thread to take the frames, also after a start that failed half way.      *)
StreamsForPreview ==
    mLock = "free" =>
        camera.streaming = mPreviewThread /\ mPreviewThread = (previewAt # "none")

(* Stopping the preview ends, although the mutex is held meanwhile and the  *)
(* preview thread wants it: unless the application's preview callback waits *)
(* for that mutex in a call of its own, or the camera gives no more frames. *)
(* A callback that calls nothing is taken to return.                        *)
StopReturns ==
    LET Hangs == previewAt = "calls" \/ stalled IN
    /\ appAt # "idle" ~> (appAt = "idle" \/ Hangs)
    /\ \A p \in Pictures : pictureAt[p] = "stop" ~> (pictureAt[p] # "stop" \/ Hangs)

(* "the mutex ensures the picture memory pool is not being used"            *)
(* (CameraHardware.cpp:1226): as long as a thread gives its JPEG to the     *)
(* application, the heap holds that picture.                                *)
PictureHeapKept ==
    \A p \in Pictures : pictureAt[p] = "callback" /\ p \in jpegSent => jpegOf = p
=============================================================================
