----------------------------- MODULE MotionLoop -----------------------------
(***************************************************************************)
(* The capture thread of src/sp_eyes/motion.c around V4l2Capture:          *)
(* motion_thread_loop makes rounds, and a round is _motion_capture, which  *)
(* calls video_v4l2_next up to Retry times for each of Frames frames,      *)
(* followed by writing a picture (capture mode) or by looking for faces.   *)
(* FaceProcessing, set by the classifier's thread, pauses the loop.        *)
(*                                                                         *)
(* The two consumers read different memory: a picture is written from      *)
(* image_virgin, where video_v4l2_next leaves whatever it did; faces are   *)
(* looked for in ConvImg, which is converted from it after a success.      *)
(***************************************************************************)
EXTENDS V4l2Capture

CONSTANTS
    Frames, \* 8
    Retry,  \* 5
    Modes   \* the run modes: "cap" writes pictures, "run" looks for faces

ASSUME LoopAssumption ==
    /\ Frames \in Nat \ {0} /\ Retry \in Nat \ {0}
    /\ Modes \subseteq {"cap", "run"}

VARIABLES
    at,             \* where the loop is
    mode,           \* run_mode, fixed when the thread starts
    count,          \* frames of this round so far
    tries,          \* i, the failed calls for the current frame
    ConvImg,        \* what that buffer was converted from, and its turns
    FaceProcessing  \* external: the classifier is at work

loopVars == <<at, mode, count, tries, ConvImg>>
allVars  == <<vars, loopVars, FaceProcessing>>

LoopTypeOK ==
    /\ at \in {"wait", "call", "calling", "write", "detect"}
    /\ mode \in {"cap", "run"}
    /\ count \in 0 .. Frames
    /\ tries \in 0 .. Retry - 1
    /\ ConvImg \in [image : Images, turns : 0 .. 3]
    /\ FaceProcessing \in BOOLEAN

LoopInit ==
    /\ Init
    /\ at = "wait"
    /\ mode \in Modes
    /\ count = 0
    /\ tries = 0
    /\ ConvImg = [image |-> "none", turns |-> 0]
    /\ FaceProcessing = FALSE

Goto(from, to) == at = from /\ at' = to

\* motion_thread_loop, with run_mode decided.
Consume == IF mode = "cap" THEN "write" ELSE "detect"

-----------------------------------------------------------------------------
StartRound ==
    /\ Goto("wait", "call")
    /\ ~FaceProcessing
    /\ count' = 0
    /\ tries' = 0
    /\ UNCHANGED <<vars, mode, ConvImg, FaceProcessing>>

Call ==
    /\ Goto("call", "calling")
    /\ VideoNext
    /\ UNCHANGED <<mode, count, tries, ConvImg, FaceProcessing>>

\* What video_v4l2_next does until it returns.
Inside ==
    /\ \/ SkipLoop \/ Rotate
       \/ BlockSignals \/ Requeue \/ RequeueFails
       \/ Dequeue \/ DequeueEio \/ DequeueFails \/ Convert
    /\ UNCHANGED <<loopVars, FaceProcessing>>

Returned(success) ==
    at = "calling" /\ pc = "idle" /\ success = (ret = 0)

Bug_ConvertRegardless ==
    /\ at = "calling" /\ pc = "idle"
    /\ at' = IF count + 1 < Frames THEN "call" ELSE Consume
    /\ count' = count + 1
    /\ tries' = 0
    /\ ConvImg' = [image |-> map, turns |-> turns]
    /\ UNCHANGED <<vars, mode, FaceProcessing>>

\* "Video Copy OK": convert and go on to the next frame.
Succeed ==
    /\ Returned(TRUE)
    /\ at' = IF count + 1 < Frames THEN "call" ELSE Consume
    /\ count' = count + 1
    /\ tries' = 0
    /\ ConvImg' = [image |-> map, turns |-> turns]
    /\ UNCHANGED <<vars, mode, FaceProcessing>>

Bug_RetryForever ==
    /\ Returned(FALSE)
    /\ at' = "call"
    /\ UNCHANGED <<vars, mode, count, tries, ConvImg, FaceProcessing>>

\* After Retry failures the frame counts as one, and the round is over.
Fail ==
    /\ Returned(FALSE)
    /\ IF tries + 1 < Retry
         THEN at' = "call" /\ tries' = tries + 1 /\ UNCHANGED count
         ELSE at' = Consume /\ count' = count + 1 /\ UNCHANGED tries
    /\ UNCHANGED <<vars, mode, ConvImg, FaceProcessing>>

\* put_picture of image_virgin, or haar_run on ConvImg.
Consumed(place) ==
    /\ Goto(place, "wait")
    /\ UNCHANGED <<vars, mode, count, tries, ConvImg, FaceProcessing>>

WritePicture == Consumed("write")
DetectFaces  == Consumed("detect")

\* External: the classifier's thread starts or ends its work.
Classify == FaceProcessing' = ~FaceProcessing /\ UNCHANGED <<vars, loopVars>>

CameraFills == Camera /\ UNCHANGED <<loopVars, FaceProcessing>>

-----------------------------------------------------------------------------
Thread ==
    \/ StartRound \/ Call \/ Inside \/ Succeed \/ Fail \/ WritePicture \/ DetectFaces

LoopNext == Thread \/ Classify \/ CameraFills

LoopSpec == LoopInit /\ [][LoopNext]_allVars

(***************************************************************************)
(* As in V4l2Capture the thread is scheduled and a streaming camera keeps  *)
(* delivering.  Nothing is assumed of the classifier.                      *)
(***************************************************************************)
FairLoopSpec == LoopSpec /\ WF_allVars(Thread) /\ WF_allVars(CameraFills)

-----------------------------------------------------------------------------
(* Faces are only looked for in a frame that was delivered with success:   *)
(* it is whole and turned exactly once, however many calls failed since.   *)
(* (Before the first success ConvImg is memory nobody wrote.)              *)
DetectsWholeFrame ==
    at = "detect" /\ ConvImg.image # "none" =>
        ConvImg.image \in {"fresh", "stale"} /\ ConvImg.turns = 1

(* Rounds end: however calls fail and whenever the classifier interferes,  *)
(* the thread comes back to the place where it looks at FaceProcessing.    *)
RoundsEnd == []<>(at = "wait")

(* Frames keep being delivered while the classifier stays away, after every *)
(* fault the guess in v4l2_next is meant for: the retries of the loop find *)
(* the buffer exchange in order.                                           *)
FramesKeepComing == <>[]~FaceProcessing => DeliversAgain

=============================================================================
