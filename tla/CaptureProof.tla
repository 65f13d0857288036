---------------------------- MODULE CaptureProof ----------------------------
(***************************************************************************)
(* Proofs about V4l2Capture, for every number of buffers, every set of     *)
(* driver faults and every signal mask, and about MotionLoop, for every    *)
(* number of frames and retries besides.  The capture thread drives        *)
(* V4l2Capture as its specification says, so the theorems of the first     *)
(* part hold of the second.                                                *)
(***************************************************************************)
EXTENDS MotionLoop, FiniteSetTheorems, TLAPS

(* A fault keeps the history of faults well typed.                         *)
LEMMA FaultTyped ==
  ASSUME faults \in Seq(FaultKinds), NEW kind, Fault(kind)
  PROVE  faults' \in Seq(FaultKinds) /\ Len(faults') <= MaxFaults
<1>1. kind \in FaultKinds
  BY FaultAssumption DEF Fault
<1>2. faults' = Append(faults, kind) /\ Len(faults) < MaxFaults
  BY DEF Fault
<1>3. faults' \in Seq(FaultKinds) /\ Len(faults') = Len(faults) + 1
  BY <1>1, <1>2
<1> QED
  BY <1>2, <1>3, FaultAssumption

(* The state always has its type: in particular s->buf.index stays a       *)
(* buffer number, so s->buffers[s->buf.index] is never out of bounds, and  *)
(* the skip counter of v4l2_set_input never exceeds req.count.             *)
THEOREM TypeCorrect == Spec => []TypeOK
<1>1. Init => TypeOK
  <2> SUFFICES ASSUME Init PROVE TypeOK
    OBVIOUS
  <2>1. faults \in Seq(FaultKinds) /\ Len(faults) <= MaxFaults
    <3>1. CASE faults = <<>>
      BY <3>1, FaultAssumption
    <3>2. CASE faults = <<"clock">> /\ MaxFaults > 0
      BY <3>2, FaultAssumption DEF FaultKinds
    <3> QED
      BY <3>1, <3>2 DEF Init
  <2> QED
    BY <2>1, CountAssumption DEF Init, TypeOK, Buffers, Locations, Images
<1>2. TypeOK /\ [Next]_vars => TypeOK'
  <2> SUFFICES ASSUME TypeOK, [Next]_vars PROVE TypeOK'
    OBVIOUS
  <2> USE CountAssumption, FaultAssumption DEF TypeOK, Buffers, Locations, Images, driver
  <2>1. CASE VideoNext
    <3>1. CASE reselect
      <4>1. fresh' \in [Buffers -> BOOLEAN]
        BY <2>1, <3>1, ZenonT(20) DEF VideoNext
      <4>2. caller' \in {"skip", "frame"} /\ counter' \in 0 .. Count
        BY <2>1, <3>1 DEF VideoNext
      <4>3. reselect' \in BOOLEAN /\ pc' \in Locations
        BY <2>1 DEF VideoNext
      <4> QED
        BY <2>1, <4>1, <4>2, <4>3 DEF VideoNext
    <3>2. CASE ~reselect
      BY <2>1, <3>2 DEF VideoNext
    <3> QED
      BY <3>1, <3>2
  <2>2. CASE SkipLoop
    BY <2>2 DEF SkipLoop
  <2>3. CASE Rotate
    <3>1. turns' \in 0 .. 3
      BY <2>3 DEF Rotate
    <3> QED
      BY <3>1, <2>3 DEF Rotate
  <2>4. CASE BlockSignals
    BY <2>4 DEF BlockSignals
  <2>5. CASE Requeue
    BY <2>5 DEF Requeue
  <2>6. CASE RequeueFails
    <3>1. faults' \in Seq(FaultKinds) /\ Len(faults') <= MaxFaults
      BY <2>6, FaultTyped DEF RequeueFails
    <3> QED
      BY <2>6, <3>1 DEF RequeueFails, Leave
  <2>7. CASE Dequeue
    BY <2>7 DEF Dequeue
  <2>8. CASE DequeueEio
    <3>1. Guess \in Buffers
      BY DEF Guess
    <3>2. owner' \in [Buffers -> {"queued", "done", "held"}]
      BY <2>8 DEF DequeueEio
    <3>3. faults' \in Seq(FaultKinds) /\ Len(faults') <= MaxFaults
      BY <2>8, FaultTyped DEF DequeueEio
    <3>4. streaming' \in BOOLEAN
      BY <2>8, ZenonT(20) DEF DequeueEio
    <3>5. /\ pframe' = Guess /\ index' = Guess /\ pc' = "leave" /\ ret' = 1
          /\ UNCHANGED <<fresh, caller, counter, reselect, blocked, old, map, turns>>
      BY <2>8 DEF DequeueEio, Leave
    <3> QED
      BY <3>1, <3>2, <3>3, <3>4, <3>5
  <2>9. CASE DequeueFails
    <3>1. faults' \in Seq(FaultKinds) /\ Len(faults') <= MaxFaults
      BY <2>9, FaultTyped DEF DequeueFails
    <3> QED
      BY <2>9, <3>1, CountAssumption DEF DequeueFails, Leave
  <2>10. CASE Convert
    <3>1. faults' \in Seq(FaultKinds) /\ Len(faults') <= MaxFaults
      BY <2>10, FaultTyped DEF Convert
    <3> QED
      BY <2>10, <3>1 DEF Convert, Leave
  <2>11. CASE Camera
    BY <2>11 DEF Camera, Fill
  <2>12. CASE UNCHANGED vars
    BY <2>12 DEF vars
  <2> QED
    BY <2>1, <2>2, <2>3, <2>4, <2>5, <2>6, <2>7, <2>8, <2>9, <2>10, <2>11, <2>12
    DEF Next, Capture
<1> QED
  BY <1>1, <1>2, PTL DEF Spec

(* The buffer exchange is never interrupted by one of the five signals,    *)
(* although the mask earlier calls leave behind alternates.                *)
THEOREM IoctlsShielded == Spec => []SignalsBlockedInIoctl
<1>1. Init => SignalsBlockedInIoctl
  BY DEF Init, SignalsBlockedInIoctl
<1>2. SignalsBlockedInIoctl /\ [Next]_vars => SignalsBlockedInIoctl'
  BY DEF SignalsBlockedInIoctl, Next, Capture, Camera, Fill, VideoNext, SkipLoop,
         Rotate, BlockSignals, Requeue, RequeueFails, Dequeue, DequeueEio,
         DequeueFails, Convert, Leave, vars
<1> QED
  BY <1>1, <1>2, PTL DEF Spec

(* Every step extends the history of faults or keeps it, so that what was  *)
(* met stays met.                                                          *)
LEMMA HistoryKept ==
  ASSUME TypeOK, [Next]_vars, NEW kinds, Met(kinds)
  PROVE  Met(kinds)'
<1>1. faults' = faults \/ \E kind \in FaultKinds : faults' = Append(faults, kind)
  BY FaultAssumption
  DEF Next, Capture, Camera, Fill, VideoNext, SkipLoop, Rotate, BlockSignals, Requeue,
      RequeueFails, Dequeue, DequeueEio, DequeueFails, Convert, Fault, driver, vars
<1>2. PICK i \in DOMAIN faults : faults[i] \in kinds
  BY DEF Met
<1>3. i \in DOMAIN faults' /\ faults'[i] = faults[i]
  BY <1>1 DEF TypeOK
<1> QED
  BY <1>2, <1>3 DEF Met

(* Unless an EIO makes the driver drop a buffer other than the one the     *)
(* code guesses, the program never loses a buffer: the driver always has   *)
(* all of them but the one s->pframe names.                                *)
OneOut ==
    /\ Held \subseteq {pframe}
    /\ pc # "dequeue" /\ Held # {} => index = pframe
    /\ pc = "dequeue" => Held = {}
    /\ pc = "convert" => pframe = index

ExchangeInv == Met({"eio_other"}) \/ OneOut

(* No buffer is lost, unless the driver dropped another one than guessed.  *)
THEOREM BuffersConserved == Spec => []NoBufferLost
<1>1. Init => ExchangeInv
  BY DEF Init, ExchangeInv, OneOut, Held
<1>2. TypeOK /\ ExchangeInv /\ [Next]_vars => ExchangeInv'
  <2> SUFFICES ASSUME TypeOK, OneOut, [Next]_vars, ~Met({"eio_other"})'
               PROVE  OneOut'
    BY HistoryKept DEF ExchangeInv
  <2> USE DEF TypeOK, OneOut, Held, driver
  <2>1. CASE VideoNext
    BY <2>1 DEF VideoNext
  <2>2. CASE SkipLoop
    BY <2>2 DEF SkipLoop
  <2>3. CASE Rotate
    BY <2>3 DEF Rotate
  <2>4. CASE BlockSignals
    BY <2>4, CountAssumption DEF BlockSignals, Buffers
  <2>5. CASE Requeue
    BY <2>5 DEF Requeue
  <2>6. CASE RequeueFails
    BY <2>6 DEF RequeueFails, Leave
  <2>7. CASE Dequeue
    BY <2>7 DEF Dequeue
  <2>8. CASE DequeueEio
    <3>1. pc = "dequeue" /\ pc' = "leave" /\ index' = Guess /\ pframe' = Guess
      BY <2>8 DEF DequeueEio, Leave
    <3>2. RoundRobin = Guess
      BY CountAssumption DEF RoundRobin, Guess, Buffers
    <3>3. ~Fault("eio_other")
      <4> SUFFICES ASSUME Fault("eio_other") PROVE FALSE
        OBVIOUS
      <4>1. faults' = Append(faults, "eio_other")
        BY DEF Fault
      <4>2. Len(faults) + 1 \in DOMAIN faults' /\ faults'[Len(faults) + 1] = "eio_other"
        BY <4>1
      <4> QED
        BY <4>2 DEF Met
    <3>4. Held' \subseteq {Guess}
      BY <2>8, <3>1, <3>2, <3>3 DEF DequeueEio
    <3> QED
      BY <3>1, <3>4
  <2>9. CASE DequeueFails
    BY <2>9 DEF DequeueFails, Leave
  <2>10. CASE Convert
    BY <2>10 DEF Convert, Leave
  <2>11. CASE Camera
    BY <2>11 DEF Camera, Fill
  <2>12. CASE UNCHANGED vars
    BY <2>12 DEF vars
  <2> QED
    BY <2>1, <2>2, <2>3, <2>4, <2>5, <2>6, <2>7, <2>8, <2>9, <2>10, <2>11, <2>12
    DEF Next, Capture
<1>3. ExchangeInv => NoBufferLost
  BY DEF ExchangeInv, OneOut, NoBufferLost
<1> QED
  BY <1>1, <1>2, <1>3, TypeCorrect, PTL DEF Spec

-----------------------------------------------------------------------------
(* A successful conversion writes an image that is not turned yet, and the *)
(* only way from there to the caller is one rotation.                      *)
DeliveryInv ==
    /\ pc = "leave" /\ ret = 0 => map \in {"fresh", "stale"} /\ turns = 0
    /\ pc = "idle" /\ ret = 0 /\ map # "none"
         => map \in {"fresh", "stale"} /\ turns = 1

(* It holds in every state.                                                *)
LEMMA Delivery == Spec => []DeliveryInv
<1>1. Init => DeliveryInv
  BY DEF Init, DeliveryInv
<1>2. DeliveryInv /\ [Next]_vars => DeliveryInv'
  <2> SUFFICES ASSUME DeliveryInv, [Next]_vars PROVE DeliveryInv'
    OBVIOUS
  <2> USE DEF DeliveryInv, driver
  <2>1. CASE VideoNext \/ SkipLoop \/ Rotate \/ BlockSignals
    BY <2>1 DEF VideoNext, SkipLoop, Rotate, BlockSignals
  <2>2. CASE Requeue \/ RequeueFails \/ Dequeue \/ DequeueEio \/ DequeueFails
    BY <2>2 DEF Requeue, RequeueFails, Dequeue, DequeueEio, DequeueFails, Leave
  <2>3. CASE Convert
    BY <2>3 DEF Convert, Leave
  <2>4. CASE Camera
    BY <2>4 DEF Camera, Fill
  <2>5. CASE UNCHANGED vars
    BY <2>5 DEF vars
  <2> QED
    BY <2>1, <2>2, <2>3, <2>4, <2>5 DEF Next, Capture
<1> QED
  BY <1>1, <1>2, PTL DEF Spec

(* What a successful call delivers was turned exactly once.                *)
THEOREM DeliveredTurnedOnce == Spec => []TurnedOnce
<1>1. DeliveryInv => TurnedOnce
  BY DEF DeliveryInv, TurnedOnce
<1> QED
  BY <1>1, Delivery, PTL

-----------------------------------------------------------------------------
(* Freshness without the help of time stamps.  Until the driver fails, the *)
(* exchange stays in order, and every call of the skip loop takes one of   *)
(* the frames that were waiting when the input was switched.               *)
NoFault == ~Met(FaultKinds \ {"clock"})

\* The frames of before the switch that the driver has still to hand out.
Stale == {b \in Buffers : owner[b] = "done" /\ ~fresh[b]}

InOrder ==
    /\ streaming
    /\ pframe >= 0 /\ pc # "dequeue" => index = pframe /\ owner[index] = "held"
    /\ pc \in {"requeue", "convert", "leave"} => pframe >= 0
    /\ pc = "leave" => ret = 0

SkipProgress ==
    /\ reselect => pc = "idle" /\ map = "none"
    /\ caller = "skip" /\ pc \in {"enter", "requeue", "dequeue"}
          => Cardinality(Stale) <= Count - counter + 1
    /\ caller = "skip" /\ pc \in {"convert", "leave"}
          => Cardinality(Stale) <= Count - counter /\ (fresh[index] => Stale = {})
    /\ ~reselect /\ caller = "frame" => Stale = {}

FrameProgress ==
    /\ caller = "frame" /\ pc = "convert" => fresh[index]
    /\ caller = "frame" /\ pc = "leave" => map = "fresh"
    /\ ~reselect /\ pc = "idle" => caller = "frame" /\ map = "fresh"

FreshInv == NoFault => InOrder /\ SkipProgress /\ FrameProgress

(* There are no more frames of before the switch than buffers, and when    *)
(* the count of them is 0 none is left.                                    *)
LEMMA StaleFinite ==
  /\ IsFiniteSet(Stale) /\ Cardinality(Stale) \in Nat /\ Cardinality(Stale) <= Count
  /\ Cardinality(Stale) <= 0 => Stale = {}
<1>1. IsFiniteSet(Buffers) /\ Cardinality(Buffers) = Count
  BY FS_Interval, CountAssumption DEF Buffers
<1>2. Stale \in SUBSET Buffers
  BY DEF Stale
<1>3. IsFiniteSet(Stale) /\ Cardinality(Stale) <= Count
  BY <1>1, <1>2, FS_Subset
<1>4. Cardinality(Stale) \in Nat
  BY <1>3, FS_CardinalityType
<1>5. Cardinality(Stale) = 0 => Stale = {}
  BY <1>3, FS_EmptySet
<1> QED
  BY <1>3, <1>4, <1>5

(* A fault of any kind but a wrong clock ends what is claimed.             *)
LEMMA FaultEnds ==
  ASSUME TypeOK, NEW kind \in FaultKinds \ {"clock"}, Fault(kind)
  PROVE  ~NoFault'
<1>1. faults' = Append(faults, kind)
  BY DEF Fault
<1>2. Len(faults) + 1 \in DOMAIN faults' /\ faults'[Len(faults) + 1] = kind
  BY <1>1 DEF TypeOK
<1> QED
  BY <1>2 DEF NoFault, Met

(* The oldest frame is handed out first, so that a dequeue takes a stale   *)
(* one as long as there is one.                                            *)
LEMMA DequeueTakesStale ==
  ASSUME TypeOK, Dequeue, InOrder
  PROVE  /\ Stale # {} => Cardinality(Stale') = Cardinality(Stale) - 1
         /\ fresh'[index'] => Stale' = {}
         /\ Stale = {} => fresh'[index'] /\ Stale' = {}
<1>1. PICK b \in Buffers : Oldest(b) /\ owner' = [owner EXCEPT ![b] = "held"] /\ index' = b
  BY DEF Dequeue
<1>2. fresh' = fresh /\ owner[b] = "done"
  BY <1>1 DEF Dequeue, Oldest
<1>3. Stale' = Stale \ {b}
  BY <1>1, <1>2 DEF Stale, TypeOK
<1>4. Stale # {} => b \in Stale
  BY <1>1, <1>2 DEF Stale, Oldest
<1>5. b \in Stale => Cardinality(Stale \ {b}) = Cardinality(Stale) - 1
  BY FS_RemoveElement, StaleFinite
<1>6. fresh[b] => Stale = {}
  BY <1>1 DEF Stale, Oldest
<1>7. Stale = {} => fresh[b]
  BY <1>2 DEF Stale, TypeOK
<1> QED
  BY <1>1, <1>2, <1>3, <1>4, <1>5, <1>6, <1>7

(* Every call of the skip loop takes a frame of before the switch while    *)
(* one is left, and there are as many calls as buffers, so none is left    *)
(* when they end.                                                          *)
LEMMA FreshStep ==
  ASSUME TypeOK, TypeOK', FreshInv, [Next]_vars
  PROVE  FreshInv'
<1> SUFFICES ASSUME NoFault' PROVE InOrder' /\ SkipProgress' /\ FrameProgress'
  BY DEF FreshInv
<1>0. NoFault /\ InOrder /\ SkipProgress /\ FrameProgress
  BY HistoryKept DEF NoFault, FreshInv
<1> USE <1>0, CountAssumption DEF TypeOK, driver, Buffers
<1>1. CASE VideoNext
  <2>1. InOrder' /\ FrameProgress'
    BY <1>1 DEF VideoNext, InOrder, FrameProgress
  <2>2. SkipProgress'
    <3>1. CASE reselect
      <4>1. caller' = "skip" /\ counter' = 1 /\ pc' = "enter" /\ reselect' = FALSE
        BY <1>1, <3>1 DEF VideoNext
      <4>2. (Cardinality(Stale) <= Count)'
        BY StaleFinite, PTL
      <4> QED
        BY <4>1, <4>2 DEF SkipProgress
    <3>2. CASE ~reselect
      <4>1. Stale' = Stale
        BY <1>1, <3>2 DEF VideoNext, Stale
      <4> QED
        BY <1>1, <3>2, <4>1 DEF VideoNext, SkipProgress
    <3> QED
      BY <3>1, <3>2
  <2> QED
    BY <2>1, <2>2
<1>2. CASE SkipLoop
  <2>1. UNCHANGED <<owner, fresh, streaming, pframe, index, reselect, ret, map>>
        /\ pc = "leave" /\ caller = "skip" /\ pc' = "enter" /\ Stale' = Stale
    BY <1>2 DEF SkipLoop, Stale
  <2>2. InOrder' /\ FrameProgress'
    BY <2>1 DEF InOrder, FrameProgress
  <2>3. CASE AfterSwitch \/ counter >= Count
    <3>1. caller' = "frame"
      BY <1>2, <2>3 DEF SkipLoop
    <3>2. Stale = {}
      BY <2>1, <2>3, StaleFinite DEF AfterSwitch, SkipProgress
    <3> QED
      BY <2>1, <2>2, <3>1, <3>2 DEF SkipProgress
  <2>4. CASE ~(AfterSwitch \/ counter >= Count)
    <3>1. caller' = "skip" /\ counter' = counter + 1
      BY <1>2, <2>1, <2>4 DEF SkipLoop, InOrder
    <3>2. Cardinality(Stale) <= Count - counter
      BY <2>1 DEF SkipProgress
    <3> QED
      BY <2>1, <2>2, <3>1, <3>2, StaleFinite DEF SkipProgress
  <2> QED
    BY <2>3, <2>4
<1>3. CASE Rotate \/ BlockSignals
  <2>1. Stale' = Stale
    BY <1>3 DEF Rotate, BlockSignals, Stale
  <2> QED
    BY <1>3, <2>1 DEF Rotate, BlockSignals, InOrder, SkipProgress, FrameProgress
<1>4. CASE Requeue
  <2>1. Stale' = Stale
    BY <1>4 DEF Requeue, Held, Stale
  <2> QED
    BY <1>4, <2>1 DEF Requeue, InOrder, SkipProgress, FrameProgress
<1>5. CASE RequeueFails
  <2>1. index \in Held
    BY <1>5 DEF RequeueFails, InOrder, Held
  <2>2. Fault("error")
    BY <1>5, <2>1 DEF RequeueFails
  <2> QED
    BY <2>2, FaultEnds DEF FaultKinds
<1>6. CASE Dequeue
  <2>1. /\ UNCHANGED <<streaming, caller, counter, reselect, ret, map, fresh>>
        /\ pc = "dequeue" /\ pc' = "convert" /\ pframe' = index' /\ index' \in Buffers
        /\ owner'[index'] = "held"
    BY <1>6 DEF Dequeue
  <2>2. InOrder'
    BY <2>1 DEF InOrder
  <2>3. caller = "skip" => Cardinality(Stale') <= Count - counter
    <3>1. CASE Stale = {}
      <4>1. Cardinality(Stale') = 0
        BY <1>6, <3>1, DequeueTakesStale, FS_EmptySet
      <4> QED
        BY <4>1
    <3>2. CASE Stale # {}
      BY <1>6, <2>1, <3>2, DequeueTakesStale, StaleFinite DEF SkipProgress
    <3> QED
      BY <3>1, <3>2
  <2>4. ~reselect
    BY <2>1 DEF SkipProgress
  <2>5. SkipProgress' /\ FrameProgress'
    BY <1>6, <2>1, <2>3, <2>4, DequeueTakesStale DEF SkipProgress, FrameProgress
  <2> QED
    BY <2>2, <2>5
<1>7. CASE DequeueEio
  BY <1>7, FaultEnds DEF DequeueEio, FaultKinds
<1>8. CASE DequeueFails
  BY <1>8, FaultEnds DEF DequeueFails, InOrder, FaultKinds
<1>9. CASE Convert
  <2>1. ~Fault("corrupt")
    BY FaultEnds DEF FaultKinds
  <2>2. /\ UNCHANGED <<owner, fresh, streaming, caller, counter, reselect, pframe, index>>
        /\ pc = "convert" /\ pc' = "leave" /\ ret' = 0
        /\ map' = IF fresh[index] THEN "fresh" ELSE "stale"
    BY <1>9, <2>1 DEF Convert, Leave
  <2>3. Stale' = Stale
    BY <2>2 DEF Stale
  <2> QED
    BY <2>2, <2>3 DEF InOrder, SkipProgress, FrameProgress
<1>10. CASE Camera
  <2>1. PICK b \in Buffers : Fill(b)
    BY <1>10 DEF Camera
  <2>2. Stale' = Stale
    BY <2>1 DEF Fill, Stale
  <2> QED
    BY <2>1, <2>2 DEF Fill, InOrder, SkipProgress, FrameProgress
<1>11. CASE UNCHANGED vars
  <2>1. Stale' = Stale
    BY <1>11 DEF vars, Stale
  <2> QED
    BY <1>11, <2>1 DEF vars, InOrder, SkipProgress, FrameProgress
<1> QED
  BY <1>1, <1>2, <1>3, <1>4, <1>5, <1>6, <1>7, <1>8, <1>9, <1>10, <1>11 DEF Next, Capture

(* If no call of v4l2_next fails, skipping req.count frames is enough: the *)
(* caller gets a frame of after the switch, even when the driver stamps    *)
(* its frames with another clock.                                          *)
THEOREM SkippingSuffices == Spec => []FreshUnlessFaulty
<1>1. Init => FreshInv
  BY CountAssumption DEF Init, FreshInv, InOrder, SkipProgress, FrameProgress
<1>2. FreshInv => FreshUnlessFaulty
  BY DEF FreshInv, SkipProgress, FrameProgress, FreshUnlessFaulty, FreshAfterSwitch, NoFault
<1>3. TypeOK /\ TypeOK' /\ FreshInv /\ [Next]_vars => FreshInv'
  BY FreshStep
<1> QED
  BY <1>1, <1>2, <1>3, TypeCorrect, PTL DEF Spec

-----------------------------------------------------------------------------
(* The capture thread                                                      *)

(* Every step of the thread is a step of the capture code, of the camera,  *)
(* or touches neither.                                                     *)
LEMMA LoopStep == LoopNext => [Next]_vars
<1> SUFFICES ASSUME LoopNext PROVE [Next]_vars
  OBVIOUS
<1>1. CASE Call
  BY <1>1 DEF Call, Next, Capture
<1>2. CASE Inside
  BY <1>2 DEF Inside, Next, Capture
<1>3. CASE StartRound \/ Succeed \/ Fail \/ WritePicture \/ DetectFaces \/ Classify
  BY <1>3 DEF StartRound, Succeed, Fail, WritePicture, DetectFaces, Consumed, Classify
<1>4. CASE CameraFills
  BY <1>4 DEF CameraFills, Next
<1> QED
  BY <1>1, <1>2, <1>3, <1>4 DEF LoopNext, Thread

(* The theorems about V4l2Capture carry over to the whole thread: its      *)
(* steps are those of the capture code, the camera, or of neither.         *)
LEMMA LoopImplementsCapture == LoopSpec => Spec
<1>1. LoopInit => Init
  BY DEF LoopInit
<1>2. [LoopNext]_allVars => [Next]_vars
  BY LoopStep DEF allVars, vars
<1> QED
  BY <1>1, <1>2, PTL DEF LoopSpec, Spec

(* No buffer is lost, and every frame the thread is given is from after    *)
(* the input switch, until the driver fails.                               *)
THEOREM LoopKeepsExchange == LoopSpec => [](NoBufferLost /\ FreshUnlessFaulty)
  BY LoopImplementsCapture, BuffersConserved, SkippingSuffices, PTL

\* While calls are made the round is not full.
LoopIInv == LoopTypeOK /\ (at \in {"call", "calling"} => count < Frames)

(* The loop's own variables keep their types: in particular a round never  *)
(* makes more than Retry calls for a frame.                                *)
THEOREM LoopTypeCorrect == LoopSpec => []LoopTypeOK
<1>1. LoopInit => LoopIInv
  <2> SUFFICES ASSUME LoopInit PROVE LoopIInv
    OBVIOUS
  <2>1. FaceProcessing \in BOOLEAN
    BY ZenonT(20) DEF LoopInit
  <2> QED
    BY <2>1, LoopAssumption DEF LoopInit, LoopIInv, LoopTypeOK, Images
<1>2. TypeOK /\ LoopIInv /\ [LoopNext]_allVars => LoopIInv'
  <2> SUFFICES ASSUME TypeOK, LoopIInv, [LoopNext]_allVars PROVE LoopIInv'
    OBVIOUS
  <2> USE LoopAssumption DEF LoopIInv, LoopTypeOK, Goto, Consume, loopVars
  <2>1. CASE StartRound
    BY <2>1 DEF StartRound
  <2>2. CASE Call
    BY <2>2 DEF Call
  <2>3. CASE Inside
    BY <2>3 DEF Inside
  <2>4. CASE Succeed
    <3>1. map \in Images /\ turns \in 0 .. 3
      BY DEF TypeOK
    <3>2. count < Frames
      BY <2>4 DEF Succeed, Returned
    <3> QED
      BY <2>4, <3>1, <3>2 DEF Succeed
  <2>5. CASE Fail
    BY <2>5 DEF Fail, Returned
  <2>6. CASE WritePicture \/ DetectFaces
    BY <2>6 DEF WritePicture, DetectFaces, Consumed
  <2>7. CASE Classify
    <3>1. FaceProcessing' \in BOOLEAN
      BY <2>7, ZenonT(20) DEF Classify
    <3> QED
      BY <2>7, <3>1 DEF Classify
  <2>8. CASE CameraFills
    BY <2>8 DEF CameraFills
  <2>9. CASE UNCHANGED allVars
    BY <2>9 DEF allVars
  <2> QED
    BY <2>1, <2>2, <2>3, <2>4, <2>5, <2>6, <2>7, <2>8, <2>9 DEF LoopNext, Thread
<1>3. LoopSpec => []TypeOK
  BY LoopImplementsCapture, TypeCorrect, PTL
<1>4. LoopIInv => LoopTypeOK
  BY DEF LoopIInv
<1> QED
  BY <1>1, <1>2, <1>3, <1>4, PTL DEF LoopSpec

-----------------------------------------------------------------------------
(* ConvImg is only written with what a successful call delivered, so that  *)
(* it holds a whole frame in all places, not only where it is used.        *)
ConvertedInv ==
    /\ ConvImg.image # "none" =>
         ConvImg.image \in {"fresh", "stale"} /\ ConvImg.turns = 1
    /\ at # "calling" => pc = "idle"

(* Whatever failed, face detection gets a whole frame, turned once.        *)
THEOREM DetectionGetsWholeFrame == LoopSpec => []DetectsWholeFrame
<1>1. LoopInit => ConvertedInv
  BY DEF LoopInit, Init, ConvertedInv
<1>2. TypeOK /\ LoopTypeOK /\ DeliveryInv /\ ConvertedInv /\ [LoopNext]_allVars
        => ConvertedInv'
  <2> SUFFICES ASSUME TypeOK, LoopTypeOK, DeliveryInv, ConvertedInv, [LoopNext]_allVars
               PROVE  ConvertedInv'
    OBVIOUS
  <2> USE DEF ConvertedInv, Goto, loopVars, vars
  <2>1. CASE StartRound
    BY <2>1 DEF StartRound
  <2>2. CASE Call
    BY <2>2 DEF Call
  <2>3. CASE Inside
    <3>1. at = "calling"
      BY <2>3 DEF Inside, VideoNext, SkipLoop, Rotate, BlockSignals, Requeue, RequeueFails,
                  Dequeue, DequeueEio, DequeueFails, Convert
    <3> QED
      BY <2>3, <3>1 DEF Inside
  <2>4. CASE Succeed
    <3>1. pc = "idle" /\ ret = 0
      BY <2>4 DEF Succeed, Returned
    <3>2. ConvImg' = [image |-> map, turns |-> turns] /\ pc' = "idle"
      BY <2>4, <3>1 DEF Succeed
    <3> QED
      BY <3>1, <3>2 DEF DeliveryInv
  <2>5. CASE Fail
    BY <2>5 DEF Fail, Returned
  <2>6. CASE WritePicture \/ DetectFaces
    BY <2>6 DEF WritePicture, DetectFaces, Consumed
  <2>7. CASE Classify
    BY <2>7 DEF Classify
  <2>8. CASE CameraFills
    BY <2>8 DEF CameraFills, Camera, Fill
  <2>9. CASE UNCHANGED allVars
    BY <2>9 DEF allVars
  <2> QED
    BY <2>1, <2>2, <2>3, <2>4, <2>5, <2>6, <2>7, <2>8, <2>9 DEF LoopNext, Thread
<1>3. ConvertedInv => DetectsWholeFrame
  BY DEF ConvertedInv, DetectsWholeFrame
<1>4. LoopSpec => []TypeOK /\ []DeliveryInv
  BY LoopImplementsCapture, TypeCorrect, Delivery, PTL
<1> QED
  BY <1>1, <1>2, <1>3, <1>4, LoopTypeCorrect, PTL DEF LoopSpec
=============================================================================
