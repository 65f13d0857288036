----------------------------- MODULE FramesProof -----------------------------
(***************************************************************************)
(* Proofs about MotionStart and Frames: the start-up of the camera, for    *)
(* every number of buffers and every set of steps that may fail, and the   *)
(* contents of the frames, for every size of picture whose sides are       *)
(* multiples of four.                                                      *)
(*                                                                         *)
(* The pictures take four groups of lemmas: every byte read is inside the  *)
(* driver's buffer; the conversions put each byte where Planar has it; the *)
(* rotation moves each byte where Shown says; Turn moves what the bytes    *)
(* show the same way.                                                      *)
(***************************************************************************)
EXTENDS Frames, TLAPS

\* The places start-up passes when nothing fails, in this order.
Opened  == {"s", "capability", "input", "format", "controls", "reqbufs", "buffers",
            "query", "qbuf", "streamon", "images", "thread", "running"}
Queued  == {"streamon", "images", "thread", "running"}
Forward == {"task", "device", "times", "open"} \cup Opened

(* What each place of start-up can rely on.                                *)
ObjectsInv ==
    /\ pc \in Forward \ {"task"} => mem["Task"] = "live"
    /\ pc \in Forward \ {"task", "device"} => mem["VideoDevice"] = "live"
    /\ pc \in Forward \ {"task", "device", "times"} => mem["times"] = "live"
    /\ pc \in Opened => fd = "open"
    /\ pc \in Opened \ {"s"} => mem["s"] = "live"
    /\ pc \in {"query", "qbuf"} \cup Queued => mem["buffers"] = "live"
    /\ pc \in {"thread", "running"} => mem["images"] = "live"

BuffersInv ==
    /\ pc \in Forward \ ({"query", "qbuf"} \cup Queued) => next = 0 /\ mapped = {}
    /\ pc = "query" => next < Count /\ mapped = 0 .. next - 1
    /\ pc \in {"qbuf"} \cup Queued => mapped = Buffers
    /\ pc = "qbuf" => next < Count /\ \A b \in Buffers : b < next => owner[b] = "queued"
    /\ pc \in Queued => next = Count /\ \A b \in Buffers : owner[b] = "queued"

\* The two flags.
FlagsInv ==
    /\ private \in BOOLEAN /\ streaming \in BOOLEAN
    /\ pc \in Opened \ {"s"} => private
    /\ pc \in {"images", "thread", "running"} => streaming

StartInv == TypeOK /\ ObjectsInv /\ BuffersInv /\ FlagsInv

(* Nothing has been done before the first step.                            *)
LEMMA StartInvInit == Init => StartInv
<1> SUFFICES ASSUME Init PROVE StartInv
  OBVIOUS
<1>1. FlagsInv
  BY ZenonT(20) DEF Init, FlagsInv, Opened
<1>2. TypeOK
  BY <1>1, StartAssumption DEF Init, TypeOK, FlagsInv, Places, Objects, Buffers
<1>3. pc = "task" /\ next = 0 /\ mapped = {}
  BY DEF Init
<1> QED
  BY <1>1, <1>2, <1>3 DEF StartInv, ObjectsInv, BuffersInv, Forward, Opened, Queued, Goto

(* Each step keeps what the places say of heap objects and the device.     *)
LEMMA ObjectsStep == StartInv /\ Start => ObjectsInv'
<1> SUFFICES ASSUME StartInv, Start PROVE ObjectsInv'
  OBVIOUS
<1>0. mem \in [Objects -> {"none", "live", "freed"}] /\ ObjectsInv
  BY DEF StartInv, TypeOK
<1> USE <1>0 DEF ObjectsInv, Forward, Opened, Queued, Objects, Goto, Fails
<1>1. CASE AllocTask
  BY <1>1, SMTT(30) DEF AllocTask, Mymalloc
<1>2. CASE AllocDevice
  BY <1>2, SMTT(30) DEF AllocDevice, Mymalloc
<1>3. CASE AllocTimes
  BY <1>3, SMTT(30) DEF AllocTimes, Mymalloc
<1>4. CASE AllocImages
  BY <1>4, SMTT(30) DEF AllocImages, Mymalloc
<1>5. CASE OpenDevice
  BY <1>5, SMTT(30) DEF OpenDevice
<1>6. CASE OpenFails
  BY <1>6, SMTT(30) DEF OpenFails
<1>7. CASE AllocState
  BY <1>7, SMTT(30) DEF AllocState
<1>8. CASE Inquire
  BY <1>8, SMTT(30) DEF Inquire, Inquiries
<1>9. CASE ScanControls
  BY <1>9, SMTT(30) DEF ScanControls
<1>10. CASE RequestBuffers
  BY <1>10, SMTT(30) DEF RequestBuffers
<1>11. CASE AllocBuffers
  BY <1>11, SMTT(30) DEF AllocBuffers
<1>12. CASE MapBuffer
  BY <1>12, SMTT(30) DEF MapBuffer
<1>13. CASE MapFails
  BY <1>13, SMTT(30) DEF MapFails
<1>14. CASE QueueBuffer
  BY <1>14, SMTT(30) DEF QueueBuffer
<1>15. CASE QueueFails
  BY <1>15, SMTT(30) DEF QueueFails
<1>16. CASE StreamOn
  BY <1>16, SMTT(30) DEF StreamOn
<1>17. CASE StartError
  BY <1>17, SMTT(30) DEF StartError
<1>18. CASE CreateThread
  BY <1>18, SMTT(30) DEF CreateThread
<1>19. CASE CloseVideo
  BY <1>19, SMTT(30) DEF CloseVideo
<1>20. CASE FreeBoth
  BY <1>20, SMTT(30) DEF FreeBoth
<1> QED
  BY <1>1, <1>2, <1>3, <1>4, <1>5, <1>6, <1>7, <1>8, <1>9, <1>10, <1>11, <1>12,
     <1>13, <1>14, <1>15, <1>16, <1>17, <1>18, <1>19, <1>20 DEF Start

(* ... of mapped and queued buffers.                                       *)
LEMMA BuffersStep == StartInv /\ Start => BuffersInv'
<1> SUFFICES ASSUME StartInv, Start PROVE BuffersInv'
  OBVIOUS
<1>0. /\ mapped \subseteq Buffers
      /\ owner \in [Buffers -> {"queued", "held"}]
      /\ next \in 0 .. Count
      /\ BuffersInv
  BY DEF StartInv, TypeOK
<1> USE <1>0, StartAssumption
    DEF BuffersInv, Forward, Opened, Queued, Buffers, MinMmapBuffers, Goto, Fails
<1>1. CASE AllocTask
  BY <1>1, SMTT(30) DEF AllocTask, Mymalloc
<1>2. CASE AllocDevice
  BY <1>2, SMTT(30) DEF AllocDevice, Mymalloc
<1>3. CASE AllocTimes
  BY <1>3, SMTT(30) DEF AllocTimes, Mymalloc
<1>4. CASE AllocImages
  BY <1>4, SMTT(30) DEF AllocImages, Mymalloc
<1>5. CASE OpenDevice
  BY <1>5, SMTT(30) DEF OpenDevice
<1>6. CASE OpenFails
  BY <1>6, SMTT(30) DEF OpenFails
<1>7. CASE AllocState
  BY <1>7, SMTT(30) DEF AllocState
<1>8. CASE Inquire
  BY <1>8, SMTT(30) DEF Inquire, Inquiries
<1>9. CASE ScanControls
  BY <1>9, SMTT(30) DEF ScanControls
<1>10. CASE RequestBuffers
  BY <1>10, SMTT(30) DEF RequestBuffers
<1>11. CASE AllocBuffers
  <2>1. next = 0 /\ mapped = {} /\ UNCHANGED <<mapped, owner, next>>
    BY <1>11 DEF AllocBuffers
  <2>2. mapped' = 0 .. next' - 1 /\ next' < Count
    BY <2>1
  <2>3. pc' \in {"query", "err"}
    BY <1>11 DEF AllocBuffers
  <2> QED
    BY <2>1, <2>2, <2>3
<1>12. CASE MapBuffer
  BY <1>12, SMTT(30) DEF MapBuffer
<1>13. CASE MapFails
  BY <1>13, SMTT(30) DEF MapFails
<1>14. CASE QueueBuffer
  BY <1>14, SMTT(30) DEF QueueBuffer
<1>15. CASE QueueFails
  BY <1>15, SMTT(30) DEF QueueFails
<1>16. CASE StreamOn
  BY <1>16, SMTT(30) DEF StreamOn
<1>17. CASE StartError
  BY <1>17, SMTT(30) DEF StartError
<1>18. CASE CreateThread
  BY <1>18, SMTT(30) DEF CreateThread
<1>19. CASE CloseVideo
  BY <1>19, SMTT(30) DEF CloseVideo
<1>20. CASE FreeBoth
  BY <1>20, SMTT(30) DEF FreeBoth
<1> QED
  BY <1>1, <1>2, <1>3, <1>4, <1>5, <1>6, <1>7, <1>8, <1>9, <1>10, <1>11, <1>12,
     <1>13, <1>14, <1>15, <1>16, <1>17, <1>18, <1>19, <1>20 DEF Start

(* ... of the two flags.                                                   *)
LEMMA FlagsStep == StartInv /\ Start => FlagsInv'
<1> SUFFICES ASSUME StartInv, Start PROVE FlagsInv'
  OBVIOUS
<1> USE DEF StartInv, FlagsInv, Opened, Goto, Fails
<1>1. CASE AllocTask
  BY <1>1, ZenonT(30) DEF AllocTask, Mymalloc
<1>2. CASE AllocDevice
  BY <1>2, ZenonT(30) DEF AllocDevice, Mymalloc
<1>3. CASE AllocTimes
  BY <1>3, ZenonT(30) DEF AllocTimes, Mymalloc
<1>4. CASE AllocImages
  BY <1>4, ZenonT(30) DEF AllocImages, Mymalloc
<1>5. CASE OpenDevice
  BY <1>5, ZenonT(30) DEF OpenDevice
<1>6. CASE OpenFails
  BY <1>6, ZenonT(30) DEF OpenFails
<1>7. CASE AllocState
  BY <1>7, ZenonT(30) DEF AllocState
<1>8. CASE Inquire
  <2>1. /\ pc \in {"capability", "input", "format"}
        /\ pc' \in {"input", "format", "controls", "err"}
    BY <1>8 DEF Inquire, Inquiries
  <2>2. private /\ UNCHANGED <<private, streaming>>
    BY <1>8, <2>1, ZenonT(30) DEF Inquire
  <2> QED
    BY <2>1, <2>2, ZenonT(30)
<1>9. CASE ScanControls
  BY <1>9, ZenonT(30) DEF ScanControls
<1>10. CASE RequestBuffers
  BY <1>10, ZenonT(30) DEF RequestBuffers
<1>11. CASE AllocBuffers
  BY <1>11, ZenonT(30) DEF AllocBuffers
<1>12. CASE MapBuffer
  BY <1>12, ZenonT(30) DEF MapBuffer
<1>13. CASE MapFails
  BY <1>13, ZenonT(30) DEF MapFails
<1>14. CASE QueueBuffer
  BY <1>14, ZenonT(30) DEF QueueBuffer
<1>15. CASE QueueFails
  BY <1>15, ZenonT(30) DEF QueueFails
<1>16. CASE StreamOn
  BY <1>16, ZenonT(30) DEF StreamOn
<1>17. CASE StartError
  BY <1>17, ZenonT(30) DEF StartError
<1>18. CASE CreateThread
  BY <1>18, ZenonT(30) DEF CreateThread
<1>19. CASE CloseVideo
  BY <1>19, ZenonT(30) DEF CloseVideo
<1>20. CASE FreeBoth
  BY <1>20, ZenonT(30) DEF FreeBoth
<1> QED
  BY <1>1, <1>2, <1>3, <1>4, <1>5, <1>6, <1>7, <1>8, <1>9, <1>10, <1>11, <1>12,
     <1>13, <1>14, <1>15, <1>16, <1>17, <1>18, <1>19, <1>20 DEF Start

(* ... and the types, for which next must not leave 0 .. Count.            *)
LEMMA TypeStep == StartInv /\ Start => TypeOK'
<1> SUFFICES ASSUME StartInv, Start PROVE TypeOK'
  OBVIOUS
<1>a. private' \in BOOLEAN /\ streaming' \in BOOLEAN
  BY FlagsStep, ZenonT(20) DEF FlagsInv
<1>b. /\ mem \in [Objects -> {"none", "live", "freed"}]
      /\ fd \in {"none", "open", "closed"}
      /\ mapped \subseteq Buffers
      /\ owner \in [Buffers -> {"queued", "held"}]
      /\ next \in 0 .. Count
      /\ fault \in {"none", "freed_device", "no_private"}
      /\ BuffersInv
  BY DEF StartInv, TypeOK
<1> SUFFICES
      /\ pc' \in Places
      /\ mem' \in [Objects -> {"none", "live", "freed"}]
      /\ fd' \in {"none", "open", "closed"}
      /\ mapped' \subseteq Buffers
      /\ owner' \in [Buffers -> {"queued", "held"}]
      /\ next' \in 0 .. Count
      /\ fault' \in {"none", "freed_device", "no_private"}
  BY <1>a DEF TypeOK
<1> USE <1>b, StartAssumption
    DEF BuffersInv, Queued, Buffers, Objects, Places, MinMmapBuffers, Goto, Fails
<1>1. CASE AllocTask
  BY <1>1, SMTT(30) DEF AllocTask, Mymalloc
<1>2. CASE AllocDevice
  BY <1>2, SMTT(30) DEF AllocDevice, Mymalloc
<1>3. CASE AllocTimes
  BY <1>3, SMTT(30) DEF AllocTimes, Mymalloc
<1>4. CASE AllocImages
  BY <1>4, SMTT(30) DEF AllocImages, Mymalloc
<1>5. CASE OpenDevice
  BY <1>5, SMTT(30) DEF OpenDevice
<1>6. CASE OpenFails
  BY <1>6, SMTT(30) DEF OpenFails
<1>7. CASE AllocState
  BY <1>7, SMTT(30) DEF AllocState
<1>8. CASE Inquire
  BY <1>8, SMTT(30) DEF Inquire, Inquiries
<1>9. CASE ScanControls
  BY <1>9, SMTT(30) DEF ScanControls
<1>10. CASE RequestBuffers
  BY <1>10, SMTT(30) DEF RequestBuffers
<1>11. CASE AllocBuffers
  BY <1>11, SMTT(30) DEF AllocBuffers
<1>12. CASE MapBuffer
  BY <1>12, SMTT(30) DEF MapBuffer
<1>13. CASE MapFails
  BY <1>13, SMTT(30) DEF MapFails
<1>14. CASE QueueBuffer
  BY <1>14, SMTT(30) DEF QueueBuffer
<1>15. CASE QueueFails
  BY <1>15, SMTT(30) DEF QueueFails
<1>16. CASE StreamOn
  BY <1>16, SMTT(30) DEF StreamOn
<1>17. CASE StartError
  BY <1>17, SMTT(30) DEF StartError
<1>18. CASE CreateThread
  BY <1>18, SMTT(30) DEF CreateThread
<1>19. CASE CloseVideo
  BY <1>19, SMTT(30) DEF CloseVideo
<1>20. CASE FreeBoth
  BY <1>20, SMTT(30) DEF FreeBoth
<1> QED
  BY <1>1, <1>2, <1>3, <1>4, <1>5, <1>6, <1>7, <1>8, <1>9, <1>10, <1>11, <1>12,
     <1>13, <1>14, <1>15, <1>16, <1>17, <1>18, <1>19, <1>20 DEF Start

(* Together they make the invariant inductive.                             *)
LEMMA StartInvStep == StartInv /\ [Next]_vars => StartInv'
<1> SUFFICES ASSUME StartInv, [Next]_vars PROVE StartInv'
  OBVIOUS
<1>1. CASE Start
  BY <1>1, ObjectsStep, BuffersStep, FlagsStep, TypeStep DEF StartInv
<1>2. CASE UNCHANGED vars
  BY <1>2 DEF vars, StartInv, TypeOK, ObjectsInv, BuffersInv, FlagsInv
<1> QED
  BY <1>1, <1>2 DEF Next, Finished

(* It holds in every state.                                                *)
LEMMA StartInvariant == Spec => []StartInv
  BY StartInvInit, StartInvStep, PTL DEF Spec

(* What the invariant says of a start-up that succeeds.                    *)
LEMMA RunningStarts == StartInv => StartsCapture
<1> SUFFICES ASSUME StartInv, pc = "running"
             PROVE  /\ Capture!Init
                    /\ fd = "open" /\ private
                    /\ mapped = Buffers
                    /\ \A o \in Objects \ {"controls"} : mem[o] = "live"
  BY DEF StartsCapture
<1>1. /\ fd = "open" /\ private
      /\ mapped = Buffers
      /\ \A o \in Objects \ {"controls"} : mem[o] = "live"
  BY DEF StartInv, ObjectsInv, BuffersInv, FlagsInv, Forward, Opened, Queued, Objects
<1>2. streaming = TRUE
  BY ZenonT(20) DEF StartInv, FlagsInv
<1>3. next - 1 = Count - 1 /\ owner = [b \in Buffers |-> "queued"]
  BY DEF StartInv, BuffersInv, TypeOK, Queued
<1>4. Capture!Buffers = Buffers
  BY DEF Capture!Buffers, Buffers
<1>5. Capture!Init
  BY <1>2, <1>3, <1>4 DEF Capture!Init
<1> QED
  BY <1>1, <1>5

(* The state always has its type.                                          *)
THEOREM TypeCorrect == Spec => []TypeOK
<1>1. StartInv => TypeOK
  BY DEF StartInv
<1> QED
  BY <1>1, StartInvariant, PTL

(* The capture thread starts in the initial state of V4l2Capture, with the *)
(* device open and everything it dereferences allocated.                   *)
THEOREM ThreadFindsCamera == Spec => []StartsCapture
  BY RunningStarts, StartInvariant, PTL

(* A driver with no format the program knows ends the start-up like a      *)
(* refused one, also where refusals are not among the steps that may fail. *)
LEMMA NoFormatStep ==
  ASSUME StartInv, Goto("format", "err"),
         UNCHANGED <<mem, private, fd, mapped, owner, next, streaming, fault>>
  PROVE  StartInv'
<1>1. pc = "format" /\ pc' = "err"
  BY DEF Goto
<1>2. ObjectsInv'
  BY <1>1 DEF StartInv, ObjectsInv, Forward, Opened, Queued
<1>3. BuffersInv'
  BY <1>1 DEF BuffersInv, Forward, Opened, Queued
<1>4. FlagsInv'
  BY <1>1, ZenonT(20) DEF StartInv, FlagsInv, Opened
<1>5. TypeOK'
  BY <1>1, ZenonT(20) DEF StartInv, TypeOK, Places
<1> QED
  BY <1>2, <1>3, <1>4, <1>5 DEF StartInv

(* With the contents of the frames the start-up goes the same ways.        *)
LEMMA StartInvFrames == FSpec => []StartInv
<1>1. FInit => StartInv
  BY StartInvInit DEF FInit
<1>2. StartInv /\ [FNext]_<<vars, frameVars>> => StartInv'
  <2> SUFFICES ASSUME StartInv, [FNext]_<<vars, frameVars>> PROVE StartInv'
    OBVIOUS
  <2>1. CASE Start
    BY <2>1, StartInvStep DEF Next
  <2>2. CASE UNCHANGED vars
    BY <2>2, StartInvStep
  <2>3. CASE SetFormat
    <3>1. \/ Inquire
          \/ /\ Goto("format", "err")
             /\ UNCHANGED <<mem, private, fd, mapped, owner, next, streaming, fault>>
      BY <2>3, Zenon DEF SetFormat
    <3>2. CASE Inquire
      BY <2>1, <3>2 DEF Start
    <3> QED
      BY <3>1, <3>2, NoFormatStep
  <2>4. RotateInit \/ AllocImages => Start
    BY DEF RotateInit, Start
  <2>5. NextFrame \/ Convert \/ WritePicture \/ Finished => UNCHANGED vars
    BY DEF NextFrame, Convert, WritePicture, Finished
  <2> QED
    BY <2>1, <2>2, <2>3, <2>4, <2>5 DEF FNext
<1> QED
  BY <1>1, <1>2, PTL DEF FSpec

(* Frames are taken from a camera that is up.                              *)
THEOREM FramesFindCamera == FSpec => []StartsCapture
  BY RunningStarts, StartInvFrames, PTL

-----------------------------------------------------------------------------
(* Every byte of a frame comes from inside the driver's buffer.            *)

(* Multiplying by a natural number keeps the order.                        *)
LEMMA MulMono ==
  ASSUME NEW a \in Nat, NEW b \in Nat, NEW c \in Nat, a <= b
  PROVE  c * a \in Nat /\ c * b \in Nat /\ c * a <= c * b
  OBVIOUS

(* A place inside a plane of w columns and h rows has its offset inside    *)
(* the plane.                                                              *)
LEMMA InPlane ==
  ASSUME NEW w \in Nat, NEW h \in Nat, NEW x \in 0 .. w - 1, NEW y \in 0 .. h - 1
  PROVE  y * w + x \in 0 .. w * h - 1
<1>1. w * y <= w * (h - 1)
  BY MulMono
<1>2. w * (h - 1) = w * h - w
  OBVIOUS
<1> QED
  BY <1>1, <1>2

(* An offset into a plane is split into a column and a row that are inside *)
(* it.                                                                     *)
LEMMA Split ==
  ASSUME NEW w \in Nat \ {0}, NEW h \in Nat, NEW n \in 0 .. w * h - 1
  PROVE  n % w \in 0 .. w - 1 /\ n \div w \in 0 .. h - 1 /\ n = w * (n \div w) + (n % w)
<1>1. n % w \in 0 .. w - 1 /\ n \div w \in Int /\ n = w * (n \div w) + (n % w)
  OBVIOUS
<1>2. n \div w >= 0
  <2> SUFFICES ASSUME n \div w <= -1 PROVE FALSE
    BY <1>1
  <2>1. w * (n \div w) <= -w
    BY <1>1
  <2> QED
    BY <2>1, <1>1
<1>3. n \div w < h
  <2> SUFFICES ASSUME n \div w >= h PROVE FALSE
    BY <1>1
  <2>1. w * h <= w * (n \div w)
    BY <1>1, <1>2, MulMono
  <2> QED
    BY <2>1, <1>1
<1> QED
  BY <1>1, <1>2, <1>3

(* A picture with even sides has a quarter of its bytes in each chroma     *)
(* plane, and one and a half times in all.                                 *)
LEMMA Quarter ==
  ASSUME NEW w \in Nat \ {0}, NEW h \in Nat \ {0}, w % 2 = 0, h % 2 = 0
  PROVE  /\ w \div 2 \in Nat \ {0} /\ h \div 2 \in Nat \ {0}
         /\ w = 2 * (w \div 2) /\ h = 2 * (h \div 2)
         /\ w * h \in Nat \ {0}
         /\ (w * h) \div 4 \in Nat \ {0}
         /\ (w * h) \div 4 = (w \div 2) * (h \div 2)
         /\ w * h = 4 * ((w * h) \div 4)
         /\ (3 * (w * h)) \div 2 = w * h + 2 * ((w * h) \div 4)
<1> DEFINE a == w \div 2  b == h \div 2
<1>1. a \in Nat \ {0} /\ b \in Nat \ {0} /\ w = 2 * a /\ h = 2 * b
  OBVIOUS
<1>2. w * h = 4 * (a * b)
  BY <1>1
<1>3. a * b \in Nat \ {0}
  BY <1>1
<1> HIDE DEF a, b
<1>4. (w * h) \div 4 = a * b
  BY <1>2, <1>3
<1>5. (3 * (w * h)) \div 2 = w * h + 2 * (a * b)
  BY <1>2, <1>3
<1> QED
  BY <1>1, <1>2, <1>3, <1>4, <1>5 DEF a, b

(* A byte made of places of the scene, and n of them.                      *)
Good(b) == b # {} /\ <<"outside">> \notin b
AllGood(f, n) == \A i \in 0 .. n - 1 : Good(f[i])


(* An image whose planes are made of bytes of the scene is so itself: the  *)
(* offsets conv_* and decode_jpeg_raw store at are those of the planes.    *)
LEMMA ImageGood ==
  ASSUME NEW w \in Nat \ {0}, NEW h \in Nat \ {0}, w % 2 = 0, h % 2 = 0,
         NEW Y, NEW U, NEW V,
         \A i \in Pixels(w, h) : Good(Y[i]),
         \A j \in Half(w), k \in Half(h) : Good(U[<<j, k>>]) /\ Good(V[<<j, k>>])
  PROVE  AllGood(Image(w, h, Y, U, V), Size420(<<w, h>>))
<1> SUFFICES ASSUME NEW i \in 0 .. Size420(<<w, h>>) - 1
             PROVE  Good(Image(w, h, Y, U, V)[i])
  BY DEF AllGood
<1> DEFINE a == w \div 2  b == h \div 2  A == w * h  q == (w * h) \div 4
           n == (i - A) % q  j == n % a  k == n \div a
<1>1. /\ a \in Nat \ {0} /\ b \in Nat \ {0} /\ A \in Nat \ {0} /\ q \in Nat \ {0} /\ q = a * b
      /\ A = 4 * q
      /\ Size420(<<w, h>>) = A + 2 * q
  BY Quarter DEF Size420, Area
<1>2. Image(w, h, Y, U, V)[i] = IF i < A THEN Y[i] ELSE IF i < A + q THEN U[<<j, k>>] ELSE V[<<j, k>>]
  BY DEF Image
<1>3. CASE i < A
  <2>1. i \in Pixels(w, h)
    BY <1>1, <1>3 DEF Pixels
  <2> QED
    BY <1>2, <1>3, <2>1
<1>4. CASE i >= A
  <2> HIDE DEF a, b, A, q
  <2>1. n \in 0 .. q - 1
    BY <1>1, <1>4
  <2>2. j \in 0 .. a - 1 /\ k \in 0 .. b - 1
    BY <1>1, <2>1, Split
  <2>3. j \in Half(w) /\ k \in Half(h)
    BY <2>2 DEF Half, a, b
  <2>4. ~(i < A)
    BY <1>1, <1>4
  <2> HIDE DEF j, k
  <2> QED
    BY <1>2, <2>3, <2>4
<1> QED
  BY <1>1, <1>3, <1>4

(* Chroma of four pixels is of the scene.                                  *)
LEMMA BlockGood ==
  ASSUME NEW plane, NEW x, NEW y
  PROVE  Good(Block(plane, x, y))
<1>1. <<plane, 2 * x, 2 * y>> \in Block(plane, x, y)
  BY DEF Block
<1>2. <<"outside">> \notin Block(plane, x, y)
  BY DEF Block
<1> QED
  BY <1>1, <1>2 DEF Good

(* Every byte of a planar buffer of the driver is of the scene, ...        *)
LEMMA PlanarGood ==
  ASSUME NEW s
  PROVE  AllGood(Planar(s), Size420(s))
  BY BlockGood DEF AllGood, Planar, Good

(* ... and of a packed one.                                                *)
LEMMA PackedGood ==
  ASSUME NEW s, NEW luma
  PROVE  AllGood(Packed(s, luma), Area(s) * 2)
<1> SUFFICES ASSUME NEW i \in 0 .. Area(s) * 2 - 1
             PROVE  Good(Packed(s, luma)[i])
  BY DEF AllGood
<1> DEFINE x == (i \div 2) % Width(s)
           y == i \div (2 * Width(s))
           pair == {2 * (x \div 2), 2 * (x \div 2) + 1}
           c == {IF x % 2 = 0 THEN "U" ELSE "V"} \X pair \X {y}
<1>1. Packed(s, luma)[i] = IF i % 2 = luma THEN {<<"Y", x, y>>} ELSE c
  BY DEF Packed
<1>2. Good({<<"Y", x, y>>})
  BY DEF Good
<1>3. Good(c)
  <2>1. <<IF x % 2 = 0 THEN "U" ELSE "V", 2 * (x \div 2), y>> \in c
    OBVIOUS
  <2>2. <<"outside">> \notin c
    OBVIOUS
  <2> QED
    BY <2>1, <2>2 DEF Good
<1> QED
  BY <1>1, <1>2, <1>3

(* Reading inside a buffer gives what is there.                            *)
LEMMA Inside ==
  ASSUME NEW m \in Nat, NEW n \in Nat, m <= n, NEW f, DOMAIN f = 0 .. n - 1, AllGood(f, n),
         NEW i \in 0 .. m - 1
  PROVE  Good(At(f, i)) /\ At(f, i) = f[i]
<1>1. i \in 0 .. n - 1
  OBVIOUS
<1> QED
  BY <1>1 DEF At, AllGood

(* A mean of two bytes of the scene is one.                                *)
LEMMA GoodUnion == ASSUME NEW x, NEW y, Good(x), Good(y) PROVE Good(x \cup y)
  BY DEF Good

(* The second of the two rows chroma is read from ends inside the buffer.  *)
LEMMA LastRow ==
  ASSUME NEW w \in Nat, NEW z \in Nat, NEW t \in Nat, t <= z - w,
         NEW p \in Nat, 4 * p <= 2 * w - 4, NEW o \in 0 .. 3
  PROVE  4 * t + 4 * p + o \in Nat /\ 4 * t + 4 * p + o + 2 * w <= 4 * z - 1
  OBVIOUS

(* conv_yuv422to420p and conv_uyvyto420p read chroma of two rows: both are *)
(* inside a buffer of two bytes for a pixel, the last row included.        *)
LEMMA TwoRowsGood ==
  ASSUME NEW w \in Nat \ {0}, NEW h \in Nat \ {0}, w % 2 = 0, h % 2 = 0,
         NEW n \in Nat, 2 * (w * h) <= n, NEW src, DOMAIN src = 0 .. n - 1, AllGood(src, n),
         NEW o \in 0 .. 3,
         NEW p \in Half(w) \X Half(h)
  PROVE  Good(TwoRows(src, w, h, o)[p])
<1> DEFINE a == w \div 2  b == h \div 2  i == 4 * w * p[2] + 4 * p[1] + o
<1>1. a \in Nat \ {0} /\ b \in Nat \ {0} /\ w = 2 * a /\ h = 2 * b
  BY Quarter
<1>2. p[1] \in 0 .. a - 1 /\ p[2] \in 0 .. b - 1
  BY DEF Half
<1>3. TwoRows(src, w, h, o)[p] = At(src, i) \cup At(src, i + 2 * w)
  BY DEF TwoRows
<1>4. i \in Nat /\ i + 2 * w \in 0 .. 2 * (w * h) - 1
  <2>1. p[2] * a + p[1] \in 0 .. a * b - 1
    BY <1>1, <1>2, InPlane
  <2> HIDE DEF a, b
  <2> DEFINE t == w * p[2]  z == w * b
  <2>2. t \in Nat /\ t <= z - w
    <3>0. p[2] \in Nat /\ b - 1 \in Nat /\ p[2] <= b - 1
      BY <1>1, <1>2
    <3>1. w * p[2] <= w * (b - 1) /\ w * p[2] \in Nat
      BY <3>0, MulMono
    <3>2. w * (b - 1) = w * b - w
      BY <1>1
    <3> QED
      BY <3>1, <3>2
  <2>3. w * h = 2 * z /\ z \in Nat
    BY <1>1
  <2>4. i = 4 * t + 4 * p[1] + o
    BY <1>1, <1>2
  <2>5. 4 * p[1] <= 2 * w - 4 /\ p[1] \in Nat
    BY <1>1, <1>2
  <2> HIDE DEF t, z, i
  <2>6. i \in Nat /\ i + 2 * w <= 4 * z - 1
    BY <2>2, <2>3, <2>4, <2>5, LastRow
  <2>7. 2 * (w * h) = 4 * z
    BY <2>3
  <2> QED
    BY <2>3, <2>6, <2>7
<1>5. 2 * (w * h) \in Nat /\ i \in 0 .. 2 * (w * h) - 1
  BY <1>4
<1> HIDE DEF i
<1>6. Good(At(src, i))
  BY <1>5, Inside
<1>7. Good(At(src, i + 2 * w))
  BY <1>4, <1>5, Inside
<1> QED
  BY <1>3, <1>6, <1>7, GoodUnion

(* The conversions of the packed formats read no byte beyond a buffer that *)
(* has two bytes for each pixel they are called with.                      *)
LEMMA PackedConverted ==
  ASSUME NEW w \in Nat \ {0}, NEW h \in Nat \ {0}, w % 2 = 0, h % 2 = 0,
         NEW n \in Nat, 2 * (w * h) <= n, NEW src, DOMAIN src = 0 .. n - 1, AllGood(src, n)
  PROVE  /\ AllGood(conv_yuv422to420p(src, w, h), Size420(<<w, h>>))
         /\ AllGood(conv_uyvyto420p(src, w, h), Size420(<<w, h>>))
<1>1. ASSUME NEW luma \in {0, 1}, NEW i \in Pixels(w, h)
      PROVE  Good(At(src, 2 * i + luma))
  <2>1. 2 * (w * h) \in Nat /\ 2 * i + luma \in 0 .. 2 * (w * h) - 1
    <3>1. w * h \in Nat /\ i \in 0 .. (w * h) - 1
      BY DEF Pixels
    <3> QED
      BY <3>1
  <2> QED
    BY <2>1, Inside
<1>2. \A i \in Pixels(w, h) : Good([x \in Pixels(w, h) |-> At(src, 2 * x)][i])
  <2>1. \A i \in Pixels(w, h) : 2 * i + 0 = 2 * i
    BY DEF Pixels
  <2> QED
    BY <1>1, <2>1
<1>3. \A i \in Pixels(w, h) : Good([x \in Pixels(w, h) |-> At(src, 2 * x + 1)][i])
  BY <1>1
<1>4. ASSUME NEW o \in 0 .. 3, NEW j \in Half(w), NEW k \in Half(h)
      PROVE  Good(TwoRows(src, w, h, o)[<<j, k>>])
  BY TwoRowsGood
<1> QED
  BY <1>2, <1>3, <1>4, ImageGood DEF conv_yuv422to420p, conv_uyvyto420p

\* A byte of an RGB picture, or several.
Colours(b) == b # {} /\ \A p \in b : Len(p) = 3

(* The third byte of the last pixel, too.                                  *)
LEMMA ThreeBytes ==
  ASSUME NEW A \in Nat, NEW n \in Nat, 3 * A <= n, NEW i \in 0 .. A - 1, NEW c \in 0 .. 2
  PROVE  3 * i + c \in 0 .. n - 1
  OBVIOUS

(* conv_rgb24toyuv420p reads no byte beyond a buffer that has three.       *)
LEMMA RgbConverted ==
  ASSUME NEW w \in Nat \ {0}, NEW h \in Nat \ {0}, w % 2 = 0, h % 2 = 0,
         NEW n \in Nat, 3 * (w * h) <= n, NEW src, DOMAIN src = 0 .. n - 1,
         \A i \in 0 .. n - 1 : Colours(src[i])
  PROVE  AllGood(conv_rgb24toyuv420p(src, w, h), Size420(<<w, h>>))
<1> DEFINE
      Pixel(i) == UNION {At(src, 3 * i + c) : c \in 0 .. 2}
      As(plane, places) == {IF Len(p) = 3 THEN <<plane, p[2], p[3]>> ELSE p : p \in places}
      Four(j, k) == UNION {Pixel(w * (2 * k + b) + 2 * j + a) : a, b \in 0 .. 1}
      Y == [i \in Pixels(w, h) |-> As("Y", Pixel(i))]
      U == [p \in Half(w) \X Half(h) |-> As("U", Four(p[1], p[2]))]
      V == [p \in Half(w) \X Half(h) |-> As("V", Four(p[1], p[2]))]
<1>1. ASSUME NEW i \in 0 .. w * h - 1
      PROVE  Colours(Pixel(i))
  <2>1. ASSUME NEW c \in 0 .. 2 PROVE Colours(At(src, 3 * i + c))
    <3>1. w * h \in Nat
      OBVIOUS
    <3>2. 3 * i + c \in 0 .. n - 1
      BY <3>1, ThreeBytes
    <3> QED
      BY <3>2 DEF At
  <2>2. At(src, 3 * i + 0) # {}
    BY <2>1 DEF Colours
  <2> QED
    BY <2>1, <2>2 DEF Colours
<1>2. ASSUME NEW plane, NEW b, Colours(b)
      PROVE  Good(As(plane, b))
  <2>1. PICK p \in b : TRUE
    BY <1>2 DEF Colours
  <2>2. <<plane, p[2], p[3]>> \in As(plane, b)
    BY <1>2 DEF Colours
  <2>3. ASSUME NEW q \in b PROVE <<"outside">> # <<plane, q[2], q[3]>>
    OBVIOUS
  <2>4. <<"outside">> \notin As(plane, b)
    BY <1>2, <2>3 DEF Colours
  <2> HIDE DEF As
  <2> QED
    BY <2>2, <2>4 DEF Good
<1>3. ASSUME NEW j \in Half(w), NEW k \in Half(h)
      PROVE  Colours(Four(j, k))
  <2>1. ASSUME NEW a \in 0 .. 1, NEW b \in 0 .. 1
        PROVE  w * (2 * k + b) + 2 * j + a \in 0 .. w * h - 1
    <3>1. w = 2 * (w \div 2) /\ h = 2 * (h \div 2)
      BY Quarter
    <3>2. 2 * k + b \in 0 .. h - 1 /\ 2 * j + a \in 0 .. w - 1
      BY <3>1 DEF Half
    <3>3. (2 * k + b) * w + (2 * j + a) \in 0 .. w * h - 1
      BY <3>2, InPlane
    <3>4. (2 * k + b) * w + (2 * j + a) = w * (2 * k + b) + 2 * j + a
      <4>1. \A y \in Int : y * w = w * y
        OBVIOUS
      <4>2. 2 * k + b \in Int /\ 2 * j \in Int
        BY DEF Half
      <4> DEFINE y == 2 * k + b  z == w * y
      <4>3. y * w = z /\ z \in Int
        BY <4>1, <4>2
      <4> HIDE DEF y, z
      <4>4. y * w + (2 * j + a) = z + 2 * j + a
        BY <4>2, <4>3
      <4> QED
        BY <4>4 DEF y, z
    <3> QED
      BY <3>3, <3>4
  <2> HIDE DEF Pixel
  <2>2. ASSUME NEW a \in 0 .. 1, NEW b \in 0 .. 1
        PROVE  Colours(Pixel(w * (2 * k + b) + 2 * j + a))
    BY <1>1, <2>1
  <2>3. Pixel(w * (2 * k + 0) + 2 * j + 0) # {}
    BY <2>2 DEF Colours
  <2> QED
    BY <2>2, <2>3 DEF Colours
<1>4. \A i \in Pixels(w, h) : Good(Y[i])
  <2> HIDE DEF Pixel, As
  <2> QED
    BY <1>1, <1>2 DEF Pixels
<1>5. \A j \in Half(w), k \in Half(h) : Good(U[<<j, k>>]) /\ Good(V[<<j, k>>])
  <2> HIDE DEF Four, As
  <2> QED
    BY <1>2, <1>3
<1>6. conv_rgb24toyuv420p(src, w, h) = Image(w, h, Y, U, V)
  BY DEF conv_rgb24toyuv420p
<1> HIDE DEF Y, U, V
<1> QED
  BY <1>4, <1>5, <1>6, ImageGood

\* The widths a driver may grant that are not less than the one asked for.
Widened(s, w) == Width(s) \in {w, 2 * w, 4 * w, (3 * w) \div 2}

(* decode_jpeg_raw: the columns a pixel is made of are in the picture,     *)
(* with the margin and the shrinking chosen by the width the driver        *)
(* granted.                                                                *)
LEMMA ColumnsInside ==
  ASSUME NEW s, NEW w \in Nat \ {0}, w % 4 = 0, Widened(s, w)
  PROVE  /\ Width(s) \in Nat \ {0} /\ Width(s) % 2 = 0
         /\ \A x \in 0 .. w - 1 :
               /\ Columns(s, w, Margin(s, w), x) # {}
               /\ Columns(s, w, Margin(s, w), x) \subseteq 0 .. Width(s) - 1
         /\ \A j \in Half(w) :
               /\ Columns(s, w, Margin(s, w) \div 2, j) # {}
               /\ Columns(s, w, Margin(s, w) \div 2, j) \subseteq 0 .. Width(s) \div 2 - 1
<1> DEFINE a == w \div 4
<1>1. a \in Nat \ {0} /\ w = 4 * a
  OBVIOUS
<1> HIDE DEF a
<1> DEFINE m == Margin(s, w)
           Within(xs, n) == xs # {} /\ xs \subseteq 0 .. n - 1
<1> SUFFICES /\ Width(s) \in Nat \ {0} /\ Width(s) % 2 = 0
             /\ \A x \in 0 .. 4 * a - 1 : Within(Columns(s, w, m, x), Width(s))
             /\ \A j \in 0 .. 2 * a - 1 : Within(Columns(s, w, m \div 2, j), Width(s) \div 2)
  BY <1>1 DEF Half
<1>2. \A n \in Nat : \A x, y \in 0 .. n - 1 : Within({x, y}, n) /\ Within({x}, n)
  OBVIOUS
<1>3. CASE Width(s) = w
  <2>1. Shrink(s, w) = "no" /\ Margin(s, w) = 0 /\ Width(s) = 4 * a
    BY <1>1, <1>3 DEF Shrink, Margin
  <2>2. \A x : Columns(s, w, m, x) = {0 + x} /\ Columns(s, w, m \div 2, x) = {0 + x}
    BY <2>1 DEF Columns
  <2>3. \A x \in 0 .. 4 * a - 1 : Within({0 + x}, 4 * a)
    OBVIOUS
  <2>4. \A j \in 0 .. 2 * a - 1 : Within({0 + j}, 2 * a)
    OBVIOUS
  <2>5. 4 * a \in Nat \ {0} /\ (4 * a) % 2 = 0 /\ (4 * a) \div 2 = 2 * a
    BY <1>1
  <2> HIDE DEF Within, m
  <2> QED
    BY <2>1, <2>2, <2>3, <2>4, <2>5
<1>4. CASE Width(s) = 2 * w \/ Width(s) = 4 * w
  <2>1. PICK k \in {2, 4} : Width(s) = k * w
    BY <1>4
  <2>2. Width(s) = 4 * k * a
    BY <1>1, <2>1
  <2>3. Shrink(s, w) = "2:1"
    BY <1>1, <2>1, <2>2 DEF Shrink
  <2>4. m = 2 * (k - 2) * a
    <3>1. CASE k = 2
      BY <1>1, <2>2, <2>3, <3>1 DEF Margin
    <3>2. CASE k = 4
      <4>1. (Width(s) - 2 * w) \div 2 = 4 * a
        BY <1>1, <2>2, <3>2
      <4>2. ~(Width(s) < 2 * w)
        BY <1>1, <2>2, <3>2
      <4>3. m = 2 * ((4 * a) \div 2)
        BY <2>3, <4>1, <4>2 DEF Margin
      <4> QED
        BY <1>1, <3>2, <4>3
    <3> QED
      BY <3>1, <3>2
  <2>5. \A c, x : Columns(s, w, c, x) = {c + 2 * x, c + 2 * x + 1}
    BY <2>3 DEF Columns
  <2>6. \A x \in 0 .. 4 * a - 1 : m + 2 * x \in 0 .. Width(s) - 1 /\ m + 2 * x + 1 \in 0 .. Width(s) - 1
    BY <1>1, <2>1, <2>2, <2>4
  <2>7. m \div 2 = (k - 2) * a /\ Width(s) \div 2 = 2 * k * a
    BY <1>1, <2>1, <2>2, <2>4
  <2>8. \A x \in 0 .. 2 * a - 1 : /\ m \div 2 + 2 * x \in 0 .. Width(s) \div 2 - 1
                                 /\ m \div 2 + 2 * x + 1 \in 0 .. Width(s) \div 2 - 1
    BY <1>1, <2>1, <2>7
  <2>9. Width(s) \in Nat \ {0} /\ Width(s) % 2 = 0 /\ Width(s) \div 2 \in Nat
    BY <1>1, <2>1, <2>2
  <2> HIDE DEF Within, m
  <2>10. ASSUME NEW x \in 0 .. 4 * a - 1 PROVE Within(Columns(s, w, m, x), Width(s))
    <3> DEFINE p == m + 2 * x  r == m + 2 * x + 1
    <3>1. Columns(s, w, m, x) = {p, r}
      BY <2>5, Zenon
    <3>2. p \in 0 .. Width(s) - 1 /\ r \in 0 .. Width(s) - 1 /\ Width(s) \in Nat
      BY <2>6, <2>9
    <3> HIDE DEF p, r
    <3>3. Within({p, r}, Width(s))
      BY <1>2, <3>2, Zenon
    <3> QED
      BY <3>1, <3>3, Zenon
  <2>11. ASSUME NEW j \in 0 .. 2 * a - 1 PROVE Within(Columns(s, w, m \div 2, j), Width(s) \div 2)
    <3> DEFINE p == m \div 2 + 2 * j  r == m \div 2 + 2 * j + 1
    <3>1. Columns(s, w, m \div 2, j) = {p, r}
      BY <2>5, Zenon
    <3>2. p \in 0 .. Width(s) \div 2 - 1 /\ r \in 0 .. Width(s) \div 2 - 1
      BY <2>8
    <3> HIDE DEF p, r
    <3>3. Within({p, r}, Width(s) \div 2)
      BY <1>2, <2>9, <3>2, Zenon
    <3> QED
      BY <3>1, <3>3, Zenon
  <2> QED
    BY <2>9, <2>10, <2>11
<1>5. CASE Width(s) = (3 * w) \div 2
  <2>0. Width(s) = 6 * a
    BY <1>1, <1>5
  <2>1. Shrink(s, w) = "3:2"
    BY <1>1, <2>0 DEF Shrink
  <2>2. \A c, x : Columns(s, w, c, x) = {3 * (x \div 2) + 2 * (x % 2), 3 * (x \div 2) + 1}
    BY <2>1 DEF Columns
  <2>3. \A x \in 0 .. 4 * a - 1 :
          /\ 3 * (x \div 2) + 2 * (x % 2) \in 0 .. 6 * a - 1
          /\ 3 * (x \div 2) + 1 \in 0 .. 6 * a - 1
    BY <1>1
  <2>4. \A x \in 0 .. 2 * a - 1 :
          /\ 3 * (x \div 2) + 2 * (x % 2) \in 0 .. 3 * a - 1
          /\ 3 * (x \div 2) + 1 \in 0 .. 3 * a - 1
    BY <1>1
  <2>5. 6 * a \in Nat /\ 3 * a \in Nat /\ Width(s) \div 2 = 3 * a
    BY <1>1, <2>0
  <2>6. Width(s) \in Nat \ {0} /\ Width(s) % 2 = 0
    BY <1>1, <2>0
  <2> HIDE DEF Within, m
  <2>7. ASSUME NEW x \in 0 .. 4 * a - 1 PROVE Within(Columns(s, w, m, x), Width(s))
    <3> DEFINE p == 3 * (x \div 2) + 2 * (x % 2)  r == 3 * (x \div 2) + 1
    <3>1. Columns(s, w, m, x) = {p, r}
      BY <2>2, Zenon
    <3>2. p \in 0 .. 6 * a - 1 /\ r \in 0 .. 6 * a - 1
      BY <2>3
    <3> HIDE DEF p, r
    <3>3. Within({p, r}, 6 * a)
      BY <1>2, <2>5, <3>2, Zenon
    <3> QED
      BY <2>0, <3>1, <3>3, Zenon
  <2>8. ASSUME NEW j \in 0 .. 2 * a - 1 PROVE Within(Columns(s, w, m \div 2, j), Width(s) \div 2)
    <3> DEFINE p == 3 * (j \div 2) + 2 * (j % 2)  r == 3 * (j \div 2) + 1
    <3>1. Columns(s, w, m \div 2, j) = {p, r}
      BY <2>2, Zenon
    <3>2. p \in 0 .. 3 * a - 1 /\ r \in 0 .. 3 * a - 1
      BY <2>4
    <3> HIDE DEF p, r
    <3>3. Within({p, r}, 3 * a)
      BY <1>2, <2>5, <3>2, Zenon
    <3> QED
      BY <2>5, <3>1, <3>3, Zenon
  <2> QED
    BY <2>6, <2>7, <2>8
<1> QED
  BY <1>3, <1>4, <1>5 DEF Widened

(* decode_jpeg_raw stores bytes of the picture only, when its height is    *)
(* the one asked for and it is as wide or wider in one of the ways a       *)
(* driver may grant.                                                       *)
LEMMA JpegDecoded ==
  ASSUME NEW s, NEW w \in Nat \ {0}, NEW h \in Nat \ {0}, w % 4 = 0, h % 4 = 0,
         Widened(s, w), Height(s) = h
  PROVE  AllGood(decode_jpeg_raw(s, w, h), Size420(<<w, h>>))
<1> DEFINE
      picture == Planar(s)
      m == Margin(s, w)
      Cell(base, width, x, y) == IF x < width THEN picture[base + y * width + x] ELSE Outside
      Band(base, width, xs, y) == UNION {Cell(base, width, x, y) : x \in xs}
      Y == [i \in Pixels(w, h) |->
              UNION {Cell(0, Width(s), x, i \div w) : x \in Columns(s, w, m, i % w)}]
      Chroma(base) == [p \in Half(w) \X Half(h) |->
              UNION {Cell(base, Width(s) \div 2, x, p[2]) : x \in Columns(s, w, m \div 2, p[1])}]
      W == Width(s)  q == (W * h) \div 4
<1>1. /\ W \in Nat \ {0} /\ W % 2 = 0 /\ h % 2 = 0 /\ w % 2 = 0
      /\ W \div 2 \in Nat \ {0} /\ h \div 2 \in Nat \ {0}
      /\ W * h \in Nat \ {0} /\ q \in Nat \ {0} /\ q = (W \div 2) * (h \div 2)
      /\ Size420(s) = W * h + 2 * q /\ Area(s) = W * h
  <2>1. /\ W \in Nat \ {0} /\ W % 2 = 0 /\ h % 2 = 0 /\ w % 2 = 0
    BY ColumnsInside
  <2> HIDE DEF W
  <2>2. Area(s) = W * h
    BY DEF Area, Height, Width, W
  <2> QED
    BY <2>1, <2>2, Quarter DEF Size420
<1>2. \A i \in 0 .. W * h + 2 * q - 1 : Good(picture[i])
  BY <1>1, PlanarGood DEF AllGood
<1> HIDE DEF W, q, picture
<1>3. ASSUME NEW width \in Nat, NEW height \in Nat, NEW base \in Nat,
             base + width * height <= W * h + 2 * q,
             NEW xs, xs # {}, xs \subseteq 0 .. width - 1, NEW y \in 0 .. height - 1
      PROVE  Good(Band(base, width, xs, y))
  <2>1. ASSUME NEW x \in xs PROVE Good(Cell(base, width, x, y))
    <3>1. y * width + x \in 0 .. width * height - 1
      BY <1>3, InPlane
    <3>2. width * height \in Nat /\ y * width \in Int /\ x \in Int /\ x < width
      BY <1>3
    <3>3. base + y * width + x \in 0 .. W * h + 2 * q - 1
      BY <1>1, <1>3, <3>1, <3>2
    <3> QED
      BY <1>2, <3>2, <3>3
  <2>2. PICK x \in xs : TRUE
    BY <1>3
  <2> HIDE DEF Cell
  <2>3. Cell(base, width, x, y) # {} /\ Cell(base, width, x, y) \subseteq UNION {Cell(base, width, z, y) : z \in xs}
    BY <2>1 DEF Good
  <2>4. <<"outside">> \notin UNION {Cell(base, width, z, y) : z \in xs}
    BY <2>1 DEF Good
  <2> QED
    BY <2>3, <2>4 DEF Good
<1>4. \A i \in Pixels(w, h) : Good(Y[i])
  <2> SUFFICES ASSUME NEW i \in Pixels(w, h) PROVE Good(Y[i])
    OBVIOUS
  <2>1. i % w \in 0 .. w - 1 /\ i \div w \in 0 .. h - 1
    BY Split DEF Pixels
  <2>2. Columns(s, w, m, i % w) # {} /\ Columns(s, w, m, i % w) \subseteq 0 .. W - 1
    BY <2>1, ColumnsInside DEF W
  <2>3. 0 + W * h <= W * h + 2 * q /\ W \in Nat
    BY <1>1
  <2>4. Y[i] = Band(0, W, Columns(s, w, m, i % w), i \div w)
    BY DEF W
  <2>5. 0 \in Nat /\ h \in Nat
    OBVIOUS
  <2> HIDE DEF Cell, Band, m, Y
  <2> QED
    BY <1>3, <2>1, <2>2, <2>3, <2>4, <2>5
<1>5. ASSUME NEW base \in {W * h, W * h + q}, NEW j \in Half(w), NEW k \in Half(h)
      PROVE  Good(Chroma(base)[<<j, k>>])
  <2>1. /\ Columns(s, w, m \div 2, j) # {}
        /\ Columns(s, w, m \div 2, j) \subseteq 0 .. W \div 2 - 1
    BY ColumnsInside DEF W
  <2>2. base \in Nat /\ base + q <= W * h + 2 * q /\ q = (W \div 2) * (h \div 2)
        /\ W \div 2 \in Nat /\ h \div 2 \in Nat
    BY <1>1
  <2>3. k \in 0 .. h \div 2 - 1
    BY DEF Half
  <2>4. Chroma(base)[<<j, k>>] = Band(base, W \div 2, Columns(s, w, m \div 2, j), k)
    BY DEF W
  <2> HIDE DEF Cell, Band, m, Chroma
  <2>5. Good(Band(base, W \div 2, Columns(s, w, m \div 2, j), k))
    BY <1>3, <2>1, <2>2, <2>3
  <2> QED
    BY <2>4, <2>5
<1>6. decode_jpeg_raw(s, w, h) = Image(w, h, Y, Chroma(W * h), Chroma(W * h + q))
  BY <1>1 DEF decode_jpeg_raw, W, q, picture
<1> HIDE DEF Y, Chroma
<1> QED
  BY <1>1, <1>4, <1>5, <1>6, ImageGood

(* What the code relies on of the sizes: those asked for are multiples of  *)
(* four, and imgs has them, perhaps swapped.                               *)
ByFour(s) == s \in (Nat \ {0}) \X (Nat \ {0}) /\ Width(s) % 4 = 0 /\ Height(s) % 4 = 0

Sized ==
    /\ ByFour(cap)
    /\ grant \in {"same", "half", "double", "three_to_two", "fourfold"}
    /\ imgs \in {cap, Swap(cap)}

(* Swapping the sides keeps the number of bytes.                           *)
LEMMA SizeFacts ==
  ASSUME Sized
  PROVE  /\ Width(imgs) \in Nat \ {0} /\ Height(imgs) \in Nat \ {0}
         /\ Width(imgs) % 4 = 0 /\ Height(imgs) % 4 = 0
         /\ Area(imgs) = Area(cap) /\ Size420(imgs) = Size420(cap)
         /\ Size420(<<Width(imgs), Height(imgs)>>) = Size420(cap)
         /\ Width(imgs) * Height(imgs) = Area(cap)
         /\ Area(cap) \in Nat /\ Size420(cap) \in Nat
<1>1. PICK w \in Nat \ {0}, h \in Nat \ {0} : cap = <<w, h>>
  BY DEF Sized, ByFour
<1>2. w % 4 = 0 /\ h % 4 = 0
  BY <1>1 DEF Sized, ByFour, Width, Height
<1>3. w * h = h * w /\ w * h \in Nat /\ (3 * (w * h)) \div 2 \in Nat
  OBVIOUS
<1>4. imgs \in {<<w, h>>, <<h, w>>}
  BY <1>1 DEF Sized, Swap
<1> QED
  BY <1>1, <1>2, <1>3, <1>4 DEF Width, Height, Area, Size420

(* A driver changes the width only.                                        *)
LEMMA GrantedFacts ==
  ASSUME Sized, fmt = Granted(cap)
  PROVE  /\ Height(fmt) = Height(cap)
         /\ Width(fmt) \in {Width(cap) \div 2, Width(cap), 2 * Width(cap), 4 * Width(cap), (3 * Width(cap)) \div 2}
         /\ fmt \in Nat \X Nat
         /\ Area(fmt) \in Nat
<1>1. PICK w \in Nat \ {0}, h \in Nat \ {0} : cap = <<w, h>>
  BY DEF Sized, ByFour
<1>2. \E g \in {w \div 2, w, 2 * w, 4 * w, (3 * w) \div 2} : fmt = <<g, h>>
  <2>1. w * 2 = 2 * w /\ w * 4 = 4 * w /\ (w * 3) \div 2 = (3 * w) \div 2
    OBVIOUS
  <2> QED
    BY <1>1, <2>1 DEF Sized, Granted
<1>3. PICK g \in {w \div 2, w, 2 * w, 4 * w, (3 * w) \div 2} : fmt = <<g, h>>
  BY <1>2
<1>4. g \in Nat
  BY <1>3
<1> QED
  BY <1>1, <1>3, <1>4 DEF Width, Height, Area

(* A picture with enough bytes whose height fits what the decoder is       *)
(* called with was not narrowed.                                           *)
LEMMA WidenedByDriver ==
  ASSUME Sized, fmt = Granted(cap), Area(fmt) >= Area(cap), Height(fmt) = Height(imgs)
  PROVE  Widened(fmt, Width(imgs))
<1>1. PICK w \in Nat \ {0}, h \in Nat \ {0} : cap = <<w, h>>
  BY DEF Sized, ByFour
<1>2. imgs = <<w, h>> \/ (imgs = <<h, w>> /\ w = h)
  BY <1>1, GrantedFacts DEF Sized, Swap, Width, Height
<1>3. Width(imgs) = w /\ Width(cap) = w /\ Height(fmt) = h /\ Area(cap) = w * h
  BY <1>1, <1>2, GrantedFacts DEF Width, Height, Area
<1>4. Width(fmt) # w \div 2
  <2> SUFFICES ASSUME Width(fmt) = w \div 2 PROVE FALSE
    OBVIOUS
  <2>1. Area(fmt) = (w \div 2) * h
    BY <1>3 DEF Area, Width, Height
  <2>2. w \div 2 \in Nat /\ w \div 2 <= w - 1
    OBVIOUS
  <2>3. h * (w \div 2) <= h * (w - 1)
    BY <2>2, MulMono
  <2>4. h * (w - 1) = w * h - h /\ (w \div 2) * h = h * (w \div 2) /\ w * h \in Nat
    BY <2>2
  <2> QED
    BY <1>3, <2>1, <2>3, <2>4
<1> QED
  BY <1>3, <1>4, GrantedFacts DEF Widened

(* Every byte of an image that was converted comes from inside the buffer. *)
LEMMA ConvertedGood ==
  ASSUME Sized, fmt = Granted(cap), Area(fmt) >= Area(cap), Decodes
  PROVE  /\ DOMAIN Converted(Width(imgs), Height(imgs)) = 0 .. Size420(cap) - 1
         /\ AllGood(Converted(Width(imgs), Height(imgs)), Size420(cap))
<1> DEFINE w == Width(imgs)  h == Height(imgs)
<1>1. /\ w \in Nat \ {0} /\ h \in Nat \ {0} /\ w % 4 = 0 /\ h % 4 = 0
      /\ Size420(<<w, h>>) = Size420(cap)
      /\ w * h = Area(cap)
      /\ w * h \in Nat
  BY SizeFacts
<1> HIDE DEF w, h
<1>2. w % 2 = 0 /\ h % 2 = 0
  BY <1>1
<1>3. \A Y, U, V : DOMAIN Image(w, h, Y, U, V) = 0 .. Size420(cap) - 1
  BY <1>1 DEF Image
<1>4. CASE format = "RGB24"
  <2>1. Buffer(format, fmt) = Coloured(fmt)
    BY <1>4 DEF Buffer
  <2>2. Area(fmt) * 3 \in Nat /\ 3 * (w * h) <= Area(fmt) * 3
    BY <1>1, GrantedFacts
  <2>3. /\ DOMAIN Coloured(fmt) = 0 .. Area(fmt) * 3 - 1
        /\ \A i \in 0 .. Area(fmt) * 3 - 1 : Colours(Coloured(fmt)[i])
    <3>1. ASSUME NEW x, NEW y PROVE Colours({<<"RGB", x, y>>})
      <4>1. Len(<<"RGB", x, y>>) = 3
        OBVIOUS
      <4> QED
        BY <4>1, Zenon DEF Colours
    <3> HIDE DEF Colours
    <3> QED
      BY <3>1 DEF Coloured
  <2>4. Converted(w, h) = conv_rgb24toyuv420p(Coloured(fmt), w, h)
    BY <1>4, <2>1 DEF Converted
  <2>5. AllGood(Converted(w, h), Size420(cap))
    BY <1>1, <1>2, <2>2, <2>3, <2>4, RgbConverted
  <2>6. DOMAIN Converted(w, h) = 0 .. Size420(cap) - 1
    BY <1>3, <2>4 DEF conv_rgb24toyuv420p
  <2> QED
    BY <2>5, <2>6 DEF w, h
<1>5. CASE format \in {"UYVY", "YUYV", "YUV422P"}
  <2>1. PICK luma \in {0, 1} : Buffer(format, fmt) = Packed(fmt, luma)
    BY <1>5 DEF Buffer
  <2>2. Area(fmt) * 2 \in Nat /\ 2 * (w * h) <= Area(fmt) * 2
    BY <1>1, GrantedFacts
  <2>3. DOMAIN Packed(fmt, luma) = 0 .. Area(fmt) * 2 - 1
    BY DEF Packed
  <2>4. \/ Converted(w, h) = conv_yuv422to420p(Packed(fmt, luma), w, h)
        \/ Converted(w, h) = conv_uyvyto420p(Packed(fmt, luma), w, h)
    BY <1>5, <2>1 DEF Converted
  <2>5. AllGood(Converted(w, h), Size420(cap))
    BY <1>1, <1>2, <2>2, <2>3, <2>4, PackedGood, PackedConverted
  <2>6. DOMAIN Converted(w, h) = 0 .. Size420(cap) - 1
    BY <1>3, <2>4 DEF conv_yuv422to420p, conv_uyvyto420p
  <2> QED
    BY <2>5, <2>6 DEF w, h
<1>6. CASE format \in {"JPEG", "MJPEG"}
  <2>1. Height(fmt) = h
    BY <1>6 DEF Decodes, Fits, h
  <2>2. Widened(fmt, w)
    BY <2>1, WidenedByDriver DEF w, h
  <2>3. Converted(w, h) = decode_jpeg_raw(fmt, w, h)
    BY <1>6 DEF Converted
  <2>4. AllGood(Converted(w, h), Size420(cap))
    BY <1>1, <2>1, <2>2, <2>3, JpegDecoded
  <2>5. DOMAIN Converted(w, h) = 0 .. Size420(cap) - 1
    BY <1>3, <2>3 DEF decode_jpeg_raw
  <2> QED
    BY <2>4, <2>5 DEF w, h
<1>7. CASE format \notin {"RGB24", "UYVY", "YUYV", "YUV422P", "JPEG", "MJPEG"}
  <2>1. Buffer(format, fmt) = Planar(fmt)
    BY <1>7 DEF Buffer
  <2>2. Converted(w, h) = Copy(Planar(fmt), Size420(cap))
    BY <1>7, <2>1 DEF Converted
  <2>3. /\ Size420(cap) \in Nat /\ Size420(fmt) \in Nat /\ Size420(cap) <= Size420(fmt)
    BY SizeFacts, GrantedFacts DEF Size420
  <2>4. DOMAIN Planar(fmt) = 0 .. Size420(fmt) - 1 /\ AllGood(Planar(fmt), Size420(fmt))
    BY PlanarGood DEF Planar
  <2>5. \A i \in 0 .. Size420(cap) - 1 : Good(At(Planar(fmt), i))
    BY <2>3, <2>4, Inside
  <2> QED
    BY <2>2, <2>5 DEF Copy, AllGood, w, h
<1> QED
  BY <1>4, <1>5, <1>6, <1>7

(* rot90cw takes the bytes of a plane from that plane, ...                 *)
LEMMA ClockwiseGood ==
  ASSUME NEW w \in Nat \ {0}, NEW h \in Nat \ {0}, NEW base \in Nat, NEW map,
         \A i \in base .. base + w * h - 1 : Good(map[i])
  PROVE  AllGood(rot90cw(map, base, w, h), w * h)
<1> SUFFICES ASSUME NEW i \in 0 .. w * h - 1 PROVE Good(rot90cw(map, base, w, h)[i])
  BY DEF AllGood
<1> DEFINE x == i \div h  y == i % h  n == base + w * h - w + x - w * y
<1>1. x \in 0 .. w - 1 /\ y \in 0 .. h - 1
  <2>1. i \in 0 .. h * w - 1
    OBVIOUS
  <2> QED
    BY <2>1, Split
<1>2. rot90cw(map, base, w, h)[i] = map[n]
  BY DEF rot90cw
<1> HIDE DEF x, y
<1>3. n \in base .. base + w * h - 1
  <2>1. (h - 1 - y) * w + x \in 0 .. w * h - 1
    BY <1>1, InPlane
  <2>2. (h - 1 - y) * w = w * h - w - w * y
    BY <1>1
  <2>3. w * h \in Nat /\ w * y \in Nat /\ x \in Int
    BY <1>1
  <2> QED
    BY <2>1, <2>2, <2>3
<1> QED
  BY <1>2, <1>3

(* ... rot90ccw too, ...                                                   *)
LEMMA CounterGood ==
  ASSUME NEW w \in Nat \ {0}, NEW h \in Nat \ {0}, NEW base \in Nat, NEW map,
         \A i \in base .. base + w * h - 1 : Good(map[i])
  PROVE  AllGood(rot90ccw(map, base, w, h), w * h)
<1> SUFFICES ASSUME NEW i \in 0 .. w * h - 1 PROVE Good(rot90ccw(map, base, w, h)[i])
  BY DEF AllGood
<1>1. w * h - 1 - i \in 0 .. w * h - 1
  <2>1. w * h \in Nat
    OBVIOUS
  <2> QED
    BY <2>1
<1> QED
  BY <1>1, ClockwiseGood DEF rot90ccw, AllGood

(* ... and reverse_inplace_quad, whose size is a multiple of four.         *)
LEMMA ReversedGood ==
  ASSUME NEW q \in Nat, NEW size \in Nat, size = 4 * q, NEW base \in Nat, NEW map,
         \A i \in base .. base + size - 1 : Good(map[i])
  PROVE  AllGood(reverse_inplace_quad(map, base, size), size)
<1> SUFFICES ASSUME NEW i \in 0 .. size - 1 PROVE Good(reverse_inplace_quad(map, base, size)[i])
  BY DEF AllGood
<1>1. /\ base + i \in base .. base + size - 1
      /\ base + (4 * ((size \div 4 - 1) - i \div 4) + 3 - (i % 4)) \in base .. base + size - 1
  OBVIOUS
<1> QED
  BY <1>1 DEF reverse_inplace_quad

(* Three planes one after the other make an image.                         *)
LEMMA PlanesGood ==
  ASSUME NEW size \in Nat, NEW q \in Nat, size = 4 * q, NEW Y, NEW U, NEW V,
         AllGood(Y, size), AllGood(U, q), AllGood(V, q)
  PROVE  /\ DOMAIN Planes3(size, Y, U, V) = 0 .. size + 2 * q - 1
         /\ AllGood(Planes3(size, Y, U, V), size + 2 * q)
<1>1. size \div 2 = 2 * q /\ size \div 4 = q
  OBVIOUS
<1>2. DOMAIN Planes3(size, Y, U, V) = 0 .. size + 2 * q - 1
  BY <1>1 DEF Planes3
<1>3. ASSUME NEW i \in 0 .. size + 2 * q - 1
      PROVE  Planes3(size, Y, U, V)[i] =
               IF i < size THEN Y[i] ELSE IF i < size + q THEN U[i - size] ELSE V[i - size - q]
  BY <1>1 DEF Planes3
<1>4. ASSUME NEW i \in 0 .. size + 2 * q - 1
      PROVE  Good(Planes3(size, Y, U, V)[i])
  <2>1. CASE i < size
    BY <1>3, <2>1 DEF AllGood
  <2>2. CASE ~(i < size) /\ i < size + q
    <3>1. i - size \in 0 .. q - 1
      BY <2>2
    <3> QED
      BY <1>3, <2>2, <3>1 DEF AllGood
  <2>3. CASE ~(i < size + q)
    <3>1. i - size - q \in 0 .. q - 1 /\ ~(i < size)
      BY <2>3
    <3> QED
      BY <1>3, <2>3, <3>1 DEF AllGood
  <2> QED
    BY <2>1, <2>2, <2>3
<1> QED
  BY <1>2, <1>4 DEF AllGood

(* Turning takes bytes of the image only.                                  *)
LEMMA RotatedGood ==
  ASSUME Sized, NEW map,
         DOMAIN map = 0 .. Size420(cap) - 1, AllGood(map, Size420(cap))
  PROVE  /\ DOMAIN rotate_map(map) = 0 .. Size420(cap) - 1
         /\ AllGood(rotate_map(map), Size420(cap))
<1> DEFINE w == Width(cap)  h == Height(cap)  wh == w * h  q == wh \div 4
           a == w \div 2  b == h \div 2
<1>1. /\ w \in Nat \ {0} /\ h \in Nat \ {0} /\ w % 4 = 0 /\ h % 4 = 0 /\ wh = Area(cap)
  BY DEF Sized, ByFour, Width, Height, Area
<1>2. /\ a \in Nat \ {0} /\ b \in Nat \ {0} /\ wh \in Nat \ {0} /\ q \in Nat \ {0}
      /\ q = a * b /\ wh = 4 * q /\ Size420(cap) = wh + 2 * q
  <2> HIDE DEF w, h
  <2>1. w % 2 = 0 /\ h % 2 = 0
    BY <1>1
  <2> QED
    BY <1>1, <2>1, Quarter DEF Size420
<1>3. PICK r \in Nat : q = 4 * r
  <2> HIDE DEF w, h
  <2>1. \E c \in Nat, d \in Nat : w = 4 * c /\ h = 4 * d
    BY <1>1
  <2>2. PICK c \in Nat, d \in Nat : w = 4 * c /\ h = 4 * d
    BY <2>1
  <2>3. w * h = 16 * (c * d) /\ c * d \in Nat
    BY <2>2
  <2> QED
    BY <2>3, <1>2
<1> HIDE DEF w, h, wh, q, a, b
<1>4. \A i \in 0 .. wh + 2 * q - 1 : Good(map[i])
  BY <1>2 DEF AllGood
<1>5. /\ \A i \in 0 .. 0 + wh - 1 : Good(map[i])
      /\ \A i \in wh .. wh + q - 1 : Good(map[i])
      /\ \A i \in wh + q .. (wh + q) + q - 1 : Good(map[i])
  BY <1>2, <1>4
<1>6. wh = w * h /\ wh \div 4 = q
  BY DEF wh, q
<1>a. wh + q \in Nat /\ \A i \in wh + q .. (wh + q) + a * b - 1 : Good(map[i])
  BY <1>2, <1>5
<1>7. CASE degrees = 90
  <2>1. AllGood(rot90cw(map, 0, w, h), wh)
    BY <1>1, <1>5, <1>6, ClockwiseGood
  <2>2. AllGood(rot90cw(map, wh, a, b), q)
    BY <1>2, <1>5, ClockwiseGood
  <2>3. AllGood(rot90cw(map, wh + q, a, b), a * b)
    BY <1>2, <1>a, ClockwiseGood
  <2>4. rotate_map(map) = Planes3(wh, rot90cw(map, 0, w, h), rot90cw(map, wh, a, b), rot90cw(map, wh + q, a, b))
    BY <1>7 DEF rotate_map, w, h, wh, q, a, b
  <2> QED
    BY <1>2, <2>1, <2>2, <2>3, <2>4, PlanesGood
<1>8. CASE degrees = 270
  <2>1. AllGood(rot90ccw(map, 0, w, h), wh)
    BY <1>1, <1>5, <1>6, CounterGood
  <2>2. AllGood(rot90ccw(map, wh, a, b), q)
    BY <1>2, <1>5, CounterGood
  <2>3. AllGood(rot90ccw(map, wh + q, a, b), a * b)
    BY <1>2, <1>a, CounterGood
  <2>4. rotate_map(map) = Planes3(wh, rot90ccw(map, 0, w, h), rot90ccw(map, wh, a, b), rot90ccw(map, wh + q, a, b))
    BY <1>8 DEF rotate_map, w, h, wh, q, a, b
  <2> QED
    BY <1>2, <2>1, <2>2, <2>3, <2>4, PlanesGood
<1>9. CASE degrees = 180
  <2>1. AllGood(reverse_inplace_quad(map, 0, wh), wh)
    BY <1>2, <1>5, ReversedGood
  <2>2. AllGood(reverse_inplace_quad(map, wh, q), q)
    BY <1>2, <1>3, <1>5, ReversedGood
  <2>3. AllGood(reverse_inplace_quad(map, wh + q, q), q)
    BY <1>2, <1>3, <1>5, ReversedGood
  <2>4. rotate_map(map) = Planes3(wh, reverse_inplace_quad(map, 0, wh), reverse_inplace_quad(map, wh, q),
                                  reverse_inplace_quad(map, wh + q, q))
    BY <1>9 DEF rotate_map, w, h, wh, q
  <2> QED
    BY <1>2, <2>1, <2>2, <2>3, <2>4, PlanesGood
<1>10. CASE degrees \notin {90, 180, 270}
  <2>1. rotate_map(map) = map
    BY <1>10 DEF rotate_map
  <2> QED
    BY <2>1
<1> QED
  BY <1>7, <1>8, <1>9, <1>10

-----------------------------------------------------------------------------
(* The sizes and the last image, along the start-up and the frames.        *)

ToImages    == {"task", "device", "times", "open", "s", "capability", "input", "format", "controls",
                "reqbufs", "buffers", "query", "qbuf", "streamon", "images"}
AfterFormat == {"controls", "reqbufs", "buffers", "query", "qbuf", "streamon", "images", "thread", "running"}
Threaded    == {"thread", "running"}

\* VideoDevice has the sizes asked for until the first frame, rotate_data for good.
GeometryInv ==
    /\ grant \in Grants /\ degrees \in Degrees
    /\ pc \in ToImages => dev \in Sizes /\ imgs = dev
    /\ pc \in ToImages \cap AfterFormat => fmt = Granted(dev)
    /\ pc \in Threaded =>
          /\ cap \in Sizes /\ fmt = Granted(cap)
          /\ imgs = IF degrees \in {90, 270} THEN Swap(cap) ELSE cap

Delivered == rotate_map(Converted(Width(imgs), Height(imgs)))
Written   == put_jpeg(virgin, Width(imgs), Height(imgs))

ImageInv ==
    /\ ret = 0 => pc = "running" /\ Decodes /\ virgin = Delivered
    /\ file # <<>> => pc = "running" /\ file = Written

FrameInv == GeometryInv /\ ImageInv

(* The steps of the start-up between those that have contents here do not  *)
(* pass over one of those.                                                 *)
LEMMA StartMoves ==
  ASSUME Start, pc \notin {"format", "images"}
  PROVE  /\ pc # "running"
         /\ pc' \in AfterFormat => pc \in AfterFormat
         /\ pc' \in ToImages => pc \in ToImages
         /\ pc' \in Threaded => pc \in Threaded
<1> USE DEF AfterFormat, ToImages, Threaded, Goto, Fails
<1>1. CASE AllocTask \/ AllocDevice \/ AllocTimes \/ AllocImages
  BY <1>1 DEF AllocTask, AllocDevice, AllocTimes, AllocImages, Mymalloc
<1>2. CASE OpenDevice \/ OpenFails \/ AllocState \/ ScanControls
  BY <1>2 DEF OpenDevice, OpenFails, AllocState, ScanControls
<1>3. CASE Inquire
  BY <1>3 DEF Inquire, Inquiries
<1>4. CASE RequestBuffers \/ AllocBuffers \/ MapBuffer \/ MapFails
  BY <1>4 DEF RequestBuffers, AllocBuffers, MapBuffer, MapFails
<1>5. CASE QueueBuffer \/ QueueFails \/ StreamOn \/ StartError
  BY <1>5 DEF QueueBuffer, QueueFails, StreamOn, StartError
<1>6. CASE CreateThread \/ CloseVideo \/ FreeBoth
  BY <1>6 DEF CreateThread, CloseVideo, FreeBoth
<1> QED
  BY <1>1, <1>2, <1>3, <1>4, <1>5, <1>6 DEF Start

(* What a frame and a file should hold is a matter of the geometry, in     *)
(* which the size VideoDevice has by then is of no importance.             *)
LEMMA SameImage ==
  ASSUME UNCHANGED <<grant, degrees, format, fmt, cap, imgs>>
  PROVE  /\ Decodes' = Decodes /\ Delivered' = Delivered /\ Granted(cap)' = Granted(cap)
         /\ UNCHANGED virgin => Written' = Written
<1>1. Decodes' = Decodes
  BY DEF Decodes
<1>2. Granted(cap)' = Granted(cap)
  BY DEF Granted
<1>3. Converted(Width(imgs), Height(imgs))' = Converted(Width(imgs), Height(imgs))
  BY DEF Converted
<1>4. \A map : rotate_map(map)' = rotate_map(map)
  BY DEF rotate_map
<1>5. Delivered' = Delivered
  BY <1>3, <1>4 DEF Delivered, rotate_map
<1>6. UNCHANGED virgin => Written' = Written
  BY DEF Written
<1> QED
  BY <1>1, <1>2, <1>5, <1>6

(* Nothing has been set or delivered before the first step.                *)
LEMMA FrameInvInit == FInit => FrameInv
<1> SUFFICES ASSUME FInit PROVE FrameInv
  OBVIOUS
<1>1. pc = "task" /\ ret = 1 /\ file = <<>> /\ imgs = dev
  BY DEF FInit, Init
<1>2. dev \in Sizes /\ grant \in Grants /\ degrees \in Degrees
  BY DEF FInit
<1> QED
  BY <1>1, <1>2 DEF FrameInv, GeometryInv, ImageInv, AfterFormat, ToImages, Threaded

(* The geometry of a running camera stays as it is.                        *)
LEMMA GeometryKept ==
  ASSUME GeometryInv, UNCHANGED <<grant, degrees, fmt, cap, imgs>>,
         pc = "running", pc' = "running"
  PROVE  GeometryInv'
<1>1. Granted(cap)' = Granted(cap) /\ Swap(cap)' = Swap(cap)
  BY DEF Granted, Swap
<1> QED
  BY <1>1 DEF GeometryInv, ToImages, AfterFormat, Threaded

(* A step that leaves sizes and images alone, before there are any.        *)
LEMMA StartKeepsFrames ==
  ASSUME FrameInv, UNCHANGED frameVars, ret # 0, file = <<>>,
         pc' \in AfterFormat => pc \in AfterFormat,
         pc' \in ToImages => pc \in ToImages,
         pc' \in Threaded => pc \in Threaded
  PROVE  FrameInv'
<1>1. UNCHANGED <<grant, dev, degrees, fmt, cap, imgs>> /\ UNCHANGED <<ret, file>>
  BY DEF frameVars, geometry
<1>2. Granted(cap)' = Granted(cap) /\ Granted(dev)' = Granted(dev) /\ Swap(cap)' = Swap(cap)
  BY <1>1 DEF Granted, Swap
<1>3. GeometryInv'
  BY <1>1, <1>2 DEF FrameInv, GeometryInv
<1>4. ImageInv'
  BY <1>1 DEF ImageInv
<1> QED
  BY <1>3, <1>4 DEF FrameInv

(* Every step keeps the sizes and what the image and the file hold.        *)
LEMMA FrameInvStep == FrameInv /\ [FNext]_<<vars, frameVars>> => FrameInv'
<1> SUFFICES ASSUME FrameInv, [FNext]_<<vars, frameVars>> PROVE FrameInv'
  OBVIOUS
<1>0. pc # "running" => ret # 0 /\ file = <<>>
  BY DEF FrameInv, ImageInv
<1>1. CASE SetFormat
  <2>1. pc = "format" /\ UNCHANGED <<grant, dev, degrees, cap, imgs, ret, file>>
    BY <1>1 DEF SetFormat
  <2>2. pc' \in {"controls", "err"}
    BY <1>1 DEF SetFormat, Inquire, Inquiries, Goto, Fails
  <2>3. pc' = "err" \/ fmt' = Granted(dev)
    BY <1>1 DEF SetFormat
  <2>4. Granted(dev)' = Granted(dev)
    BY <2>1 DEF Granted
  <2>5. GeometryInv'
    BY <2>1, <2>2, <2>3, <2>4 DEF FrameInv, GeometryInv, AfterFormat, ToImages, Threaded
  <2>6. ImageInv'
    BY <1>0, <2>1 DEF ImageInv
  <2> QED
    BY <2>5, <2>6 DEF FrameInv
<1>2. CASE RotateInit
  <2>1. pc = "images" /\ pc' = "thread"
    BY <1>2 DEF RotateInit, AllocImages, Mymalloc, Goto, Fails
  <2>2. UNCHANGED <<grant, dev, degrees, fmt, ret, file>>
    BY <1>2 DEF RotateInit
  <2>3. imgs = dev /\ fmt = Granted(dev) /\ dev \in Sizes
    BY <2>1 DEF FrameInv, GeometryInv, ToImages, AfterFormat
  <2>4. cap' = dev /\ imgs' = IF degrees \in {90, 270} THEN Swap(dev) ELSE dev
    BY <1>2, <2>3 DEF RotateInit
  <2>5. Granted(cap)' = Granted(dev) /\ Swap(cap)' = Swap(dev)
    BY <2>2, <2>4 DEF Granted, Swap
  <2>6. GeometryInv'
    BY <2>1, <2>2, <2>3, <2>4, <2>5 DEF FrameInv, GeometryInv, AfterFormat, ToImages, Threaded
  <2>7. ImageInv'
    BY <1>0, <2>1, <2>2 DEF ImageInv
  <2> QED
    BY <2>6, <2>7 DEF FrameInv
<1>3. CASE pc \notin {"format", "images"} /\ Start /\ UNCHANGED frameVars
  BY <1>0, <1>3, StartMoves, StartKeepsFrames
<1>4. CASE AllocImages /\ pc' = "exited" /\ UNCHANGED frameVars
  <2>1. pc = "images"
    BY <1>4 DEF AllocImages, Mymalloc, Goto, Fails
  <2> QED
    BY <1>0, <1>4, <2>1, StartKeepsFrames DEF AfterFormat, ToImages, Threaded
<1>5. CASE NextFrame
  <2>1. /\ UNCHANGED <<grant, degrees, format, fmt, cap, imgs>>
        /\ pc' = pc /\ pc = "running" /\ file' = <<>>
    BY <1>5 DEF NextFrame, vars
  <2>2. ret' = 0 => Decodes /\ virgin' = Delivered
    BY <1>5 DEF NextFrame, Delivered
  <2>3. GeometryInv'
    BY <2>1, GeometryKept DEF FrameInv
  <2>4. ImageInv'
    BY <2>1, <2>2, SameImage DEF ImageInv
  <2> QED
    BY <2>3, <2>4 DEF FrameInv
<1>6. CASE Convert \/ WritePicture
  <2>1. /\ UNCHANGED <<grant, degrees, format, fmt, cap, imgs>>
        /\ UNCHANGED <<virgin, ret>> /\ pc' = pc /\ pc = "running"
    BY <1>6 DEF Convert, WritePicture, vars, geometry
  <2>2. file' = file \/ file' = Written
    BY <1>6 DEF Convert, WritePicture, Written
  <2>3. GeometryInv'
    BY <2>1, GeometryKept DEF FrameInv
  <2>4. ImageInv'
    BY <2>1, <2>2, SameImage DEF FrameInv, ImageInv
  <2> QED
    BY <2>3, <2>4 DEF FrameInv
<1>7. CASE (Finished /\ UNCHANGED frameVars) \/ UNCHANGED <<vars, frameVars>>
  <2>1. /\ UNCHANGED <<grant, dev, degrees, format, fmt, cap, imgs>>
        /\ UNCHANGED <<virgin, ret, file, pc>>
    BY <1>7 DEF Finished, vars, frameVars, geometry
  <2>2. Granted(cap)' = Granted(cap) /\ Granted(dev)' = Granted(dev) /\ Swap(cap)' = Swap(cap)
    BY <2>1 DEF Granted, Swap
  <2>3. GeometryInv'
    BY <2>1, <2>2 DEF FrameInv, GeometryInv
  <2>4. ImageInv'
    BY <2>1, SameImage DEF FrameInv, ImageInv
  <2> QED
    BY <2>3, <2>4 DEF FrameInv
<1> QED
  BY <1>1, <1>2, <1>3, <1>4, <1>5, <1>6, <1>7 DEF FNext

(* They hold in every state.                                               *)
LEMMA FrameInvariant == FSpec => []FrameInv
  BY FrameInvInit, FrameInvStep, PTL DEF FSpec

(* With a frame delivered the sizes are what the lemmas on the conversions *)
(* and the rotation ask for.                                               *)
LEMMA RunningSized ==
  ASSUME FrameInv, ret = 0
  PROVE  Sized /\ fmt = Granted(cap) /\ Decodes /\ virgin = Delivered
<1>1. pc = "running"
  BY DEF FrameInv, ImageInv
<1>2. /\ imgs \in {cap, Swap(cap)} /\ fmt = Granted(cap)
      /\ cap \in Sizes /\ grant \in Grants
  BY <1>1 DEF FrameInv, GeometryInv, AfterFormat, Threaded
<1>3. ByFour(cap)
  BY <1>2, FrameAssumption DEF ByFour, Width, Height
<1> QED
  BY <1>2, <1>3, FrameAssumption DEF Sized, FrameInv, ImageInv

(* No picture is made of bytes beyond the driver's buffer.                 *)
THEOREM PicturesInside == FSpec => []ReadsInside
<1>1. FrameInv => ReadsInside
  <2> SUFFICES ASSUME FrameInv, ret = 0, Area(fmt) >= Area(cap), NEW i \in DOMAIN virgin
               PROVE  virgin[i] # {} /\ Outside \cap virgin[i] = {}
    BY DEF ReadsInside
  <2>1. Sized /\ fmt = Granted(cap) /\ Decodes /\ virgin = Delivered
    BY RunningSized
  <2> DEFINE map == Converted(Width(imgs), Height(imgs))
  <2>2. DOMAIN map = 0 .. Size420(cap) - 1 /\ AllGood(map, Size420(cap))
    BY <2>1, ConvertedGood
  <2>3. virgin = rotate_map(map)
    BY <2>1 DEF Delivered
  <2> HIDE DEF map
  <2>4. DOMAIN virgin = 0 .. Size420(cap) - 1 /\ AllGood(virgin, Size420(cap))
    BY <2>1, <2>2, <2>3, RotatedGood
  <2> QED
    BY <2>4 DEF AllGood, Good, Outside
<1> QED
  BY <1>1, FrameInvariant, PTL

-----------------------------------------------------------------------------
(* The conversions put each byte where it belongs.                         *)

(* Quotient and remainder of a number written as one.                      *)
LEMMA DivMod ==
  ASSUME NEW w \in Nat \ {0}, NEW q \in Nat, NEW r \in 0 .. w - 1
  PROVE  /\ w * q + r \in Nat
         /\ (w * q + r) \div w = q /\ (w * q + r) % w = r
<1> DEFINE n == w * q + r  p == n \div w  m == n % w
<1>1. n \in Nat /\ w * q \in Nat
  OBVIOUS
<1> HIDE DEF n
<1>2. p \in Int /\ m \in 0 .. w - 1 /\ n = w * p + m
  BY <1>1
<1>3. n = w * q + r
  BY DEF n
<1> HIDE DEF p, m
<1>4. p = q
  <2>1. CASE p > q
    <3>1. w * (p - q) >= w
      BY <1>2, <2>1
    <3>2. w * (p - q) = w * p - w * q
      BY <1>2
    <3> QED
      BY <1>2, <1>3, <3>1, <3>2
  <2>2. CASE p < q
    <3>1. w * (q - p) >= w
      BY <1>2, <2>2
    <3>2. w * (q - p) = w * q - w * p
      BY <1>2
    <3> QED
      BY <1>2, <1>3, <3>1, <3>2
  <2> QED
    BY <1>2, <2>1, <2>2
<1>5. m = r
  BY <1>1, <1>2, <1>3, <1>4
<1> QED
  BY <1>1, <1>3, <1>4, <1>5 DEF p, m

\* The offset of column x of row y of a plane of width w.
Place(w, x, y) == w * y + x

(* A place of a plane has an offset of its own.                            *)
LEMMA PlaceIn ==
  ASSUME NEW w \in Nat \ {0}, NEW h \in Nat, NEW x \in 0 .. w - 1, NEW y \in 0 .. h - 1
  PROVE  /\ Place(w, x, y) \in Pixels(w, h)
         /\ Place(w, x, y) % w = x /\ Place(w, x, y) \div w = y
<1>1. y * w + x \in 0 .. w * h - 1
  BY InPlane
<1>2. y * w = w * y /\ y \in Nat
  OBVIOUS
<1>3. (w * y + x) % w = x /\ (w * y + x) \div w = y
  BY <1>2, DivMod
<1> QED
  BY <1>1, <1>2, <1>3 DEF Place, Pixels

\* Luma and chroma of a picture of size s, each byte where Planar has it.
LumaIs(f, s) ==
    \A x \in 0 .. Width(s) - 1, y \in 0 .. Height(s) - 1 :
        f[Place(Width(s), x, y)] = {<<"Y", x, y>>}

ChromaIs(f, s) ==
    \A x \in Half(Width(s)), y \in Half(Height(s)) :
        LET n == Place(Width(s) \div 2, x, y)
        IN  /\ f[Area(s) + n] = Block("U", x, y)
            /\ f[Area(s) + Area(s) \div 4 + n] = Block("V", x, y)

(* Counting past the end of a plane of q bytes.                            *)
LEMMA Wrap ==
  ASSUME NEW q \in Nat \ {0}, NEW n \in 0 .. q - 1
  PROVE  n % q = n /\ (q + n) % q = n
  OBVIOUS

(* The two chroma planes begin behind the luma and do not overlap.         *)
LEMMA ChromaShift ==
  ASSUME NEW A \in Nat, NEW q \in Nat \ {0}, A = 4 * q, NEW n \in 0 .. q - 1
  PROVE  /\ A + n \in 0 .. A + 2 * q - 1 /\ ~(A + n < A) /\ A + n < A + q
         /\ ((A + n) - A) % q = n
         /\ A + q + n \in 0 .. A + 2 * q - 1 /\ ~(A + q + n < A) /\ ~(A + q + n < A + q)
         /\ ((A + q + n) - A) % q = n
<1>1. (A + n) - A = n /\ (A + q + n) - A = q + n
  OBVIOUS
<1>2. n % q = n /\ (q + n) % q = n
  BY Wrap
<1>3. ((A + n) - A) % q = n /\ ((A + q + n) - A) % q = n
  BY <1>1, <1>2
<1> QED
  BY <1>3

(* The offset of chroma <<x, y>> in its plane and in the image: the planes *)
(* do not overlap, and the offset is decomposed as it was built.           *)
LEMMA ChromaOffset ==
  ASSUME NEW s, Width(s) \in Nat \ {0}, Height(s) \in Nat \ {0},
         Width(s) % 2 = 0, Height(s) % 2 = 0
  PROVE  /\ Area(s) \in Nat /\ Area(s) = Width(s) * Height(s)
         /\ Area(s) \div 4 \in Nat \ {0} /\ Area(s) = 4 * (Area(s) \div 4)
         /\ Size420(s) = Area(s) + 2 * (Area(s) \div 4)
         /\ Width(s) \div 2 \in Nat \ {0} /\ Height(s) \div 2 \in Nat \ {0}
         /\ \A x \in Half(Width(s)), y \in Half(Height(s)) :
              LET n == Place(Width(s) \div 2, x, y)
              IN  /\ n \in 0 .. Area(s) \div 4 - 1
                  /\ n % (Width(s) \div 2) = x /\ n \div (Width(s) \div 2) = y
<1> DEFINE w == Width(s)  h == Height(s)  a == w \div 2  b == h \div 2
<1>1. w \in Nat \ {0} /\ h \in Nat \ {0} /\ w % 2 = 0 /\ h % 2 = 0 /\ Area(s) = w * h
  BY DEF Area, Width, Height
<1> HIDE DEF w, h
<1>2. /\ a \in Nat \ {0} /\ b \in Nat \ {0} /\ w * h \in Nat
      /\ (w * h) \div 4 \in Nat \ {0} /\ (w * h) \div 4 = a * b
      /\ w * h = 4 * ((w * h) \div 4)
      /\ (3 * (w * h)) \div 2 = w * h + 2 * ((w * h) \div 4)
  BY <1>1, Quarter
<1>3. \A x \in 0 .. a - 1, y \in 0 .. b - 1 :
        Place(a, x, y) \in 0 .. a * b - 1 /\ Place(a, x, y) % a = x /\ Place(a, x, y) \div a = y
  <2> HIDE DEF a, b
  <2>1. a \in Nat \ {0} /\ b \in Nat
    BY <1>2
  <2>2. \A x \in 0 .. a - 1, y \in 0 .. b - 1 :
          Place(a, x, y) \in Pixels(a, b) /\ Place(a, x, y) % a = x /\ Place(a, x, y) \div a = y
    BY <2>1, PlaceIn
  <2> QED
    BY <2>2 DEF Pixels
<1> QED
  BY <1>1, <1>2, <1>3 DEF w, h, Half, Size420

(* An offset into the planes of an image made of them.                     *)
LEMMA ImageAt ==
  ASSUME NEW w \in Nat \ {0}, NEW h \in Nat \ {0}, w % 2 = 0, h % 2 = 0,
         NEW Y, NEW U, NEW V
  PROVE  /\ \A i \in Pixels(w, h) : Image(w, h, Y, U, V)[i] = Y[i]
         /\ \A x \in Half(w), y \in Half(h) :
              LET n == Place(w \div 2, x, y)
              IN  /\ Image(w, h, Y, U, V)[w * h + n] = U[<<x, y>>]
                  /\ Image(w, h, Y, U, V)[w * h + (w * h) \div 4 + n] = V[<<x, y>>]
<1> DEFINE a == w \div 2  A == w * h  q == A \div 4  s == <<w, h>>
<1>1. ASSUME NEW i \in 0 .. Size420(s) - 1
      PROVE  /\ i < A => Image(w, h, Y, U, V)[i] = Y[i]
             /\ ~(i < A) /\ i < A + q =>
                  Image(w, h, Y, U, V)[i] = U[<<((i - A) % q) % a, ((i - A) % q) \div a>>]
             /\ ~(i < A) /\ ~(i < A + q) =>
                  Image(w, h, Y, U, V)[i] = V[<<((i - A) % q) % a, ((i - A) % q) \div a>>]
  BY DEF Image
<1>2. Width(s) = w /\ Height(s) = h /\ Area(s) = A
  BY DEF Width, Height, Area
<1> HIDE DEF s, A
<1>3. /\ A \in Nat /\ q \in Nat \ {0} /\ A = 4 * q /\ Size420(s) = A + 2 * q
      /\ \A x \in Half(w), y \in Half(h) :
              LET n == Place(a, x, y)
              IN  n \in 0 .. q - 1 /\ n % a = x /\ n \div a = y
  BY <1>2, ChromaOffset
<1> HIDE DEF a, A, q
<1>4. ASSUME NEW x \in Half(w), NEW y \in Half(h)
      PROVE  /\ Image(w, h, Y, U, V)[A + Place(a, x, y)] = U[<<x, y>>]
             /\ Image(w, h, Y, U, V)[A + q + Place(a, x, y)] = V[<<x, y>>]
  <2> DEFINE n == Place(a, x, y)
  <2>1. n \in 0 .. q - 1 /\ n % a = x /\ n \div a = y
    BY <1>3
  <2> HIDE DEF n
  <2>2. /\ A + n \in 0 .. A + 2 * q - 1 /\ ~(A + n < A) /\ A + n < A + q
        /\ ((A + n) - A) % q = n
        /\ A + q + n \in 0 .. A + 2 * q - 1 /\ ~(A + q + n < A) /\ ~(A + q + n < A + q)
        /\ ((A + q + n) - A) % q = n
    <3>1. A \in Nat /\ q \in Nat \ {0} /\ A = 4 * q /\ n \in 0 .. q - 1
      BY <1>3, <2>1
    <3> QED
      BY <3>1, ChromaShift
  <2>3. Image(w, h, Y, U, V)[A + n] = U[<<(((A + n) - A) % q) % a, (((A + n) - A) % q) \div a>>]
    BY <1>1, <1>3, <2>2
  <2>4. Image(w, h, Y, U, V)[A + q + n] = V[<<(((A + q + n) - A) % q) % a, (((A + q + n) - A) % q) \div a>>]
    BY <1>1, <1>3, <2>2
  <2>5. n % a = x /\ n \div a = y /\ ((A + n) - A) % q = n /\ ((A + q + n) - A) % q = n
    BY <2>1, <2>2, Zenon
  <2> QED
    BY <2>3, <2>4, <2>5 DEF n
<1>5. ASSUME NEW i \in 0 .. A - 1 PROVE Image(w, h, Y, U, V)[i] = Y[i]
  <2>1. i \in 0 .. Size420(s) - 1 /\ i < A
    BY <1>3
  <2> QED
    BY <1>1, <2>1
<1> QED
  BY <1>4, <1>5 DEF A, q, a, Pixels

(* The same, plane by plane.                                               *)
LEMMA ImageLuma ==
  ASSUME NEW w \in Nat \ {0}, NEW h \in Nat \ {0}, w % 2 = 0, h % 2 = 0,
         NEW Y, NEW U, NEW V, NEW i \in Pixels(w, h)
  PROVE  Image(w, h, Y, U, V)[i] = Y[i]
  BY ImageAt

(* ... for chroma, with the planes of any sort.                            *)
LEMMA ImageChroma ==
  ASSUME NEW w \in Nat \ {0}, NEW h \in Nat \ {0}, w % 2 = 0, h % 2 = 0,
         NEW Y, NEW U, NEW V, NEW x \in Half(w), NEW y \in Half(h)
  PROVE  /\ Image(w, h, Y, U, V)[w * h + Place(w \div 2, x, y)] = U[<<x, y>>]
         /\ Image(w, h, Y, U, V)[w * h + (w * h) \div 4 + Place(w \div 2, x, y)] = V[<<x, y>>]
  BY ImageAt

(* Planar has luma and chroma where they belong.                           *)
LEMMA PlanarAt ==
  ASSUME NEW s, Width(s) \in Nat \ {0}, Height(s) \in Nat \ {0},
         Width(s) % 2 = 0, Height(s) % 2 = 0
  PROVE  LumaIs(Planar(s), s) /\ ChromaIs(Planar(s), s)
<1> DEFINE w == Width(s)  h == Height(s)  a == w \div 2  A == Area(s)  q == A \div 4
<1>1. ASSUME NEW i \in 0 .. Size420(s) - 1
      PROVE  /\ i < A => Planar(s)[i] = {<<"Y", i % w, i \div w>>}
             /\ ~(i < A) /\ i < A + q =>
                  Planar(s)[i] = Block("U", ((i - A) % q) % a, ((i - A) % q) \div a)
             /\ ~(i < A) /\ ~(i < A + q) =>
                  Planar(s)[i] = Block("V", ((i - A) % q) % a, ((i - A) % q) \div a)
  BY DEF Planar
<1>3. /\ A \in Nat /\ A = w * h /\ q \in Nat \ {0} /\ A = 4 * q /\ Size420(s) = A + 2 * q
      /\ \A x \in Half(w), y \in Half(h) :
              LET n == Place(a, x, y)
              IN  n \in 0 .. q - 1 /\ n % a = x /\ n \div a = y
  BY ChromaOffset
<1>a. w \in Nat \ {0} /\ h \in Nat
  OBVIOUS
<1> HIDE DEF w, h, a, A, q
<1>4. ASSUME NEW x \in Half(w), NEW y \in Half(h)
      PROVE  /\ Planar(s)[A + Place(a, x, y)] = Block("U", x, y)
             /\ Planar(s)[A + q + Place(a, x, y)] = Block("V", x, y)
  <2> DEFINE n == Place(a, x, y)
  <2>1. n \in 0 .. q - 1 /\ n % a = x /\ n \div a = y
    BY <1>3
  <2> HIDE DEF n
  <2>2. /\ A + n \in 0 .. A + 2 * q - 1 /\ ~(A + n < A) /\ A + n < A + q
        /\ ((A + n) - A) % q = n
        /\ A + q + n \in 0 .. A + 2 * q - 1 /\ ~(A + q + n < A) /\ ~(A + q + n < A + q)
        /\ ((A + q + n) - A) % q = n
    <3>1. A \in Nat /\ q \in Nat \ {0} /\ A = 4 * q /\ n \in 0 .. q - 1
      BY <1>3, <2>1
    <3> QED
      BY <3>1, ChromaShift
  <2>3. Planar(s)[A + n] = Block("U", (((A + n) - A) % q) % a, (((A + n) - A) % q) \div a)
    BY <1>1, <1>3, <2>2
  <2>4. Planar(s)[A + q + n] = Block("V", (((A + q + n) - A) % q) % a, (((A + q + n) - A) % q) \div a)
    BY <1>1, <1>3, <2>2
  <2>5. n % a = x /\ n \div a = y /\ ((A + n) - A) % q = n /\ ((A + q + n) - A) % q = n
    BY <2>1, <2>2, Zenon
  <2> QED
    BY <2>3, <2>4, <2>5 DEF n
<1>5. ASSUME NEW x \in 0 .. w - 1, NEW y \in 0 .. h - 1
      PROVE  Planar(s)[Place(w, x, y)] = {<<"Y", x, y>>}
  <2> DEFINE n == Place(w, x, y)
  <2>1. n \in Pixels(w, h) /\ n % w = x /\ n \div w = y
    BY <1>a, PlaceIn
  <2> HIDE DEF n
  <2>2. n \in 0 .. Size420(s) - 1 /\ n < A
    BY <1>3, <2>1 DEF Pixels
  <2>3. Planar(s)[n] = {<<"Y", n % w, n \div w>>}
    BY <1>1, <2>2
  <2> QED
    BY <2>1, <2>3, Zenon DEF n
<1>7. LumaIs(Planar(s), s)
  BY <1>5 DEF LumaIs, w, h
<1>8. ChromaIs(Planar(s), s)
  BY <1>4 DEF ChromaIs, w, h, A, a, q
<1> QED
  BY <1>7, <1>8

\* Sizes with whole chroma.
EvenSize(s) ==
    /\ Width(s) \in Nat \ {0} /\ Height(s) \in Nat \ {0}
    /\ Width(s) % 2 = 0 /\ Height(s) % 2 = 0

\* The chroma byte at a pixel is that of two pixels.
PackedChroma(x, y) ==
    {IF x % 2 = 0 THEN "U" ELSE "V"} \X {2 * (x \div 2), 2 * (x \div 2) + 1} \X {y}

(* A byte of a packed picture: e tells the first from the second of two.   *)
LEMMA PackedAt ==
  ASSUME NEW s, EvenSize(s), NEW luma,
         NEW x \in 0 .. Width(s) - 1, NEW y \in 0 .. Height(s) - 1, NEW e \in {0, 1}
  PROVE  /\ e = luma => At(Packed(s, luma), 2 * Place(Width(s), x, y) + e) = {<<"Y", x, y>>}
         /\ e # luma => At(Packed(s, luma), 2 * Place(Width(s), x, y) + e) = PackedChroma(x, y)
<1> DEFINE w == Width(s)  h == Height(s)  n == Place(w, x, y)  i == 2 * n + e
<1>1. w \in Nat \ {0} /\ h \in Nat \ {0} /\ Area(s) = w * h
  BY DEF Area, Width, Height, EvenSize
<1> HIDE DEF w, h
<1>2. n \in Pixels(w, h) /\ n % w = x
  BY <1>1, PlaceIn DEF w, h
<1>3. i \div (2 * w) = y
  <2>1. 2 * w \in Nat \ {0} /\ 2 * x + e \in 0 .. 2 * w - 1 /\ y \in 0 .. h - 1
    BY <1>1 DEF w, h
  <2>2. Place(2 * w, 2 * x + e, y) \div (2 * w) = y
    BY <1>1, <2>1, PlaceIn
  <2>3. Place(2 * w, 2 * x + e, y) = i
    <3>1. w \in Nat /\ x \in Int /\ y \in Int /\ e \in Int
      BY <1>1
    <3>2. (2 * w) * y + (2 * x + e) = 2 * (w * y + x) + e
      BY <3>1
    <3> QED
      BY <3>2 DEF Place
  <2> QED
    BY <2>2, <2>3
<1> HIDE DEF n
<1>4. i \in 0 .. Area(s) * 2 - 1 /\ i \div 2 = n /\ i % 2 = e
  <2>1. n \in 0 .. Area(s) - 1 /\ Area(s) \in Nat
    BY <1>1, <1>2 DEF Pixels
  <2> QED
    BY <2>1
<1> HIDE DEF i
<1>5. At(Packed(s, luma), i) = Packed(s, luma)[i]
  BY <1>4 DEF At, Packed
<1>6. Packed(s, luma)[i] =
        IF i % 2 = luma THEN {<<"Y", (i \div 2) % w, i \div (2 * w)>>}
        ELSE {IF ((i \div 2) % w) % 2 = 0 THEN "U" ELSE "V"}
             \X {2 * (((i \div 2) % w) \div 2), 2 * (((i \div 2) % w) \div 2) + 1} \X {i \div (2 * w)}
  BY <1>4 DEF Packed, w
<1>7. Packed(s, luma)[i] = IF e = luma THEN {<<"Y", x, y>>} ELSE PackedChroma(x, y)
  <2>1. i % 2 = e /\ (i \div 2) % w = x /\ i \div (2 * w) = y
    BY <1>2, <1>3, <1>4
  <2> QED
    BY <1>6, <2>1, Zenon DEF PackedChroma
<1> QED
  BY <1>5, <1>7 DEF i, n, w

(* Two rows of chroma bytes make a block.                                  *)
LEMMA PackedRows ==
  ASSUME NEW s, EvenSize(s), NEW luma \in {0, 1}, NEW c \in {0, 1},
         NEW j \in Half(Width(s)), NEW k \in Half(Height(s))
  PROVE  TwoRows(Packed(s, luma), Width(s), Height(s), 2 * c + (1 - luma))[<<j, k>>]
           = Block(IF c = 0 THEN "U" ELSE "V", j, k)
<1> DEFINE w == Width(s)  h == Height(s)  e == 1 - luma  plane == IF c = 0 THEN "U" ELSE "V"
           src == Packed(s, luma)
<1>1. /\ w \in Nat \ {0} /\ h \in Nat \ {0}
      /\ 2 * j \in 0 .. w - 1 /\ 2 * j + 1 \in 0 .. w - 1
      /\ 2 * k \in 0 .. h - 1 /\ 2 * k + 1 \in 0 .. h - 1
  BY DEF EvenSize, Half
<1>2. e \in {0, 1} /\ e # luma /\ 2 * j + c \in 0 .. w - 1
  BY <1>1
<1>3. (2 * j + c) % 2 = c /\ (2 * j + c) \div 2 = j
  BY DEF Half
<1> HIDE DEF w, h, e
<1>4. ASSUME NEW b \in {0, 1}
      PROVE  At(src, 2 * Place(w, 2 * j + c, 2 * k + b) + e) = {plane} \X {2 * j, 2 * j + 1} \X {2 * k + b}
  <2> DEFINE x == 2 * j + c  y == 2 * k + b
  <2>1. x \in 0 .. w - 1 /\ y \in 0 .. h - 1
    BY <1>1, <1>2
  <2>2. x % 2 = c /\ x \div 2 = j
    BY <1>3
  <2> HIDE DEF x, y
  <2>3. At(src, 2 * Place(w, x, y) + e) = PackedChroma(x, y)
    BY <1>2, <2>1, PackedAt DEF w, h
  <2>4. At(src, 2 * Place(w, x, y) + e) = {plane} \X {2 * j, 2 * j + 1} \X {y}
    BY <2>2, <2>3, Zenon DEF PackedChroma
  <2> QED
    BY <2>4 DEF x, y
<1>5. /\ 4 * w * k + 4 * j + (2 * c + e) = 2 * Place(w, 2 * j + c, 2 * k + 0) + e
      /\ 4 * w * k + 4 * j + (2 * c + e) + 2 * w = 2 * Place(w, 2 * j + c, 2 * k + 1) + e
  <2>1. w \in Int /\ k \in Int /\ j \in Int /\ c \in Int /\ e \in Int
    BY <1>1, <1>2 DEF Half
  <2>2. /\ w * (2 * k + 0) = 2 * (w * k) /\ w * (2 * k + 1) = 2 * (w * k) + w
        /\ 4 * w * k = 4 * (w * k) /\ w * k \in Int
    BY <2>1
  <2> DEFINE t == w * k
  <2> HIDE DEF t
  <2>3. /\ 4 * t + 4 * j + (2 * c + e) = 2 * (2 * t + (2 * j + c)) + e
        /\ 4 * t + 4 * j + (2 * c + e) + 2 * w = 2 * ((2 * t + w) + (2 * j + c)) + e
    BY <2>1, <2>2 DEF t
  <2> QED
    BY <2>2, <2>3 DEF t, Place
<1>6. TwoRows(src, w, h, 2 * c + e)[<<j, k>>] =
        At(src, 4 * w * k + 4 * j + (2 * c + e)) \cup At(src, 4 * w * k + 4 * j + (2 * c + e) + 2 * w)
  <2>1. <<j, k>> \in Half(w) \X Half(h)
    BY DEF w, h
  <2> HIDE DEF src
  <2> QED
    BY <2>1 DEF TwoRows
<1>7. TwoRows(src, w, h, 2 * c + e)[<<j, k>>] =
        ({plane} \X {2 * j, 2 * j + 1} \X {2 * k + 0}) \cup ({plane} \X {2 * j, 2 * j + 1} \X {2 * k + 1})
  BY <1>4, <1>5, <1>6
<1>8. ({plane} \X {2 * j, 2 * j + 1} \X {2 * k + 0}) \cup ({plane} \X {2 * j, 2 * j + 1} \X {2 * k + 1})
        = Block(plane, j, k)
  <2>1. 2 * k + 0 = 2 * k
    BY DEF Half
  <2> QED
    BY <2>1 DEF Block
<1> QED
  BY <1>7, <1>8 DEF w, h, e

(* The packed formats: luma, even if called with the sizes swapped, and    *)
(* chroma if called with the picture's own.                                *)
LEMMA PackedRight ==
  ASSUME NEW s, EvenSize(s), NEW w \in Nat \ {0}, NEW h \in Nat \ {0}, w % 2 = 0, h % 2 = 0,
         w * h = Area(s), NEW map,
         \/ map = conv_yuv422to420p(Packed(s, 0), w, h)
         \/ map = conv_uyvyto420p(Packed(s, 1), w, h)
  PROVE  /\ LumaIs(map, s)
         /\ w = Width(s) /\ h = Height(s) => ChromaIs(map, s)
<1> DEFINE src(luma) == Packed(s, luma)
           Y(luma) == [i \in Pixels(w, h) |-> At(src(luma), 2 * i + luma)]
           U(luma) == TwoRows(src(luma), w, h, 2 * 0 + (1 - luma))
           V(luma) == TwoRows(src(luma), w, h, 2 * 1 + (1 - luma))
<1>1. PICK luma \in {0, 1} : map = Image(w, h, Y(luma), U(luma), V(luma))
  <2>1. CASE map = conv_yuv422to420p(Packed(s, 0), w, h)
    <3>1. Y(0) = [i \in Pixels(w, h) |-> At(src(0), 2 * i)]
      <4>1. \A i \in Pixels(w, h) : 2 * i + 0 = 2 * i
        BY DEF Pixels
      <4> QED
        BY <4>1
    <3>2. 2 * 0 + (1 - 0) = 1 /\ 2 * 1 + (1 - 0) = 3
      OBVIOUS
    <3>3. map = Image(w, h, Y(0), U(0), V(0))
      BY <2>1, <3>1, <3>2, Zenon DEF conv_yuv422to420p
    <3> QED
      BY <3>3, Zenon
  <2>2. CASE map = conv_uyvyto420p(Packed(s, 1), w, h)
    <3>2. 2 * 0 + (1 - 1) = 0 /\ 2 * 1 + (1 - 1) = 2
      OBVIOUS
    <3>3. map = Image(w, h, Y(1), U(1), V(1))
      BY <2>2, <3>2, Zenon DEF conv_uyvyto420p
    <3> QED
      BY <3>3, Zenon
  <2> QED
    BY <2>1, <2>2
<1>2. LumaIs(map, s)
  <2> SUFFICES ASSUME NEW x \in 0 .. Width(s) - 1, NEW y \in 0 .. Height(s) - 1
               PROVE  map[Place(Width(s), x, y)] = {<<"Y", x, y>>}
    BY DEF LumaIs
  <2> DEFINE n == Place(Width(s), x, y)
  <2>1. n \in Pixels(Width(s), Height(s))
    BY PlaceIn DEF EvenSize
  <2>2. n \in Pixels(w, h) /\ n \in 0 .. w * h - 1
    BY <2>1 DEF Pixels, Area, Width, Height
  <2>3. Y(luma)[n] = At(src(luma), 2 * n + luma)
    BY <2>2
  <2>4. At(src(luma), 2 * n + luma) = {<<"Y", x, y>>}
    BY PackedAt
  <2> HIDE DEF Y, U, V, n
  <2>5. Image(w, h, Y(luma), U(luma), V(luma))[n] = Y(luma)[n]
    BY <2>2, ImageLuma
  <2>6. map[n] = Y(luma)[n]
    BY <1>1, <2>2, <2>5, Zenon
  <2> QED
    BY <2>3, <2>4, <2>6 DEF n
<1>3. ASSUME w = Width(s), h = Height(s) PROVE ChromaIs(map, s)
  <2> SUFFICES ASSUME NEW x \in Half(w), NEW y \in Half(h)
               PROVE  LET n == Place(w \div 2, x, y)
                      IN  /\ map[w * h + n] = Block("U", x, y)
                          /\ map[w * h + (w * h) \div 4 + n] = Block("V", x, y)
    BY <1>3 DEF ChromaIs
  <2>1. U(luma)[<<x, y>>] = Block("U", x, y)
    <3>1. U(luma)[<<x, y>>] = Block(IF 0 = 0 THEN "U" ELSE "V", x, y)
      BY <1>3, PackedRows
    <3> QED
      BY <3>1
  <2>2. V(luma)[<<x, y>>] = Block("V", x, y)
    <3>1. V(luma)[<<x, y>>] = Block(IF 1 = 0 THEN "U" ELSE "V", x, y)
      BY <1>3, PackedRows
    <3> QED
      BY <3>1
  <2> HIDE DEF Y, U, V
  <2> QED
    BY <1>1, <2>1, <2>2, ImageChroma
<1> QED
  BY <1>2, <1>3

(* The three bytes of a pixel of an RGB buffer.                            *)
LEMMA ColouredAt ==
  ASSUME NEW s, EvenSize(s),
         NEW x \in 0 .. Width(s) - 1, NEW y \in 0 .. Height(s) - 1, NEW c \in 0 .. 2
  PROVE  At(Coloured(s), 3 * Place(Width(s), x, y) + c) = {<<"RGB", x, y>>}
<1> DEFINE w == Width(s)  h == Height(s)  n == Place(w, x, y)  i == 3 * n + c
<1>1. w \in Nat \ {0} /\ h \in Nat \ {0} /\ Area(s) = w * h
  BY DEF Area, Width, Height, EvenSize
<1> HIDE DEF w, h
<1>2. n \in Pixels(w, h) /\ n % w = x
  BY <1>1, PlaceIn DEF w, h
<1>3. i \div (3 * w) = y
  <2>1. 3 * w \in Nat \ {0} /\ 3 * x + c \in 0 .. 3 * w - 1 /\ y \in 0 .. h - 1
    BY <1>1 DEF w, h
  <2>2. Place(3 * w, 3 * x + c, y) \div (3 * w) = y
    BY <1>1, <2>1, PlaceIn
  <2>3. Place(3 * w, 3 * x + c, y) = i
    <3>1. w \in Nat /\ x \in Int /\ y \in Int /\ c \in Int
      BY <1>1
    <3>2. (3 * w) * y + (3 * x + c) = 3 * (w * y + x) + c
      BY <3>1
    <3> QED
      BY <3>2 DEF Place
  <2> QED
    BY <2>2, <2>3
<1> HIDE DEF n
<1>4. i \in 0 .. Area(s) * 3 - 1 /\ i \div 3 = n
  <2>1. n \in 0 .. Area(s) - 1 /\ Area(s) \in Nat
    BY <1>1, <1>2 DEF Pixels
  <2> QED
    BY <2>1
<1> HIDE DEF i
<1>5. At(Coloured(s), i) = {<<"RGB", (i \div 3) % w, i \div (3 * w)>>}
  BY <1>4 DEF At, Coloured, w
<1>6. At(Coloured(s), i) = {<<"RGB", x, y>>}
  BY <1>2, <1>3, <1>4, <1>5
<1> QED
  BY <1>6 DEF i, n, w

(* conv_rgb24toyuv420p: luma, even if called with the sizes swapped, and   *)
(* chroma if called with the picture's own.                                *)
LEMMA RgbRight ==
  ASSUME NEW s, EvenSize(s), NEW w \in Nat \ {0}, NEW h \in Nat \ {0}, w % 2 = 0, h % 2 = 0,
         w * h = Area(s), NEW map, map = conv_rgb24toyuv420p(Coloured(s), w, h)
  PROVE  /\ LumaIs(map, s)
         /\ w = Width(s) /\ h = Height(s) => ChromaIs(map, s)
<1> DEFINE
      src == Coloured(s)
      Pixel(i) == UNION {At(src, 3 * i + c) : c \in 0 .. 2}
      As(plane, places) == {IF Len(p) = 3 THEN <<plane, p[2], p[3]>> ELSE p : p \in places}
      Four(j, k) == UNION {Pixel(w * (2 * k + b) + 2 * j + a) : a, b \in 0 .. 1}
      Y == [i \in Pixels(w, h) |-> As("Y", Pixel(i))]
      U == [p \in Half(w) \X Half(h) |-> As("U", Four(p[1], p[2]))]
      V == [p \in Half(w) \X Half(h) |-> As("V", Four(p[1], p[2]))]
<1>1. map = Image(w, h, Y, U, V)
  BY DEF conv_rgb24toyuv420p
<1>2. ASSUME NEW x \in 0 .. Width(s) - 1, NEW y \in 0 .. Height(s) - 1
      PROVE  Pixel(Place(Width(s), x, y)) = {<<"RGB", x, y>>}
  <2>1. \A c \in 0 .. 2 : At(src, 3 * Place(Width(s), x, y) + c) = {<<"RGB", x, y>>}
    BY ColouredAt
  <2>2. 0 \in 0 .. 2
    OBVIOUS
  <2> HIDE DEF src
  <2> QED
    BY <2>1, <2>2
<1> HIDE DEF Pixel
<1>3. LumaIs(map, s)
  <2> SUFFICES ASSUME NEW x \in 0 .. Width(s) - 1, NEW y \in 0 .. Height(s) - 1
               PROVE  map[Place(Width(s), x, y)] = {<<"Y", x, y>>}
    BY DEF LumaIs
  <2> DEFINE n == Place(Width(s), x, y)
  <2>1. n \in Pixels(Width(s), Height(s))
    BY PlaceIn DEF EvenSize
  <2>2. n \in Pixels(w, h) /\ n \in 0 .. w * h - 1
    BY <2>1 DEF Pixels, Area, Width, Height
  <2>3. Y[n] = As("Y", {<<"RGB", x, y>>})
    BY <1>2, <2>2
  <2>4. As("Y", {<<"RGB", x, y>>}) = {<<"Y", x, y>>}
    <3>1. Len(<<"RGB", x, y>>) = 3
      OBVIOUS
    <3> QED
      BY <3>1
  <2> HIDE DEF Y, U, V, n, As
  <2>5. map[n] = Y[n]
    BY <1>1, <2>2, ImageLuma
  <2> QED
    BY <2>3, <2>4, <2>5 DEF n
<1>4. ASSUME w = Width(s), h = Height(s) PROVE ChromaIs(map, s)
  <2> SUFFICES ASSUME NEW x \in Half(w), NEW y \in Half(h)
               PROVE  LET n == Place(w \div 2, x, y)
                      IN  /\ map[w * h + n] = Block("U", x, y)
                          /\ map[w * h + (w * h) \div 4 + n] = Block("V", x, y)
    BY <1>4 DEF ChromaIs
  <2>1. ASSUME NEW a \in 0 .. 1, NEW b \in 0 .. 1
        PROVE  Pixel(w * (2 * y + b) + 2 * x + a) = {<<"RGB", 2 * x + a, 2 * y + b>>}
    <3>1. 2 * x + a \in 0 .. w - 1 /\ 2 * y + b \in 0 .. h - 1
      BY DEF Half
    <3>2. Place(w, 2 * x + a, 2 * y + b) = w * (2 * y + b) + 2 * x + a
      <4>1. w * (2 * y + b) \in Int /\ 2 * x \in Int /\ a \in Int
        BY DEF Half
      <4> DEFINE t == w * (2 * y + b)
      <4> HIDE DEF t
      <4>2. t + (2 * x + a) = t + 2 * x + a
        BY <4>1 DEF t
      <4> QED
        BY <4>2 DEF t, Place
    <3>3. Pixel(Place(w, 2 * x + a, 2 * y + b)) = {<<"RGB", 2 * x + a, 2 * y + b>>}
      BY <1>2, <1>4, <3>1
    <3> QED
      BY <3>2, <3>3
  <2> DEFINE four == {"RGB"} \X {2 * x, 2 * x + 1} \X {2 * y, 2 * y + 1}
  <2>2. Four(x, y) = four
    <3>1. Four(x, y) = {<<"RGB", 2 * x + a, 2 * y + b>> : a, b \in 0 .. 1}
      BY <2>1
    <3>2. \A z \in {x, y} : 2 * z + 0 = 2 * z /\ 2 * z \in Int
      BY DEF Half
    <3>3. {<<"RGB", 2 * x + a, 2 * y + b>> : a, b \in 0 .. 1} = four
      BY <3>2
    <3> QED
      BY <3>1, <3>3
  <2> HIDE DEF Four
  <2>3. ASSUME NEW plane PROVE As(plane, four) = Block(plane, x, y)
    <3>1. ASSUME NEW p \in four
          PROVE  /\ Len(p) = 3 /\ p[2] \in {2 * x, 2 * x + 1} /\ p[3] \in {2 * y, 2 * y + 1}
                 /\ p = <<"RGB", p[2], p[3]>>
      <4>1. PICK a \in {2 * x, 2 * x + 1}, b \in {2 * y, 2 * y + 1} : p = <<"RGB", a, b>>
        BY <3>1
      <4> QED
        BY <4>1
    <3>2. As(plane, four) = {<<plane, p[2], p[3]>> : p \in four}
      BY <3>1
    <3>3. ASSUME NEW a \in {2 * x, 2 * x + 1}, NEW b \in {2 * y, 2 * y + 1}
          PROVE  <<plane, a, b>> \in {<<plane, p[2], p[3]>> : p \in four}
      <4>1. <<"RGB", a, b>> \in four
        OBVIOUS
      <4>2. <<plane, a, b>> = <<plane, <<"RGB", a, b>>[2], <<"RGB", a, b>>[3]>>
        OBVIOUS
      <4> HIDE DEF four
      <4> QED
        BY <4>1, <4>2
    <3> HIDE DEF four
    <3>4. Block(plane, x, y) \subseteq {<<plane, p[2], p[3]>> : p \in four}
      BY <3>3 DEF Block
    <3>5. {<<plane, p[2], p[3]>> : p \in four} \subseteq Block(plane, x, y)
      BY <3>1 DEF Block
    <3> HIDE DEF As
    <3> QED
      BY <3>2, <3>4, <3>5
  <2>4. U[<<x, y>>] = Block("U", x, y) /\ V[<<x, y>>] = Block("V", x, y)
    <3> HIDE DEF four, As
    <3>1. U[<<x, y>>] = As("U", Four(x, y)) /\ V[<<x, y>>] = As("V", Four(x, y))
      OBVIOUS
    <3> QED
      BY <2>2, <2>3, <3>1
  <2> HIDE DEF Y, U, V
  <2>5. LET n == Place(w \div 2, x, y)
        IN  /\ Image(w, h, Y, U, V)[w * h + n] = U[<<x, y>>]
            /\ Image(w, h, Y, U, V)[w * h + (w * h) \div 4 + n] = V[<<x, y>>]
    BY ImageChroma
  <2> QED
    BY <1>1, <2>4, <2>5
<1> QED
  BY <1>3, <1>4

(* decode_jpeg_raw of a picture of the size asked for changes nothing.     *)
LEMMA JpegRight ==
  ASSUME NEW s, EvenSize(s)
  PROVE  LET map == decode_jpeg_raw(s, Width(s), Height(s))
         IN  LumaIs(map, s) /\ ChromaIs(map, s)
<1> DEFINE
      w == Width(s)  h == Height(s)
      picture == Planar(s)
      m == Margin(s, w)
      Cell(base, width, x, y) == IF x < width THEN picture[base + y * width + x] ELSE Outside
      Y == [i \in Pixels(w, h) |->
              UNION {Cell(0, w, x, i \div w) : x \in Columns(s, w, m, i % w)}]
      Chroma(base) == [p \in Half(w) \X Half(h) |->
              UNION {Cell(base, w \div 2, x, p[2]) : x \in Columns(s, w, m \div 2, p[1])}]
      U == Chroma(Area(s))
      V == Chroma(Area(s) + Area(s) \div 4)
      map == decode_jpeg_raw(s, w, h)
<1>1. w \in Nat \ {0} /\ h \in Nat \ {0} /\ w % 2 = 0 /\ h % 2 = 0 /\ Area(s) = w * h
  BY DEF EvenSize, Area, Width, Height
<1>2. map = Image(w, h, Y, U, V)
  BY DEF decode_jpeg_raw
<1>3. LumaIs(picture, s) /\ ChromaIs(picture, s)
  BY PlanarAt DEF EvenSize
<1>4. \A x : Columns(s, w, m, x) = {0 + x} /\ Columns(s, w, m \div 2, x) = {0 + x}
  <2>1. Shrink(s, w) = "no"
    BY <1>1 DEF Shrink
  <2>2. m = 0
    BY <1>1, <2>1 DEF Margin
  <2>3. 0 \div 2 = 0
    OBVIOUS
  <2> QED
    BY <2>1, <2>2, <2>3 DEF Columns
<1> HIDE DEF picture, m, w, h
<1>5. ASSUME NEW x \in 0 .. w - 1, NEW y \in 0 .. h - 1
      PROVE  map[Place(w, x, y)] = {<<"Y", x, y>>}
  <2> DEFINE n == Place(w, x, y)
  <2>1. n \in Pixels(w, h) /\ n % w = x /\ n \div w = y
    BY <1>1, PlaceIn
  <2>2. picture[n] = {<<"Y", x, y>>}
    BY <1>3 DEF LumaIs, w, h
  <2>3. 0 + x = x /\ x < w /\ 0 + y * w + x = n
    <3>1. y * w = w * y /\ y * w \in Int /\ x \in Int /\ w \in Int
      BY <1>1
    <3> QED
      BY <3>1 DEF Place
  <2> HIDE DEF n
  <2>4. Y[n] = Cell(0, w, x, y)
    <3>1. Y[n] = UNION {Cell(0, w, z, n \div w) : z \in Columns(s, w, m, n % w)}
      BY <2>1, Zenon
    <3>2. Columns(s, w, m, n % w) = {x}
      BY <1>4, <2>1, <2>3
    <3> HIDE DEF Cell, Y
    <3>3. Y[n] = UNION {Cell(0, w, z, y) : z \in {x}}
      BY <2>1, <3>1, <3>2
    <3> QED
      BY <3>3
  <2>5. Y[n] = {<<"Y", x, y>>}
    <3> HIDE DEF Y
    <3> QED
      BY <2>2, <2>3, <2>4
  <2> HIDE DEF Y, U, V, Chroma, map, n
  <2>6. Image(w, h, Y, U, V)[n] = Y[n]
    BY <1>1, <2>1, ImageLuma
  <2>7. map[n] = Y[n]
    BY <1>2, <2>6
  <2> QED
    BY <2>5, <2>7 DEF n
<1>6. ASSUME NEW base \in Nat, NEW x \in Half(w), NEW y \in Half(h)
      PROVE  Chroma(base)[<<x, y>>] = picture[base + Place(w \div 2, x, y)]
  <2> DEFINE a == w \div 2
  <2>1. 0 + x = x /\ x < a /\ base + y * a + x = base + Place(a, x, y)
    <3>1. a \in Int /\ x \in Int /\ y \in Int /\ x < a
      BY <1>1 DEF Half
    <3> HIDE DEF a
    <3>2. y * a = a * y /\ y * a \in Int
      BY <3>1
    <3> DEFINE t == y * a
    <3> HIDE DEF t
    <3>3. base + t + x = base + (t + x) /\ 0 + x = x
      BY <3>1, <3>2 DEF t
    <3> QED
      BY <3>1, <3>2, <3>3 DEF Place, t
  <2>2. Chroma(base)[<<x, y>>] = UNION {Cell(base, a, z, y) : z \in {0 + x}}
    BY <1>4
  <2>3. Cell(base, a, x, y) = picture[base + Place(a, x, y)]
    <3> HIDE DEF a
    <3> QED
      BY <2>1
  <2> HIDE DEF Cell, Chroma, a
  <2>4. Chroma(base)[<<x, y>>] = Cell(base, a, x, y)
    BY <2>1, <2>2
  <2> QED
    BY <2>3, <2>4 DEF a
<1>7. ASSUME NEW x \in Half(w), NEW y \in Half(h)
      PROVE  LET n == Place(w \div 2, x, y)
             IN  /\ map[Area(s) + n] = Block("U", x, y)
                 /\ map[Area(s) + Area(s) \div 4 + n] = Block("V", x, y)
  <2> DEFINE n == Place(w \div 2, x, y)
  <2>1. picture[Area(s) + n] = Block("U", x, y) /\ picture[Area(s) + Area(s) \div 4 + n] = Block("V", x, y)
    BY <1>3 DEF ChromaIs, w, h
  <2>2. Area(s) \in Nat /\ Area(s) + Area(s) \div 4 \in Nat
    BY <1>1
  <2>3. U[<<x, y>>] = Block("U", x, y) /\ V[<<x, y>>] = Block("V", x, y)
    <3> HIDE DEF Chroma
    <3> QED
      BY <1>6, <2>1, <2>2
  <2> HIDE DEF Y, U, V, Chroma, map
  <2>4. /\ Image(w, h, Y, U, V)[w * h + n] = U[<<x, y>>]
        /\ Image(w, h, Y, U, V)[w * h + (w * h) \div 4 + n] = V[<<x, y>>]
    BY <1>1, ImageChroma
  <2> QED
    BY <1>1, <1>2, <2>3, <2>4
<1> QED
  BY <1>5, <1>7 DEF LumaIs, ChromaIs, w, h

(* v4l2_next, whatever the format: luma is right, chroma where no          *)
(* conversion has to know the rows or is told them right.                  *)
LEMMA ConvertedRight ==
  ASSUME Sized, fmt = cap, Decodes
  PROVE  LET map == Converted(Width(imgs), Height(imgs))
         IN  /\ LumaIs(map, cap)
             /\ imgs = cap \/ format = "YUV420" => ChromaIs(map, cap)
<1> DEFINE w == Width(imgs)  h == Height(imgs)  map == Converted(w, h)
<1>1. /\ w \in Nat \ {0} /\ h \in Nat \ {0} /\ w % 4 = 0 /\ h % 4 = 0
      /\ w * h = Area(cap)
  BY SizeFacts
<1>2. EvenSize(cap)
  <2>1. Width(cap) \in Nat \ {0} /\ Height(cap) \in Nat \ {0} /\ Width(cap) % 4 = 0 /\ Height(cap) % 4 = 0
    BY DEF Sized, ByFour, Width, Height
  <2> HIDE DEF w, h
  <2> QED
    BY <2>1 DEF EvenSize
<1>3. imgs = cap => w = Width(cap) /\ h = Height(cap)
  OBVIOUS
<1> HIDE DEF w, h
<1>4. w % 2 = 0 /\ h % 2 = 0
  BY <1>1
<1>5. CASE format = "RGB24"
  <2>1. map = conv_rgb24toyuv420p(Coloured(cap), w, h)
    BY <1>5 DEF Converted, Buffer
  <2> HIDE DEF map
  <2>2. LumaIs(map, cap) /\ (w = Width(cap) /\ h = Height(cap) => ChromaIs(map, cap))
    BY <1>1, <1>2, <1>4, <2>1, RgbRight
  <2> QED
    BY <1>3, <1>5, <2>2 DEF map, w, h
<1>6. CASE format \in {"UYVY", "YUYV", "YUV422P"}
  <2>1. \/ map = conv_yuv422to420p(Packed(cap, 0), w, h)
        \/ map = conv_uyvyto420p(Packed(cap, 1), w, h)
    BY <1>6 DEF Converted, Buffer
  <2> HIDE DEF map
  <2>2. LumaIs(map, cap) /\ (w = Width(cap) /\ h = Height(cap) => ChromaIs(map, cap))
    BY <1>1, <1>2, <1>4, <2>1, PackedRight
  <2> QED
    BY <1>3, <1>6, <2>2 DEF map, w, h
<1>7. CASE format \in {"JPEG", "MJPEG"}
  <2>1. map = decode_jpeg_raw(cap, w, h)
    BY <1>7 DEF Converted
  <2>2. w = Width(cap) /\ h = Height(cap)
    <3>1. Height(cap) = h
      BY <1>7 DEF Decodes, Fits, h
    <3> QED
      BY <3>1 DEF Sized, Swap, w, h, Width, Height
  <2>3. LumaIs(map, cap) /\ ChromaIs(map, cap)
    BY <1>2, <2>1, <2>2, JpegRight
  <2> QED
    BY <2>3 DEF w, h
<1>8. CASE format \notin {"RGB24", "UYVY", "YUYV", "YUV422P", "JPEG", "MJPEG"}
  <2>1. map = Copy(Planar(cap), Size420(cap))
    BY <1>8 DEF Converted, Buffer
  <2>2. \A i \in 0 .. Size420(cap) - 1 : map[i] = Planar(cap)[i]
    BY <2>1 DEF Copy, At, Planar
  <2> HIDE DEF map
  <2> DEFINE A == Area(cap)  q == A \div 4
  <2>3. /\ A \in Nat /\ A = Width(cap) * Height(cap) /\ q \in Nat \ {0} /\ Size420(cap) = A + 2 * q
        /\ \A x \in Half(Width(cap)), y \in Half(Height(cap)) : Place(Width(cap) \div 2, x, y) \in 0 .. q - 1
    BY <1>2, ChromaOffset DEF EvenSize
  <2>4. LumaIs(Planar(cap), cap) /\ ChromaIs(Planar(cap), cap)
    BY <1>2, PlanarAt DEF EvenSize
  <2>5. LumaIs(map, cap)
    <3> SUFFICES ASSUME NEW x \in 0 .. Width(cap) - 1, NEW y \in 0 .. Height(cap) - 1
                 PROVE  map[Place(Width(cap), x, y)] = {<<"Y", x, y>>}
      BY DEF LumaIs
    <3> DEFINE n == Place(Width(cap), x, y)
    <3>1. n \in Pixels(Width(cap), Height(cap))
      BY <1>2, PlaceIn DEF EvenSize
    <3>2. Planar(cap)[n] = {<<"Y", x, y>>}
      BY <2>4 DEF LumaIs
    <3> HIDE DEF n, A, q
    <3>3. n \in 0 .. Size420(cap) - 1
      BY <2>3, <3>1 DEF Pixels
    <3> QED
      BY <2>2, <3>2, <3>3 DEF n
  <2>6. ChromaIs(map, cap)
    <3> SUFFICES ASSUME NEW x \in Half(Width(cap)), NEW y \in Half(Height(cap))
                 PROVE  LET n == Place(Width(cap) \div 2, x, y)
                        IN  /\ map[A + n] = Block("U", x, y)
                            /\ map[A + q + n] = Block("V", x, y)
      BY DEF ChromaIs
    <3> DEFINE n == Place(Width(cap) \div 2, x, y)
    <3>1. n \in 0 .. q - 1
      BY <2>3
    <3>2. Planar(cap)[A + n] = Block("U", x, y) /\ Planar(cap)[A + q + n] = Block("V", x, y)
      BY <2>4 DEF ChromaIs
    <3> HIDE DEF n, A, q
    <3>3. A + n \in 0 .. Size420(cap) - 1 /\ A + q + n \in 0 .. Size420(cap) - 1
      BY <2>3, <3>1
    <3> QED
      BY <2>2, <3>2, <3>3 DEF n
  <2> QED
    BY <2>5, <2>6 DEF map, w, h
<1> QED
  BY <1>5, <1>6, <1>7, <1>8

-----------------------------------------------------------------------------

-----------------------------------------------------------------------------
(* The rotation moves each byte where Shown says.                          *)

(* The place rot90cw takes a byte from, ...                                *)
LEMMA ClockwiseAt ==
  ASSUME NEW w \in Nat \ {0}, NEW h \in Nat \ {0}, NEW base \in Nat, NEW map,
         NEW x \in 0 .. h - 1, NEW y \in 0 .. w - 1
  PROVE  rot90cw(map, base, w, h)[Place(h, x, y)] = map[base + Place(w, y, h - 1 - x)]
<1> DEFINE n == Place(h, x, y)
<1>1. n \in Pixels(h, w) /\ n % h = x /\ n \div h = y
  BY PlaceIn
<1>2. n \in 0 .. w * h - 1
  BY <1>1 DEF Pixels
<1> HIDE DEF n
<1>3. rot90cw(map, base, w, h)[n] = map[base + w * h - w + (n \div h) - w * (n % h)]
  BY <1>2 DEF rot90cw
<1>4. base + w * h - w + y - w * x = base + Place(w, y, h - 1 - x)
  <2>1. w * (h - 1 - x) = w * h - w - w * x /\ w * h \in Int /\ w * x \in Int
    OBVIOUS
  <2> QED
    BY <2>1 DEF Place
<1>5. rot90cw(map, base, w, h)[n] = map[base + w * h - w + y - w * x]
  BY <1>1, <1>3, Zenon
<1> QED
  BY <1>4, <1>5 DEF n

(* ... and rot90ccw.                                                       *)
LEMMA CounterAt ==
  ASSUME NEW w \in Nat \ {0}, NEW h \in Nat \ {0}, NEW base \in Nat, NEW map,
         NEW x \in 0 .. h - 1, NEW y \in 0 .. w - 1
  PROVE  rot90ccw(map, base, w, h)[Place(h, x, y)] = map[base + Place(w, w - 1 - y, x)]
<1> DEFINE n == Place(h, x, y)  u == h - 1 - x  v == w - 1 - y
<1>1. n \in Pixels(h, w)
  BY PlaceIn
<1>2. n \in 0 .. w * h - 1
  BY <1>1 DEF Pixels
<1>3. rot90ccw(map, base, w, h)[n] = rot90cw(map, base, w, h)[w * h - 1 - n]
  BY <1>2 DEF rot90ccw
<1>4. w * h - 1 - n = Place(h, u, v)
  <2>1. h * (w - 1 - y) = w * h - h - h * y /\ w * h \in Int /\ h * y \in Int
    OBVIOUS
  <2> QED
    BY <2>1 DEF Place
<1>5. u \in 0 .. h - 1 /\ v \in 0 .. w - 1 /\ h - 1 - u = x
  OBVIOUS
<1> HIDE DEF u, v, n
<1>6. rot90cw(map, base, w, h)[Place(h, u, v)] = map[base + Place(w, v, h - 1 - u)]
  BY <1>5, ClockwiseAt
<1> QED
  BY <1>3, <1>4, <1>5, <1>6 DEF n, v

(* Each byte of three planes one after the other.                          *)
LEMMA PlanesAt ==
  ASSUME NEW size \in Nat, NEW q \in Nat, size = 4 * q, NEW Y, NEW U, NEW V
  PROVE  /\ \A i \in 0 .. size - 1 : Planes3(size, Y, U, V)[i] = Y[i]
         /\ \A n \in 0 .. q - 1 : /\ Planes3(size, Y, U, V)[size + n] = U[n]
                                  /\ Planes3(size, Y, U, V)[size + q + n] = V[n]
<1>1. size \div 2 = 2 * q /\ size \div 4 = q
  OBVIOUS
<1>2. ASSUME NEW i \in 0 .. size + 2 * q - 1
      PROVE  Planes3(size, Y, U, V)[i] =
               IF i < size THEN Y[i] ELSE IF i < size + q THEN U[i - size] ELSE V[i - size - q]
  BY <1>1 DEF Planes3
<1>3. ASSUME NEW n \in 0 .. q - 1
      PROVE  /\ Planes3(size, Y, U, V)[size + n] = U[n]
             /\ Planes3(size, Y, U, V)[size + q + n] = V[n]
  <2>1. /\ size + n \in 0 .. size + 2 * q - 1 /\ ~(size + n < size) /\ size + n < size + q
        /\ (size + n) - size = n
        /\ size + q + n \in 0 .. size + 2 * q - 1 /\ ~(size + q + n < size) /\ ~(size + q + n < size + q)
        /\ (size + q + n) - size - q = n
    OBVIOUS
  <2> QED
    BY <1>2, <2>1
<1>4. ASSUME NEW i \in 0 .. size - 1 PROVE Planes3(size, Y, U, V)[i] = Y[i]
  <2>1. i \in 0 .. size + 2 * q - 1 /\ i < size
    OBVIOUS
  <2> QED
    BY <1>2, <2>1
<1> QED
  BY <1>3, <1>4

\* The size a picture of size s has after the turn.
Turned(s) == IF degrees \in {90, 270} THEN Swap(s) ELSE s

\* The size of a chroma plane of a picture of size s.
Halved(s) == <<Width(s) \div 2, Height(s) \div 2>>

\* A plane of a turned picture, whose bytes are those of f from base on.
PlaneTurned(g, f, base, s) ==
    \A x \in 0 .. Width(Turned(s)) - 1, y \in 0 .. Height(Turned(s)) - 1 :
        LET p == Shown(s, x, y)
        IN  g[Place(Width(Turned(s)), x, y)] = f[base + Place(Width(s), p[1], p[2])]

(* Each way of turning a plane shows the place it should.                  *)
LEMMA ClockwiseTurned ==
  ASSUME NEW w \in Nat \ {0}, NEW h \in Nat \ {0}, NEW base \in Nat, NEW map
  PROVE  degrees = 90 => PlaneTurned(rot90cw(map, base, w, h), map, base, <<w, h>>)
<1>1. /\ Width(<<w, h>>) = w /\ Width(<<h, w>>) = h /\ Height(<<h, w>>) = w
      /\ degrees \in {90, 270} => Turned(<<w, h>>) = <<h, w>>
  BY DEF Width, Height, Turned, Swap
<1>2. degrees = 90 => \A x, y : Shown(<<w, h>>, x, y) = <<y, h - 1 - x>>
  BY DEF Shown, Height
<1>3. ASSUME NEW x \in 0 .. h - 1, NEW y \in 0 .. w - 1
      PROVE  rot90cw(map, base, w, h)[Place(h, x, y)] = map[base + Place(w, y, h - 1 - x)]
  BY ClockwiseAt
<1> QED
  BY <1>1, <1>2, <1>3 DEF PlaneTurned

(* ... the other way, ...                                                  *)
LEMMA CounterTurned ==
  ASSUME NEW w \in Nat \ {0}, NEW h \in Nat \ {0}, NEW base \in Nat, NEW map
  PROVE  degrees = 270 => PlaneTurned(rot90ccw(map, base, w, h), map, base, <<w, h>>)
<1>1. /\ Width(<<w, h>>) = w /\ Width(<<h, w>>) = h /\ Height(<<h, w>>) = w
      /\ degrees \in {90, 270} => Turned(<<w, h>>) = <<h, w>>
  BY DEF Width, Height, Turned, Swap
<1>2. degrees = 270 => \A x, y : Shown(<<w, h>>, x, y) = <<w - 1 - y, x>>
  BY DEF Shown, Width
<1>3. ASSUME NEW x \in 0 .. h - 1, NEW y \in 0 .. w - 1
      PROVE  rot90ccw(map, base, w, h)[Place(h, x, y)] = map[base + Place(w, w - 1 - y, x)]
  BY CounterAt
<1> QED
  BY <1>1, <1>2, <1>3 DEF PlaneTurned

(* ... and upside down, when no quad is left in the middle.                *)
LEMMA ReversedTurned ==
  ASSUME NEW w \in Nat \ {0}, NEW h \in Nat \ {0}, NEW base \in Nat, NEW map,
         NEW size, size = w * h, size % 8 = 0
  PROVE  degrees = 180 => PlaneTurned(reverse_inplace_quad(map, base, size), map, base, <<w, h>>)
<1>1. Width(<<w, h>>) = w /\ Height(<<w, h>>) = h /\ (degrees = 180 => Turned(<<w, h>>) = <<w, h>>)
  BY DEF Width, Height, Turned
<1>2. degrees = 180 => \A x, y : Shown(<<w, h>>, x, y) = <<w - 1 - x, h - 1 - y>>
  BY DEF Shown, Width, Height
<1>3. ASSUME NEW x \in 0 .. w - 1, NEW y \in 0 .. h - 1
      PROVE  reverse_inplace_quad(map, base, size)[Place(w, x, y)] = map[base + Place(w, w - 1 - x, h - 1 - y)]
  <2> DEFINE n == Place(w, x, y)
  <2>1. n \in Pixels(w, h)
    BY PlaceIn
  <2>2. n \in 0 .. size - 1 /\ size \in Nat
    BY <2>1 DEF Pixels
  <2>3. size - 1 - n = Place(w, w - 1 - x, h - 1 - y)
    <3>1. w * (h - 1 - y) = w * h - w - w * y /\ w * h \in Int /\ w * y \in Int
      OBVIOUS
    <3> QED
      BY <3>1 DEF Place
  <2> HIDE DEF n
  <2>a. 2 * (n \div 4) # size \div 4 - 1
    BY <2>2
  <2>4. reverse_inplace_quad(map, base, size)[n] = map[base + (4 * ((size \div 4 - 1) - (n \div 4)) + 3 - (n % 4))]
    BY <2>2, <2>a DEF reverse_inplace_quad
  <2>5. base + (4 * ((size \div 4 - 1) - (n \div 4)) + 3 - (n % 4)) = base + (size - 1 - n)
    BY <2>2
  <2> QED
    BY <2>3, <2>4, <2>5 DEF n
<1> QED
  BY <1>1, <1>2, <1>3 DEF PlaneTurned

\* The planes of a picture turned from those of f: luma, and chroma.
LumaTurned(g, f, s) ==
    LET t == Turned(s)
    IN  \A x \in 0 .. Width(t) - 1, y \in 0 .. Height(t) - 1 :
            LET p == Shown(s, x, y)
            IN  g[Place(Width(t), x, y)] = f[Place(Width(s), p[1], p[2])]

ChromaTurned(g, f, s) ==
    LET A == Area(s)  q == A \div 4  t == Turned(s)
    IN  \A x \in Half(Width(t)), y \in Half(Height(t)) :
            LET p == Shown(Halved(s), x, y)
                n == Place(Width(t) \div 2, x, y)
                m == Place(Width(s) \div 2, p[1], p[2])
            IN  g[A + n] = f[A + m] /\ g[A + q + n] = f[A + q + m]

(* Turning each plane turns the image, as the sides are multiples of four. *)
LEMMA ThreePlanes ==
  ASSUME NEW s, ByFour(s), NEW f, NEW Y, NEW U, NEW V, NEW g,
         g = Planes3(Area(s), Y, U, V), degrees \in {90, 180, 270}
  PROVE  /\ PlaneTurned(Y, f, 0, s) => LumaTurned(g, f, s)
         /\ /\ PlaneTurned(U, f, Area(s), Halved(s))
            /\ PlaneTurned(V, f, Area(s) + Area(s) \div 4, Halved(s))
            => ChromaTurned(g, f, s)
<1> DEFINE A == Area(s)  q == A \div 4  t == Turned(s)  w == Width(t)  h == Height(t)
<1>1. PICK u \in Nat \ {0}, v \in Nat \ {0} : s = <<u, v>>
  BY DEF ByFour
<1>2. u % 4 = 0 /\ v % 4 = 0 /\ Width(s) = u /\ Height(s) = v
  BY <1>1 DEF ByFour, Width, Height
<1>3. t = <<u, v>> \/ t = <<v, u>>
  BY <1>1 DEF Turned, Swap
<1>4. w \in Nat \ {0} /\ h \in Nat \ {0} /\ w % 2 = 0 /\ h % 2 = 0
  BY <1>2, <1>3 DEF Width, Height
<1>5. Area(t) = A
  <2>1. u * v = v * u
    OBVIOUS
  <2> QED
    BY <1>1, <1>3, <2>1 DEF Area
<1>6. /\ A \in Nat /\ A = w * h /\ q \in Nat \ {0} /\ A = 4 * q
      /\ \A x \in Half(w), y \in Half(h) : Place(w \div 2, x, y) \in 0 .. q - 1
  BY <1>4, <1>5, ChromaOffset
<1>7. Turned(Halved(s)) = <<w \div 2, h \div 2>>
  BY <1>1, <1>2 DEF Turned, Halved, Swap, Width, Height
<1>8. Width(Halved(s)) = Width(s) \div 2
  BY DEF Halved, Width
<1>9. Width(<<w \div 2, h \div 2>>) = w \div 2 /\ Height(<<w \div 2, h \div 2>>) = h \div 2
  BY DEF Width, Height
<1>a. \A x, y : Shown(s, x, y)[1] = (CASE degrees = 90 -> y [] degrees = 180 -> u - 1 - x [] OTHER -> u - 1 - y)
  BY <1>2 DEF Shown
<1>b. \A x, y : Shown(s, x, y)[2] = (CASE degrees = 90 -> v - 1 - x [] degrees = 180 -> v - 1 - y [] OTHER -> x)
  BY <1>2 DEF Shown
<1> HIDE DEF A, q, t, w, h
<1>10. ASSUME PlaneTurned(Y, f, 0, s), NEW x \in 0 .. w - 1, NEW y \in 0 .. h - 1
       PROVE  g[Place(w, x, y)] = f[Place(Width(s), Shown(s, x, y)[1], Shown(s, x, y)[2])]
  <2> DEFINE n == Place(w, x, y)  m == Place(Width(s), Shown(s, x, y)[1], Shown(s, x, y)[2])
  <2>1. n \in Pixels(w, h)
    BY <1>4, PlaceIn
  <2>2. Y[n] = f[0 + m]
    BY <1>10 DEF PlaneTurned, w, h, t
  <2>3. Shown(s, x, y)[1] \in Int /\ Shown(s, x, y)[2] \in Int
    BY <1>1, <1>a, <1>b
  <2>4. 0 + m = m
    <3>1. m \in Int
      BY <1>1, <1>2, <2>3 DEF Place
    <3> HIDE DEF m
    <3> QED
      BY <3>1
  <2> HIDE DEF n, m
  <2>5. n \in 0 .. A - 1
    BY <1>6, <2>1 DEF Pixels
  <2>6. g[n] = Y[n]
    BY <1>6, <2>5, PlanesAt DEF A
  <2> QED
    BY <2>2, <2>4, <2>6 DEF n, m
<1>11. ASSUME PlaneTurned(U, f, A, Halved(s)), PlaneTurned(V, f, A + q, Halved(s)),
              NEW x \in Half(w), NEW y \in Half(h)
       PROVE  LET p == Shown(Halved(s), x, y)
                  n == Place(w \div 2, x, y)
                  m == Place(Width(s) \div 2, p[1], p[2])
              IN  g[A + n] = f[A + m] /\ g[A + q + n] = f[A + q + m]
  <2> DEFINE p == Shown(Halved(s), x, y)
             n == Place(w \div 2, x, y)
             m == Place(Width(s) \div 2, p[1], p[2])
  <2>1. x \in 0 .. w \div 2 - 1 /\ y \in 0 .. h \div 2 - 1
    BY DEF Half
  <2>2. U[n] = f[A + m] /\ V[n] = f[A + q + m]
    BY <1>7, <1>8, <1>9, <1>11, <2>1 DEF PlaneTurned
  <2>3. n \in 0 .. q - 1
    BY <1>6
  <2> HIDE DEF n, m
  <2>4. g[A + n] = U[n] /\ g[A + q + n] = V[n]
    BY <1>6, <2>3, PlanesAt DEF A
  <2> QED
    BY <2>2, <2>4 DEF n, m
<1>12. PlaneTurned(Y, f, 0, s) => LumaTurned(g, f, s)
  BY <1>10 DEF LumaTurned, t, w, h
<1>13. PlaneTurned(U, f, A, Halved(s)) /\ PlaneTurned(V, f, A + q, Halved(s)) => ChromaTurned(g, f, s)
  BY <1>11 DEF ChromaTurned, A, q, t, w, h
<1> QED
  BY <1>12, <1>13 DEF A, q

(* rotate_map turns the image of the capture size by conf.rotate_deg, but  *)
(* for the chroma of sizes that leave a quad in the middle.                *)
LEMMA RotatedAt ==
  ASSUME Sized, NEW map
  PROVE  LumaTurned(rotate_map(map), map, cap) /\ (~OddQuads => ChromaTurned(rotate_map(map), map, cap))
<1> DEFINE w == Width(cap)  h == Height(cap)  A == Area(cap)  q == A \div 4
           a == w \div 2  b == h \div 2
<1>1. ByFour(cap) /\ cap = <<w, h>>
  BY DEF Sized, ByFour, Width, Height
<1>2. /\ w \in Nat \ {0} /\ h \in Nat \ {0} /\ w % 4 = 0 /\ h % 4 = 0 /\ w * h = A
  BY DEF Sized, ByFour, Width, Height, Area
<1> HIDE DEF w, h, A
<1>3. /\ a \in Nat \ {0} /\ b \in Nat \ {0} /\ A \in Nat /\ q \in Nat /\ q = a * b /\ A = 4 * q
  <2>1. w % 2 = 0 /\ h % 2 = 0
    BY <1>2
  <2>2. /\ a \in Nat \ {0} /\ b \in Nat \ {0} /\ w * h \in Nat /\ (w * h) \div 4 \in Nat
        /\ (w * h) \div 4 = a * b /\ w * h = 4 * ((w * h) \div 4)
    BY <1>2, <2>1, Quarter
  <2> QED
    BY <1>2, <2>2
<1>4. A % 8 = 0 /\ (~OddQuads => degrees # 180 \/ q % 8 = 0)
  <2>1. PICK c \in Nat, d \in Nat : a = 2 * c /\ b = 2 * d
    BY <1>2, <1>3
  <2>2. a * b = 4 * (c * d) /\ c * d \in Nat
    BY <2>1
  <2>3. ~OddQuads => degrees # 180 \/ A % 32 = 0
    BY DEF OddQuads, A
  <2> HIDE DEF a, b, q
  <2> QED
    BY <1>3, <2>2, <2>3
<1>5. Halved(cap) = <<a, b>>
  BY DEF Halved, w, h
<1>6. Width(cap) = w /\ Height(cap) = h
  BY DEF w, h
<1> HIDE DEF a, b, q
<1>7. ASSUME NEW base \in Nat
      PROVE  /\ degrees = 90 => /\ PlaneTurned(rot90cw(map, base, w, h), map, base, cap)
                                /\ PlaneTurned(rot90cw(map, base, a, b), map, base, Halved(cap))
             /\ degrees = 270 => /\ PlaneTurned(rot90ccw(map, base, w, h), map, base, cap)
                                 /\ PlaneTurned(rot90ccw(map, base, a, b), map, base, Halved(cap))
             /\ degrees = 180 => /\ PlaneTurned(reverse_inplace_quad(map, base, A), map, base, cap)
                                 /\ ~OddQuads => PlaneTurned(reverse_inplace_quad(map, base, q), map, base, Halved(cap))
  <2>1. degrees = 180 => PlaneTurned(reverse_inplace_quad(map, base, A), map, base, cap)
    BY <1>1, <1>2, <1>4, ReversedTurned
  <2>2. degrees = 180 /\ ~OddQuads => PlaneTurned(reverse_inplace_quad(map, base, q), map, base, Halved(cap))
    BY <1>3, <1>4, <1>5, ReversedTurned
  <2> QED
    BY <1>1, <1>2, <1>3, <1>5, <2>1, <2>2, ClockwiseTurned, CounterTurned
<1>8. 0 \in Nat /\ A \in Nat /\ A + q \in Nat
  BY <1>3
<1>9. CASE degrees = 90
  <2>1. rotate_map(map) = Planes3(A, rot90cw(map, 0, w, h), rot90cw(map, A, a, b), rot90cw(map, A + q, a, b))
    BY <1>2, <1>6, <1>9 DEF rotate_map, q, a, b
  <2> QED
    BY <1>1, <1>7, <1>8, <1>9, <2>1, ThreePlanes DEF q, A
<1>10. CASE degrees = 270
  <2>1. rotate_map(map) = Planes3(A, rot90ccw(map, 0, w, h), rot90ccw(map, A, a, b), rot90ccw(map, A + q, a, b))
    BY <1>2, <1>6, <1>10 DEF rotate_map, q, a, b
  <2> QED
    BY <1>1, <1>7, <1>8, <1>10, <2>1, ThreePlanes DEF q, A
<1>11. CASE degrees = 180
  <2>1. rotate_map(map) = Planes3(A, reverse_inplace_quad(map, 0, A), reverse_inplace_quad(map, A, q),
                                  reverse_inplace_quad(map, A + q, q))
    BY <1>2, <1>3, <1>6, <1>11 DEF rotate_map, q
  <2> QED
    BY <1>1, <1>7, <1>8, <1>11, <2>1, ThreePlanes DEF q, A
<1>12. CASE degrees \notin {90, 180, 270}
  <2>1. /\ rotate_map(map) = map
        /\ Turned(cap) = cap
        /\ \A x, y : Shown(cap, x, y) = <<x, y>> /\ Shown(Halved(cap), x, y) = <<x, y>>
    BY <1>12 DEF rotate_map, Turned, Shown
  <2> QED
    BY <2>1 DEF LumaTurned, ChromaTurned
<1> QED
  BY <1>9, <1>10, <1>11, <1>12

-----------------------------------------------------------------------------
(* What the bytes show is turned the same way.                             *)

(* Turning a picture byte by byte: luma goes where Shown says, ...         *)
LEMMA TurnLuma ==
  ASSUME NEW x, NEW y
  PROVE  Turn({<<"Y", x, y>>}) = {<<"Y", Shown(cap, x, y)[1], Shown(cap, x, y)[2]>>}
  BY DEF Turn

(* ... and a block of chroma goes where Shown puts it in a plane of half   *)
(* the size.                                                               *)
LEMMA TurnBlock ==
  ASSUME ByFour(cap), NEW plane, NEW x \in Int, NEW y \in Int
  PROVE  LET p == Shown(Halved(cap), x, y)
         IN  Turn(Block(plane, x, y)) = Block(plane, p[1], p[2])
<1> DEFINE w == Width(cap)  h == Height(cap)  a == w \div 2  b == h \div 2
           Row(n) == {2 * n, 2 * n + 1}
<1>1. w \in Nat /\ h \in Nat /\ w = 2 * a /\ h = 2 * b /\ a \in Nat /\ b \in Nat
  BY DEF ByFour, Width, Height
<1>2. Width(Halved(cap)) = a /\ Height(Halved(cap)) = b
  BY DEF Halved, Width, Height
<1> HIDE DEF w, h, a, b
<1>3. \A u, v : Block(plane, u, v) = {<<plane, c, d>> : c \in Row(u), d \in Row(v)}
  BY DEF Block
<1>4. Turn(Block(plane, x, y)) = {<<plane, Shown(cap, c, d)[1], Shown(cap, c, d)[2]>> : c \in Row(x), d \in Row(y)}
  <2>1. Turn(Block(plane, x, y)) =
          {<<p[1], Shown(cap, p[2], p[3])[1], Shown(cap, p[2], p[3])[2]>> : p \in Block(plane, x, y)}
    BY DEF Turn
  <2> DEFINE New(c, d) == <<plane, Shown(cap, c, d)[1], Shown(cap, c, d)[2]>>
  <2>2. \A c, d : <<plane, c, d>>[1] = plane /\ <<plane, c, d>>[2] = c /\ <<plane, c, d>>[3] = d
    OBVIOUS
  <2> HIDE DEF Row
  <2>3. ASSUME NEW c \in Row(x), NEW d \in Row(y)
        PROVE  New(c, d) \in Turn(Block(plane, x, y))
    <3> DEFINE p == <<plane, c, d>>
    <3>1. p \in Block(plane, x, y)
      BY <1>3
    <3>2. New(c, d) = <<p[1], Shown(cap, p[2], p[3])[1], Shown(cap, p[2], p[3])[2]>>
      BY <2>2
    <3> HIDE DEF p, New
    <3> QED
      BY <2>1, <3>1, <3>2
  <2>4. ASSUME NEW e \in Turn(Block(plane, x, y))
        PROVE  \E c \in Row(x), d \in Row(y) : e = New(c, d)
    <3>1. PICK p \in Block(plane, x, y) : e = <<p[1], Shown(cap, p[2], p[3])[1], Shown(cap, p[2], p[3])[2]>>
      BY <2>1
    <3>2. PICK c \in Row(x), d \in Row(y) : p = <<plane, c, d>>
      BY <1>3
    <3>3. e = New(c, d)
      BY <2>2, <3>1, <3>2
    <3> HIDE DEF New
    <3> QED
      BY <3>3
  <2> HIDE DEF New
  <2>5. Turn(Block(plane, x, y)) = {New(c, d) : c \in Row(x), d \in Row(y)}
    BY <2>3, <2>4
  <2> QED
    BY <2>5 DEF New
<1>5. CASE degrees = 90
  <2>1. \A c, d : Shown(cap, c, d)[1] = d /\ Shown(cap, c, d)[2] = h - 1 - c
    BY <1>5 DEF Shown, h
  <2>2. Shown(Halved(cap), x, y)[1] = y /\ Shown(Halved(cap), x, y)[2] = b - 1 - x
    BY <1>2, <1>5 DEF Shown
  <2>3. \A c \in Row(x) : h - 1 - c \in Row(b - 1 - x)
    BY <1>1
  <2>4. \A e \in Row(b - 1 - x) : h - 1 - e \in Row(x) /\ h - 1 - (h - 1 - e) = e
    BY <1>1
  <2> HIDE DEF Row
  <2>5. {<<plane, d, h - 1 - c>> : c \in Row(x), d \in Row(y)} = {<<plane, c, d>> : c \in Row(y), d \in Row(b - 1 - x)}
    BY <2>3, <2>4
  <2> QED
    BY <1>3, <1>4, <2>1, <2>2, <2>5
<1>6. CASE degrees = 270
  <2>1. \A c, d : Shown(cap, c, d)[1] = w - 1 - d /\ Shown(cap, c, d)[2] = c
    BY <1>6 DEF Shown, w
  <2>2. Shown(Halved(cap), x, y)[1] = a - 1 - y /\ Shown(Halved(cap), x, y)[2] = x
    BY <1>2, <1>6 DEF Shown
  <2>3. \A d \in Row(y) : w - 1 - d \in Row(a - 1 - y)
    BY <1>1
  <2>4. \A e \in Row(a - 1 - y) : w - 1 - e \in Row(y) /\ w - 1 - (w - 1 - e) = e
    BY <1>1
  <2> HIDE DEF Row
  <2>5. {<<plane, w - 1 - d, c>> : c \in Row(x), d \in Row(y)} = {<<plane, c, d>> : c \in Row(a - 1 - y), d \in Row(x)}
    BY <2>3, <2>4
  <2> QED
    BY <1>3, <1>4, <2>1, <2>2, <2>5
<1>7. CASE degrees = 180
  <2>1. \A c, d : Shown(cap, c, d)[1] = w - 1 - c /\ Shown(cap, c, d)[2] = h - 1 - d
    BY <1>7 DEF Shown, w, h
  <2>2. Shown(Halved(cap), x, y)[1] = a - 1 - x /\ Shown(Halved(cap), x, y)[2] = b - 1 - y
    BY <1>2, <1>7 DEF Shown
  <2>3. /\ \A c \in Row(x) : w - 1 - c \in Row(a - 1 - x)
        /\ \A d \in Row(y) : h - 1 - d \in Row(b - 1 - y)
    BY <1>1
  <2>4. /\ \A e \in Row(a - 1 - x) : w - 1 - e \in Row(x) /\ w - 1 - (w - 1 - e) = e
        /\ \A e \in Row(b - 1 - y) : h - 1 - e \in Row(y) /\ h - 1 - (h - 1 - e) = e
    BY <1>1
  <2> HIDE DEF Row
  <2>5. {<<plane, w - 1 - c, h - 1 - d>> : c \in Row(x), d \in Row(y)}
          = {<<plane, c, d>> : c \in Row(a - 1 - x), d \in Row(b - 1 - y)}
    BY <2>3, <2>4
  <2> QED
    BY <1>3, <1>4, <2>1, <2>2, <2>5
<1>8. CASE degrees \notin {90, 180, 270}
  <2>1. /\ \A c, d : Shown(cap, c, d)[1] = c /\ Shown(cap, c, d)[2] = d
        /\ Shown(Halved(cap), x, y)[1] = x /\ Shown(Halved(cap), x, y)[2] = y
    BY <1>8 DEF Shown
  <2> HIDE DEF Row
  <2> QED
    BY <1>3, <1>4, <2>1
<1> QED
  BY <1>5, <1>6, <1>7, <1>8

\* What g has of a picture of size s that shows the turned scene.
TurnedLuma(g, s) ==
    \A x \in 0 .. Width(s) - 1, y \in 0 .. Height(s) - 1 :
        g[Place(Width(s), x, y)] = Turn({<<"Y", x, y>>})

TurnedChroma(g, s) ==
    \A x \in Half(Width(s)), y \in Half(Height(s)) :
        LET n == Place(Width(s) \div 2, x, y)
        IN  /\ g[Area(s) + n] = Turn(Block("U", x, y))
            /\ g[Area(s) + Area(s) \div 4 + n] = Turn(Block("V", x, y))

(* What is shown is in the picture.                                        *)
LEMMA ShownInside ==
  ASSUME NEW s, Width(s) \in Nat, Height(s) \in Nat, s = <<Width(s), Height(s)>>,
         NEW x \in 0 .. Width(Turned(s)) - 1, NEW y \in 0 .. Height(Turned(s)) - 1
  PROVE  Shown(s, x, y)[1] \in 0 .. Width(s) - 1 /\ Shown(s, x, y)[2] \in 0 .. Height(s) - 1
<1> DEFINE w == Width(s)  h == Height(s)
<1>1. Turned(s) = IF degrees \in {90, 270} THEN <<h, w>> ELSE s
  BY DEF Turned, Swap, Width, Height
<1>2. w \in Nat /\ h \in Nat
  OBVIOUS
<1>3. /\ degrees \in {90, 270} => x \in 0 .. h - 1 /\ y \in 0 .. w - 1
      /\ degrees \notin {90, 270} => x \in 0 .. w - 1 /\ y \in 0 .. h - 1
  <2>1. Width(<<h, w>>) = h /\ Height(<<h, w>>) = w
    BY DEF Width, Height
  <2> QED
    BY <1>1, <2>1
<1>4. Shown(s, x, y) = CASE degrees = 90  -> <<y, h - 1 - x>>
                         [] degrees = 180 -> <<w - 1 - x, h - 1 - y>>
                         [] degrees = 270 -> <<w - 1 - y, x>>
                         [] OTHER -> <<x, y>>
  BY DEF Shown
<1> HIDE DEF w, h
<1>5. CASE degrees = 90
  BY <1>2, <1>3, <1>4, <1>5 DEF w, h
<1>6. CASE degrees = 180
  BY <1>2, <1>3, <1>4, <1>6 DEF w, h
<1>7. CASE degrees = 270
  BY <1>2, <1>3, <1>4, <1>7 DEF w, h
<1>8. CASE degrees \notin {90, 180, 270}
  BY <1>2, <1>3, <1>4, <1>8 DEF w, h
<1> QED
  BY <1>5, <1>6, <1>7, <1>8

(* The rotation of a picture shows the scene turned.                       *)
LEMMA ImageIsTurned ==
  ASSUME ByFour(cap), NEW f, NEW g, NEW t, t = Turned(cap), Area(t) = Area(cap)
  PROVE  /\ LumaIs(f, cap) /\ LumaTurned(g, f, cap) => TurnedLuma(g, t)
         /\ ChromaIs(f, cap) /\ ChromaTurned(g, f, cap) => TurnedChroma(g, t)
<1>1. /\ Width(cap) \in Nat /\ Height(cap) \in Nat /\ cap = <<Width(cap), Height(cap)>>
      /\ Width(cap) % 2 = 0 /\ Height(cap) % 2 = 0
  BY DEF ByFour, Width, Height
<1>2. ASSUME LumaIs(f, cap), LumaTurned(g, f, cap), NEW x \in 0 .. Width(t) - 1, NEW y \in 0 .. Height(t) - 1
      PROVE  g[Place(Width(t), x, y)] = Turn({<<"Y", x, y>>})
  <2> DEFINE p == Shown(cap, x, y)
  <2>1. p[1] \in 0 .. Width(cap) - 1 /\ p[2] \in 0 .. Height(cap) - 1
    BY <1>1, ShownInside
  <2>2. f[Place(Width(cap), p[1], p[2])] = {<<"Y", p[1], p[2]>>}
    BY <1>2, <2>1 DEF LumaIs
  <2>3. g[Place(Width(t), x, y)] = f[Place(Width(cap), p[1], p[2])]
    BY <1>2 DEF LumaTurned
  <2> QED
    BY <2>2, <2>3, TurnLuma
<1>3. ASSUME ChromaIs(f, cap), ChromaTurned(g, f, cap), NEW x \in Half(Width(t)), NEW y \in Half(Height(t))
      PROVE  LET n == Place(Width(t) \div 2, x, y)
             IN  /\ g[Area(t) + n] = Turn(Block("U", x, y))
                 /\ g[Area(t) + Area(t) \div 4 + n] = Turn(Block("V", x, y))
  <2> DEFINE p == Shown(Halved(cap), x, y)  A == Area(cap)  q == A \div 4
             n == Place(Width(t) \div 2, x, y)  m == Place(Width(cap) \div 2, p[1], p[2])
  <2>1. /\ Width(Halved(cap)) = Width(cap) \div 2 /\ Height(Halved(cap)) = Height(cap) \div 2
        /\ Turned(Halved(cap)) = Halved(t)
    BY <1>1 DEF Halved, Turned, Swap, Width, Height
  <2>2. Width(Halved(t)) = Width(t) \div 2 /\ Height(Halved(t)) = Height(t) \div 2
    BY DEF Halved, Width, Height
  <2>3. x \in 0 .. Width(Turned(Halved(cap))) - 1 /\ y \in 0 .. Height(Turned(Halved(cap))) - 1
    BY <2>1, <2>2 DEF Half
  <2>4. /\ Width(Halved(cap)) \in Nat /\ Height(Halved(cap)) \in Nat
        /\ Halved(cap) = <<Width(Halved(cap)), Height(Halved(cap))>>
    BY <1>1, <2>1 DEF Halved
  <2>5. p[1] \in Half(Width(cap)) /\ p[2] \in Half(Height(cap))
    BY <2>1, <2>3, <2>4, ShownInside DEF Half
  <2>6. f[A + m] = Block("U", p[1], p[2]) /\ f[A + q + m] = Block("V", p[1], p[2])
    BY <1>3, <2>5 DEF ChromaIs
  <2>7. g[A + n] = f[A + m] /\ g[A + q + n] = f[A + q + m]
    BY <1>3 DEF ChromaTurned
  <2>8. /\ Turn(Block("U", x, y)) = Block("U", p[1], p[2])
        /\ Turn(Block("V", x, y)) = Block("V", p[1], p[2])
    <3>1. x \in Int /\ y \in Int
      BY DEF Half
    <3> QED
      BY <3>1, TurnBlock
  <2> HIDE DEF p, m, n
  <2> QED
    BY <2>6, <2>7, <2>8 DEF n
<1> QED
  BY <1>2, <1>3 DEF TurnedLuma, TurnedChroma

(* Every byte of a picture is the luma or the chroma of some place.        *)
LEMMA EveryByte ==
  ASSUME NEW s, EvenSize(s), NEW i \in 0 .. Size420(s) - 1
  PROVE  \/ /\ i < Area(s)
            /\ \E x \in 0 .. Width(s) - 1, y \in 0 .. Height(s) - 1 : i = Place(Width(s), x, y)
         \/ /\ ~(i < Area(s))
            /\ \E x \in Half(Width(s)), y \in Half(Height(s)) :
                  \/ i = Area(s) + Place(Width(s) \div 2, x, y)
                  \/ i = Area(s) + Area(s) \div 4 + Place(Width(s) \div 2, x, y)
<1> DEFINE w == Width(s)  h == Height(s)  A == Area(s)  q == A \div 4  a == w \div 2  b == h \div 2
<1>1. /\ A \in Nat /\ A = w * h /\ q \in Nat \ {0} /\ Size420(s) = A + 2 * q
      /\ a \in Nat \ {0} /\ b \in Nat \ {0}
  BY ChromaOffset DEF EvenSize
<1>2. w \in Nat \ {0} /\ h \in Nat \ {0} /\ w % 2 = 0 /\ h % 2 = 0
  BY DEF EvenSize
<1> HIDE DEF w, h, A
<1>3. q = a * b
  <2>1. (w * h) \div 4 = (w \div 2) * (h \div 2)
    BY <1>2, Quarter
  <2> QED
    BY <1>1, <2>1
<1> HIDE DEF q, a, b
<1>4. ASSUME i < A
      PROVE  \E x \in 0 .. w - 1, y \in 0 .. h - 1 : i = Place(w, x, y)
  <2>1. i \in 0 .. w * h - 1
    BY <1>1, <1>4
  <2>2. i % w \in 0 .. w - 1 /\ i \div w \in 0 .. h - 1 /\ i = w * (i \div w) + (i % w)
    BY <1>2, <2>1, Split
  <2> QED
    BY <2>2 DEF Place
<1>5. ASSUME ~(i < A)
      PROVE  \E x \in Half(w), y \in Half(h) : i = A + Place(a, x, y) \/ i = A + q + Place(a, x, y)
  <2>1. PICK n \in 0 .. q - 1 : i = A + n \/ i = A + q + n
    <3>1. i - A \in 0 .. q - 1 \/ i - A - q \in 0 .. q - 1
      BY <1>1, <1>5
    <3>2. i = A + (i - A) /\ i = A + q + (i - A - q)
      BY <1>1
    <3> QED
      BY <3>1, <3>2
  <2>2. n % a \in 0 .. a - 1 /\ n \div a \in 0 .. b - 1 /\ n = a * (n \div a) + (n % a)
    <3>1. n \in 0 .. a * b - 1
      BY <1>3
    <3> QED
      BY <1>1, <3>1, Split
  <2>3. n % a \in Half(w) /\ n \div a \in Half(h)
    BY <2>2 DEF Half, a, b
  <2>4. n = Place(a, n % a, n \div a)
    BY <2>2 DEF Place
  <2> QED
    BY <2>1, <2>3, <2>4
<1> QED
  BY <1>4, <1>5 DEF w, h, A, q, a

(* A picture written to a file has at each pixel the luma of its place and *)
(* the chroma of its block.                                                *)
LEMMA FileIsTurned ==
  ASSUME NEW s, EvenSize(s), NEW g, DOMAIN g = 0 .. Size420(s) - 1, TurnedLuma(g, s), TurnedChroma(g, s)
  PROVE  put_jpeg(g, Width(s), Height(s)) =
           [p \in (0 .. Width(s) - 1) \X (0 .. Height(s) - 1) |-> Turn(FileHas(p[1], p[2]))]
<1> DEFINE w == Width(s)  h == Height(s)  A == Area(s)  q == A \div 4  a == w \div 2  b == h \div 2
           off(p) == w * h + a * (p[2] \div 2) + p[1] \div 2
           byte(p) == At(g, w * p[2] + p[1]) \cup At(g, off(p)) \cup At(g, off(p) + (w * h) \div 4)
<1>1. /\ A \in Nat /\ A = w * h /\ q \in Nat \ {0} /\ A = 4 * q /\ Size420(s) = A + 2 * q
      /\ \A x \in Half(w), y \in Half(h) : Place(a, x, y) \in 0 .. q - 1
  BY ChromaOffset DEF EvenSize
<1>2. w \in Nat \ {0} /\ h \in Nat \ {0} /\ w % 2 = 0 /\ h % 2 = 0
  BY DEF EvenSize
<1>3. put_jpeg(g, w, h) = [p \in (0 .. w - 1) \X (0 .. h - 1) |-> byte(p)]
  BY DEF put_jpeg
<1> HIDE DEF w, h, A, q, a
<1>4. ASSUME NEW x \in 0 .. w - 1, NEW y \in 0 .. h - 1
      PROVE  At(g, w * y + x) \cup At(g, w * h + a * (y \div 2) + x \div 2)
                \cup At(g, w * h + a * (y \div 2) + x \div 2 + (w * h) \div 4)
               = Turn(FileHas(x, y))
  <2> DEFINE n == Place(w, x, y)  u == x \div 2  v == y \div 2  m == Place(a, u, v)
  <2>1. u \in Half(w) /\ v \in Half(h) /\ u \in Int /\ v \in Int
    BY <1>2 DEF Half
  <2>2. n \in Pixels(w, h)
    BY <1>2, PlaceIn
  <2>3. m \in 0 .. q - 1
    BY <1>1, <2>1
  <2>4. g[n] = Turn({<<"Y", x, y>>})
    BY DEF TurnedLuma, w, h
  <2> HIDE DEF u, v
  <2>5. g[A + m] = Turn(Block("U", u, v)) /\ g[A + q + m] = Turn(Block("V", u, v))
    BY <2>1 DEF TurnedChroma, A, q, a, w, h
  <2>6. w * y + x = n
    BY DEF Place
  <2>7. A + a * v + u = A + m /\ A + a * v + u + q = A + q + m
    <3>1. a * v \in Int
      BY <1>2, <2>1 DEF a
    <3> DEFINE z == a * v
    <3> HIDE DEF z
    <3>2. A + z + u = A + (z + u) /\ A + z + u + q = A + q + (z + u)
      BY <1>1, <2>1, <3>1 DEF z
    <3> QED
      BY <3>2 DEF z, Place
  <2> HIDE DEF n, m
  <2>8. n \in DOMAIN g /\ A + m \in DOMAIN g /\ A + q + m \in DOMAIN g
    <3>1. n \in 0 .. A + 2 * q - 1 /\ DOMAIN g = 0 .. A + 2 * q - 1
      BY <1>1, <2>2 DEF Pixels
    <3>2. A + m \in 0 .. A + 2 * q - 1 /\ A + q + m \in 0 .. A + 2 * q - 1
      BY <1>1, <2>3, ChromaShift
    <3> QED
      BY <3>1, <3>2, Zenon
  <2>9. /\ At(g, n) = Turn({<<"Y", x, y>>})
        /\ At(g, A + m) = Turn(Block("U", u, v))
        /\ At(g, A + q + m) = Turn(Block("V", u, v))
    BY <2>4, <2>5, <2>8 DEF At
  <2>10. \A c, d, e : Turn(c \cup d \cup e) = Turn(c) \cup Turn(d) \cup Turn(e)
    BY DEF Turn
  <2>11. At(g, n) \cup At(g, A + m) \cup At(g, A + q + m) = Turn(FileHas(x, y))
    BY <2>9, <2>10 DEF FileHas, u, v
  <2>12. (w * h) \div 4 = q /\ w * h = A
    BY <1>1 DEF q
  <2> QED
    BY <2>6, <2>7, <2>11, <2>12, Zenon DEF u, v
<1>5. ASSUME NEW p \in (0 .. w - 1) \X (0 .. h - 1)
      PROVE  byte(p) = Turn(FileHas(p[1], p[2]))
  <2>1. p[1] \in 0 .. w - 1 /\ p[2] \in 0 .. h - 1
    OBVIOUS
  <2> QED
    BY <1>4, <2>1, Zenon
<1> HIDE DEF byte
<1>6. put_jpeg(g, w, h) = [p \in (0 .. w - 1) \X (0 .. h - 1) |-> Turn(FileHas(p[1], p[2]))]
  BY <1>3, <1>5
<1> QED
  BY <1>6 DEF w, h

(* Every frame delivered at the size asked for shows the scene turned, and *)
(* so does the picture in a file.                                          *)
THEOREM FramesShowScene == FSpec => []FrameRight
<1>1. FrameInv => FrameRight
  <2> SUFFICES ASSUME FrameInv, ret = 0, SizeKept PROVE DeliveredRight /\ FileRight
    BY DEF FrameRight
  <2>1. Sized /\ fmt = Granted(cap) /\ Decodes /\ virgin = Delivered
    BY RunningSized
  <2>2. imgs = Turned(cap) /\ (file # <<>> => file = Written)
    BY DEF FrameInv, GeometryInv, ImageInv, Threaded, Turned
  <2>3. fmt = cap /\ Area(fmt) >= Area(cap)
    <3>1. fmt = cap
      BY DEF SizeKept
    <3>2. Area(cap) \in Nat
      BY <2>1, SizeFacts
    <3> QED
      BY <3>1, <3>2
  <2>4. Area(imgs) = Area(cap) /\ Size420(imgs) = Size420(cap)
    BY <2>1, SizeFacts
  <2>5. EvenSize(imgs) /\ ByFour(cap)
    <3>1. Width(imgs) \in Nat \ {0} /\ Height(imgs) \in Nat \ {0} /\ Width(imgs) % 4 = 0 /\ Height(imgs) % 4 = 0
      BY <2>1, SizeFacts
    <3> QED
      BY <2>1, <3>1 DEF EvenSize, Sized
  <2> DEFINE map == Converted(Width(imgs), Height(imgs))
  <2>6. DOMAIN map = 0 .. Size420(cap) - 1 /\ AllGood(map, Size420(cap))
    BY <2>1, <2>3, ConvertedGood
  <2>7. LumaIs(map, cap) /\ (imgs = cap \/ format = "YUV420" => ChromaIs(map, cap))
    BY <2>1, <2>3, ConvertedRight
  <2>8. virgin = rotate_map(map)
    BY <2>1 DEF Delivered
  <2> HIDE DEF map
  <2>9. DOMAIN virgin = 0 .. Size420(imgs) - 1
    BY <2>1, <2>4, <2>6, <2>8, RotatedGood
  <2>10. LumaTurned(virgin, map, cap) /\ (~OddQuads => ChromaTurned(virgin, map, cap))
    BY <2>1, <2>8, RotatedAt
  <2>11. TurnedLuma(virgin, imgs) /\ (Upright => TurnedChroma(virgin, imgs))
    BY <2>1, <2>2, <2>4, <2>5, <2>7, <2>10, ImageIsTurned DEF Upright
  <2>12. LumaIs(Planar(imgs), imgs) /\ ChromaIs(Planar(imgs), imgs)
    BY <2>5, PlanarAt DEF EvenSize
  <2>13. DeliveredRight
    <3> SUFFICES ASSUME NEW i \in 0 .. Size420(imgs) - 1, i < Area(imgs) \/ Upright
                 PROVE  virgin[i] = Turn(Planar(imgs)[i])
      BY <2>9 DEF DeliveredRight
    <3>1. CASE i < Area(imgs)
      <4>1. PICK x \in 0 .. Width(imgs) - 1, y \in 0 .. Height(imgs) - 1 : i = Place(Width(imgs), x, y)
        BY <2>5, <3>1, EveryByte
      <4> QED
        BY <2>11, <2>12, <4>1 DEF TurnedLuma, LumaIs
    <3>2. CASE ~(i < Area(imgs))
      <4>1. PICK x \in Half(Width(imgs)), y \in Half(Height(imgs)) :
              \/ i = Area(imgs) + Place(Width(imgs) \div 2, x, y)
              \/ i = Area(imgs) + Area(imgs) \div 4 + Place(Width(imgs) \div 2, x, y)
        BY <2>5, <3>2, EveryByte
      <4>2. TurnedChroma(virgin, imgs)
        BY <2>11, <3>2
      <4> QED
        BY <2>12, <4>1, <4>2 DEF TurnedChroma, ChromaIs
    <3> QED
      BY <3>1, <3>2
  <2>14. FileRight
    <3> SUFFICES ASSUME file # <<>>, Upright
                 PROVE  file = [p \in (0 .. Width(imgs) - 1) \X (0 .. Height(imgs) - 1) |-> Turn(FileHas(p[1], p[2]))]
      BY DEF FileRight
    <3>1. put_jpeg(virgin, Width(imgs), Height(imgs)) =
            [p \in (0 .. Width(imgs) - 1) \X (0 .. Height(imgs) - 1) |-> Turn(FileHas(p[1], p[2]))]
      BY <2>5, <2>9, <2>11, FileIsTurned
    <3> QED
      BY <2>2, <3>1 DEF Written
  <2> QED
    BY <2>13, <2>14
<1> QED
  BY <1>1, FrameInvariant, PTL
=============================================================================
