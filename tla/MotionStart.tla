---------------------------- MODULE MotionStart ----------------------------
(***************************************************************************)
(* How the camera comes up and goes down: motion_thread_start and          *)
(* _motion_init of src/sp_eyes/motion.c, video_v4l2_start, v4l2_start,     *)
(* v4l2_set_mmap and video_v4l2_close of src/common/video.c.  One thread   *)
(* runs it; every step may fail, and what is at stake is who owns what     *)
(* when it does: heap objects, the descriptor, the mapped buffers and the  *)
(* driver's queue.  When all goes well the capture thread starts, in the   *)
(* state from which module V4l2Capture goes on.                            *)
(***************************************************************************)
EXTENDS Integers, Sequences

CONSTANTS
    Count,  \* the number of buffers REQBUFS grants when it grants enough
    MayFail \* the steps that may fail

\* The stages of v4l2_start that only ask the device something.
Inquiries == <<"capability", "input", "format">>
Failures  == {"malloc", "open", "capability", "input", "format", "controls",
              "reqbufs", "query", "mmap", "qbuf", "streamon", "thread"}
MinMmapBuffers == 2

ASSUME StartAssumption ==
    /\ Count \in Nat /\ Count >= MinMmapBuffers
    /\ MayFail \subseteq Failures

Buffers == 0 .. Count - 1
Objects == {"Task", "VideoDevice", "times", "s", "controls", "buffers", "images"}

VARIABLES
    pc,        \* where motion_thread_start is, in whatever it calls
    mem,       \* each heap object: "none", "live" or "freed"
    private,   \* VideoDevice->v4l2_private points to s
    fd,        \* the device file: "none", "open" or "closed"
    mapped,    \* the buffers mapped into the process
    owner,     \* external: the buffers the driver has queued
    next,      \* the loop variable b of v4l2_set_mmap
    streaming, \* external
    fault      \* the memory error the error path commits

vars == <<pc, mem, private, fd, mapped, owner, next, streaming, fault>>

Places == {"task", "device", "times", "open", "s", "capability", "input", "format",
           "controls", "reqbufs", "buffers", "query", "qbuf", "streamon",
           "images", "thread", "running", "err", "close", "free", "returned",
           "exited", "crashed"}

TypeOK ==
    /\ pc \in Places
    /\ mem \in [Objects -> {"none", "live", "freed"}]
    /\ private \in BOOLEAN
    /\ fd \in {"none", "open", "closed"}
    /\ mapped \subseteq Buffers
    /\ owner \in [Buffers -> {"queued", "held"}]
    /\ next \in 0 .. Count
    /\ streaming \in BOOLEAN
    /\ fault \in {"none", "freed_device", "no_private"}

Init ==
    /\ pc = "task"
    /\ mem = [o \in Objects |-> "none"]
    /\ private = FALSE
    /\ fd = "none"
    /\ mapped = {}
    /\ owner = [b \in Buffers |-> "held"]
    /\ next = 0
    /\ streaming = FALSE
    /\ fault = "none"

Goto(from, to) == pc = from /\ pc' = to

\* The step called f does not do what was asked and control goes on at `to'.
Fails(f, from, to) == f \in MayFail /\ Goto(from, to)

-----------------------------------------------------------------------------
(* mymalloc ends the process when there is no memory.                      *)

Mymalloc(o, from, to) ==
    /\ \/ /\ Goto(from, to)
          /\ mem' = [mem EXCEPT ![o] = "live"]
       \/ /\ Fails("malloc", from, "exited")
          /\ UNCHANGED mem
    /\ UNCHANGED <<private, fd, mapped, owner, next, streaming, fault>>

AllocTask   == Mymalloc("Task", "task", "device")
AllocDevice == Mymalloc("VideoDevice", "device", "times")
AllocTimes  == Mymalloc("times", "times", "open")

\* image_virgin, ref, out and the rotation buffer, after the camera is up.
AllocImages == Mymalloc("images", "images", "thread")

-----------------------------------------------------------------------------
(* video_v4l2_start and v4l2_start *)

OpenDevice ==
    /\ Goto("open", "s")
    /\ fd' = "open"
    /\ UNCHANGED <<mem, private, mapped, owner, next, streaming, fault>>

\* free (dev), which is the caller's VideoDevice.
OpenFails ==
    /\ Fails("open", "open", "close")
    /\ mem' = [mem EXCEPT !["VideoDevice"] = "freed"]
    /\ UNCHANGED <<private, fd, mapped, owner, next, streaming, fault>>

AllocState ==
    /\ \/ /\ Goto("s", "capability")
          /\ mem' = [mem EXCEPT !["s"] = "live"]
          /\ private' = TRUE
       \/ /\ Fails("malloc", "s", "err")
          /\ UNCHANGED <<mem, private>>
    /\ UNCHANGED <<fd, mapped, owner, next, streaming, fault>>

\* v4l2_get_capability, v4l2_select_input and v4l2_set_pix_format.
Inquire ==
    /\ \E i \in DOMAIN Inquiries :
         \/ Goto(Inquiries[i], IF i = Len(Inquiries) THEN "controls" ELSE Inquiries[i + 1])
         \/ Fails(Inquiries[i], Inquiries[i], "err")
    /\ UNCHANGED <<mem, private, fd, mapped, owner, next, streaming, fault>>

\* The device has no control the program knows, or some.
ScanControls ==
    /\ \/ Goto("controls", "reqbufs") /\ mem' \in {mem, [mem EXCEPT !["controls"] = "live"]}
       \/ Fails("controls", "controls", "err") /\ UNCHANGED mem
    /\ UNCHANGED <<private, fd, mapped, owner, next, streaming, fault>>

-----------------------------------------------------------------------------
(* v4l2_set_mmap *)

\* No streaming, REQBUFS refused, or fewer than MinMmapBuffers granted.
RequestBuffers ==
    /\ Goto("reqbufs", "buffers") \/ Fails("reqbufs", "reqbufs", "err")
    /\ UNCHANGED <<mem, private, fd, mapped, owner, next, streaming, fault>>

AllocBuffers ==
    /\ \/ Goto("buffers", "query") /\ mem' = [mem EXCEPT !["buffers"] = "live"]
       \/ Fails("malloc", "buffers", "err") /\ UNCHANGED mem
    /\ UNCHANGED <<private, fd, mapped, owner, next, streaming, fault>>

MapBuffer ==
    /\ Goto("query", IF next + 1 < Count THEN "query" ELSE "qbuf")
    /\ mapped' = mapped \cup {next}
    /\ next' = (next + 1) % Count
    /\ UNCHANGED <<mem, private, fd, owner, streaming, fault>>

\* QUERYBUF or mmap fails: the array is freed, what is mapped stays mapped.
MapFails ==
    /\ Fails("query", "query", "err") \/ Fails("mmap", "query", "err")
    /\ mem' = [mem EXCEPT !["buffers"] = "freed"]
    /\ UNCHANGED <<private, fd, mapped, owner, next, streaming, fault>>

QueueBuffer ==
    /\ Goto("qbuf", IF next + 1 < Count THEN "qbuf" ELSE "streamon")
    /\ owner' = [owner EXCEPT ![next] = "queued"]
    /\ next' = next + 1
    /\ UNCHANGED <<mem, private, fd, mapped, streaming, fault>>

Bug_QueueErrorIgnored ==
    /\ "qbuf" \in MayFail
    /\ Goto("qbuf", IF next + 1 < Count THEN "qbuf" ELSE "streamon")
    /\ next' = next + 1
    /\ UNCHANGED <<mem, private, fd, mapped, owner, streaming, fault>>

QueueFails ==
    /\ Fails("qbuf", "qbuf", "err")
    /\ UNCHANGED <<mem, private, fd, mapped, owner, next, streaming, fault>>

StreamOn ==
    /\ \/ Goto("streamon", "images") /\ streaming' = TRUE
       \/ Fails("streamon", "streamon", "err") /\ UNCHANGED streaming
    /\ UNCHANGED <<mem, private, fd, mapped, owner, next, fault>>

\* The label err of v4l2_start; the descriptor and the maps are not touched.
StartError ==
    /\ Goto("err", "close")
    /\ mem' = IF mem["s"] = "live" THEN [mem EXCEPT !["s"] = "freed"] ELSE mem
    /\ private' = FALSE
    /\ UNCHANGED <<fd, mapped, owner, next, streaming, fault>>

-----------------------------------------------------------------------------
(* The end of motion_thread_start *)

CreateThread ==
    /\ Goto("thread", "running") \/ Fails("thread", "thread", "close")
    /\ UNCHANGED <<mem, private, fd, mapped, owner, next, streaming, fault>>

\* video_v4l2_close follows viddev->v4l2_private to s->fd.  Neither fault
\* survives: the null pointer traps, and a freed device is freed once more.
\* STREAMOFF takes all buffers out of the driver's queue.
CloseVideo ==
    /\ pc = "close"
    /\ \/ /\ mem["VideoDevice"] = "freed"
          /\ Goto("close", "crashed")
          /\ fault' = "freed_device"
          /\ UNCHANGED <<fd, owner, streaming>>
       \/ /\ mem["VideoDevice"] = "live" /\ ~private
          /\ Goto("close", "crashed")
          /\ fault' = "no_private"
          /\ UNCHANGED <<fd, owner, streaming>>
       \/ /\ mem["VideoDevice"] = "live" /\ private
          /\ Goto("close", "free")
          /\ fd' = "closed"
          /\ streaming' = FALSE
          /\ owner' = [b \in Buffers |-> "held"]
          /\ UNCHANGED fault
    /\ UNCHANGED <<mem, private, mapped, next>>

FreeBoth ==
    /\ Goto("free", "returned")
    /\ mem' = [mem EXCEPT !["VideoDevice"] = "freed", !["Task"] = "freed"]
    /\ UNCHANGED <<private, fd, mapped, owner, next, streaming, fault>>

-----------------------------------------------------------------------------
Start ==
    \/ AllocTask \/ AllocDevice \/ AllocTimes \/ AllocImages
    \/ OpenDevice \/ OpenFails \/ AllocState \/ Inquire \/ ScanControls
    \/ RequestBuffers \/ AllocBuffers \/ MapBuffer \/ MapFails
    \/ QueueBuffer \/ QueueFails \/ StreamOn \/ StartError
    \/ CreateThread \/ CloseVideo \/ FreeBoth

Finished == pc \in {"running", "returned", "exited", "crashed"} /\ UNCHANGED vars

Next == Start \/ Finished

Spec == Init /\ [][Next]_vars

-----------------------------------------------------------------------------
(* The streaming half as it is when the capture thread starts.             *)
Capture == INSTANCE V4l2Capture WITH
    Faults <- {}, MaxFaults <- 0,
    BlockedSignals <- {}, CallerMask <- {},
    fresh <- [b \in Buffers |-> FALSE], faults <- <<>>,
    pc <- IF pc = "running" THEN "idle" ELSE "leave",
    caller <- "frame", counter <- 0, reselect <- TRUE,
    pframe <- -1, index <- next - 1, blocked <- {}, old <- {},
    map <- "none", turns <- 0, ret <- 0

(* The capture thread never starts on half a camera: whatever failed and   *)
(* was survived before, it finds every buffer mapped and queued, the       *)
(* stream on, and everything it will dereference allocated; this is the    *)
(* initial state of V4l2Capture.                                           *)
StartsCapture ==
    pc = "running" =>
        /\ Capture!Init
        /\ fd = "open" /\ private
        /\ mapped = Buffers
        /\ \A o \in Objects \ {"controls"} : mem[o] = "live"

(* "_motion_init() error!", then close, free and return: the error path    *)
(* touches only objects that are still there.                              *)
ErrorPathSafe == fault = "none"
=============================================================================
