---------------------------- MODULE V4l2Capture ----------------------------
(***************************************************************************)
(* The streaming half of src/common/video.c: one capture thread calls      *)
(* video_v4l2_next over and over while the kernel driver fills the memory  *)
(* mapped buffers behind its back.                                         *)
(*                                                                         *)
(* Every buffer is in one of three hands: "queued" (the driver may write   *)
(* it), "done" (filled, waiting for DQBUF) or "held" (dequeued, the        *)
(* program may read it).  s->pframe and s->buf.index are all the program   *)
(* remembers of this.  The driver is external: it is modelled from the     *)
(* ioctls the code makes and the outcomes the code distinguishes.          *)
(*                                                                         *)
(* Only two facts about a frame matter here: whether it was captured after *)
(* the last input switch, and whether its conversion succeeded, so time    *)
(* stamps are the Boolean `fresh' and images are a small set of marks.     *)
(***************************************************************************)
EXTENDS Integers, Sequences

CONSTANTS
    Count,          \* s->req.count, the number of buffers REQBUFS granted
    Faults,         \* what the driver may do besides answering correctly
    MaxFaults,      \* bound: how many times it does so in a behaviour
    BlockedSignals, \* the signals v4l2_next blocks
    CallerMask      \* the signal mask the capture thread starts with

\* "clock": the driver stamps buffers with another clock than gettimeofday's.
FaultKinds == {"eio_kept", "eio_next", "eio_other", "stopped", "error", "corrupt",
               "clock"}

ASSUME CountAssumption == Count \in Nat /\ Count >= 2
ASSUME FaultAssumption == Faults \subseteq FaultKinds /\ MaxFaults \in Nat

Buffers == 0 .. Count - 1

VARIABLES
    owner,     \* external: in whose hands each buffer is
    fresh,     \* the frame in the buffer was captured after switchTime
    streaming, \* external: the driver is capturing
    faults,    \* the faults the driver has committed so far, in order
    pc,        \* where the capture thread is
    caller,    \* which call of v4l2_next this is: "skip" or "frame"
    counter,   \* frames skipped so far by v4l2_set_input
    reselect,  \* conf and viddev disagree, v4l2_set_input will switch input
    pframe,    \* s->pframe
    index,     \* s->buf.index
    blocked,   \* the thread's signal mask
    old,       \* the mask saved on v4l2_next's stack
    map,       \* what the caller's image buffer holds
    turns,     \* quarter turns applied to that image
    ret        \* return value of the last v4l2_next

driver == <<owner, fresh, streaming, faults>>
vars == <<owner, fresh, streaming, faults, pc, caller, counter, reselect,
          pframe, index, blocked, old, map, turns, ret>>

Locations == {"idle", "enter", "requeue", "dequeue", "convert", "leave"}
Images    == {"none", "stale", "fresh", "damaged"}
Held      == {b \in Buffers : owner[b] = "held"}

TypeOK ==
    /\ owner \in [Buffers -> {"queued", "done", "held"}]
    /\ fresh \in [Buffers -> BOOLEAN]
    /\ streaming \in BOOLEAN
    /\ faults \in Seq(FaultKinds) /\ Len(faults) <= MaxFaults
    /\ pc \in Locations
    /\ caller \in {"skip", "frame"}
    /\ counter \in 0 .. Count
    /\ reselect \in BOOLEAN
    /\ pframe \in Buffers \cup {-1}
    /\ index \in Buffers
    /\ blocked \subseteq BlockedSignals \cup CallerMask
    /\ old \subseteq BlockedSignals \cup CallerMask
    /\ map \in Images
    /\ turns \in 0 .. 3
    /\ ret \in {-1, 0, 1, 2}

(***************************************************************************)
(* v4l2_start has just succeeded: v4l2_set_mmap queued every buffer (index *)
(* is the last one) and turned streaming on.  conf.input is 0 and          *)
(* viddev->input is IN_DEFAULT, so the first call re-selects the input.    *)
(***************************************************************************)
Init ==
    /\ owner = [b \in Buffers |-> "queued"]
    /\ fresh = [b \in Buffers |-> FALSE]
    /\ streaming = TRUE
    /\ \/ faults = <<>>
       \/ faults = <<"clock">> /\ "clock" \in Faults /\ MaxFaults > 0
    /\ pc = "idle"
    /\ caller = "frame"
    /\ counter = 0
    /\ reselect = TRUE
    /\ pframe = -1
    /\ index = Count - 1
    /\ blocked = CallerMask
    /\ old = {}
    /\ map = "none"
    /\ turns = 0
    /\ ret = 0

Fault(kind) ==
    /\ kind \in Faults
    /\ Len(faults) < MaxFaults
    /\ faults' = Append(faults, kind)

Met(kinds) == \E i \in DOMAIN faults : faults[i] \in kinds

-----------------------------------------------------------------------------
(* The driver. *)

\* A queued buffer receives a frame.
Fill(b) ==
    /\ streaming
    /\ owner[b] = "queued"
    /\ owner' = [owner EXCEPT ![b] = "done"]
    /\ fresh' = [fresh EXCEPT ![b] = TRUE]
    /\ UNCHANGED <<streaming, faults, pc, caller, counter, reselect, pframe,
                   index, blocked, old, map, turns, ret>>

\* DQBUF hands out older frames first.
Oldest(b) ==
    /\ owner[b] = "done"
    /\ fresh[b] => \A c \in Buffers : owner[c] = "done" => fresh[c]

-----------------------------------------------------------------------------
(* video_v4l2_next and v4l2_set_input, up to their calls of v4l2_next. *)

\* Frames that are already in a buffer at switchTime become stale.
VideoNext ==
    /\ pc = "idle"
    /\ IF reselect
         THEN /\ caller' = "skip"
              /\ counter' = 1
              /\ fresh' = [b \in Buffers |-> FALSE]
         ELSE /\ caller' = "frame"
              /\ UNCHANGED <<counter, fresh>>
    /\ reselect' = FALSE
    /\ pc' = "enter"
    /\ UNCHANGED <<owner, streaming, faults, pframe, index, blocked, old, map,
                   turns, ret>>

\* s->buf.timestamp > switchTime.  Stamps of a monotonic clock never are.
AfterSwitch == fresh[index] /\ ~Met({"clock"})

Bug_SkipOneShort ==
    /\ pc = "leave"
    /\ caller = "skip"
    /\ IF ret # 0 \/ AfterSwitch \/ counter + 1 >= Count
         THEN caller' = "frame" /\ UNCHANGED counter
         ELSE counter' = counter + 1 /\ UNCHANGED caller
    /\ pc' = "enter"
    /\ UNCHANGED <<driver, reselect, pframe, index, blocked, old, map, turns,
                   ret>>

\* v4l2_next returns into the skip loop of v4l2_set_input.
SkipLoop ==
    /\ pc = "leave"
    /\ caller = "skip"
    /\ IF ret # 0 \/ AfterSwitch \/ counter >= Count
         THEN caller' = "frame" /\ UNCHANGED counter
         ELSE counter' = counter + 1 /\ UNCHANGED caller
    /\ pc' = "enter"
    /\ UNCHANGED <<driver, reselect, pframe, index, blocked, old, map, turns,
                   ret>>

\* v4l2_next returns into video_v4l2_next, which rotates whatever is in map.
Rotate ==
    /\ pc = "leave"
    /\ caller = "frame"
    /\ turns' = (turns + 1) % 4
    /\ pc' = "idle"
    /\ UNCHANGED <<driver, caller, counter, reselect, pframe, index, blocked,
                   old, map, ret>>

-----------------------------------------------------------------------------
(* v4l2_next. *)

Leave(r) == pc' = "leave" /\ ret' = r

Bug_NoRequeueOfBufferZero ==
    /\ pc = "enter"
    /\ old' = blocked
    /\ blocked' = blocked \cup BlockedSignals
    /\ pc' = IF pframe > 0 THEN "requeue" ELSE "dequeue"
    /\ UNCHANGED <<driver, caller, counter, reselect, pframe, index, map,
                   turns, ret>>

BlockSignals ==
    /\ pc = "enter"
    /\ old' = blocked
    /\ blocked' = blocked \cup BlockedSignals
    /\ pc' = IF pframe >= 0 THEN "requeue" ELSE "dequeue"
    /\ UNCHANGED <<driver, caller, counter, reselect, pframe, index, map,
                   turns, ret>>

\* VIDIOC_QBUF of s->buf: the driver takes only a buffer the program holds.
Requeue ==
    /\ pc = "requeue"
    /\ index \in Held
    /\ owner' = [owner EXCEPT ![index] = "queued"]
    /\ pc' = "dequeue"
    /\ UNCHANGED <<fresh, streaming, faults, caller, counter, reselect, pframe,
                   index, blocked, old, map, turns, ret>>

RequeueFails ==
    /\ pc = "requeue"
    /\ \/ index \notin Held /\ UNCHANGED faults
       \/ Fault("error")
    /\ Leave(-1)
    /\ UNCHANGED <<owner, fresh, streaming, caller, counter, reselect, pframe,
                   index, blocked, old, map, turns>>

\* VIDIOC_DQBUF succeeds; the mask is "undone" right after it.
Dequeue ==
    /\ pc = "dequeue"
    /\ streaming
    /\ \E b \in Buffers :
         /\ Oldest(b)
         /\ owner' = [owner EXCEPT ![b] = "held"]
         /\ index' = b
         /\ pframe' = b
    /\ blocked' = blocked \ old
    /\ pc' = "convert"
    /\ UNCHANGED <<fresh, streaming, faults, caller, counter, reselect, old,
                   map, turns, ret>>

\* External: the buffer a round-robin driver hands out next.
RoundRobin == IF pframe = Count - 1 THEN 0 ELSE pframe + 1

Bug_GuessSameBuffer == IF pframe >= 0 THEN pframe ELSE 0

\* The buffer the code assumes an EIO took out of the driver's queue.
Guess == IF pframe + 1 >= Count THEN 0 ELSE pframe + 1

\* VIDIOC_DQBUF fails with EIO.  The comment in the code lists the outcomes:
\* nothing happened, an empty buffer was dequeued, capturing stopped.
DequeueEio ==
    /\ pc = "dequeue"
    /\ \/ /\ Fault("eio_kept")
          /\ UNCHANGED <<owner, streaming>>
       \/ /\ Fault("eio_next")
          /\ owner[RoundRobin] # "held"
          /\ owner' = [owner EXCEPT ![RoundRobin] = "held"]
          /\ UNCHANGED streaming
       \/ /\ Fault("eio_other")
          /\ \E b \in Buffers \ {RoundRobin} :
               /\ owner[b] # "held"
               /\ owner' = [owner EXCEPT ![b] = "held"]
          /\ UNCHANGED streaming
       \/ /\ Fault("stopped")
          /\ streaming' = FALSE
          /\ UNCHANGED owner
    /\ pframe' = Guess
    /\ index' = Guess
    /\ Leave(1)
    /\ UNCHANGED <<fresh, caller, counter, reselect, blocked, old, map, turns>>

\* Any other error: s->buf was cleared for the call and stays cleared.
DequeueFails ==
    /\ pc = "dequeue"
    /\ \/ ~streaming /\ UNCHANGED faults
       \/ Fault("error")
    /\ index' = 0
    /\ Leave(-1)
    /\ UNCHANGED <<owner, fresh, streaming, caller, counter, reselect, pframe,
                   blocked, old, map, turns>>

\* The conversion of the_buffer into map; an MJPEG frame may be corrupt.
Convert ==
    /\ pc = "convert"
    /\ \/ /\ map' = IF fresh[index] THEN "fresh" ELSE "stale"
          /\ Leave(0)
          /\ UNCHANGED faults
       \/ /\ Fault("corrupt")
          /\ map' = "damaged"
          /\ Leave(2)
    /\ turns' = 0
    /\ UNCHANGED <<owner, fresh, streaming, caller, counter, reselect, pframe,
                   index, blocked, old>>

-----------------------------------------------------------------------------
Capture ==
    \/ VideoNext \/ SkipLoop \/ Rotate
    \/ BlockSignals \/ Requeue \/ RequeueFails
    \/ Dequeue \/ DequeueEio \/ DequeueFails \/ Convert

Camera == \E b \in Buffers : Fill(b)

Next == Capture \/ Camera

Spec == Init /\ [][Next]_vars

-----------------------------------------------------------------------------
(* The program never loses a buffer: at most one is out of the driver's    *)
(* queue, and it is the one s->pframe and s->buf.index will requeue.  The  *)
(* guess after an EIO suffices for this as long as no EIO dequeues a       *)
(* buffer other than the next one.                                         *)
NoBufferLost ==
    Met({"eio_other"}) \/
    /\ Held \subseteq {pframe}
    /\ pc \notin {"dequeue"} /\ Held # {} => index = pframe

(* "Block signals during IOCTL": no handled signal interrupts the buffer   *)
(* exchange, however earlier calls left the mask.                          *)
SignalsBlockedInIoctl ==
    pc \in {"requeue", "dequeue"} => BlockedSignals \subseteq blocked

(* "Skip all frames captured before switchtime": what the caller gets from *)
(* a call that reports success was captured after the last input switch.   *)
FreshAfterSwitch ==
    pc = "idle" /\ ret = 0 /\ map # "none" => map = "fresh"

(* The bound of the skip loop is right: if no call of v4l2_next fails, the *)
(* frame is from after the switch even when stamps cannot be compared.     *)
FreshUnlessFaulty == Met(FaultKinds \ {"clock"}) \/ FreshAfterSwitch

(* A call that reports success delivers the image turned exactly once,     *)
(* whatever failed calls did to the same buffer before.                    *)
TurnedOnce == pc = "idle" /\ ret = 0 /\ map # "none" => turns = 1

(* "might dequeue an (empty) buffer despite returning an error": however    *)
(* an EIO went, frames are delivered again.                                *)
KeepsDelivering == []<>(pc = "convert")

(* Frames are delivered again after EIO errors that dequeued the guessed   *)
(* buffer, and after corrupt frames.                                       *)
DeliversAgain ==
    KeepsDelivering \/ <>Met({"eio_kept", "eio_other", "stopped", "error"})
=============================================================================
