# Formal models of smart-prince

smart-prince is the software of a small robot on a Raspberry Pi: a camera
pipeline that looks for faces (`sp_eyes`), a relay server that other machines
poll (`ml/net/server`), and under both a fork of the wiringPi library (`lib/`)
that drives the pins and the chips attached to them.

This directory holds TLA+ models of the parts of it that are hard to test, the
TLC configurations that check small instances of them, and proofs, checked by
TLAPS, that the most important properties hold for every size.  All references
below are to files under `src/`.

## 1. The system

### Components, their state and their operations

| Component | State | Operations | What makes it correct |
|---|---|---|---|
| Video capture, `common/video.c` | `src_v4l2_t` (`pframe`, `buf`, the mapped buffers), the driver's queue, the thread's signal mask, `viddev->input` | `video_v4l2_next`, `v4l2_set_input`, `v4l2_next` | no buffer is lost; calls return; frames are from after the input switch |
| Camera start and stop, `sp_eyes/motion.c`, `common/video.c` | heap objects, descriptor, mappings, the `v4l2_private` pointer | `motion_thread_start`, `_motion_init`, `video_v4l2_start`, `v4l2_start`, `v4l2_set_mmap`, `video_v4l2_close` | the capture thread starts on a complete camera or not at all; error paths touch only what exists |
| Motion loop, `sp_eyes/motion.c` | `ConvImg`, `image_virgin`, the external flag `FaceProcessing` | `motion_thread_loop`, `_motion_capture`, `_motion_write_picture`, `_motion_face_detection` | faces are looked for in whole, upright frames; rounds end whatever fails |
| Face collector, `sp_eyes/main.c` | the directory of collected files | `main_thread_face_collector`, mode dispatch in `main` | every readable file is classified once |
| Interrupts, `lib/wiringPi.c` | `pinPass`, `pinMutex`, `isrFunctions`, `sysFds` | `wiringPiISR`, `interruptHandler`, `waitForInterrupt` | each handler thread serves the pin of its own call; edges are not lost |
| Software PWM and tone, `lib/softPwm.c`, `lib/softTone.c`, `pinMode` | `marks`, `range`, `freqs`, `threads`, the two `newPin`s, one thread per generator | create, write, stop, `pinMode` | one generator per pin; a stopped pin is quiet |
| Device nodes, `lib/wiringPi.c` | the list `wiringPiNodes` | `wiringPiNewNode`, `wiringPiFindNode` | a pin number leads to one device, for ever |
| GPIO core, `lib/wiringPi.c` | registers, pin tables, `wiringPiMode` | the set-ups, `pinMode`, `digitalWrite`, byte access, pulls, PWM and clock set-up | pins have the function, pull and level asked for; no glitch; no divisor changes under a running clock |
| Software servo, `lib/softServo.c` | `pinMap`, `pulseWidth`, one thread | set-up, write, the 8 ms cycle | each pulse has the width of its servo |
| Extension parser, `lib/wpiExtensions.c` | the strings it cuts, the nodes its set-ups make | `loadWPiExtension`, 23 `doExtension` functions | what is refused leaves nothing behind, what is loaded works |
| Expanders, `lib/mcp230xx.c`, `lib/mcp23sxx.c`, `lib/pcf8574.c`, `lib/sr595.c` | shadow output registers in the node | pin handlers | the chip's register is what the writes asked for |
| Remote GPIO, `lib/drcSerial.c`, `lib/drcNet.c` | a byte stream or a socket | ping, commands and answers | an answer belongs to its command |
| Converters and sensors, other `lib/*.c` | none, or one conversion under way | one bus transaction per call; `rht03.c` and `mcp3422.c` wait and retry | a value that is returned was measured |
| Relay server, `ml/net/server` | `Relay_Index`, two stack buffers | eight signal handlers, one interrupt routine, the accept loop | who asks is told a state that was current; the relays end as somebody asked; no client blocks the others by hanging up |
| HTTP helpers and examples, `ml/net` | header list, one connection | header parser, three small servers | |
| Files and logging, `common/file.c`, `common/debug.c` | the file system | `create_path`, `myfopen` | a file is opened although its directories appear or vanish |
| Images, `common/rotate.c`, `common/video_conv.c`, `common/jpegutils.c` | pixel buffers, `imgs.width/height` | rotation, conversion, JPEG | every byte comes from the right place of the scene, and none from outside the buffer |

The remaining files (MySQL logging, list macros, timing experiments, bus
wrappers) are listed in `PROJECT.json` with the reason they are left out.

### How they interact

* `motion_thread_start` builds the camera (calls into `video.c`), then creates the
  thread whose loop calls `video_v4l2_next`.  After that only the capture thread
  touches the capture state; its counterpart is the kernel driver, through the
  memory mapped buffers.  The sizes the two agree on at the start decide what the
  conversions and rotations read and write for every later frame.
* `wiringPiISR` creates threads and hands each one its pin through a global; the
  handlers of the relay server run on these threads and share `Relay_Index` with
  signal handlers and the accept loop.  The signals come from `sp_client`, whose
  table of signals must agree with the handlers the server installs, with what they
  store and with the names the server sends.
* `pinMode` stops software generators, and the generator files call `pinMode`
  themselves; they share arrays with their threads without a lock.
* `loadWPiExtension` calls a driver's set-up function, which opens the device and
  adds a node with `wiringPiNewNode`; `digitalRead`, `digitalWrite` and the rest
  find it again with `wiringPiFindNode` and call the functions the driver put in.
* The drivers talk to their chips through the I2C, SPI and serial helpers, whose
  results few of them look at.

### What is hard

Nothing here is transactional and little is locked.  The hard parts are the
buffer exchange with a driver that may fail in several ways, hand-offs through
global variables, check-then-act on unlocked arrays and registers, error paths
that free in part, sizes that are held in several places, answers that do not
name their question, and loops that wait for somebody else.  `PROJECT.json` lists
the hazards with their lines and the properties that watch them.

## 2. The modules

| Module | Models | State and actions |
|---|---|---|
| `V4l2Capture` | the streaming half of `video.c` | one pc for the capture thread, one action per stretch of `v4l2_next` between two ioctls, `video_v4l2_next` and `v4l2_set_input` around it; the driver is the variable `owner` and the action `Fill` |
| `MotionLoop` | `motion_thread_loop`, `_motion_capture` and the two consumers, around `V4l2Capture`, which it extends | where the loop is, frames and retries counted, what `ConvImg` was converted from |
| `MotionStart` | start-up and shut-down | one action per step that can fail and one for the failure where it leaves something behind; ends in `V4l2Capture`'s initial state |
| `Frames` | the choice of format, `rotate_init`, `rotate_map`, the conversions, the picture file, around `MotionStart`, which it extends | sizes asked for, granted and kept; an image is a function from offsets to the places of the scene a byte was computed from |
| `IsrService` | what `wiringPiISR` promises (abstract) | how far each call is, the function installed last for each pin, which handlers have an edge to serve and which function each runs |
| `IsrRegistry` | `wiringPiISR`, `interruptHandler`, `waitForInterrupt` | one pc per call, one per handler thread |
| `SoftPins` | `softPwm.c`, `softTone.c`, the stop half of `pinMode` | one pc per calling thread, one per generator thread |
| `PinTables` | board detection and the pin tables | operators and functions only |
| `GpioCore` | the set-ups and every function of `wiringPi.c` that changes registers, on `PinTables` | a call is the sequence of register accesses it still has to make (`todo`); one action per access, so that those of two threads interleave |
| `NodeTable` | `wiringPiNewNode`, `wiringPiFindNode` | the list as a sequence, one pc per set-up call |
| `Extensions` | `loadWPiExtension` and the set-ups it ends in, on `NodeTable`, which it extends | one pc per string: parse, open, make the node, fill it in |
| `Expanders` | the seven drivers with output registers | the chip's latches and registers, the shadow in the node, and where in its bus transactions each call is |
| `Sensors` | the converters and sensors | the sample a chip is taking, the sample a transfer would read, the transfers each call still has to make |
| `Remote` | `drcSerial.c`, `drcNet.c` | the line as a sequence of bytes, the socket as one of commands; a call is the steps it has still to make (`todo`), a byte, a `send`, a read each; the device and the server execute in order |
| `Relay` | the relay server and `sp_client` | the server's place, pending signals, the interrupt thread between its read and its store, each client's connection |
| `MCFrames`, `MCIsrRegistry`, `MCSoftPins`, `MCExtensions`, `MCGpioCore`, `MCRelay` | | constants for TLC |
| `CaptureProof` (of `V4l2Capture` and `MotionLoop`), `FramesProof` (of `MotionStart` and `Frames`), `WiringPiProof` (of `GpioCore` and `IsrRegistry`), `SoftPinsProof`, `ExtensionsProof` (of `NodeTable` and `Extensions`), `ExpandersProof`, `SensorsProof`, `NetworkProof` (of `Remote` and `Relay`) | | theorems and proofs |

Composition: `MotionStart` instantiates `V4l2Capture`, and `StartsCapture` says that a
started thread finds its initial state.  `MotionLoop` puts the thread's loop around
the actions of `V4l2Capture`, so that what is shown there holds in the whole thread
(`LoopImplementsCapture`, a lemma).  `Frames` gives the
steps "format" and "images" of `MotionStart` their contents and adds a frame.
`Extensions` runs the parser and the drivers over the steps of `NodeTable`.
`IsrRegistry` is shown to implement `IsrService`.

Definitions whose names begin with `Bug_` are not part of any specification.  Each
is a plausible mistake in the definition it is named after; a property is
worth its run only if TLC refutes it when one of them takes its place.

Each module with state of its own has a type invariant, `TypeOK` (`GpioTypeOK`,
`RemoteTypeOK` and the like where two modules meet in one proof module).  The runs do
not list it; it is proved.

### Abstractions

* **Time stamps** of frames are one Boolean: captured after the last input switch.
  A driver that stamps with a monotonic clock (the code compares with
  `gettimeofday`) is the fault `"clock"`: then no stamp is after the switch.
* **Images** are one of four marks and a number of quarter turns in `V4l2Capture`; in
  `Frames` each byte is the set of places of the scene it comes from, so that a
  row, column, plane or picture that is mixed up shows, and arithmetic does not.
* **Driver faults** are the outcomes `v4l2_next` distinguishes and the comment at
  `common/video.c:742-744` lists; the history of faults is kept so that properties
  can name what they tolerate.
* **Memory errors** (use of a freed device, a null private pointer) end
  `MotionStart` in the place `"crashed"`, with `fault` saying which it was.  The
  formats whose conversion goes through `imgs.common_buffer`, which nobody
  allocates, deliver no frame in `Frames`: the program ends there.  So it does after a
  JPEG whose height is not a multiple of the 16 rows `decode_jpeg_raw` writes at
  a time (`PassRows`), as the last rows go behind the planes.
* **Calls of `wiringPiISR`** are identified in advance, each with its pin and its
  thread.  The gpio program that exports the pin is a step that succeeds, or ends
  the process together with the failing open.
* **Delays** of generators are the steps between two writes.  A thread identifier
  is reused once its thread is joined.
* **Registers** of the GPIO core keep what is of the modelled pins; a byte is the set of its
  bits that are 1; clearing a field
  before setting it is part of the write.  A clock that was stopped stays busy until
  `ClockStops`.
* **Extension strings** are fields that parse or do not; only the pin base is
  digits, because it is where the arithmetic wraps (at `IntMax`, 2^31 - 1 in the code,
  in the parser as in the node list).
* **Bus transfers** of drivers arrive or fail; a failed I2C read gives -1, a failed
  SPI read whatever was in the buffer.  Bits damaged on the way are left out.
* **Samples** are the channel and the call that started the conversion; scaling is
  left out.  Converters whose driver waits out the data sheet's time are done then.
* **Requests** of the relay server are words; two of them, in order, stand for
  `WhoIAm`, so that a part of it can arrive alone and be completed by older text in the
  buffer, which may also hold what was on the stack.

History variables (`asked`, `writeOk`, `readOk`, `seen`, `burst`, `overlap` and the
like) are read by no action that models code; the modules say which they are.

## 3. What the runs check

No passing run has a deadlock, except where the system may stop: when a bound on
calls or messages is used up (`gpio`, `expanders`, `sensors`, `remote`, `extensions`,
`relay`) and after `exit` (`isr`).

| Run | Shows | Bounds |
|---|---|---|
| `loop` | no buffer is lost; frames are fresh unless a call failed; faces are looked for in whole frames turned once; frames keep coming; rounds end | 2 buffers, 2 faults of 7 kinds, 2 frames a round, 2 tries a frame, both modes |
| `frames` | with a failure possible at each step of the start, a thread that starts finds a whole camera; a delivered frame and the picture in the file show the scene turned as asked; no byte comes from outside the driver's buffer | 4x4 and 8x4, nine lists of formats, five ways a driver changes the size, four angles, JPEG rows 4 at a time, one frame |
| `frames_gray` | **violated** `GrayRight` (section 6) | 0 and 90 degrees, sizes granted |
| `start_faults` | **violated** `ErrorPathSafe` (section 6) | 4 buffers |
| `isr` | each handler serves the pin of its own call, calls return, edges are served; as `IsrService` has it, a handler runs the function installed last for its pin, once at most for the edges since, and never without one | 3 calls, 2 threads, 2 pins, one registered twice |
| `generators` | one generator per pin, arrays name it, stops are quiet, calls return | 1 caller, 2 pins, 2 thread identifiers, both kinds of set-up |
| `extensions` | one node per pin, every pin of a loaded extension leads to its node with its functions, a refused one leaves none | 13 strings and the ones the parser refuses, 3 calls, blocks adjacent, overlapping, nested, ending at the largest int and past it, 8-bit numbers |
| `gpio` | levels as written without a lock and without a glitch; functions, pulls and PWM as asked; no divisor written under a running clock | 9 boards, 4 numberings, 3 pins of 2 threads, 2 calls and 1 call |
| `expanders` | outputs and settings as asked, one output changes at a time | 7 chips, 2 threads, 2 bits a bank, 3 calls, 1 lost transaction |
| `sensors` | readings are of their own channel and call, outputs as written | 12 chips, 2 threads, 2 calls, 1 failing transfer, 2 tries |
| `remote` | answers belong to their questions or lag by exactly the waits given up; pins are as asked; calls return | 2 threads, both links, 2 calls, 4 pings |
| `relay` | who asks is told a state of its time, the relays end as somebody asked, no client that acted keeps the others waiting | 2 clients, requests whole, behind something else and in part, arguments 0, 6 and 8 of `sp_client`, 2 commands, 1 interrupt |

Why the bounds are enough.  In the code a round has 8 frames of 5 tries; two of
each already make a retry succeed, a frame fail for good, and a round end early or
late; two faults let a fault meet the state the first one left.  4x4 is the
smallest picture in which two rows share a row of chroma and another pair does
too; 8x4 tells width from height.  Three calls of `wiringPiISR` let a third
registration run into a hand-off while a second handler of the same pin polls.
Two thread identifiers let one be reused by another pin's generator while the arrays
still hold the old name.  Three loads let one be refused between two that are
accepted, or one be repeated after another; a longer list is what the proofs are for.
Both pictures have a height that is a multiple of `PassRows`, as the usual ones
have of 16.  Pins 18 and 19 share a function select register and both
have PWM; 4 has a clock.  Two bits in a bank and two banks make a write overwrite
another bit or another bank if it can; the proofs of section 4 lift these
bounds.  Two reads on a line with late answers are one to be late and one to be
given the wrong answer.  Two commands and an interrupt are all orders in which two
stores can fall around the read and the store of the interrupt; that the tables agree
for the arguments the run leaves out is proved (`TablesAgree`).

### Properties worth a word

* `NoBufferLost` holds unless an EIO took a buffer other than the next one; the
  guess `pframe + 1` is then wrong and cannot be made right from what
  the code knows.
* `FreshUnlessFaulty` needs the loop bound `req.count`: without comparable time
  stamps it is this bound alone that makes the next frame new.
* `FrameRight` is about drivers that grant the size asked for.  After a turn of a
  quarter `v4l2_next` is given the turned sizes, so that only the luma, and in
  YUV420 everything, is right: `Upright` says so.  Upside down, a plane of chroma whose
  quads are odd in number keeps the middle one as it was (`OddQuads`, as in 4x4);
  sides that are multiples of 16 make the number even.  `ReadsInside` also covers drivers that
  make the picture larger.
* `EdgeServed` is about pins registered once; a second registration clears
  the edge the first one was waiting for.  `IsrService` says what holds of both.
* `PinsOwnedOnce` and `SetupReachable` hold to the end of the int's range: a block that
  ends at its largest value is reached but was not checked against others, and one
  past it is reached by nobody.
* `HandleNamesDriver` is what makes a later stop cancel the right thread.
* In Sys mode `pinMode` stops nothing and a pin can have a generator of
  each kind; `OneDriver` says so.
* `SettingsAsAsked` of `GpioCore` has one thread that sets pins up while another
  writes levels: function select registers are read, changed and written back, so
  that two threads that set pins up must serialise themselves (`Serial`).
* `OutputsAsWritten` tolerates a lost write only until the next one: because a write
  sends the whole shadow, it repairs what was lost.  In `SettingsAsAsked` of
  `Expanders` a failed read is never repaired, as the -1 is written back.  In both,
  a thread keeps to a bank; two threads in one bank lose each other's changes.
* `PinAsAsked` is about the bytes of the serial line; a command on the socket is one
  step from the call to the server, so that this half of it holds by the model's shape.
* `AsAsked` lets an order be lost between the read and the store of the interrupt, as the
  code does; it says that the relays are never as nobody asked.
* `LagIsLate` counts: after n waits that were given up, an answer is the one of n
  questions earlier, never anything else.
* `AskerTold` does not promise the state of the moment of writing; a signal may
  come between `strstr` and `write`.

### Fairness

Weak fairness of a thread's steps: threads are scheduled, and none of them has a
priority that could starve another for ever.  The camera keeps filling buffers it
has while it streams.  Strong fairness is assumed in two places: a thread that
waits for `pinMutex` gets it if it is free again and again, and a cancelled
generator is cancelled in one of the delays it keeps coming back to (deferred
cancellation takes effect at such a point).  The remote server answers (weak
fairness of `ServerStep`); the device on the serial line need not.  The relay
server's own steps are fair; the functions handlers run return; nothing is assumed of clients, signals and the
interrupt.  `CallReturns` of `IsrRegistry` excuses calls that wait
on a thread `pthread_create` did not create: the code ignores its result and
then waits for ever.

## 4. What is proved

Every theorem is about all values of the constants that satisfy the named
assumptions of the module (`CountAssumption` and the like); "assumes" lists
what is worth knowing of them, and the hypotheses that a theorem adds.

| Theorem | Says | Assumes |
|---|---|---|
| `CaptureProof!TypeCorrect` | indices stay within the granted buffers | at least two buffers, as `MIN_MMAP_BUFFERS` |
| `IoctlsShielded` | the exchange runs with the signals blocked | |
| `BuffersConserved` | no buffer is lost unless an EIO took another than the next | |
| `SkippingSuffices` | until a call fails, frames are from after the input switch, even without comparable stamps | |
| `DeliveredTurnedOnce` | a delivered image was turned exactly once | |
| `LoopTypeCorrect` | frames and tries stay within their numbers | at least one frame and one try |
| `LoopKeepsExchange` | no buffer lost and frames fresh, in the whole thread | |
| `DetectionGetsWholeFrame` | faces are only looked for in whole frames turned once | |
| `FramesProof!TypeCorrect`, `ThreadFindsCamera` | a started thread finds `V4l2Capture`'s initial state and everything it dereferences | at least two buffers |
| `FramesFindCamera` | the same, when sizes and formats are negotiated on the way | |
| `PicturesInside` | a delivered frame is made of bytes inside the driver's buffer | sides are multiples of 4; the driver's picture is not smaller |
| `FramesShowScene` | a delivered frame, and the picture in the file, show the scene turned as asked | sides are multiples of 4; the driver grants the size; of chroma what `Upright` leaves |
| `WiringPiProof!GpioTypeCorrect` | registers, latches and pending accesses stay well typed | |
| `LevelsAsWritten` | a thread whose call is over finds its pins at the levels it wrote last, without a lock | each pin is written by one thread (`OwnerOf`) |
| `NoPinGlitches` | a pin moves only to the level its thread asked for | as above |
| `SettingsKept` | functions, pulls, PWM control and clocks are as last asked | setting calls are serialised (`Serial`); `pinModeAlt` is not used for PWM or a clock (`PlainAlts`) |
| `DividedWhenStopped` | no divisor is written to a clock that runs | `Serial` |
| `WiringPiProof!TypeCorrect`, `HandOffExact` | each handler serves the pin of its call | pins differ from -1 |
| `ImplementsService` | `IsrRegistry` implements `IsrService`: handlers run the function installed last for their pin, for edges only | pins differ from -1 |
| `SoftPinsProof!TypeCorrect` | threads, arrays and calls stay well typed | |
| `OneDriverCorrect` | a pin never has two generators | one thread makes generators (`SingleMaker`) |
| `HandleNamesDriverCorrect` | between calls the arrays name the thread that drives the pin | `SingleMaker` |
| `StoppedIsQuietCorrect` | after the stops nothing drives the pin and it is LOW | `SingleMaker` |
| `ExtensionsProof!TypeCorrect` | the list stays a list of nodes | |
| `OneNodePerPin`, `DevicesReachable`, `LookupsNeverMove` | one node per pin, reachable, for ever, also where `pinBase + numPins` wraps | set-ups come from one thread (`Serial`); `IntMax` is any natural number |
| `ExtTypeCorrect` | the parser's places, results and histories stay well typed | `Serial` |
| `RefusalsLeaveNothing` | a load that returned FALSE left no node | `Serial` |
| `LoadedExtensionsWork` | a loaded extension whose device answered works for good | `Serial` |
| `ExpandersProof!TypeCorrect` | shadows, latches and shifted bits stay within their banks | |
| `OutputsCorrect` | a bank no call is in has its shadow as written, and its outputs unless the last write was lost | calls in one bank do not overlap (the guard of `Begin`) |
| `OutputsDoNotGlitch` | a step changes one output at most while nothing failed | as above |
| `SettingsCorrect` | directions and pull-ups are as asked in a bank always reached | as above |
| `SensorsProof!TypeCorrect` | calls and samples stay well typed | |
| `ReadingsFresh` | a reading is of its own channel and call, unless a transfer failed or threads overlapped | |
| `OutputsAsWritten` | between calls the outputs are as written | |
| `NetworkProof!RemoteTypeCorrect` | waits given up are at most one a ping and two a call; a call has at most four steps left | |
| `OwnAnswers` | a read returns the answer to its own question, unless an earlier wait was given up or, on a socket, calls overlapped | calls on the line do not overlap (the guard of `Call`); the other end answers in order |
| `LagIsWhatTimedOut` | between calls, answers under way or owed are those given up | as above |
| `PinEndsAsAsked` | once everything is executed, mode, level and PWM are as asked | as above; the connection lasts |
| `NetworkProof!TypeCorrect` | the index stays within the table, the buffer keeps its size | requests fit the buffer |
| `AnswersCurrent` | who asks is told a state of its own time | |
| `OrdersObeyed` | once all is quiet, the relays are as one of the last orders, for every argument of `sp_client` | |

The arguments:

* **Buffers.** `NoBufferLost` is not inductive: it needs that nothing is held when a DQBUF is about to be made, which
  is `ExchangeInv`.  That in turn needs that what was met stays in the
  history of faults (`HistoryKept`).
* **Freshness.** `FreshUnlessFaulty` depends on the loop bound `req.count` of
  `v4l2_set_input`, so the invariant has to count.  `Stale` is the set of filled
  buffers of before the switch that the driver has still to hand out.  While no
  call failed the exchange stays in order (`InOrder`); each turn of the skip
  loop then takes one buffer, and there are never more stale ones than turns left
  (`SkipProgress`).  A turn that is given a fresh frame shows that `Stale` is
  empty, as the driver hands out older frames first.  `FrameProgress` carries it to
  the frame that is delivered.  A buffer given back is filled after the switch,
  so `Stale` never grows.
* **Rotation.** `DeliveryInv` follows the image through one call: after a conversion
  it has not been turned, and once the rotation is done a result of 0 goes with one
  turn.  Calls that fail may add turns, but a result of 0 comes only with a conversion.
* **Start-up.** `StartInv` says of each place of the start-up what has been allocated,
  opened, mapped and queued when it is reached (`ObjectsInv`, `BuffersInv`, `FlagsInv`),
  and of the end of the error path what has been given back.  `StartsCapture` is
  what it says of the last place.
* **Pictures.** `FrameInv` says which sizes are equal at which place of the start-up
  (`GeometryInv`) and that the last frame and file are the conversion, the
  rotation and the writing of this geometry (`ImageInv`).  That reduces both theorems
  to facts about the operators, for every size.  `ConvertedGood` and `RotatedGood`: each
  offset a conversion or a rotation reads is inside what it reads from; the case
  that takes work is `decode_jpeg_raw` with its margin and its shrinking
  (`ColumnsInside`).  `ConvertedRight`: offsets are columns and rows (`Place`,
  `DivMod`), and luma and chroma are where a planar picture has them (`LumaIs`,
  `ChromaIs`).  `RotatedAt`: each of the three planes is turned as `Shown` says.
  `ImageIsTurned`: turning blocks of chroma agrees with turning the pixels in
  them (`TurnBlock`), for which the sides must be even.  Nothing in the code
  is recursive, so this needs no induction over rows.
* **The loop.** Each step of `MotionLoop` is a step of `V4l2Capture` or leaves its
  variables alone (`LoopStep`); its theorems then carry over through the refinement.
  `DetectsWholeFrame` adds that `ConvImg` is only written after a successful call, to
  which `Delivery` applies, and that the next call starts after the conversion.
* **On-board pins.** A call is the sequence of accesses it has still to make, and the
  invariants speak of all of those at once, for every thread.  `LevelInv`: whoever
  has still to set or clear a pin is its owner and writes the level asked, and a pin
  that is not at that level has such an access pending.  No lock enters, because
  the set and clear registers change only the pins whose bits are 1.  For the
  settings two threads must not be in such a call at once (`OneMode`, from `Serial`); then each
  access that is right only after another one is next to it: a word is written
  after it was read (`FselInv`), a pull is clocked after `GPPUD` was written (`PullInv`),
  a divisor after its clock was awaited (`DivideInv`), and what `pwmSetClock` saved is
  what was asked, so that its last write restores it (`ControlInv`, which
  counts from the end of the call, for `pinMode` runs `pwmSetClock` as its last part).
  `ClockInv` adds that a clock a call stops it starts again.  It needs `PlainAlts`,
  as `pinModeAlt` gives a pin its PWM or clock function without starting anything; the
  run has only the alternative function 3.  That a new call establishes all
  this is `CallOK`, one lemma per function of `wiringPi.c`, from the accesses
  written out; that an access keeps it is one lemma per invariant.
* **Hand-off.** The invariant `HandOffInv` says that only the holder of `pinMutex` is
  between the store to `pinPass` and the end of its wait, and that `pinPass`
  holds its pin until the thread it created has taken it.  `EdgeInv` says that a
  pending edge is one no handler of the pin has accepted yet, and that a function is
  installed before there is a thread to run it.  With the two every step of a call or
  a handler maps to a step of `IsrService` or to none.
* **Generators.** `OneDriver` is about living threads, but what the code tests are the
  arrays.  `GenInv` ties the two together in both directions: a thread that has its
  pin is named by the arrays or is the one whose creation is not over
  (`ThreadFits`); what the arrays name lives, unless it is just being joined
  (`HandleFits`).  In between are the hand-off through `newPin` (`HandOff`), what the call
  under way has already cleared (`CallProgress`), and, outside Sys mode, that a pin
  is in one of the two arrays at most (`OneKind`).  Creates, stops and
  `pinMode` check and set arrays without a lock, so all of this needs that one
  thread makes them; the others may write values at any time, and no invariant
  mentions what they write.
* **Nodes.** `ListInv` says the blocks in the list are disjoint and above the on-board
  pins, that a set-up past its check is disjoint from all of them, and that
  the head it read is still the list.  The last part is where
  `Serial` is used.  `LookupFirst` (a lookup ends at the first match, which exists by
  `LeastExists`), `PushFind` and `LinkDisjoint` are facts about the list alone.  A sum that
  does not fit an int makes the block of a node empty (`CoversIs`) unless it ends just at
  the largest int; such a block (`AtLimit`) was not checked, so disjointness leaves it out.
* **Extensions.** `ExtInv` joins to each string what its call has done: a node is linked
  only after the last check that can refuse the string, a string cuts itself
  up (`severed`), so that it makes its node in its first call or never, and
  the functions are put in by the call that linked the node (`CallFits`).  A refusal is
  then either before the link or a repetition, in which case the node was there
  at the call (`Refused`).  `Serial` is used as before and for `OneCall`.
* **Expanders.** `OutputsAsWritten` says nothing while a call is in the bank, so it
  cannot be inductive.  `CallInv` says that two calls are never in one bank and that
  only the sr595 shifts.  `LevelInv` adds what a call under way holds: before it reads
  the shadow, the shadow lacks just its bit; then its copy is what was asked; on the
  bus, outputs and copy agree if the write arrived.  For the sr595 the i-th bit
  of the shift register is bit i + c + 1 of the copy while bits c .. 0 are still to
  come (`OneBitIn`); at the latch they are equal.  `LevelOthers` says once that a step of one call
  leaves the other banks alone.  `RegisterInv` and `RegisterOthers` do the same for
  directions and pull-ups.  `ShadowAsWritten` comes out of the same invariant.
* **Glitches.** `OneOutputAtATime` is about a step, and the step that could break it is
  the write to the bus.  `NearInv` says that what a call is going to write is at most
  one bit away from the outputs of now, from the moment it has read the shadow:
  no other call enters the bank meanwhile, and until something fails outputs and
  shadow agree (`LevelInv`).  The bits of sr595 on the way in are no outputs.
* **Sensors.** How much of its driver's transfers a call has still to make tells what
  the next one is, how many samples it has and what it started (`CallInv`,
  `Samplings`, `Started`).  `Knows` says what must hold there of the conversion, the
  register and the multiplexer: after a start the conversion, once done the
  register, is the call's own; pcf8591, which gives the sample before, is read twice
  and converts nothing on its own (`NoConversion`); bmp180 keeps two samples.
  No such thing holds if others use the chip, so `FreshInv` is about calls that had
  it to themselves, which excludes all others (`Alone`).  `OutputInv`
  needs no such condition: an output whose writes did not race is being written by one
  call with the value asked for, or has it.
* **The line.** All three properties speak of moments when nobody is in a call; the
  invariant says what they become in the middle of one.  `FrameInv`: what the device
  has of a command and what is on its way, read as one sequence (`Wire`), is whole
  commands but for the end, and what is left of the call (`Plans`) is what
  completes the last one (`Missing`).  So the device never takes a byte of one
  command for another's.  `CountInv` then counts: answers on the line or owed are
  the waits given up and those the call has still before it (`Due`).  It needs `PingInv`,
  which says that before the set-up is over only pings are on the line, and
  that nothing is when `Flush` sets the count to 0.  `LateInv` bounds the count by the number of
  pings and calls.  `OwnInv`, about the time before anything was given up, says where
  the one question under way is: the last byte, somewhere on the line, or answered
  (`AskedLast`, `AskedOnce`, `Answered`).  `PinInv`: of each of the pin's three
  fields the last byte that sets it, on the line or still to be written, is the one
  asked for.
* **The socket.** Commands are whole, so `NetPinInv` is `PinInv` without the framing
  (`Decided`), and `NetOwnInv` says that, as long as no two calls overlapped, only
  the call that waits has a command or an answer under way.
* **Answers.** `AnswerInv`: while a client is served, `seen` holds the index, whoever
  stores it; once `strstr` found the text, `buff_snd` is a name of an index in
  `seen`.  That a client that asked is found at all (`AskedIsFound`) is a fact about
  the buffer: its text is at the front, so no end of string comes before it.
* **Orders.** `Owed` is what the signals and the interrupt under way are going to
  store.  `OrdersInv` says that all of it was asked for since the relays were last
  quiet, and that the relays are already as somebody asked unless nothing but what
  is owed was asked.  Four lists enter, each from its own place in
  the source: the signals of the client, the handlers `main` installs, what each stores,
  and the names the server sends.  `Tables` and `TablesAgree` say that they agree.

Only model-checked:

* all liveness (`FramesKeepComing`, `RoundsEnd`, `CallReturns`, `ClientClosed`) and
  `EdgeServed`, which is a leads-to: fairness is beyond the prover;
* the two violations of section 6, which are counterexamples and not theorems.

## 5. What is not modelled

`PROJECT.json` gives each component's status.  In short:

* Pixel arithmetic, JPEG samplings other than 4:2:0, EXIF headers, masks and the
  conversions nobody calls.  Greyscale capture, which the program never asks for.
* Picture controls and auto brightness of `video.c`, and the norms of analogue inputs.
* Functions that change no state (`digitalRead`, `getAlt`, byte reads) of the on-board
  pins and the expanders; timing functions; `setPadDrive`.
* Scaling and configuration bits of the converters, and `pseudoPins` as a device.
* The software servo, which nothing calls, and the motion difference, which is
  commented out.
* The face collector and the mode dispatch: sequential programs over shell commands
  and functions that are not in the repository (`haar_run`, `img_to_pgm`), as is
  the classifier that writes `FaceProcessing`.
* Files, configuration, logging, MySQL, the HTTP examples, the list macros and the timing
  experiments: thin wrappers, pure I/O, or not part of the product.

## 6. Where the code differs

Two runs end in a violation, each of a statement the repository makes:

* `frames_gray`: `conv_yuv420p_to_gray` (`common/video_conv.c:540`) pairs rows 2k-1 and
  2k with one row of chroma, while line 358 has rows 0 and 1 share theirs.
* `start_faults`: the error path at `sp_eyes/motion.c:377` closes a device that
  `video_v4l2_start` has freed, or whose private pointer `v4l2_start` cleared.

Other behaviour met while modelling, for which the properties make room and which no
run singles out:

* `v4l2_next` unblocks, at `common/video.c:765`, the set that was blocked before the
  call instead of the five signals, and its error returns unblock nothing.
* An EIO that dequeued nothing makes the code guess that the next buffer left the
  queue, and give back one the driver still has; delivery then stops for good
  (`FramesKeepComing` excludes it).
* A corrupt frame ends the loop that skips old frames after an input switch.
* After failed retries `_motion_write_picture` writes the earlier image, turned once
  more by each failed call.
* `reverse_inplace_quad` (`common/rotate.c:148`) leaves the middle quad of a plane alone; a
  plane with an odd number of quads (chroma of 4x4) is not quite turned by 180 degrees.
* `decode_jpeg_raw` (`common/jpegutils.c:617`) writes 16 rows of luma at a time, behind the
  planes if the height is not a multiple of 16.
* `pwmToneWrite` on a pin without PWM uses, at `lib/wiringPi.c:1601`, the 0 `gpioToPwmPort`
  has for it, which is the index of `PWM_CONTROL`; that register is overwritten.
* `wiringPiNewNode` (`lib/wiringPi.c:1268`, `1277`) adds in an int: a block that ends at
  the largest int is not checked against others, and one past it is accepted and unreachable.
* The checksum of `htu21d.c:41` says TRUE of everything, and `rht03.c` may return a
  reading of zeros where no byte came, as five silent bytes fit into its time limit.
* `pinMode (pin, GPIO_CLOCK)` gives `gpioClockSet` a pin number that is translated a second
  time; only with the chip's own numbering is it the same pin.
* The extension parser compares the pin base after it has multiplied: "4294967360"
  is accepted as 64.
* `authenticate` of `drcNet.c` sends its digest and returns, although its comment
  says it waits for the server's reply; a pinged device that answers late shifts
  later answers of `drcSerial.c`.
* `softPwmCreate` does not clamp its initial value, and `softPwmWrite` clamps to a range
  that a stop and a new create may have changed; a phase is then negative.
* `wiringPiSetup` sets `alreadyDoneThis` before anything can fail: with return
  codes, the call after a failed one reports success over unmapped registers.
* A relay client that stays silent keeps the others waiting, as one blocking `recv`
  serves them.

## 7. Plan

1. Controls of `video.c`: `controls[]` against `ctrl_flags`.
2. The face collector: a bad file at the head of the directory, a move that fails.
3. `softServo`: sorting, cumulative delays, torn copies.
4. Two threads in one socket or one chip at a time: what exactly is mixed up when calls
   overlap, which `AnswersOwn` and `FreshReading` leave open.
