# A verification of the self-driving car

The repository holds two programs. The **car** runs on an STM32 (C, no operating
system): an endless main loop, `main.c:117-163`, and a few interrupts that share
variables with it without any lock. The **phone** (Java, `java_src`) connects to the car
over a serial-to-WiFi bridge, sends commands and reads status messages. This project
models what is hard to test in them - the queues between interrupt and main loop, frames
on a line that spoils bytes, the ultrasonic measurement with its timeout, the wheel encoder
and the steering, the boot and the clock, the threads of the phone - and checks it with TLC;
most safety properties are also proved with TLAPS, for every size and every input.

    cd tla
    tlc -workers 2 -config SensorBar.cfg MCSensorBar     # any run below
    tlapm OutQueueProofs.tla                             # any *Proofs module

## 1. Inventory

| Component | Source | State | Operations | Interacts with | What is hard |
|---|---|---|---|---|---|
| Output queue | `ESPClient.c:173-364` | ring `OUTQueue`, counters in/out, `sending` | `ESPClientSendData`, `ESPClientSendDataBuffer`, TXE interrupt | main loop and USART1 share the ring | two actors, no lock; stores in any order; one free slot tested, two bytes stored |
| Input queue | `ESPClient.c:54-185` | ring `MSGQueue`, counters | RXNE interrupt, loop of `ESPClientParseMessages` | USART1, deframer | bytes arrive during the call; counters wrap; interrupt storm |
| Frames on the car | `ESPClient.c:54-158`, `:366-466` | message buffer, `msgLen`, `escState`; a packet's payload and `_cpos` | SLIP switch, validity test, `crc16Add`, put and get accessors | callbacks | lost, changed and added bytes; messages too long; two `_cpos++` in one expression |
| Car state | `main.c`, `motorControl.c` | mode, running state, pulse widths, gain | eight callbacks, steering | input queue (calls), output queue (echo), control law | any order of commands; a callback that takes 700 ms; a command without a callback |
| Ultrasonic sensors | `SensorBar.c`, `mux.c` | active sensor, pulse, readings | `ReadSensorData`, TIM1 and TIM4 interrupts | timers, multiplexer, `msTicks` | late echoes, edges the multiplexer makes, timeouts |
| Client of the phone | `Client.java`, `ChangeRequest.java` | selector, channel, two lists | `run`, `send` | application threads, network | lock per list but not over both; reconnects |
| Frames on the phone | `SLIPProtocol.java`, `Packet.java`, `CRC16.java` | none | `encode`, `decode`, `createFramed` | client, parser | agreement with the C code |
| Message parser | `MessageParser.java` | static buffer | `Parse` | `onRead` of the client | TCP cuts anywhere; exceptions; connections that end |
| Control law | `control.c` | the sensor readings, which it corrects in place | `computeNewHeading`, `getPWM_from_angle` | sensors, encoder, servo | `velocity` read twice; one side's reading stands for the other's |
| Encoder | `encoder.c` | `velocity`, counter of the reading before, stall count | TIM2 interrupt | control law, TIM3 | differences of a wrapping counter; the wheel turns back, or on, between two reads |
| Console | `retarget.c` | two rings, `sending` | `fputc`, `SendChar`, USART2 interrupt | every `printf` | spins when full; no lock; a ring nothing reads |
| Time base | `Delay.c`, `main.c:303-346` | `msTicks`, the time of the last status | `SysTick_Handler`, `delay`, `sendCarStatus` | all timeouts | width of the counter |
| Color sensor, I2C | `TCS34725.c`, `I2CRoutines.c` | the sensor's registers, the bus, a DMA channel | `initColorSensor`, transfers | main loop | transfers that fail or never end, and nobody looks |
| Accelerometer, battery, setup | `LSM6DS33.c`, `status_libs`, `setup_libs` | - | initialisation, readings | - | register writes; mostly not called |

For each component the properties that make it correct:

- *Output queue*: a FIFO, nothing lost or doubled; no byte left behind with the
  transmitter stopped; the data register never written while it is full.
- *Input queue*: a FIFO; only bytes that are there are taken; a call ends.
- *Frames*: only packets that were sent are handled (but for a 0 in front, section 6), and an
  intact frame always is.
- *Car*: mode, running state and pulse widths agree; an echo is true; no throttle before a
  start or after a stop.
- *Sensors*: a reading comes from its own sensor; a trigger pulse ends; a call ends.
- *Client*: no request is slept on; failures are overcome; data is written.
- *Encoder*: the velocity and the stall flag are true of the wheel.
- *Control law*: left and right alike; to the middle, whenever the velocity changes.
- *Console, clock, boot*: no character stranded; status messages spaced, and sent for ever;
  the color sensor enabled only when it is ready.
- *Parser*: how the stream is cut does not matter; a packet is returned once.

`PROJECT.json` lists the hazards behind these at their lines.

## 2. Modules

    RingIndex                operators on a ring with wrapping counters
      OutQueue, MsgQueue     implement ByteStream (abstract: a bounded FIFO of bytes)
    CarControl               the car's state, its callbacks and its main loop
    Crc16, Slip              pure: the checksum (C and Java), SLIP (Java)
      Packet                 a packet's life: filled, sealed, damaged, accepted, read
      Deframer               the SLIP switch of ESPClientParseMessages
        CommandLink          phone -> line that spoils bytes -> Deframer
      MessageParser          stream in pieces -> Parse -> packets
      Parts                  parts of a sequence, for the properties of these two
    SensorBar                ReadSensorData, its interrupts, the sensors
    Encoder                  TIM3 and the interrupt of TIM2
      Steering               the control law, and the encoder that interrupts it
    MainThread               where the main thread is, shared by
      Console                printf, its ring (RingIndex) and the interrupt of USART2
      Clock                  msTicks, delay, the status timer
      ColorSensor            its set-up over the I2C bus
        Startup              the three composed: boot, then the loop
    Client                   selector thread, sender threads, network
    MC*                      constants for TLC
    RingIndexProofs, OutQueueProofs, MsgQueueProofs, CommandProofs (Packet and CarControl),
    SensorBarProofs, SteeringProofs, StartupProofs, PhoneProofs (Client, MessageParser,
    CommandLink)

**RingIndex, OutQueue.** `Size` stands for `OUTQUEUE_SIZE`, `Wrap` (a multiple of it) for
2^32. The main thread takes one step per access the interrupt could see (`TestFull`,
stores of slot and counter in either order where C leaves it open, `TestIdle`,
`Transmit`, `Enable`); the interrupt is one step, `IsrSend` or `IsrStop`, and preempts
the main thread while it is pending. The USART is external: a data and a shift register.
`CharTimes` bounds how many character times may pass in one stretch of a call: at
115200 baud one takes 87 us, about 6000 cycles, more than a call needs between two of
its visits to the queue.

**MsgQueue.** The roles reversed: the interrupt fills (`IsrStore`, or `IsrLeave` when the
ring is full), the main thread takes a snapshot of `in` and parses up to it. `Paced` is a
sender that leaves room; `LongRun` lets the counters wrap.

**ByteStream.** What both promise: at most `Capacity` bytes wait, they leave in the order
they came, each once. The refinement mapping is the part of the ring between the
counters and the byte last taken.

**CarControl.** `mode_state`, `running_state`, the two pulse widths, `gain`; one action per
callback, STOP in automatic mode in two since it brakes for 700 ms. A callback whose
echo finds the output queue full goes on without it (`Echo`). `Spec` has no fairness: a byte
that meets a full input queue stops the main thread wherever it is, in the 700 ms too. Widths of
integers are kept where they matter: `SteeringPWM` goes through `uint16_t`.

**Crc16, Packet, Slip, Deframer, CommandLink.** `crc16Add` is translated from its shifts
and masks; `^` is written out over the bits of a byte (`XorByte`), as arithmetic the provers know.
`Packet` fills a packet value by value (`Fill` is the
put accessors), seals it (`updateCrc`), lets the line spoil up to two neighbouring bytes
(`sent` becomes `wire`),
accepts it or not, and reads it back (`Read` is the get accessors; `EvalOrders` is the
order in which C evaluates the two `_cpos++`). Beside it stands the definition of the
checksum, a division bit by bit (`DivideByte`, `Remainder`). `CommandLink` lets the phone frame packets
(`Packet.createFramed`) and a line spoil at most one byte of each frame: change it, lose
it, or put one before it. The deframer then sees the bytes one by one. `Shifted` is what the car
reads of a packet when a 0 comes in front, or in place of the first SLIP_END; where the command is
one more than the length, as in KEEPALIVE, that is another valid packet, and `OnlySentHandled` says
that no other comes through. `DataIntegrity` is the same without the exception. Only payloads shorter than
128 bytes are sent: `length` is a signed byte in Java, and of longer ones `createFramed` returns null.

**MessageParser.** A stream of frames, of frames with a wrong checksum and of noise,
handed to `Parse` in pieces cut anywhere; a break ends a connection inside a frame, and
`breaks` notes where. An exception leaves the buffer as the code does. `Rest` is what stays in
the buffer, compacted.

**SensorBar.** One step per access of `ReadSensorData`, the three bits of the multiplexer
included; each interrupt handler is one step, as none preempts another. A pulse is
abstracted to the two edges it was measured between, labelled by where they come from:
that is what decides whether a reading is right.

**Encoder, Steering.** The wheel turns tick by tick, also between the handler's reading of
the counter (`ReadCount`) and of the direction bit (`ReadDirection`). `computeNewHeading`
is one step up to the test of `velocity`, and another for the division, with the value
tested (`DivideTested`) or the one of that moment (`DivideAgain`). Velocities are in
ticks, angles in 1/100 degree; inverse sine and tangent are constants of which the proofs
use only that they are odd, have the sign of their argument, and that the least lateral error,
1 cm, is an angle the servo shows: at least 0.06 degrees (`Visible`). By the code's numbers it is
0.57 degrees for a wheel that stands, and 0.06 at 19 m/s, or 450 ticks between two readings.
`moved`, `measured`, `trusted` and `drift` are history: what the wheel really did.

**MainThread, Console, Clock, ColorSensor, Startup.** The main thread is at one place
(`at`), and each part takes it from "next" to places of its own until a call returns. `todo`
is what is left of the boot or of a turn of the loop, as a sequence of calls. The console's
interrupt preempts; ticks come at any time, `MaxHeld` of them between two looks at the
clock. `Interval` is the 60 ticks of the code, `Announced` the 100 of its comment (section 6).
A transfer may get no start condition or no acknowledge (`TimedOut`) and returns;
its data may be awaited for ever. The other effects of the callbacks are in CarControl.

**Client.** One step per `synchronized` block or call of the selector. A request is for the
"channel" of the moment or for an "old" one: the next connection makes all of them old, and
before the first there is none (null), which is no better. Of the data one may be "watched" on its
way. `send()` may be called any number of times, before, during and after connections; `MaxWaiting`
bounds what waits when it begins. The network may refuse, deliver, fill its buffers and close;
`onRead` and `onConnected` may throw.

## 3. Runs

| Run | Properties | What it shows |
|---|---|---|
| `OutQueue_orders` | `TypeOK`, `OneByteOfExcess`, `KickIsSafe`, `NoLostWakeup`, `RefusedOnlyWhileSending`, `BytesDelivered` | With escapes and both store orders, the hand-over between main thread and interrupt neither stalls nor collides; the overrun is one byte at most; what is in the ring reaches the wire. |
| `MsgQueue_paced` | `BytesInOrder`, `BytesParsed` | The input ring implements `ByteStream`, and every byte is parsed, for a sender that leaves room and counters that do not wrap. |
| `MsgQueue_orders` | `TypeOK`, `NeverOverfull`, `OnlyWhatIsThere`, `CallEnds` | Whatever arrives, counters wrapping. |
| `CarControl` | `TypeOK`, `AutoDrive`, `ManualDrive`, `EchoIsTrue`, `ThrottleNeedsStart` | All orders of all eleven commands, also those without a callback. |
| `Packet` | `IsDivision`, `DamageDetected`, `RoundTrip` | The checksum is the polynomial division it is meant to be, and finds any damage to one byte or to two neighbours but for one pattern; what is read is what was put in. |
| `CommandLink_spoilt` | `OnlySentHandled`, `IntactHandled` | Of the spoilt frames only one kind is taken for a packet that was not sent (a 0 in front of a KEEPALIVE), and none spoils the intact frame behind it. |
| `MessageParser_pieces` | `PiecesDoNotMatter`, `ReturnedOnce` | The cuts of TCP do not matter while `Parse` does not throw; nothing is returned twice even if it does. |
| `SensorBar` | `ReadingsAreOwn`, `TriggerEnds`, `SensorsRead` | Four sensors as they are wired, silent or late as they like. |
| `Steering` | `VelocityTrue`, `StallIsReal`, `Mirrored`, `SteersToTheMiddle` | The encoder over wraps and reversals, and the control law, correct to the side, with the encoder's interrupt anywhere in it. |
| `Startup` | `ConsoleSafe`, `StatusSpaced`, `SensorEnabled`, `StatusSent` | The boot and the loop, with full rings, transfers that fail and a clock that wraps. |
| `Client` | `NoRequestSleptOn`, `ConnectedListens`, `GetsConnected`, `RequestsFlush` | Two threads that send for ever, before, during and after connections, two failures anywhere. `GetsConnected` has a condition: not a request between two connections again and again. |
| `OutQueue_overrun` | `BytesInOrder`, violated | See section 6. |

### Bounds, and why they are enough

- Rings of 4 slots (512 in the code), counters that wrap at 12 (2^32): the shortest packet
  is longer than the ring, and the counters wrap at three times its size, so a full, an empty and a
  wrapped ring meet in every phase of a call. The proofs cover the other sizes.
- One character time per stretch of a call: two would need an interrupt of another
  module of 170 us between two instructions; the handlers of this program are far shorter.
- `CarControl`: speeds and angles on both sides of every limit (0, the clamps, 16 bits);
  two messages per call of the parser reach every order of commands over several calls.
- `CommandLink`: three packets, so that a spoilt one has an intact one before and behind;
  packets with a payload to escape, without one, with a command one more than the length (KEEPALIVE), and
  too long for the buffer. A changed byte becomes one of the three special ones, 0 or 2; one that is
  added, a SLIP_END, a SLIP_ESC, 0 or 1.
- `Packet`: payloads of four bytes, which hold a value of each size or several small ones; the errors are single bits, neighbouring bits, all bits, and the two bytes that
  together go unnoticed. The proofs cover all payloads and all errors.
- `Steering`: a counter of four values and two ticks between readings: every reading may wrap,
  turn back, or both; two readings without a tick are a stall. Three distances - near, beyond
  the distance of two sensors, out of range - in all places where the car is
  parallel to one wall at least, but those with the front sensor out of range alone or on
  both sides, which a car between two walls does not see.
- `Startup`: a ring of one character, so that every print finds it full; a clock of six
  ticks, shorter than the boot; status every two ticks; callbacks that print, wait or do
  neither. One character may be typed: with two the code is stuck (section 6).
- `MessageParser`: three items and one break: a packet lost or doubled has a neighbour on
  either side.
- `Client`: two threads, each in `send()` as often as it likes, with two requests and two pieces
  of data waiting at most when one begins (four when both are inside); two failures: sends that
  overlap the end of one connection, and more on the next. Reconnect intervals of 1 and 2, of which
  only whether they have reached their maximum matters.

`CHECK_DEADLOCK FALSE` stands where the model may stop: after the processor's fault
(`CarControl`), and where the bounded input is used up (`Packet`, `CommandLink`,
`MessageParser`).

### Fairness

Weak fairness only, of what the processor or the scheduler runs: a pending interrupt is
served, the main thread goes on when none is pending, the USART shifts its bytes out,
timers expire (`SensorBar`), SysTick ticks
and the bus answers or a wait times out (`Startup`), Java threads run and a handshake is answered (`Client`;
a sender inside of `send()` comes out of it, but that it calls it is its own affair).
Nothing is assumed of bytes arriving, messages being sent, echoes, or the peer's data. `CarControl`
has no fairness and no liveness property: whether its loop goes on depends on the input queue, which can
stop it (`MsgQueue_storm`).

## 4. Proofs

| Theorem | States | Assumes |
|---|---|---|
| `OutQueueProofs!TypeCorrect` | `[]TypeOK` | the constants' assumptions |
| `OutQueueProofs!Excess`, `KickSafe`, `Wakeup`, `Refusal` | the other invariants of `OutQueue_orders` | `CharTimes <= 1` |
| `OutQueueProofs!Refinement` | `OutQueue` implements `ByteStream` | `CharTimes <= 1`, no byte to escape, slot stored before the counter |
| `MsgQueueProofs!TypeCorrect`, `Fits`, `Stored` | `[]TypeOK`; `NeverOverfull`; `OnlyWhatIsThere` | the constants' assumptions |
| `MsgQueueProofs!Refinement` | `MsgQueue` implements `ByteStream` | slot read before the counter |
| `CommandProofs!Division` | `IsDivision` | the constants' assumptions |
| `CommandProofs!Damage` | `DamageDetected` | the constants' assumptions |
| `CommandProofs!ReadBack` | `RoundTrip` | `_cpos++` is evaluated from left to right |
| `CommandProofs!TypeCorrect`, `Automatic`, `ByHand`, `TrueEcho`, `Throttle` | `[]TypeOK`; `AutoDrive`; `ManualDrive`; `EchoIsTrue`; `ThrottleNeedsStart` | the constants' assumptions |
| `SensorBarProofs!OwnReadings`, `Trigger` | `ReadingsAreOwn`; `TriggerEnds` | `LongIsr = FALSE` |
| `SteeringProofs!TrueVelocity`, `RealStall` | `VelocityTrue`; `StallIsReal` | the constants' assumptions |
| `SteeringProofs!MirroredPlaces` | `Mirrored` | inverse sine and tangents are odd |
| `SteeringProofs!ToTheFurtherSide` | `SteersToTheMiddle` | and have the sign of their argument; the least lateral error is an angle the servo shows |
| `StartupProofs!SafeConsole` | `ConsoleSafe` | `CharTimes <= 1` |
| `StartupProofs!SpacedStatus` | `StatusSpaced` | `Interval + MaxHeld < TickWrap` |
| `StartupProofs!SensorReady` | `SensorEnabled` | `EnableDelay` is at least the warm-up the sensor needs |
| `PhoneProofs!Awake`, `Listens` | `NoRequestSleptOn`; `ConnectedListens` | the constants' assumptions |
| `PhoneProofs!Intact` | `IntactHandled` | the checksum has two bytes; no more of it, nor of what the line does |
| `PhoneProofs!Exact` | `handled = IntactPackets`, `DataIntegrity` and with it `OnlySentHandled` | the checksum has two bytes, and the line loses, adds and changes nothing (`Lossy = FALSE`, `Noise` and `Glitches` empty) |
| `CommandProofs!TwoBytes` | the code's checksum has two bytes | none |
| `PhoneProofs!Uncut`, `Once` | `PiecesDoNotMatter`; `ReturnedOnce` | the constants' assumptions (the car sends bytes); any `Crc` |

*RingIndexProofs* has the arithmetic once: what `Inc`, `Dec` and `Minus` do modulo `Wrap`,
that counters less than `Size` apart have different slots, and what an append, a removal
and a store in a free slot do to `Contents`.

*OutQueue.* The invariants are not inductive: that the main thread starts the transmitter
only with a byte in the ring and an empty data register depends on what it has read.
The inductive one adds: where the loop is within its data (`LoopOK`); that `sending` and
the enabled interrupt agree but for one point of a call (`SendingOK`); that the bytes in
the ring and those still to be counted exceed it by one at most (`RoomOK`); that with
the transmitter stopped the ring holds only what this write has stored (`StoppedOK`);
and that the byte stored last is not sent before the test of `sending` is past, since
the transmitter has two characters to shift out before (`FreshOK`, and `HeaderOK` for the
empty payload of a packet) - this is where `CharTimes <= 1` is used. For the refinement
`ExactOK` is added: without escapes a free slot is enough, and the counter is stored over
a slot that holds the byte.

*MsgQueue.* `SnapshotOK`: while `out` is below the snapshot `end`, the bytes up to it are there, also
when `in` has wrapped since; it is what makes a loop safe that never looks at `in`. `LoadedOK`
says that the byte loaded is the oldest one until it has been counted.

*Checksum.* A byte is its eight bits (`Binary`, `XorByteBits`), the accumulator a pair of bytes
(`Pair`). On a pair, `crc16Add` has a form without shifts over the border of a byte:
with t the high byte `^` b, the new low byte is `LowPart(t)`, the new high byte
`HighPart(l, t)` (`AddIs`). Its bits are compared with those of eight steps of the division
(`AddIsDivision`), which gives `CrcIsRemainder` by induction over the message. For damage, what
matters is which operands a result tells: `LowPart` tells t, `HighPart` tells l when t is known
(`LowPartTells`, `HighPartTells`), so two accumulators that differ stay different as
long as the bytes agree (`Lasting`), and a difference made by one byte is not undone by the next,
whatever that is: their low bytes differ (`SameLow`). Left is damage that lies across the end of the
data (`Straddle`): the checksum is sent with its low byte first, while the division would go on with the
high one. The last byte of the data and the low byte of the checksum can then be
damaged together and fit, with the high byte intact, in exactly one way
(`HighPartAlmostTells`, `SameHigh`): by 137 and 161. `Unnoticed` is this pattern; the first attempt at the proof stopped
at it, and TLC confirms it (section 6).

*Packet.* `PacketInv`: the checksum of a sealed packet is that of its header and payload
(`PacketOK`); what is underway differs from what was sent in two neighbours at most, and what was
sent is intact unless `ESPSendKeepAliveMSG` sent it (`LineOK`). `ValuesOK` says where the values
are: there is a function `at`, from the number of a value to the place behind its last byte, such that the
bytes of each lie between its own place and the one before, and `_cpos` is the place of the last value read
(`LaidOut`). `at` is a witness carried from step to step, not a variable of the model.

*Induction over data.* The library's induction theorems cannot be used, but `NatSet`, induction
as a property of a set, can be proved from the well-foundedness of `<`, and with it the
existence of recursive functions (`Recursion`); these two carry what is said of messages and of
data of every length.

*CarControl.* `BrakeOK`: the car brakes only in automatic mode and running; without it
`AutoDrive` is not preserved by the second half of STOP. `ManualDrive` is inductive as it is: the
mode changes only in `SetModeCallback`, which resets both widths.

*SensorBar.* `ReadingsAreOwn` rests on where an edge can come from. `LineOK`: after each of the
three bits the multiplexer stands as far on its way to the active sensor as it should, so that
from the trigger on only that sensor is heard (`OwnLine`). `LateOK`: a sensor that is still
at it is the active one, or its timeout has been noted and the restart will silence it.
`CaptureOK`: during the wait the edges are none, the first, or both of the active sensor's
pulse. `TimerOK` says that the timer outlives the raising of the pin - what an interrupt as
long as the pulse would break.

*Encoder.* Counts are congruent modulo the counter's period to the ticks they stand for
(`CountOK`, `MeasuredOK`); since fewer ticks pass than the period, the difference is right to
one at a wrap (`Difference`). `DriftOK`: readings without a tick may have missed one, at a
wrap, and then the counter stands at that end, so the next one missed is the opposite one:
misses do not add up to a stall that is none.

*Steering.* `Mirrored` follows, without induction, from lemmas on the parts of the heading:
`CorrectedMirror` (correcting and mirroring commute when one side is in range, though the left
reading is replaced first), `BetaOdd`, `AtanOdd`, and the saturation being odd.
`SteersToTheMiddle` needs sizes too. `ServoOK` says that the pulse is one for the readings, which
correcting leaves in their set (`CorrectedReadings`), and for the divisor; along a wall the orientation errors have the sign of the lateral error or are 0
(`AlongWall`, with `Signs` for each sum), so the heading is at least half of `Visible`, which is one
step of the pulse (`Steered`). A direction misread at a wrap can give a velocity the wheel cannot
have; the property says that the steering may then be too weak to show, and never to the wrong side.

*Startup.* `SendingOK` and `StoredOK` are those of the output queue for the console's different
kick: a character stored while the interrupt is enabled cannot have been sent and the
interrupt stopped before `sending` is looked at, as two characters must be shifted out
first (`CharTimes <= 1`). The clock's invariant says that `msTicks - prevt` is, modulo the
wrap, at most the ticks since the last status.
`SensorInv` runs along the boot: of its ten statements `i` have begun, `todo` is the rest, one
place of the main thread belongs to the last of them, and the registers hold the writes before it
(`BootAt`); during the delay of `enable` the sensor has warmed up for at least as many ticks as the
clock is past `currentTicks`, modulo the wrap (`BootTick`), which gives `EnableDelay` ticks at its
end. `LoopAlone`: the loop neither begins a transfer nor can be in one.

*Client.* `SelectOK`: between a request and the wakeup of its sender that sender is inside of
`send()`. `ConnectedOK`: where the selector thread can be while connected, and that no
connect is left to process; without it `OP_READ` could be taken away again.

*CommandLink.* What is left of a frame when j bytes of its message are to come is `Tails`: the escapes
of these bytes and the last SLIP_END (`EncodeTails`, an induction over the message). `Underway` says
of a frame that is not spoilt that the line holds all of it, or such a rest; then the buffer has the other
bytes of the message, or as many of them as fit, and `isEsc` is set when the rest begins inside of an escape
(`Within`). Each byte leads from one rest to a shorter one (`NextByte`), from whatever state its
neighbours have left: the first SLIP_END starts anew (`FirstByte`), and at the last
one the buffer is the message, which is valid and gives its packet back (`MessageIs`, `LastByte`). A spoilt
frame can only add to what is handled (`AnyByte`), so the intact packets stay a part of it (`Kept`).
Of the checksum only that it has two bytes is used; `TwoBytes` shows this for the code's.
On a line that leaves the frames alone every frame also meets an empty buffer (`Begun`), so the car
handles what `Picked` names and no more (`ExactInv`), and that is a part of what was sent
(`PickedIsPart`). A message that is too long leaves its first `MAX_MSG_LEN` bytes in the buffer, whose
length byte does not fit them: it is dropped, and nothing of it is left for the next frame.

*MessageParser.* What has been received is a part that has left the buffer, and the buffer
(`Parted`). That part ends with a SLIP_END (`Closed`): a call of `Parse` takes the data up to the last
one (`UpToLast`), or, when it throws, up to the one that ends the short frame. `Apart` is the
heart of it: data that ends with a SLIP_END can be parsed apart from what follows, since
no frame lies across (`FrameOfFirst`, `FrameOfSecond`), which is an induction over the places of the
data. So the packets of all that was received are those of the part and those of the
buffer, which has none unless a call has thrown; and what was returned is all of the
former, or a part of them (`IsPartOf`, kept by `PartOfLonger` and `PartOfBoth`). Nothing in this
depends on what a valid packet is.

Only model-checked: everything under fairness, and `OnlySentHandled` on a line that spoils frames. It
depends on the packets there: a frame that is cut short, or in two by a byte that became a SLIP_END,
has for some contents by chance the right checksum.

## 5. Not modelled

The rounding of floating-point numbers (angles are integers here, and the inverse sine and
tangent constants); `TIME_PENALTY`, `USE_BINARY` and with the first `checkLinePassed` and the
readings of the color sensor (not defined, `main.c:15-17`); reads of more than one byte, slave
and interrupt mode of the I2C routines, which have no caller that runs; the accelerometer,
whose initialisation is commented out (`main.c:112`); battery (twenty conversions and their
mean) and board setup (register writes); `CHANGEOPS` and `REGISTER` requests, which nothing
makes; an exception of `onDisconnect`, which would end the client's thread; the arithmetic of a
pulse width across the wrap of TIM4, a tick of 0.17 mm (the
encoder's, which is the same, is in `VelocityTrue`). An interrupt longer than 10 us is
excluded from `SensorBar`'s run (`LongIsr`), see below.

## 6. Where the code does not do what it says

One is checked as a run:

- **A ring overrun by an escape** (`OutQueue_overrun`): `_WriteEscapedBuffer` tests for one
  free slot (`ESPClient.c:219`) and stores two bytes for one that needs an escape. The oldest
  byte not yet sent is overwritten and 0 is returned, where line 212 says "1 - out queue is
  full".

Others have a configuration of their own, whose one property TLC finds violated:

| Configuration | Property | What happens |
|---|---|---|
| `Client_written` | `DataWritten` | `send()` queues its request before its data (`Client.java:277`), line 41 says the reverse. The selector thread may handle the request in between, finds nothing to write, drops `OP_WRITE`, and the data stays until the next `send()`. `RequestsFlush` is what does hold. |
| `MsgQueue_storm` | `CallReturns` | With the ring full the handler does not read the data register (`:177`), the interrupt stays pending, and the main thread never runs again. |
| `MsgQueue_wrap` | `BytesParsed` | `out < end` (`:66`) compares wrapping counters: when only `in` has wrapped, nothing is parsed any more. |
| `CarControl_stop` | `StopStopsMotor` | STOP in manual mode leaves the throttle (`main.c:279`; "stop motor", `ESPClient.h:37`). |
| `CarControl_callback` | `OnlyCallbacksCalled` | `cb` is called without the test the comment promises (`ESPClient.c:97-98`). |
| `CommandLink_zero` | `DataIntegrity` ("verifiy data integrity", `ESPClient.h:109`) | The checksum starts from 0 and does not see zeros in front: a SLIP_END received as 0 turns KEEPALIVE into another valid packet. |
| `MessageParser_short` | `FramedReturned` | A frame of one byte makes `Parse` throw, and the packets found before it are lost. |

The rest is seen by changing a constant, or the property, of a run's configuration:

| Configuration | Changed | Property violated | What happens |
|---|---|---|---|
| `OutQueue_orders` | - | `StoredBeforeSent` | `buf[in++] = b` (`ESPClient.c:238`) leaves the order of its stores to the compiler; with the counter first, the interrupt sends the old content of the slot. |
| `MsgQueue_paced` | `ReadOrders = {"counterFirst"}` | `ReadBeforeOverwritten` | `value = buf[out++]` (`:68`): the interrupt may fill the slot before it is read. |
| `CarControl` | `Sent <- MCSent`, `Angles <- MCLeft` | `SteersToItsSide` | An angle below -375 becomes a large `uint16_t` and steers right (`main.c:234`). |
| `MessageParser_short` | `Items <- MCFrameItems`, `MaxBreaks = 1` | `ReturnedByItsCall` | One byte left by a connection that was cut off makes the first `Parse` of the next one throw. |
| `SensorBar` | `LongIsr = TRUE` | `TriggerEnds` | TIM1 is started before the pin is raised (`SensorBar.c:73`); an interrupt of 10 us in between leaves it high. |
| `Client` | - | `StateReset` | The lists are cleared without their locks (`Client.java:104`), so a `send()` in progress leaves its half to the next connection. |
| `Client` | - | `Reconnects` | A request made between two connections names the channel of the last one; in the next, `keyFor` is null (`:153-154`) and the exception ends it before it is made. A sender that calls `send()` once in each pause, which is 500 ms at least, keeps the client from ever connecting. `GetsConnected` is what does hold. |
| `Client` | - | `DataWritten` | `finishConnect` sets the interests to `OP_READ` (`:249`): an `OP_WRITE` requested while the connect was under way is lost, and its data waits for the next `send()`. |
| `Startup` | - | `StatusAsAnnounced` | "if 100 ms elapsed since last transmission" (`main.c:306`): line 307 waits for 60. |
| `Packet` | - | `AllDamageDetected` | The checksum is sent with its low byte first (`ESPClient.c:271-274`), so errors 137 in the last byte before it and 161 in its first leave it right. With the high byte first the division would run on across the border and notice. |
| `Packet` | - | `AllAccepted` | `ESPSendKeepAliveMSG` leaves out `updateCrc`, so nobody would accept what it sends (`ESPClient.c:371`; it is never called). |
| `Packet` | `EvalOrders = {"rightFirst"}` | `RoundTrip` | `getShort` leaves to the compiler which byte is read first (`:432`). |
| `Steering` | - | `AlwaysToTheMiddle` | `velocity` is tested and read again (`control.c:103-104`); one that turned negative in between steers away from the middle for one turn. |
| `Startup` | - | `BusReleased` | A transfer that failed leaves the start condition without a stop, and its DMA channel enabled (`I2CRoutines.c:372`, `:385`); the next one is disturbed. |
| `Startup` | `Faults = {"stuck"}` | `StatusSent` | The waits for the data have no limit (`:402`, `:410`): the car's only thread stops. |
| `Startup` | `MaxTyped = 2` | `StatusSent` | A character typed when the unread ring is full leaves USART2's interrupt pending for ever (`retarget.c:9`). |
| `Startup` | `CharTimes = 2` | `ConsoleSafe` | Two character times in one call of `SendChar`: the kick sends a character that is not there. |

Seen while reading, and too plain to model: `control.c:33` hides the tuned `gain` behind a
local one; the test for a phone that is gone is commented out (`ESPClient.c:160-168`); the
reconnect interval doubles to 32000 past its maximum of 30000 (`Client.java:120`);
`motor_stalling` is neither read nor cleared, and is set after 15 readings of 150 ms where
`encoder.c:136` says 20 and 3 seconds; the wrap of the encoder is taken to be 0xffff counts
(`encoder.c:114`), one too few; the status reports the sensor readings after one side's has
replaced the other's; `ESPCommands.java` lacks the last three commands of `ESPClient.h`.

## 7. Plan

Done, in order of importance: the queues, the car's state, the client, the frames, the
parser, the sensors, the encoder and the control law, console, clock and boot; proofs about
all of them that the provers can reach.

What is left:

1. Composition: `OutQueue` and `MessageParser` as one link from the car to the phone, and
   an abstract specification of `Client` (a mailbox that is flushed) that it implements.
2. The width of an echo pulse over the wrap of TIM4, and with it the distances `Steering`
   takes from `SensorBar`.
