# A verification project for the LT213A OpenDisplay firmware

The firmware turns an LT213A tag (nRF51822, 2.13" e-paper) into an OpenDisplay
device: a client connects over BLE, writes commands to one characteristic, gets
notifications back, and so uploads images, reads and writes the configuration
and authenticates. This directory holds TLA+ models of the firmware's own
logic, the TLC runs that check them on small instances, and TLAPS proofs.

Sources are named relative to `apps/opendisplay/src/` unless a path is given.

## 1. The system

Two tasks and an interrupt:

* The **host task** (`mynewt_main`, default event queue) runs NimBLE's callbacks:
  GAP events, GATT writes, callouts. It owns the connection and advertising.
* The **display task** (`display_main`, `display_queue`), of lower priority,
  executes commands one at a time: protocol, security, storage and panel.
* The **POWER_CLOCK interrupt** calibrates the RC oscillator every two seconds.

| Component | State it keeps | Operations | Talks to | What makes it correct |
|---|---|---|---|---|
| Configuration store, `storage.c`, `platform.c` | two flash slots; `active`, `sequence`, `staging`, `expected`, `received` | init, begin, append, clear, abort, data, record | flash; called by protocol and security | a start always loads a complete valid image, the last one committed; the slot in use is never touched |
| Hand-off, `main.c` | `generation`, `connection`, `subscribed`, two `commands`, `tx` and its semaphore, three callouts, two queues | GATT write, connect, disconnect, (un)subscribe, notify, command_done, expire, command_work, abort_work | both tasks, by events | no slot lost or reused early; replies only to who asked; nothing left over from an earlier link; an idle link ends |
| Advertising, `main.c` | `slow_advertising`, `adv_retry`, what is on the air | advertise, advertise_retry, GAP events, sync, reset | NimBLE | always reachable; fast only for 30 s |
| PIPE window, `protocol.c` | `next`, `highest`, `mask`, `pending`, `since_ack` | 0x80, 0x81, 0x82 | client | chunks drawn once and in order; truthful acknowledgements; no deadlock |
| Image session, `protocol.c`, `epd.c` | `active`, `written`, flags, ETag, panel power | 0x70-0x72, 0x76, 0x80-0x82, abort | panel, hand-off | an ETag names the image shown; whole images only; panel off outside transfers |
| Security, `security.c` | `auth`, `attempts` | 0x50, `od_secure_command` | store, protocol | no protected command without the current key; no replay; no nonce twice |
| Calibration, `hw/bsp/lt213a/src/hal_bsp.c` | event registers, `calibration_waiting`, crystal count | calibration_irq, calibration_start | radio, crystal | calibrates on the crystal, for ever, and lets go of it |
| Deadlines, `main.c`, `protocol.c`, `platform.c` | `idle_timeout`, `started_at`, os_time | command_done, expire, od_expire_transfer, od_millis | hand-off, session | a transfer ends after 15 minutes, and neither it nor an idle link is ended early |
| Panel driver, `epd.c` | `asleep`, partial size and offset; the panel's RAM and supply | begin, begin_partial, write, refresh, off | SPI | a refresh shows what was sent; no power outside transfers; every wait is bounded |
| Decompressor, `inflate.c`, `libs/od-uzlib` | stream state, window, bit and table readers | init, feed, complete | protocol | the bytes of the stream whatever the cuts; wrong and complete streams are told apart |
| Telemetry, `telemetry.c`, `main.c` | `msd[]`, job in a command slot | sample_telemetry, command_work, command_done | ADC, advertising | what is on the air is the last sample |
| Sanity check, `main.c` | last check-in of the display task | run_events, send_response | every command | no command keeps the task quiet for 120 s |
| `tools/`, build, the RTOS and the stack | | | | not modelled, section 8 |

What is hard here: the display task can be preempted anywhere while the host
task changes the link under it; aborts travel as events behind queued commands;
power can fail inside any flash operation; PIPE frames are lost and repeated;
every call into the stack, the panel or the flash can fail; several counters
wrap; the calibration interrupt races the radio for one crystal. The full list,
with lines and the properties aimed at each, is "hazards" in `PROJECT.json`.

## 2. Modules

| Module | Models | How state and actions correspond |
|---|---|---|
| `ConfigStore` | `storage.c`, flash part of `platform.c` | The C variables by their names. A call is split at its flash operations: `pc` is the operation the one running call stands before. `Begin` and `Append1` are the parts before the first flash write of begin and append; `ErasePage`, `WriteData`, `WriteHeader`, `WriteMagic` one flash operation with the code up to the next; `FlashFails` its error return; `PowerFails` a reset inside or between them; `Boot` od_store_init. |
| `ConfigRegister` | what the store promises | two images, durable and running; commit, a commit that landed but was reported as failed, its retraction, restart |
| `ConfigStoreProofs`, `LinkProofs`, `PipeWindowProofs`, `SessionProofs`, `SecurityProofs`, `ClockProofs`, `HostTimersProofs`, `InflateProofs` | | theorems about the module of the same name, `HostTimersProofs` also about `Advertising` (section 5) |
| `Link` | hand-off of `main.c` | One action per host callback; the display task in steps `queue`, `check`, `run`, `wait`, one for each of its accesses to shared state. `held` is the session state a command leaves behind in the protocol, the store and the security module. `Execute` stands for `od_secure_command`, whose effect on that state is any one the code can have. |
| `PipeWindow` | PIPE commands of `protocol.c` | `s` is `struct od_session`; one action per outcome of a command; the client is external |
| `Panel` | `epd.c` | the driver's functions as operators on the driver's variables, the two RAM planes and the supply; those that wait give a set of results and the time they took |
| `Session` | every command of `protocol.c`, on `Panel` | `s` is `struct od_session`; each C function is the set of its possible results, so an early return or a failing call is a member of the set; one action per command. A result carries the time since the task's last check-in. |
| `Security` | `security.c` | `auth` and `attempts`; one action per outcome of `authenticate` and `od_secure_command` |
| `Advertising` | advertising and telemetry of `main.c` | one action per callback, every refused call a disjunct. `msd` is written by commands on the other task, `aired` is the copy NimBLE made of it. |
| `HostTimers` | connection and transfer deadlines of `main.c`, `protocol.c`, `platform.c`; EXTENDS `Advertising` | each action joins one of `Advertising` (CONNECT, DISCONNECT, reset, a write, command_done) with what the same callback does to `idle_timeout` and the slots; the display task's steps are those that start, end or ask about a transfer. Time is os_time, od_millis is computed from it. Two history variables, `late` and `overtime`, tell the commands that began before a transfer's deadline from those that began after it. |
| `ZlibStream` | `libs/od-uzlib/src/od_zlib_stream.c` | `od_zlib_stream_state_t` as a record, and what one step of `od_zlib_stream_poll` does with it and the input (`Step`), by way of one operator for each stage and reader. A step reads one bit or byte or copies one byte, so every place the decoder can stop at is a state. |
| `Inflate` | `inflate.c`; EXTENDS `ZlibStream` | `s` is the decoder's state, `z` the adapter's; `Feed` is the call of `od_inflate_feed`, `Decode`, `Emit` and `Finish` are its loop and the returns of the poll in it, `Reset` is `od_inflate_init` |
| `WholeStream` | what decoding in parts must amount to | the same steps when the whole stream is there from the beginning and the decoder takes a byte whenever it can do nothing without: neither parts nor a buffer |
| `Deflate` | RFC 1950, RFC 1951 | the reference: what a stream means, written from the RFCs. `Inflate` has the meaning of a stream with the stream, as a constant that `MCInflate` takes from here. |
| `Clock` | calibration of `hal_bsp.c` | `pc` is the next register access of the interrupt handler; the registers are variables |
| `MCConfigStore`, `MCInflate` | | constants for TLC: images and pages; 21 streams. The other modules need only scalar constants and are run as they are. |

The modules cut the firmware where its interfaces are: `Link` knows of a command
only that it starts or ends session state and sends responses; `Session` and
`Security` know of the link only that it may vanish between two commands and
that a response may not be delivered; `PipeWindow` refines the frame numbering
that `Session` leaves out. `HostTimers` composes the two callouts of the host
task with the commands they share; `Session` is where the commands, the panel
and the check-ins meet; a compressed transfer in `Session` and `PipeWindow` is
complete when they say so, and `Inflate` says when the decoder does. `ZlibStream`
has no variables: `Inflate` and `WholeStream` are two ways to run it, and the
first is shown to implement the second. Definitions named as mutants in their
comments are altered copies of the definition after them. They are not part of a
specification; each one makes a named property fail, which shows that the
property depends on that piece of code.

## 3. Runs

| Run | Question | Bounds, and why they are enough |
|---|---|---|
| `ConfigStore` | Do torn and failed flash operations, cancelled uploads, wrapping sequence numbers ever cost a configuration? | Images of 1-3 cells on 2 pages: a header page and a page without header, chunks that fill, leave or overrun the image. Sequence numbers modulo 4: the comparison needs 2 neighbours and wraps after 4 commits. No bound on updates or resets. |
| `LinkSafety` | Slots, semaphore, replies, idle deadline with any interleaving | both slots; 4 generations, more than can be alive; 2 tries of a notification instead of 100; one response per command (`MaxSends`), the record being reset between responses |
| `LinkPriority` | Leftovers of earlier links; liveness | as above, display task only while the host queue is empty |
| `LinkIdleUnsubscribe` | finding 1 | stops at the first violation |
| `PipeWindow` | Order, SACKs, completion under loss | sequence numbers modulo 8, history 3, window 2, 14 chunks: the numbers wrap, and frames older than the history and a whole wrap away exist. `Delta` needs window + history < half the modulus, as 2 + 32 < 128 in the code. |
| `PipeFaults` | Failing panel, decompressor, sends, connection; two transfers in a row | 3 chunks, 2 starts |
| `HostTimers` | Both callouts of the host task, both slots and the display task together: reachable, current data, deadlines neither missed nor early | 1, 30 and 300 s as 1, 2 and 3 ticks, 2 contents of `msd`: only the order of the times matters. Idle and transfer deadlines of 5 and 15 ms, that is 2 and 6 ticks of 5/2 ms: a tick is not a whole number of ms, as 125/16 is not. Both counters wrap at 64; transfers start at tick 0, at 23, with od_millis about to wrap, and at 60, with os_time about to; each is followed for 9 ticks (`MaxAge`): three past its deadline, in which commands may go on arriving and running for any time, and `overtime` may count to 2 and more. |
| `AdvertisingStop` | finding 2 | 1, 30 and 300 s as 1, 3 and 5 ticks; stops at the first violation |
| `Session` | any command sequence, and how long a command keeps the task quiet | 2 images (a base and another), 2 parts of data, one for each plane of a window; refreshes are reset by START, so the state space is finite without a bound. Times are the code's: 30 s for BUSY, 6 s for a notification, 60 s for an event, 120 s for the check-in; 25 chunks of configuration. |
| `Inflate` | Is the output the stream's, wherever it is cut, and is every wrong stream refused? Does it amount to decoding byte by byte (`WholeSpec`), and do tables, trees and window hold what is read of them (`InBounds`)? | The real tables, 512-byte window and 16-byte buffer. 21 streams: stored, fixed and dynamic blocks, copies that overlap and that cross the window's end, tables with every kind of run, and one stream for each way the decoder refuses one. Every cut into parts of 0, 1, 2, 5 and 100 bytes, and a new transfer begun after any part. |
| `Security` | any order of challenges, proofs, commands, configuration changes | 2 keys, 2 challenges, 2 host and 2 device counter values (so the device counter reaches its end), 2 attempts a window |
| `Clock` | access by access | none needed |

`PipeWindow` runs are without deadlock checking: a client sends at most
`MaxStarts` transfers and then stops. All others are checked for deadlock.

Two runs show a disagreement between code and documentation:

1. `LinkIdleUnsubscribe`: after an unsubscribe while a command is under way the
   idle callout is never set again (main.c:110, 214, 329), so the connection has
   no deadline until another command completes. `IdleKept` in `LinkSafety` shows
   that this is the only way.
2. `AdvertisingStop`: `slow_advertising` is set before `ble_gap_adv_stop` is
   known to have worked (main.c:251-252); after one refusal the tag goes on at
   the fast interval. `FastWindow` in `HostTimers` shows that without a refused
   stop fast advertising is bounded.

What the runs brought out without being a disagreement:

* `NoForeignSession` and `ExpiredDropsQueue` rest on the priority of the host
  task: without it (`HostFirst = FALSE`) both fail, the command queued behind an
  expired transfer running before the host has handled the end of that transfer.
  `LinkPriority` takes the priority at its word; the host task's own waits for
  the controller inside a callback are not modelled.
* A magic write that lands but is reported as failed is adopted at the next
  start (`LandUnreported`); the image is complete and valid, but the client was
  told no.
* A repetition of the last raw frame after the automatic finish is answered by a
  fatal SACK (protocol.c:114): the transfer is done by then.
* A failed `epd_off` leaves the panel powered until the next transfer ("stuck").
* Idle abort leaves the authentication to the disconnect that follows.
* od_millis multiplies a wrapped tick count (platform.c:22), so a transfer that
  runs across the wrap of os_time, every 388 days, is found over at once: the
  jump makes the difference too large, never too small. `NotCutShort` names this
  exception (`Wrapped`); `TransferEnds` needs none.
* The longest time a command keeps the display task quiet is well below the 120
  s of the sanity check because a notification that is sent checks in and one
  that fails ends the command; the reserve is what `SanityKept` measures.
* After a refused set of the advertised data the old ones stay on the air until
  the next sample; `AdvertisedCurrent` allows for this (`airedRefused`).

## 4. Fairness

* `Link!FairSpec`: the host task handles its events (WF), the retry callout
  fires (WF), the display task gets the processor again and again (SF, because
  under priority its steps are disabled whenever the host has work, and the host
  sleeps between events). No fairness for the client, the connection, or the
  idle callout; a command may compute for ever only in the sense that
  `CommandEnds` stays enabled, which `SF(Leave)` forbids: all waits below
  `od_secure_command` are bounded (epd.c:57, telemetry.c polls).
* `PipeWindow!FairSpec`: the device executes commands, the client reads
  responses and sends END (WF), and goes on sending while frames are missing and
  there is room (SF: room comes and goes). `Completes` is about fault-free
  transfers only.
* `Advertising!FairSpec`: time passes and a due callout fires.
* `Inflate!Spec`: a poll that has begun goes on (WF), for od_inflate_feed is one
  call that waits for nothing.
* `Clock!FairSpec`: the interrupt is served and hardware finishes what was
  started; nothing is assumed of the radio.

## 5. Proofs

Every safety invariant and action property of the runs is a theorem for all
values of the constants that satisfy the named assumptions; of `Faithful` and
`Verdict` of `Inflate` it is proved that they hold for any cuts if they hold for
parts of one byte. Each proof has the same plan: an inductive invariant (`IInv`),
one lemma for each action or for each function an action is made of, and the
property from the invariant. Every property was checked by TLC before it was
proved, and so were the invariants that TLC can evaluate (`IInv` and `BInv` of
`Inflate` quantify over all inputs and all trees). `TypeOK` of `ConfigStore` and `Link` follows from
their invariants and has no run.

### ConfigStore

`ConfigStoreProofs` rests on `ImageAssumption`, `PageAssumption`, `SeqAssumption`
and `InputAssumption`:

| Theorem | Statement |
|---|---|
| `StoreInvariant` | `Spec => []IInv` |
| `StoreTypes` | `Spec => []TypeOK` |
| `RunningSlotIntact` | `Spec => []ActiveIntact` |
| `WritesOnErasedFlash` | `Spec => []EraseBeforeWrite` |
| `SlotsOneStepApart` | `Spec => []OneStepApart` |
| `StoreIsRegister` | `Spec => RegisterSpec` (refinement) |
| `DurableChanges` | `Spec => DurableOnlyFromUpload` |

`ActiveIntact` is not inductive: that an update leaves the running slot alone
needs that it works on the other one, and that what becomes active is valid
needs that the cells before `received` hold what was sent and the rest is
erased. `UpdateInv` says so for each place an update can stand (`OffInv`,
`EraseInv`, `StagedInv`, `CallInv`). `OneStepApart` needs in addition that a
page torn by a reset is not a valid image with a strange sequence number, which
holds because header and first cell share page 0 (`PageAssumption`): either the
magic is gone or the first cell is. The refinement maps `durable` to what
`PickSlot` would load and `running` to what `od_store_data` returns, and follows
from `IInv`: with slots one step apart, the signed comparison picks the slot
written last also across the wrap.

### Link

`LinkProofs` is for any finite set of command slots and any number of tries and
responses (`LinkAssumption`). It needs two generations more than slots, so that
a new connection finds one that no slot and no display task remembers; the
code's counter has 2^32.

| Theorem | Statement |
|---|---|
| `LinkInvariant`, `LinkTypes` | `Spec => []IInv`, `Spec => []TypeOK` |
| `SlotsAccounted` | `Spec => []SlotAccounting` |
| `OneToken` | `Spec => []TokenDiscipline` |
| `IdleDeadlineKept` | `Spec => []IdleKept` |
| `RepliesAreCurrent` | `Spec => NoStaleReply` |
| `PriorityInvariant` | with `HostFirst`, `Spec => []PriorityInv` |
| `NoForeignSessionUsed` | with `HostFirst`, `Spec => []NoForeignSession` |
| `ExpiredTransferDrops` | with `HostFirst`, `Spec => []ExpiredDropsQueue` |

A queue holds an event at most once (`QueueOK`), and the lemmas about `Put`,
`Tail` and `Cancel` say what they do to the set of its events. `SlotInv` then
relates the state of a slot to the queue its event is in and to the display
task, `TokenInv` the semaphore to the places a try can be at (`Trying`), and
`GenerationInv` says that a command is of the subscription that is current exactly
if its generation is.
What happens under the priority needs three more facts: a command that found its
transfer expired is in the hands of the host, with nothing held (`DropInv`);
without a connection nothing is of the current subscription but a sample
(`ApartInv`); and where something is held that is not this subscription's, an
abort is in the queue before every command that could use it (`LeftoverInv`).
Without the priority, as section 3 reports, neither of the two properties holds.

### PipeWindow

`PipeWindowProofs` is for any modulus, any length of the mask up to half of it,
images of any length, any number of transfers and of frames on the way, with or
without faults and losses. The window is 1 or 2 (`PipeAssumption`): the code has
one buffer for an early frame, which is right for no larger window.

| Theorem | Statement |
|---|---|
| `PipeInvariant`, `PipeTypes` | `Spec => []IInv`, `Spec => []TypeOK` |
| `PanelInOrder` | `Spec => []InOrder` |
| `OneBufferIsEnough` | `Spec => []PendingIsSuccessor` |
| `AckIsExact` | `Spec => []SackExact` |
| `AcknowledgedIsHeld` | `Spec => []AckedAreHeld` |
| `WindowIsAccepted` | `Spec => []NoFalseReject` |

With n frames drawn and perhaps one buffered, `highest` and `mask` are what
`TopOf` and `MaskOf` say; the shifts of the mask that `pipe_data` does are shown
to lead from one such value to the next. A number says which frame is meant only
within half the modulus (`DeltaIs`), so the invariant has to say that no frame and
no acknowledgement on its way is further off: a frame is within a window of every
frame before it in the channel and of what the device holds (`InboxInv`), an
acknowledgement is true when it arrives although the device has gone on, and
later ones say more (`OutboxInv`), and what the client takes for acknowledged is
held and was sent (`ClientInv`). `PhaseInv` tells the messages of one transfer
from those of the next.

### Session and Panel

`SessionProofs` is for any images, any even number of parts and any waiting times
with 3 waits for the panel and a notification below the limit of the sanity
check (`SessionAssumption`; 96 s and 120 s in the code).

| Theorem | Statement |
|---|---|
| `SessionInvariant`, `SessionTypes` | `Spec => []IInv`, `Spec => []TypeOK` |
| `EtagIsOfImage` | `Spec => []EtagTruth` |
| `PanelIsOff` | `Spec => []PanelOff` |
| `ChecksIn` | `Spec => []SanityKept` |
| `RefreshedWhole` | `Spec => RefreshWhole` |

A command is a set of results, so a lemma about one of its functions says what
holds of every member of the set, early returns and failing calls included. The
invariant is `Good(Now)`: the driver's flag and the supply agree (`Asleep`), the
panel is on exactly during a transfer (`Powered`), the ETag is that of the glass
(`Tagged`), and the two RAM planes hold what the parts written so far make of
them (`Running`, `Holds`), for a window first the old plane and then the new one.
`EpdWrite` and the configuration reply are recursive functions over the parts;
their closed forms are shown by induction (`NatInductionSet`). For the check-ins
each function has its own bound on the time it adds; `Limit` is the worst of all
commands, a START that stops a transfer and then fails.

### Clock

| Theorem | Statement |
|---|---|
| `ClockInvariant` | `Spec => []IInv` |
| `Calibrates` | `Spec => []CalibratesOnCrystal` |
| `CrystalReleased` | `Spec => []LetsGo` |

`Clock` has no constants, so its run is exhaustive already; the invariant says
why it holds. Exactly one phase of the interval is under way (`OnePhase`), the
crystal's count is the radio's request and the phase's own (`CrystalInv`), and a
start event that is there while one is awaited is of a crystal that runs
(`StartInv`), which is what clearing the event before the request is for.

### Advertising and HostTimers

`HostTimersProofs` rests on `AdvertisingAssumption` (1 s < 30 s < 300 s) and
`TimersAssumption`: the idle time is shorter than the transfer's, that is a whole
number of ticks, and both it and the age a transfer is followed to are less than
half the range of the clock.

| Theorem | Statement |
|---|---|
| `RadioInvariant`, `RadioTypesHold` | `Spec => []IInv`, `Spec => []TypeOK` of `Advertising` |
| `Reachable` | `Spec => []StaysReachable` |
| `FastBounded` | `Spec => []FastWindow` |
| `DataCurrent` | `Spec => []AdvertisedCurrent` |
| `TimersAdvertise` | `TimersSpec => Spec`: `HostTimers` implements `Advertising` |
| `TimersReachable` | the three properties under `TimersSpec` |
| `TimersInvariant` | `TimersSpec => []TInv` |
| `TransferAlwaysEnds` | `TimersSpec => []TransferEnds` |
| `PatienceInvariant` | `TimersSpec => []PInv` |
| `NeverCutShort` | `TimersSpec => NotCutShort` |

`StaysReachable` is nearly inductive: it needs that nothing is on the air
without a controller or with a connection (`AirFree`). `FastWindow` is not: the
time spent says nothing of the time to come, so `FastLeft` has both, the ticks
since the start and those left on the callout, and that the slow flag is not set
yet. `AdvertisedCurrent` is strengthened to all times at which no *command* is
under way (`Copied`): a telemetry sample writes and sets the data in one
callback. `AdvertiseKeeps` is the one lemma about `advertise`; each callback
shows that it calls it in a state where it may.

The end of a transfer has two sides. It is not late: `TransferEnds` counts the
ticks a transfer is overdue while nothing runs or the command that runs began
when it was overdue already, so a client that keeps sending gains nothing by it.
`EndsInv` is the inductive form: no command begins on an overdue transfer, and
once such a tick has passed nothing runs any more. The first half is the question
at the start of each command (`OverdueIsOver`: 15 minutes in ticks are never less
in od_millis, wrapped or not). The second is the callout: `DeadlineInv` bounds
the age plus what is left on the callout, or for a callout set after the deadline
by the last command, what is left of it plus `overtime`, unless an abort is queued
or a command of this connection will set the callout again; `DueInv` says that a
callout that is due finds either no slot in use or a running command. The two
mutants of `TransferEnds` take one half each: `NeverOver` the question, `DelayIdle`
the callout. It is not early (`NotCutShort`) because the same sum is at least the
deadline (`PatientInv`), and because a command of an earlier connection, which
resets the time without a command but not the callout, ends with an abort still
queued (`StrangerInv`). Both rest on the arithmetic of od_millis: the difference
of two wrapped conversions is within half a millisecond of the ticks
(`ElapsedTime` from below, `ElapsedAtMost` from above while os_time has not
wrapped), and a wrap of os_time adds half the range (3/16 of it with the code's
125/16 ms to a tick), which makes a transfer older, never younger.

### Security

`SecurityProofs` rests on `SecurityAssumption`, for any set of keys and any width
of the counters:

| Theorem | Statement |
|---|---|
| `SecurityInvariant`, `SecurityTypes` | `Spec => []IInv`, `Spec => []TypeOK` |
| `GateAlwaysHolds` | `Spec => GateHolds` |
| `ExecutedOnce` | `Spec => NoReplay` |
| `NoncesOnce` | `Spec => []NonceOnce` |
| `ChallengesLimited` | `Spec => []LimitHolds` |

The invariant ties the session to what happened before it: the configuration's
key is among those it was opened with, its counters are past every number used
in it (`SessionInv`), a challenge not answered yet has no session (`PendingInv`),
and the numbers of host and device are apart (`Numbers`). `Forgets` covers every
step that at most drops the session.

### Inflate

`InflateProofs` is for any set of streams, zlib streams or arbitrary bytes, any
sizes of the parts and of the buffer (`InflateAssumption`) and any window of 2^9
to 2^15 bytes (`ZlibStreamAssumption`), with the tables as they are in the code.

| Theorem | Statement |
|---|---|
| `Invariant` | `Spec => []IInv` |
| `CutAnywhere` | `Spec => WholeSpec` (refinement) |
| `InBoundsAlways` | `Spec => []InBounds` |
| `FaithfulInParts` | `Spec /\ (Whole!Spec => []Whole!Right) => []Faithful` |
| `VerdictInParts` | `Spec /\ (Whole!Spec => []Whole!Right) => []Verdict` |

**Cuts.** A reader that finds no input has still been begun: it has set up its
state and read nothing. So the decoder after a part is not in a state of the
decoder that had all the bytes, and no equality of states is invariant. `Unread`
forgets such a beginning, and `Resumes` says that the next step is the same with
or without it, for every input. That follows from one lemma for each reader and
each stage (the lemmas named `...Cut` and `...IsRegular`): without input a stage
either works without, or leaves its state but for `Unread` and works on the first
byte that comes. The mapping gives `WholeStream` the state without its vain
beginnings, as input what is left of the part and everything after it, and as
output what was handed on and what is in the buffer. A failing stream is seen
later in parts than byte by byte only within its part, which `Breaks` allows.

The hypothesis of the last two theorems speaks of `WholeStream` alone: whenever
the decoder needs a byte, or is done, its output is what the bytes before stand
for, it is done exactly at the stream's end, and it breaks off at the byte that
shows the error. That is an induction over the data of a stream, out of the
prover's reach. The run has parts of one byte, and its 21 streams satisfy
`Faithful` and `Verdict` with them; the theorems add every other way to cut.

**Bounds.** `BInv` says of every place the decoder can stand at what its tables,
trees, readers and window hold there (`Bounded`, the places `At...`), and one
lemma for each stage shows that its step leads from one place to another
(`StepSound`). Three arguments carry it:

* *Trees.* `trans` lists the symbols by code length, and within one length in
  their order: that the place of a symbol is the number of those before it
  (`Earlier`), and that every place is taken (`PlacesAreTaken`), is shown from
  the cardinalities. What `decode_symbol` has in `sum` and `cur` after some bits
  is the number of symbols with codes no longer than that, and a value not below
  zero (`CodeFits`), so an index below `sum + table[len]` is one of `trans`,
  whatever the bits and also if the lengths make no complete code. So the errors
  of od_zlib_stream.c:188-204 cannot happen.
* *Lengths.* `hlit`, `hdist` and `hclen` are within their ranges by what
  `read_bits` can return (`BitsFit`: the value grows by the bits read so far), a
  run fills at most the places left of `lengths`, and what has been filled is in
  0..15.
* *Window.* Its last bytes are the end of the image, going back from `windowPos`
  around its end (`Mirrors`), and a byte written keeps it so (`WrittenMirrors`).
  A distance beyond `count` or the window is refused where it is read, so a copy
  is of what the image had that many bytes ago.

### What stays model-checked, and what to know of the prover

* Liveness (`SlotFreed`, `ForeignCleared`, `Completes`, `KeepsCalibrating`,
  `ComesBack`): out of the prover's reach, as is `ENABLED`.
* That the decoder is right about a stream that comes byte by byte
  (`Whole!Right`), on which `FaithfulInParts` and `VerdictInParts` rest: it
  compares the decoder with `Deflate`, whose operators are RECURSIVE over the
  data; tlapm has no SMT backend in a module that reaches one, and no induction
  over the data. `MCInflate` therefore gives `Inflate` the meaning of its streams
  as a constant.
* The library's induction theorems take an operator as a parameter, which no
  installed backend can instantiate. `NatInductionSet`, in the modules that need
  it, is for a set instead: the numbers for which the claim holds. It follows from
  the well-foundedness of the order and serves for functions that recur over a
  number.
* No backend gets through an obligation with a long interval between literals
  (`0..65535`); it is written `0..2^16 - 1`.
* tlapm 1.4.5 treats `Len` of a function whose domain is not an interval from 1
  loosely, so sequences are kept as functions on `1..n` throughout.
* tlapm and SANY differ in the precedence of `%`, `UNION` and `=>` in a list of
  conjuncts; there they are in parentheses.

## 6. Assumptions at the edges

* Flash: an operation that fails or is interrupted leaves its target range
  unchanged, done, or spoilt (`Broken`); the validation rejects a spoilt or
  erased image cell (a 16-bit CRC does so only with high probability). A torn
  erase may keep the magic and length, the worst case; a torn magic write never
  reads as the magic unless complete.
* NimBLE: no GATT write without a connection, `ble_gap_terminate` that succeeds
  leads to DISCONNECT, ADV_COMPLETE and DISCONNECT precede `on_reset`.
* Crystal: the reference count is atomic; the radio releases it from the link
  layer task, not between two accesses of the calibration interrupt. If a radio
  interrupt could release it between hal_bsp.c:39 and 41 while the start event
  is set from before, calibration could begin before the crystal runs again.
* Cryptography is ideal; challenges do not repeat.

## 7. Plan

Done, in this order: `ConfigStore` with proofs, `Link`, `PipeWindow`,
`Advertising`, `Session`, `Security`, `Clock`; then `Inflate` with `Deflate`,
`Panel` under `Session`, msd in `Advertising`, `HostTimers` over it; then the
theorems about `Advertising`, `HostTimers` and `Security`, and those about `Link`,
`Clock`, `Session`, `PipeWindow` and the deadlines; then `Inflate` divided into
`ZlibStream`, `Inflate` and `WholeStream`, its refinement and its bounds.

Left for the proofs: what the decoder makes of a stream that comes byte by byte
(`Whole!Right`), which needs a prover that can do induction over the bits.

Left for the model: the whole of `Link` with the timers of `HostTimers` in one
run (each has the other's events as external ones), and `PipeWindow` shown to
implement the PIPE part of `Session`.

## 8. Not modelled

* Wire formats, rectangles and byte counts; the contents of computed replies
  (0x40, 0x43, 0x44, 0x51-0x53, 0x73, 0x75, 0x77, 0x83), of which `Session` has
  the time they take and the failure to send them.
* SPI output, LUT tables and register values of `epd.c`.
* The ADC and TEMP registers of `telemetry.c`, polled for 50 ms each: the sample
  succeeds or fails. That an advertisement can mix two samples while a command
  writes `msd[]` is in the model; a mixture is one of the values of `Data`.
* In the decoder: `input_final` and the NULL checks, which this firmware does not
  use, and the errors for a bad tree or symbol: `InBounds` says that no input
  leads there.
* The hardware watchdog and the sanity task of Mynewt, NimBLE, the nRF51; stacks
  and memory sizes; build, generator and flashing scripts; `tools/upload.py`,
  whose command order is one of those `Session` admits.

## 9. Running

    tlasany Link.tla
    tlc -workers 2 -config LinkSafety.cfg Link
    tlc -workers 2 -config MCConfigStore.cfg MCConfigStore
    tlapm ConfigStoreProofs.tla
    tlapm LinkProofs.tla
    tlapm PipeWindowProofs.tla
    tlapm SessionProofs.tla
    tlapm SecurityProofs.tla
    tlapm ClockProofs.tla
    tlapm HostTimersProofs.tla
    tlc -workers 2 -config MCInflate.cfg MCInflate
    tlapm InflateProofs.tla

`PipeWindowProofs` and `SessionProofs` take a few minutes each, `InflateProofs`
takes ten.
