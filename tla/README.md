# xnormidi in TLA+

TLA+ specifications of [xnormidi](../src/README), a MIDI library in C for small
microcontrollers: model-checked with TLC on small instances, and in part proved with
TLAPS for every value of the parameters. Paths below are relative to the repository (`src/`).

1. [The system](#1-the-system)
2. [Modules](#2-modules)
3. [Runs: what is checked, within which bounds](#3-runs)
4. [Fairness](#4-fairness)
5. [Proofs](#5-proofs)
6. [Assumptions](#6-assumptions)
7. [Where code and documentation disagree](#7-where-code-and-documentation-disagree)
8. [What is not modelled](#8-what-is-not-modelled)
9. [Plan](#9-plan)

## 1. The system

Everything runs on one AVR core: a main program and interrupt service routines. There are no
threads and no locks; the only synchronisation is the global interrupt flag.

```
 receive interrupt ─┐                                               ┌─ callbacks of the program
 usb_get_midi ──────┴─> midi_device_input ─> input_queue ─> midi_device_process
  (pre-input callback)                                      └> midi_process_byte
                                                               └> midi_input_callbacks

 midi_send_*  ─> send_func ─┬─ serial_midi_send_usartN ─> queue_usartN ─> ISR(USARTN_UDRE) ─> USART
                            ├─ serial_midi_send (serial/old), waits ─> USART
                            └─ usb_send_func ─> four byte event packets ─> USB ─> host
 host ─> OUT endpoint ─> usb_get_midi (loops until the endpoint is empty; then USB_USBTask)
```

| component | state | operations | what is hard | what makes it correct |
|---|---|---|---|---|
| **bytequeue** (`bytequeue/`) | ring buffer: `start`, `end`, array; the interrupt flag | init, enqueue, length, get, remove; store/clear and restore the flag | an interrupt between any two memory accesses; `bytequeue_get` is not guarded; nested save and restore of the flag; wrap of the indices | it is a bounded FIFO whose calls each take effect at one instant; a caller gets its own flag back |
| **midi parser** (`midi_device.c` 91–290, `midi.c` 28–72, 218–276) | `input_state`, `input_count`, `input_buffer`, the registered callbacks | one byte in; one message out to callbacks; register | long legal sequences that leave state, count and buffer not fitting each other; realtime bytes inside messages; running status; system exclusive (sysex) messages in chunks; callbacks that change the registration while they run; an uninitialised buffer | the bytes come out as the messages they are: each once, whole, in order, with the right callback |
| **process loop** (`midi_device.c` 30–89) | `input_queue`, the pre-input callback, the loop's locals | input, process, set the pre-input callback | the length is taken once and used while interrupts enqueue; refused bytes are not noticed | every byte that found room is parsed once, in order and eventually; a call returns |
| **serial_midi** (`implementations/serial/`) | output queue, enable bit of the interrupt, the USART's registers | send, transmit interrupt | the interrupt turns itself off while the sender is half way; one enable bit, two different routines; sends from interrupt routines | no lost wakeup; bytes leave once and in order; the interrupt comes to rest |
| **send functions** (`midi.c` 74–215) | none | `midi_send_*` | clipping, masking, splitting arrays by three | the matching callback at the other end is called with what the function was given |
| **midi_usb** (`implementations/lufa_midi/midi_usb.c`) | LUFA's endpoints and connection | `usb_send_func`, `usb_get_midi`, `midi_usb_init`, the events of LUFA | event codes chosen by the first byte and the count, sysex by its length; the endpoint is emptied into a queue that may be full; unplugging | as for the send functions, at a host and at the library itself; what is taken whole is processed whole; polling ends |
| **USB descriptors** (`Descriptors.c/h`) | constant tables | `CALLBACK_USB_GetDescriptor` | the same facts stand in four places | a host finds the interfaces, jacks and endpoints that the driver uses |
| **old serial driver** (`implementations/serial/old/`) | the USART's registers | `serial_midi_send` | busy waits | no byte overwritten; no wait for ever |
| **sysex_tools** | none | encode, decode, both lengths | last groups of fewer than seven bytes | what is decoded is what was encoded, through the whole chain |
| **example programs** | `basic.c`: history of readings, program number; `lufa_midi/main.c`: callbacks that answer | the main loops | start-up, wrap of the program number in a `uint8_t`; a callback that sends for each byte of a chunk | debounced; the receiver's program follows; each message of the host is answered once and in order |

Components interact by calls (arrows above), by shared state (the queues, between interrupts
and the main program) and by callbacks (parser to program, process loop to driver). The list of
hazards, each at its line and with the properties that would show it going wrong, is in
`PROJECT.json` under `hazards`.

## 2. Modules

Abstract specifications say what is promised; detailed ones follow the code, one action for each
operation or step, named as in the code. `map` in `PROJECT.json` gives the lines of each definition.

| module | what it is |
|---|---|
| `BoundedFifo` | abstract: a bounded FIFO with calls that take effect between their start and their return |
| `ByteQueue` | `bytequeue.c`, `interrupt_setting.c`, and the core (entry and return of interrupts, `sei`/`cli`); one step per access to shared state |
| `ByteQueueProofs` | its invariants and its refinement of `BoundedFifo`, proved |
| `MidiBytes` | the constants of `midi.h`, `midi_packet_length`, `midi_is_statusbyte`, `midi_is_realtime` |
| `MidiStream` | abstract: a MIDI stream, bytes in, messages out |
| `MidiParser` | `midi_process_byte`, `midi_input_callbacks`, registration |
| `MidiParserProofs` | its invariants, and its refinement of `MidiStream`, proved |
| `MidiReception` | `MidiParser` and `MidiStream` side by side on the same, arbitrary bytes |
| `MidiReceptionProofs` | what `MidiReception` says of losing and regaining the wire, of the chunks of long sysex messages and of the calls it makes, proved |
| `MidiInput` | abstract: a `MidiStream` behind a queue |
| `MidiDevice` | `midi_device_init/input/process`, extends `MidiParser` |
| `MidiDeviceProofs` | the counted bytes stay; the safety part of the refinement of `MidiInput` for streams without sysex, proved |
| `SerialLine` | abstract: a line that takes bytes and emits them in order |
| `SerialMidi` | `serial_midi_send_usart0/1`, both transmit interrupts, the USART |
| `SerialWire` | `SerialMidi` and a `MidiStream` that listens, with a queue that may be full and interrupt routines that send |
| `SerialMidiProofs` | no lost wakeup, the safety part of the refinement of `SerialLine`, and what the listener of `SerialWire` hears, proved |
| `MidiSend` | the `midi_send_*` functions, as the calls of `send_func` they make |
| `UsbMidi` | `usb_send_func`, `usb_get_midi`, and what a USB host reads |
| `MidiRoundTrip` | send functions, a cable, and `MidiParser` at the other end |
| `SysexTools` | `sysex_encode`, `sysex_decode` and the two lengths |
| `SysexTransfer` | `MidiRoundTrip` carrying encoded data |
| `MidiRoundTripProofs` | `sysex_decode` undoes `sysex_encode`, what each send function causes at the other end of each cable, and that data arrive, proved |
| `Debouncer` | abstract: what debouncing means |
| `OldSerialMidi` | `serial_midi_send` of `serial/old`, its busy waits and the USART |
| `BasicExample` | the loop of `basic.c`, with `OldSerialMidi` and `MidiSend` |
| `BasicExampleProofs` | its refinement of `Debouncer`, the program number and the bytes on their way out, proved |
| `UsbDescriptors` | the tables of `Descriptors.c`, `CALLBACK_USB_GetDescriptor`, and what a host looks for in them |
| `EchoExample` | `lufa_midi/main.c` on top of `usb_get_midi`, `MidiDevice`, `MidiSend` and `UsbMidi`, with a host that is plugged in and out |
| `EchoExampleProofs` | each message of the host that found room is answered, in order, proved |
| `MC…` | model values and definitions for TLC |

Granularity and correspondence, where it is not plain from the names:

- **ByteQueue.** `pc[c]` is where context `c` (the main program or an interrupt routine) is inside a queue
  function; `ie` is bit I of SREG, `callerIe` what the main program itself last set. `EnterInterrupt`
  is possible between any two steps while `ie` is set and clears it, as the hardware does;
  `ReturnFromInterrupt` is `reti`. `avail` is not in the code: it is what the reader has been told by
  `bytequeue_length` and has not removed since, the discipline both callers of `get` and
  `remove` keep. The indices are computed as `uint8_t`.
- **The modules above the queue** use a sequence for it and one step for each of its calls. That is
  what `ByteQueueProofs` proves to be enough.
- **MidiParser.** One action of `ProcessByte` is one branch of `midi_process_byte` up to its call of
  `midi_input_callbacks`; then there is one step for the specific callback, one for the fallthrough, one
  for the catch-all, each of which may change the registration, and `Return`, the rest of the branch. `called` is the
  local of the same name; `calls` records what was called, for the properties.
- **MidiDevice.** `at`, `len`, `i`, `val` are the program counter and locals of
  `midi_device_process`; `ReceiveInterrupt` may come between any two steps, also between two callbacks.
- **SerialMidi.** `usart` is 0 or 1 and never changes: the two routines differ in how they turn the
  interrupt off, everything else is the same code twice. The send function enqueues byte by byte, and
  interrupts may come between; the interrupt routine is one step, as nothing but the USART runs beside it.
- **MidiRoundTrip.** An operation is a send function with its arguments; `due` is the list of
  callbacks it should cause at the other end, `underway` the bytes on the cable.
- **SerialWire.** The program sends whenever it likes, and interrupt routines do, too. `outbox` lists the messages
  all of whose bytes found room, in the order in which they were put into the queue, until they are heard; `whole` is
  about the one being enqueued. `torn` is set when a byte is refused or a message is separated, and cleared
  when the next send finds nothing left anywhere: in between, the order of what is heard says nothing, but `AllHeard` still does.
- **BasicExample.** A round of the loop is one step up to its messages, since nothing else touches its variables;
  the messages are then sent step by step, between steps of the USART, and the next round begins when the driver has taken
  them all.
- **EchoExample.** `inbox` is the OUT endpoint, `connection` LUFA's device state. `Take` is one round of the loop in
  `usb_get_midi`. `USB_USBTask` is called at the end of `usb_get_midi` and of `usb_send_func` and nowhere
  else, since `INTERRUPT_CONTROL_ENDPOINT` is not defined: only there can a host configure the device. `replying` is
  what a callback has still to send; the callback goes on when it is empty. `due` is what the host may expect.
  `torn` is set when a packet does not fit into the queue or the host is unplugged between two packets of a message (`open`),
  and cleared when a message begins with the queue empty and the parser is outside of sysex or a new one begins.
- **UsbDescriptors.** A descriptor is the record of the fields a host goes by; `HostAccepts` is the host's walk through
  them, and a condition of being configured.

Each module also holds a few *faults*: actions or operators with one plausible mistake, not used
by any specification. Put in the place of the sound definition they name, they
must make a property fail (`mutants` in `PROJECT.json`): every property was seen to fail this way.

## 3. Runs

All passing runs explore their whole state space; deadlock is checked in all of them.

| run | module, cfg | asks | states |
|---|---|---|---|
| `queue_input` | `MCByteQueue`, `ByteQueueInput` | is the queue a FIFO, with the main program reading and it and two interrupts writing? (`ImplementsFifo`, `MutualExclusion`, `NoNestedInterrupt`, `CallerSettingKept`, `KnownBytesStay`) | 151 000 |
| `parser_orderly` | `MCMidiParser`, `MidiParserOrderly` | do the bytes of an orderly sender come out as its messages? (`ImplementsStream`, `StatusKept`, `CalledInOrder`) | 86 000 |
| `reception_any` | `MCMidiReception`, `MidiReceptionAny` | what remains of that for any bytes whatever, and for sysex messages longer than `input_count` can count? (`NoFalseCall`, `SysexPlace`, `SyncLostOnlyInSysex`, `StatusResynchronises`) | 396 000 |
| `device` | `MCMidiDevice`, `MidiDevice` | is every byte that found room parsed, in order, eventually, and does `midi_device_process` return? (`ImplementsInput`, `CountedBytesStay`, `ProcessEnds`) | 126 000 |
| `serial` | `MCSerialWire`, `SerialWire` | does every queued byte leave, once and in order, does the interrupt come to rest, and does the other end hear every message that found room, although others do not? (`NoLostWakeup`, `HeardInOrder`, `ImplementsLine`, `ComesToRest`, `AllHeard`) | 317 000 |
| `transfer` | `MCSysexTransfer`, `SysexTransfer` | over all three cables: does every send function cause its callback with its arguments, and does encoded data survive? (`HeardAsSent`, `AllCalled`, `PayloadIntact`) | 876 000 |
| `basic` | `BasicExample`, `BasicExample` | does the ring of readings debounce, does the program number go around, and does the waiting driver lose nothing and let the loop go on? (`ImplementsDebouncer`, `ProgramFollows`, `LeavesInOrder`, `LoopGoesOn`) | 53 000 |
| `echo` | `MCEchoExample`, `EchoExample` | is every message of the host that found room answered, once and in order, with the queue overrun and the host unplugged at any time; does polling end; does a host get the device configured? (`EchoedInOrder`, `AllEchoed`, `PollEnds`, `Enumerated`) | 297 000 |
| `reception_truncated`, `serial_wire_isr`, `trip_host_common`, `trip_usb_by_byte` | | four counterexamples: section 7 | |

Bounds, and why they are enough:

- `QueueLength` 4 in `queue_input`: three bytes fit, so the indices wrap in both orders, the queue is
  full and empty, and `get` with an index reaches across the wrap. Two interrupts suffice to ask whether one can interrupt
  the other; two byte values tell bytes apart, and the queue never looks at them, so
  they are symmetric. The proofs cover every length up to 255, any number of interrupts, and an
  interrupt routine as reader, as for the output queues.
- `CountRange` 16, 64 and 10 in `parser_orderly`, `transfer` and `echo` (65536 in the code). The parser uses the count by 3
  only; like 65536 the bounds leave remainder 1 by 3, which `MidiParser` assumes. `OrderlySpec`, the payloads and the host's
  messages keep sysex below them. 4 in `device`, which has no sysex: there the count does not exceed 3. 7 in `reception_any`, with
  sysex messages of up to `MaxSysex` 11 bytes: the count wraps, and a chunk begins, ends and is cut off after the wrap.
- Bytes: one or two of each class of `midi_packet_length` that the parser treats differently
  (two, three and one byte messages, undefined, realtime, both ends of sysex), two data bytes. Which status
  byte belongs to which callback is checked for every kind in `transfer`, with the limits of the arguments' ranges.
- Callbacks: the ones whose presence changes the control flow; `parser_orderly` and `reception_any` let each
  of them be registered and unregistered at any time, also from inside a callback.
- `QueueLength` 3 in `device` (two bytes fit): bytes are refused, arrive while others are processed, and
  the queue is refilled inside the loop. 3 in `serial`: a note on (three bytes) never fits unless the
  interrupt takes a byte meanwhile, a program change (two) otherwise only into an empty queue. 6 in `echo`: five bytes, so that the second
  message of the host overruns what the first has left. 8 in `serial_wire_isr`, so that there is room: it asks about mixing alone.
- `EndpointRoom` 2 (16 in the code): the endpoint is empty, partly full and full, and holds packets of two messages.
- `MaxUnderWay` 1, in the round trips only: operations follow each other without
  end, but the next one starts when the last one's calls are done.
- Payloads of 0 to 16 bytes: all lengths by 7 (groups), by 8 and, framed, by 3 (chunks), one and
  two groups, with top bits in changing places.
- `basic`: three buttons are the two that change the program and the one that sends notes; the others are like the third. A
  history of 2 (4 in the code) has a first and a last reading, each of which can be the newest. Three program numbers (128) go around, and
  make 5 of 0 - 1 as the code makes 255.

## 4. Fairness

Fairness is assumed where a comment or the hardware justifies it, and in no other place.

- `MidiDevice`: weak fairness of the main program's next step. "you must call this method frequently" (`midi.h`,
  of `midi_device_process`); callbacks return; the AVR executes one instruction of the main program between
  any two interrupts. Arrival of bytes has no fairness, and may go on without end.
- `SerialMidi`: weak fairness of the send function's next step, for the same reason; of `Load` and `ShiftOut`, since the USART is
  clocked; strong fairness of the transmit interrupt (its condition comes and goes with
  the flag; an AVR takes a pending interrupt after `sei`) and of the main program's turning interrupts on: it
  does not leave them off for ever. `SerialWire` adds weak fairness of the listener's `Settles`: it takes note of a message
  it has heard. Nobody has to send.
- `BasicExample`: weak fairness of the main program (the loop, a send, or the driver's wait), and of `Load` and `ShiftOut`. Buttons
  do what they like.
- `EchoExample`: weak fairness of the main program. None for the host and its user, who may send without end, stop in
  the middle of a message, plug and unplug. Therefore `AllEchoed` and `PollEnds` have the alternative that a host that
  never stops sending keeps `usb_get_midi` in its loop: the code has no bound there.
- `ProcessEnds`, `ComesToRest`, `AllHeard`, `LoopGoesOn`, `AllEchoed`, `PollEnds`, `Enumerated` and the liveness part of `ImplementsInput` and
  `ImplementsLine` rest on these.
- The abstract specifications state their fairness without `ENABLED`, with what enables the action written out.

## 5. Proofs

Checked by `tlapm`; each theorem holds for every value of the constants that satisfies the
named assumptions in the module that declares them. `theorems` in `PROJECT.json` lists them.

**ByteQueueProofs.** Types, `MutualExclusion`, `NoNestedInterrupt`, `CallerSettingKept` and
`KnownBytesStay`, for every size of queue up to 255 slots, every set of interrupts and either kind of reader. None is
inductive by itself. The inductive invariant adds: the interrupt flag is off exactly when somebody
owns it (a context between `cli` and restore, or an interrupt routine); saved settings are
what they must be to give the flag back; the context that has the core, and those it has interrupted,
form a chain; each label goes with its operation and its argument; and what a step has
found out (there is room; the comparison of the indices) still holds at the next step.
And `ImplementsFifo`: every step of `ByteQueue` is a step of
`BoundedFifo` or a stutter. The arithmetic of the ring (a byte appended, read at an index and dropped, with
and without wrap) is in lemmas about `Contents`.

**MidiParserProofs.** Types and `CalledInOrder`, for any bytes and any callbacks. `TypeOK` includes that the buffer is
written inside its three bytes and that `ONE_BYTE_MESSAGE` is never left as the state between two
bytes. The invariant adds which branch can be under way in which state, and what may have been
called when `called` is and is not set.

And `ImplementsStream` and `StatusKept`, for every orderly sender (`OrderlySpec`), any `CountRange`
of remainder 1 by 3, so also 65536. `KeptInv` is what has to be added: also in the middle of
a realtime message, slot 0 of the buffer is a status byte of the length that the saved state says, and
the count fits. Without it a data byte might complete a message that has no status. There is one lemma for each branch of
`midi_process_byte`, and one for the chunks of a sysex message.

**SerialMidiProofs.** `NoLostWakeup` for both USARTs, every size of queue and all messages. With the types it is inductive:
outside of the send function a byte in the queue has its interrupt on, because the routine turns it off only
on seeing the queue empty and the send function turns it on last. And the safety part of `ImplementsLine`: the bytes in
the shift register, the data register and the queue, in this order, only ever lose their first byte or gain at the end.

About `SerialWire` the module proves `HeardInOrder` (`HeardWhole`): for every sequence of whole messages of the program and of interrupt
routines, whether there is room or not. What the receiver holds says nothing of what it will hear, so the invariant (`WireInv`) looks
ahead: there is a *run* of the receiver, from what it holds now and over the bytes that are on their way (shift register, data register,
queue), in which it says each message of `outbox` at a place of its own, in order, and nothing else unless `torn` (`Hears`). The run ends with the
part of the message that the send function is in the middle of (`Midway`). A byte put into the queue makes the run longer, a byte shifted out shortens it
at the front; there is one lemma for each, with arbitrary runs. A refused byte sets `torn`, and a quiet port (`Quiet`) makes the run
empty, so that the next one starts anew. `NothingElseHeard` (`WithRoomSpec`, interrupt routines that send realtime messages only) is the positive
counterpart of run `serial_wire_isr`: then `torn` never becomes true, since what the send function has still to enqueue fits (`RoomInv`).

**MidiReceptionProofs.** `StatusResynchronises` and `SyncLostOnlyInSysex`, for any bytes in any order, any callbacks and any
`MaxSysex`. Two facts hold on top of the parser's own invariant even while the parser has lost the wire. `KindInv`: the
state it will have after the call under way is of the kind of the wire's last status byte. `SlotInv`: if slot 0
holds a status byte that data can follow, it and the count fit the state, and inside sysex no such byte is
there. So what a sysex message leaves in the buffer is never taken for a status byte, and losing
the wire takes one of the two steps the property names; one lemma for each branch shows that the next status byte ends it.
`SysexPlace`, for every `CountRange` of remainder 1 by 3 and messages of any length: the count is the length of the message on the wire
modulo its range, and the first `CountAfter % 3` slots hold the last bytes of the message. That is as much as stays true when the count wraps:
the next byte then goes to slot 0 and overwrites the one before, but no chunk is told before the slots it takes are filled again.
`NoFalseCall`, from where the parser must be with the wire although it may have lost it: whenever a status byte that data can follow is
in slot 0 and such a message is under way (`SlotSync`), and inside a sysex message up to the range of the count (`SysexSync`). So what is being
handled is always a message of the wire, or bytes that match no entry of the tables of `midi_input_callbacks` (`DueInv`). That the tables fit
the MIDI names, the lengths in `midi_packet_length` and the bytes whose channel is taken off, for all 256 bytes, is the lemmas `Table` and `Channel`.

**MidiDeviceProofs.** `CountedBytesStay`, for every size of queue, any bytes and any callbacks: with the program counter and locals
it is inductive, because everything but `RemoveByte` only appends. `InputSafety`: for streams without sysex bytes every
step of queue, process loop and parser together is a step of `MidiInput` or a stutter. Without sysex every byte is
one an orderly sender may send, so the lemmas of `MidiParserProofs` carry over; what is added is that the byte being processed is
the head of the queue until it is removed.

**MidiRoundTripProofs, sysex_tools.** `DecodeEncoded`: `sysex_decode` of `sysex_encode` of any bytes gives them back, up to 57343 bytes, the longest
data whose encoded length a `uint16_t` holds. The lemmas are about the places of bytes (groups of seven in the data and of eight in
the code, the last one shorter) and about the byte of top bits, one bit at a time. `EncodedIsData`: none of the encoded bytes has its
top bit, so that they can stand inside a sysex message.

**MidiRoundTripProofs, the round trips.** `HeardAsSent` and `AllCalled`, for `MidiRoundTrip` (`SentIsHeard`, `NothingLost`) and for `SysexTransfer` (`StillHeard`,
`StillNothingLost`), and `PayloadIntact` (`DataArrive`): on every cable, for all operations it carries with any arguments in their ranges, sysex messages of any
length below `CountRange`, any number of operations under way, and for data of any bytes up to the lengths that the `uint16_t`s of encoder and parser allow.
The argument has two halves.

- *What an operation sends.* `Causes(r, bytes, told, calls)`: there is a run of an abstract listener, which starts in state `r` and takes
  the bytes one by one (`NextState`), in which the calls come one after the other, those after the first `told` of them by these bytes, and which ends outside of
  sysex. For each send function a lemma says that what comes out of the cable (`SerialBytes`; the event code and `usb_get_midi`; `HostBytes`) causes the
  call that is promised, whatever the listener heard before (`OpCauses`, `OperationCauses`): the limits of `pitchbend`, the lengths of the event
  codes, the rounds of three bytes of `midi_send_array` and the pieces of three in which they come out again. Runs can be joined (`CausesJoin`).
- *What the listener does.* The invariant (`TripInv`) says that from what the parser holds now, the bytes that are underway cause
  the calls that are due; while a message is on its way to its callback, the first of those is its own call (`Waits`). An operation makes the run longer at the end,
  a byte that arrives takes its first step (`ByteHeard`, from the refinement of `MidiStream` that `MidiParserProofs` proves), the call of the callback takes the first
  of the calls. Clock bytes in between change nothing of the run. That the tables of `midi_input_callbacks` choose the callback the
  sender meant, and cut the arguments out of the bytes, is in `CallIs`. `TransferInv` adds that the pieces of a message that are not due any more
  have been put together.

The two hypotheses of the theorems are in `MidiRoundTrip` and `SysexTransfer`: all operations are carried (`Carries`), all data can be sent (`Sendable`). TLC
evaluates both for the constants of `transfer`.

**BasicExampleProofs.** `ImplementsDebouncer`, `ProgramFollows` and `LeavesInOrder`, for any buttons, every length of the history and every range of
program numbers. The ring (`inputs`, `historyIndex`) is read by age: a round makes every reading one older and puts the new one at age 0, wherever
the index is (`RoundAges`). `RowInv` says that every button has a longest row of equal latest readings; then all of the history agrees with its
first slot, which is what the code compares, exactly when that row is as long as the history (`ConsistentIs`). The messages of the eight
buttons are told apart by their button, so what a round sends is what changed, each once. The program number is always at most
`2 * ProgramRange - 1`, and with both buttons in one round the second starts from what the first has left. For the driver, that `udr` is empty when it writes
(`DriverTypes`).

**EchoExampleProofs.** `EchoedInOrder` (`EchoAnswers`), for every size of queue and endpoint, whatever messages the host sends, the queue overrun and the
host unplugged at any time. The property is about the replies being given and the answers due; between the two lie the packets in
the endpoint, the bytes in the queue and the parser, so the invariant (`EchoInv`) has to relate all of them.

- *What a byte causes.* `Hears(r, b, s, a)`: byte `b` of a message of the host takes the parser from `r` to `s` and causes the answers `a`; `Reaches` is the
  same for a sequence of bytes. For each branch of `midi_process_byte` a lemma says that it does what `Hears` says, and that the callback, called with
  chunk and place, sends just these answers; for each packet of a message another (`PacketHeard`) that its bytes cause the answers the host
  may expect. A callback runs while its byte is still in the queue; `Waiting` are the bytes behind it, and `Now` is
  where the parser will be when the callback is done.
- *What is owed.* `Owes`: the answers due are those being given (`replying`), then those of the callback about to be called (`Pending`), then the ones caused by some of
  the bytes that wait, taken from the front. After an undisturbed
  stream these are all the bytes that wait, and they leave the parser where the host goes on with its message (`Resumes`). After a torn one there
  are more behind them of which nothing is known. The answers due before are still given in order; once none is left nothing is said of the parser until
  the queue is empty and a message begins outside of sysex.
- *What the host does.* `Expects`: the packets in the endpoint continue one another and what was taken before (`Following`), also when
  the host has been unplugged between two packets of a message and comes back with a new one.

That `usb_get_midi` takes 1 to 3 bytes off a packet, one call of `midi_device_input` each, and that the callback answers with a call of `send_func` for each
byte of a chunk, polling in between, is why the bytes, the answers and the packets move in steps of different sizes; the lemmas on joining and cutting
sequences (end of `MidiParserProofs`) are for that.

Only model-checked:

- Liveness, as fairness and `ENABLED` are beyond the prover: `ProcessEnds`, `ComesToRest`, `AllHeard`, `LoopGoesOn`, `AllEchoed`, `PollEnds`,
  `Enumerated`, and the liveness parts of `ImplementsInput` and `ImplementsLine`.
- `ImplementsInput` with sysex, which needs an orderly sender.
- `HeardAsSent` and `AllCalled` for two messages in one array (`TwoMessages`), which `Carries` leaves out.

## 6. Assumptions

- **One reader per queue**, as the comment in `bytequeue.c` says, which removes only what it has
  been told of. The code keeps both.
- **`OrderlySpec`**: sysex messages are ended, or given up by a byte other than the status of a two or three byte
  message, are shorter than the range of `input_count`, and `SYSEX_END` comes only at the end of one. `MidiReception`
  shows what happens without each of these; section 7 describes it.
- **Callbacks do not call `midi_device_process`.** It removes a byte after processing it, so the inner call
  would process the same byte again, without end. No document says so.
- **`WithRoomSpec`** (only `serial_wire_isr` and `NothingElseHeard`): the program sends what the queue has room for. In `serial` it does not care.
- **`WholeMessageAssumption`**: what goes through `SerialWire` are whole messages of one to three bytes, as the send functions for them pass on; no sysex.
- The **`device`** run has no sysex bytes: without an orderly sender its refinement would fail for the reason shown in `reception_truncated`,
  and that is not its question. `echo` has them, and a host that leaves them open by being unplugged.
- **`Carries`, `Sendable`** (theorems about the round trips): arguments in the ranges the documents give them (pitch bend any `int16_t`); sysex messages with data bytes between
  their ends and shorter than `CountRange`; not the system common messages to a host, nor sysex byte by byte over USB, which the code does not carry
  (`trip_host_common`, `trip_usb_by_byte`); no clock bytes of the program's own where others send them, too, as they could not be told apart.
- **`TripByteAssumption`**: the listener can register every kind of callback. What stands in its uninitialised `input_buffer` may be anything (`Leftover`; the
  run takes 0).
- **`HostAssumption`, `CallbacksAssumption`** (`EchoExample`): the host sends controllers and notes with arguments in their ranges, and sysex messages with data bytes
  between their ends and shorter than `CountRange`, the limit of `input_count`. The callbacks of `main.c` register none.
- **`EchoInit`**: what stands in the uninitialised `input_buffer` is the same byte three times. `MidiParser` and `MidiReception` start
  with any three.
- The sizes of descriptors and the moments at which USB requests are handled are LUFA's. Whether a packet that is sent gets out is not looked
  at by the code and not modelled: an answer counts as given when `usb_send_func` is called with it.
- The transmitter is enabled (`out` was true), and the AVR performs `UCSRnB |= …` against interrupt routines
  that change no other bit than the one it sets.
- A USB host goes by the event code, and takes 1 to 3 bytes as the USB MIDI specification says; LUFA delivers packets
  whole and in order.

## 7. Where code and documentation disagree

Shown by a run each (`findings` in `PROJECT.json` has the quotations):

- `reception_truncated`: a note on that cuts a sysex message short is lost. The branch for a status byte
  stores it and resets the count only when the state is not `SYSEX_MESSAGE`, but changes the state in any case (`midi_device.c:100`). The
  parser finds back with the next status byte (`StatusResynchronises`), and no callback is called for a
  message that was not on the wire (`NoFalseCall`).
- `serial_wire_isr`: two contexts that send mix their bytes; `midi_device.h:130` suggests that the send function guards against it.
- `trip_host_common`: song position, song select and quarter frame leave over USB with event code `0xF`, a
  single byte: the `switch` in `midi_usb.c:124` is on the upper half of the byte, its labels are whole bytes.
- `trip_usb_by_byte`: sysex sent with `midi_send_byte`, as `midi.h:224` suggests, arrives over USB with zeros in between.

Seen in the code while modelling, and without a run:

- A sysex message of 65536 bytes or more wraps `input_count`: `start_byte` begins again at 0 in the middle of
  the message (`midi_function_types.h:43` promises how far into the message one is), and since 65536 is not a multiple of 3 the
  byte before the wrap stands in slot 0 and is overwritten by the next one: no callback gets it. What callbacks do get is right: bytes, length and start
  fit each other, and the place is right modulo 65536 (`SysexPlace`).
- A full input queue: `midi_device_input` (`midi_device.c:64`) ignores a refused byte; a message torn this
  way may be joined with the next one's data bytes and reach the callbacks as another message of its kind. It ends with the next message
  that begins with the queue empty (`EchoedInOrder`).
- A full output queue: the send functions ignore refused bytes, too (`serial_midi.c:15`, `:43`): with one slot left a note on leaves as its status
  byte alone. Messages that found room are all heard (`AllHeard`), in order unless torn ones are on their way (`HeardInOrder`).
- A host that sends without a pause keeps `midi_device_process` in `usb_get_midi` (`midi_usb.c:146`), with all that it sends refused from some moment on.
- After unplugging in the middle of a sysex message nothing resets the parser (`midi_usb.c:204`): it is inside of it when the host comes back.
- `lufa_midi/main.c:36` says "echo data back" of a callback that does nothing, and its first messages (`main.c:23`) are sent before
  a host can have configured the device, so they are lost.
- `test/midi_test.cpp:336` expects the specific three byte callback to get the whole status byte; the code gives it the channel
  (`byte0 & MIDI_CHANMASK`), as `midi.h` says.
- `midi_send_data` does not apply `% 4` to the count (`midi.h:236`, `midi.c:203`). `midi_send_array` with several messages in one
  array is split by three without regard to them, which over USB gives each packet the event code of its first byte.
- `basic.c` starts from a history of all buttons down, while its buttons read 1 when up: with nothing pressed it
  sends a note off and controller messages once at start-up. `Debouncer` starts the same way.

## 8. What is not modelled

- `LUFAConfig.h`: it chooses how LUFA is compiled; only what the descriptors use of it is in `UsbDescriptors`. The states of USB
  endpoints, control requests and LUFA's own code are external.
- `SetupHardware` (`midi_usb.c`) sets registers of the chip once. The handlers of connection and disconnection are empty.
- `spit.c`: sends the same controller message for ever.
- `test/`: read as a statement of what the code should do.
- Baud rates and frame format; the receive interrupt is the program's own (`serial_midi.h`) and modelled as
  `ReceiveInterrupt`.
- `midi.h`, `midi_device.h` and the other headers are declarations; their constants are in `MidiBytes`.

## 9. Plan

Done, in this order: the byte queue and its proofs; the parser, its abstract stream and their
proofs; arbitrary bytes; the process loop; serial output and its proofs; send functions, USB, sysex tools over the cables; the
example `basic.c`; full queues on both sides; the polling loop, unplugging, descriptors and `main.c`; the old driver; sysex messages
longer than the count; proofs about arbitrary bytes, the places of sysex chunks and false calls, the process loop and the sysex tools; proofs about
`SerialWire`, `BasicExample`, `MidiRoundTrip`, `SysexTransfer` and `EchoExample`. Every invariant of a run that passes is stated by a theorem.

Left for later:

1. `MidiRoundTrip`: several messages in one array on a serial line, by joining what each causes.
2. `MidiDevice`: extend `InputSafety` to sysex of an orderly sender, by following the bytes in the queue that are still to be parsed.
