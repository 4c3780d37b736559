# TLA+ models of the CH32V208 USB / UART / BLE multiplexer firmware

The firmware (`src/App/usb_mux_dev/`) is a USB vendor device with four UARTs and a
BLE central behind it. The host sends framed commands and UART data to EP3 OUT; the
device answers with frames on EP2 IN and short queue hints on EP1 IN. Everything runs in
one TMOS event loop (the *task*) and a few interrupt handlers. This directory holds
TLA+ modules of its concurrent and stateful parts, TLC configurations that check them,
and proofs that TLAPS checks. "Design document" is
`src/Docs/DESIGN/CH32V208_USB_VENDOR_UART_BLE_HOST_FIRMWARE_DESIGN.md`.

## 1. Inventory

| part | state | operations | talks to | what must hold |
|---|---|---|---|---|
| byte ring `common/ring_buffer.c` | storage, head, tail | push, pop, read, write, reset | task on one side, a handler on the other | bounded FIFO, under any preemption |
| UART manager `uart/uart_manager.c` | port state, two rings, counters | OPEN, CLOSE, SET_LINE_CODING, FLUSH, write, process, handler callbacks | driver, USB transmit queue | order, accounting, no byte of an old session, both rings drained |
| UART driver `uart/uart_port_ch32v20x.c` | USART registers | ApplyConfig, Close, TryKickTx, IRQ | manager callbacks | transmitter never left off with bytes queued |
| transmit scheduler `usb/usb_tx_sched.c` | three queues, seq, bitmaps, hint flag | QueueRsp/Evt/Data, Process | device driver | accepted frames reach EP2 once, in order; refusals are told |
| USB device `usb/usb_dev_ll.c` | EP contexts, configuration, EP0 transfer, pending address, toggles | SendHint, SendFrame, IRQ (reset, EP0..EP3) | scheduler, parser | busy means armed, across a bus reset at any statement; control transfers survive lost handshakes |
| receive parser `usb/usb_rx_fsm.c` | raw ring, frame buffer, state | PushBytes (handler), Process (task) | router | intact frames dispatched whole, in order; resynchronisation |
| router `proto/vendor_router.c` | none | dispatch by channel and message type | managers, scheduler | one RSP per CMD, in order |
| codec `proto/vendor_proto_codec.c` | none | encode, decode, CRC | parser, scheduler | length arithmetic |
| BLE host manager `ble/ble_host_manager.c` | slots, pending connect, active scan | mgmt commands, GAP events | BLE stack, link procedures | no orphaned link, one connect, scan state |
| BLE link `ble/ble_link_fsm.c` | per slot: handle, busy, procedure, range | start procedures, GATT messages | BLE stack | an answer meets its question; the slot does not stay busy |
| application task `app_task.c` | event flags, poll timer | AppTask_ProcessEvent, kicks | all `*_Process` | work that has no event of its own is polled |
| log `app_log.c` | ring, dropped count | append, drain | task and handlers | no torn record |
| heartbeat `heartbeat.c` | next tick | poll | LED | catch-up arithmetic |
| `common/event_queue.c`, `common/stats.c` | - | called by nothing | - | - |

Hard behaviours: the handlers preempt the task between any two statements; a bus reset
does so in the middle of a transfer; BLE events and messages are handled long after the
stack has sent them; queues and rings of fixed size refuse; polling must drain
everything. PROJECT.json lists each hazard at its line with the properties
that would catch it going wrong.

## 2. Modules

### ByteFifo, RingBuffer
`ByteFifo` is the abstract bounded queue: Put, Refuse, Get, Miss, Clear. `RingBuffer` is
`ring_buffer.c` statement by statement: one side (`isr`) runs its operation without
being preempted, the other can be stopped between statements. The stores of
`buf[]` and `head` keep their order, `head` and `tail` being volatile. `Reset` runs in the task
with the handler disabled when `ResetMasked`, and live when not (FLUSH). The refinement
mapping is the sequence `Contents` of the bytes between tail and head; while `Reset` is
half done, its base decides whether the queue counts as cleared. `FifoSpec` is
`ByteFifo!Spec` under that mapping. RingBuffer_Count/Space/IsEmpty/IsFull are not
called by the application and have no action.

### UartPort
One port: manager, driver and USART. Task statements are separate wherever the
handler can see the difference (register writes of ApplyConfig and Close, CLOSE's
resets, each push of a write, the load and store of `drop_rx_bytes +=`). The
handler is one step, and a pending, enabled interrupt runs before the next task statement
(`TaskAt`). Rings are `ByteFifo`-like sequences, which `RingBuffer` justifies for
every use but the live FLUSH. So FLUSH_RX and FLUSH_TX are two steps each, the store of the
head and that of the tail, and `rxTail`, `txTail` keep the tail indices that decide what the
handler does in between: it finds less room than there is, and sends slots that are not
queued. The latter are counted in `slips` and kept off `wire`, which has the bytes that were queued
only; `ByteOrder` and `Accounted` speak of those and exempt the slips openly. Bytes that an
overrun destroys, or that the handler reads in OPENING and drops, are in no counter of
the code and none of the model. A byte is its number in its stream. UART_DRAINING is
never entered by the code; UART_DISABLED and UART_ERROR do not occur for an enabled,
mapped port. Pins, clocks and baud rates are left out.

### UsbTx
Queues, priorities, pending/dropped bitmaps, hints, and EP1/EP2 with their DMA buffers.
Queue operations are atomic (the task's own); SendHint, SendFrame and LoadEp2Chunk are
split at every access shared with the handler, and the bus reset may come at each.
`g_usbdev_ctx` is not volatile; the module takes its stores in program order, as the
calls between them make the build do. Header bytes are abstracted to the frame's seq.
`Refuse` is the queue at its depth: the other refusals of USBTX_Queue* (a payload too long,
VP_EncodeHeader failing) are met by no caller. `torn` is set by a reset inside SendHint or
SendFrame and exempts `HostStream`, `FrameKept` and the refusal half of `HintTruth`. `HintTruth` is
about the device: with no hint due the last one built shows the queues as they are, and a
refusal stays due until it is handed to EP1. The host need not see it: a bus reset
discards an armed hint and makes none due again, and `usb_hint` shows it dropping them.
Here SET_CONFIGURATION is the first after a reset and EP2 packets are not lost: repeated
ones and the toggles of EP2 and EP3 are in `UsbEp0`. The EP1 toggle is modelled on the
host's side (`host.tog`).

### UsbEp0
Control transfers (SETUP, data and status stages, STALL, pending address, configuration)
and the toggle bits of EP2 and EP3, with a host that loses handshakes, gives transfers up,
asks other things in between, configures the device again and resets the bus when stuck.
One handler run is one step, since the controller answers NAK until it has run. The task
appears only in USBDEV_LoadEp2Chunk, which reads UEP2_TX_CTRL and writes it back. `loose`
(a SET_ADDRESS given up half way, or whose last handshake was lost) and `session` (a second
SET_CONFIGURATION: "again"; a reset inside LoadEp2Chunk: "torn") are ghosts that make the
exceptions of the properties exact, and so is `unheard`, the EP3 packets that have lost an
acknowledgement: they, and no others, may be pushed twice. In these cases the device's toggle or address differs
from the host's and the properties say nothing; the hazards list the lines. That this
half of the driver is hard to test shows in
`src/Docs/2026-04-27-CH32V208-USB-UART-BLE-问题与解决路径总结.md`: the EP0 state machine and
the toggles of EP2 and EP3 were both wrong on the board at first (its 3.2 and 4.2).

### UsbRx
The EP3 handler, the raw ring that overflows silently, the header window that shifts by
one byte, and dispatch. The host cuts frames into packets and a bus reset can cut a frame
off. Payload bytes that look like headers are left out. USB_RX_DROP is unreachable. Its
properties are checked in `Mux`, which extends it and leaves its steps as they are.

### Server, Mux
`Server` is what the device promises of its commands: Ask, Reply, Lose; a reply only to what
was asked, once, in the order of asking. `Mux` is the path of a command through all
the parts: `UsbRx`'s host, ring and parser, then VendorRouter_Dispatch (`Route`), one UART
port reduced to "open" and the bytes received, the response and data queues, EP2, and the
event loop that runs them. A round of AppTask_RunIo parses byte by byte (the handlers come in
between), then runs UartMgr_Process and USBTX_Process as one step: what can happen inside
these is the matter of `UartPort` and `UsbTx`. The task's flags USB_RX, USB_TX and UART all
run the same round and are one, "IO"; POLL re-arms its timer after its round. Opcodes are
CMD (answered, no effect on the port), OPEN and DATA (no response). `ServerSpec` is
`Server!Spec` with the mapping asked = unanswered and not lost, answers = what the host has
read. Two ghosts record that: `answers`, the responses in the order of reading, and
`dataAfter`, the number of answers that were there when a UART_DATA was read. Nothing the
device does depends on them.

### QueueLemmas and the proof modules
`QueueLemmas` says what Append, Head, Tail and \o do to the places of a queue (`Put`, `Take`).
All queues of the firmware are sequences here, and the proofs argue about places and
lengths only. `RingBuffer_proofs`, `UartPort_proofs`, `UsbTx_proofs`, `Mux_proofs` (with those of
`UsbRx`), `UsbEp0_proofs`, `BleHost_proofs` and `BleLink_proofs` each extend their module with its
inductive invariant and theorems.

### BleHost
The slots and the handle `ble_link_fsm.c` keeps for each, `pending_connect_slot`,
`active_scan`; the stack as environment: it sends its GAP events as messages, so they
are late, and it accepts or refuses each request. `g_ble_mgr.state` is only logged.

### BleLink
One slot's GATT procedures: `proc_busy`, `proc`, `range_end`; the stack's single client
procedure and the queue of its messages, which a discovery fills with several. Write,
subscribe and unsubscribe are one kind. `begun` and `mute` are ghosts: the id of the
procedure begun last, and whether its end has been passed over. The module
assumes that the messages of a connection are handled before its slot gets a new one.

## 3. Runs

| run | asks | shows |
|---|---|---|
| `ring` | is the ring a FIFO under preemption? | yes, and it refines `ByteFifo` |
| `ring_flush` | the same for FLUSH with the handler live | **no**: a byte that is not queued is popped |
| `uart_port` | order and accounting of what is queued, closing, transmitter, draining | all hold, the slots slipped out by a live FLUSH_TX apart |
| `uart_recode` | is every queued byte sent when the line is recoded? | **no**: TXE stays off |
| `usb_tx` | whole frames in order, none lost, busy is armed, no refusal forgotten; do frames and refusals get out? | all hold, the last two for a host that polls |
| `usb_hint` | does the host hear of each refusal? | **no**: hints are all DATA0 |
| `mux` | are frames dispatched whole, in order and resynchronised; is each command answered once, in order, and does the device come back to owing nothing? | all hold, and it refines `Server` |
| `usb_ep0` | control transfers, address and toggles under lost handshakes and resets | all hold, with the two exceptions above |
| `usb_rx_cut` | is every dispatched frame one the host wrote? | **no**: overflow inside a frame |
| `ble_host` | slots against late events | all hold |
| `ble_link` | procedures against late messages | all hold for single procedures and service discovery |
| `ble_link_range` | is everything found by a characteristic discovery reported? | **no**: it ends at the first response |

The properties of `mux` say, of a response: a dispatched command has exactly one fate (`OneFate`:
queued, on EP2, read, or lost), and it is lost only when the host had more than `Depth`
commands unanswered or the bus was reset (`WindowSafe`). The code reports neither loss. `OpenFirst`
says that the host hears that a port is open before it gets bytes from it. `CommandsEnd`
covers what a bus reset leaves behind: queued responses that no event asks for any more go
out because the task polls. In `usb_ep0`, `Answered` is about the data the host has at the
status stage, `AddressAgrees` about the address between SET_ADDRESS and its status
stage, `InKept` and `OutKept` about packets lost or doubled by a toggle (on EP3 a packet may be
doubled only if an acknowledgement of that very packet was lost), and
`Enumerates` says that the host gets the device configured from whatever state the faults
have left EP0 in.

The five disagreements, each a finding in PROJECT.json:

1. `ring_flush`: RingBuffer_Reset sets `head = 0`, then `tail = 0`. FLUSH_TX runs it with the
   transmit handler enabled; in between the handler sees head # tail and sends stale slots.
   `UartPort` has the same two stores and states its properties with the exception `slips`.
2. `uart_recode`: SET_LINE_CODING re-runs ApplyConfig, which disables TXE, and does not kick.
   `uart_port` therefore states TxArmed and TxDrains with the exception `recoded`.
3. `usb_hint`: UEP1_TX_CTRL is always written without toggle; the host discards the second
   hint and all later ones as repetitions, while the device forgets what they told.
4. `usb_rx_cut`: USBRX_PushBytes ignores a partial write and no payload CRC is checked.
5. `ble_link_range`: on SUCCESS the handler asks the stack to discover the rest, which the
   stack is doing already; it refuses with blePending, the slot ends the procedure and
   drops the later responses.

`NotStuck` excludes one case it makes exact: a discovery whose final message reports
nothing found (the timeout, at least) is passed over by the handler and leaves the
slot busy until the link ends. The module records it in `mute`.

### Bounds
Rings of 1 to 5 bytes, queues of 1 and frames of 1 or 2 chunks are full, empty and
wrapping within a few steps: sizes occur in the code only as limits. `RingBuffer` has
Size 4, so indices wrap while one, two or three bytes are queued. The rings of `UartPort` have
two slots (RxCap, TxCap 1): a live FLUSH_TX finds the tail at 0 or at 1 and slips a slot out,
but a live FLUSH_RX with the tail off 0 has no room for a push; larger rings have, and the
proofs cover them. The bounds matter to the liveness
properties and the violations; the safety properties are proved for every value. `MaxRx`, `MaxTx`, `MaxFrames`, `FrameCount`, `MaxUart`, `MaxPackets`, `MaxEvents`, `MaxStarts` bound histories;
three bytes, two or three frames, three procedures are enough for one to be in hand, one
queued and one refused. `MaxResets = 1`: a reset can hit each statement; what a second one
meets is a state some first one left, and a reset clears both endpoints. `usb_tx` has two
of the three queues, RSP and DATA: EVT is handled by the same code and stands between them.
`mux` has headers of 2 bytes, frames of 2 or 3 bytes and a raw ring of 4: a ring holds a
frame and part of the next and overflows with the third packet. `Plans` lets the first of its three
frames be OPEN and the last CMD, so that both kinds of loss (a full response queue, a
reset) can hit a command with another one after it. `usb_ep0` has packets of 2 bytes and
a descriptor of 3, so that a reply is one packet, two, or cut to wLength 1; `UsbEp0Assumption`
says what holds of the firmware's descriptors, that each ends in a short packet. Two faults
reach a lost handshake inside the repetition of an abandoned transfer. `BleHost` has two slots and
three handles so that handles are reused and a link can end while another is made. The
violation runs are smaller than the others since their question needs less traffic.
No symmetry is used: streams are numbered, and liveness is checked in the same runs.

### Fairness
`UartPort`: the handler and the transmitter hardware (WF: an enabled interrupt is served,
a byte is shifted out), the task's statements once it has begun (WF), and the poll itself
(SF, since commands of the host may keep the task away from it time and again, but the
poll event re-arms itself). `UsbTx`: the same for USBTX_Process, and a host that
enumerates and polls both IN endpoints. FramesFlow holds because the traffic ends
(`MaxFrames`): RSP has absolute priority. `Mux`: the task runs while it has an event, the
poll timer fires, the host reads EP2 and configures the device after a reset (all WF); the
host need not write. `UsbEp0`: the host's driver finishes a stage that is
answered and gives up one that is not (WF), and goes on enumerating whatever else asks on
EP0 in between (SF, since AskMore may take the pipe time and again). The BLE modules state safety
only: the stack promises no time. The fairness of the poll assumes that tmos_start_task
succeeds, whose result the code ignores.

`CHECK_DEADLOCK FALSE` is said for `usb_rx_cut` only: with all frames written and parsed
nothing is left to do there. In `Mux` the poll goes on for ever.

## 4. Proofs

Each invariant of a passing run is proved, for every value of the constants that the module's
ASSUME allows, and so are the two refinements, `FifoSpec` and `ServerSpec`. The assumptions
say that sizes and depths are positive and bounds are natural numbers; three say more:
`HeaderLen <= MaxFrame` (`UsbRx`), finitely many handles and a `NoHandle` that is none of them
(`BleHost`), and `DescLen % Ep0Size # 0` (`UsbEp0`; the firmware's descriptors end in a short packet,
which only the liveness property needs). `RingIsFifo` also assumes `ResetMasked`; the run
`ring_flush` shows that it has to.

All proofs have the same form: an inductive invariant holds at the start, every step keeps
each of its parts, and the properties follow from it. The bounds on histories (`MaxFrames`,
`MaxEvents` and the like) are only ever used to be natural numbers. Most of the properties
are not inductive alone; what the invariants add is the argument:

* **RingBuffer**: `RingInv == TypeOK /\ ResetAlone /\ RoomKept /\ StoredKept /\ OldestKept`.
  Publishing needs to know that the byte is stored (`StoredKept`), and room and oldest byte
  survive a reset only if the other side is outside its operation then (`ResetAlone`).
  For `RingIsFifo`, PublishAppends and ReleaseTails relate the window between the indices to
  their moves; each statement is then a step of `ByteFifo` or leaves `Contents` alone.
* **UartPort**: `IInv == Control /\ Counted /\ Ordered`. `Control` ties each statement the task can
  be at to port state, interrupt enables and rings, which gives `ClosedQuiet` and `TxArmed`;
  `Counted` adds to `Accounted` that the drop counter the task holds while it has loaded and not
  stored it is one it has read; `Ordered` says that ring, hands and what has passed on are
  ascending and follow each other, in both directions. What the handler does between
  the two stores of a flush keeps all three: it pushes behind what is queued, or slips a slot
  out, which moves an index and nothing that is queued.
* **UsbTx**: types (with the host's), `QueueInv`, `SourceInv`, `BusyArmed`, `HintInv`, `FlightInv`,
  `FrameKept`, `StreamInv` and `HostStream`. `FlightInv` says which frame is on its way at each
  statement of SendFrame and LoadEp2Chunk, `StreamInv` that the packet armed is the one the
  host's stream lacks, and that all it has is older than what is queued. Both carry `~torn`,
  because a reset inside SendFrame does leave the contexts inconsistent; `SourceInv` is what
  holds of the buffers even then.
* **UsbRx**, in `Mux_proofs`: `RxInv` keeps the bytes held in order (`HeldInv`), a buffer in
  PAYLOAD state begun by an accepted header (`BufInv`), dispatched frames before all that is held
  (`GotInv`), and each frame that lost nothing dispatched, swallowed, or held in one piece
  from its first byte on (`KeptInv`). The last is what makes
  resynchronisation a safety property. It is proved of every step of `UsbRx` and again
  (`FramesInDevice`) of the whole device with its resets.
* **Mux**: `MuxInv` adds `FateInv` (answers, EP2, queue and lost are disjoint, in the order of
  the commands, and make up all that is dispatched), `WindowInv` (a host within its window has
  at most `Depth` commands unanswered, so a full queue cannot be met) and `OpenInv` (every data
  frame was queued behind the response that opened the port). `DeviceServes` maps each
  step: the first packet of a frame asks, an IN replies, a refusal or a reset loses, everything
  else stutters.
* **UsbEp0**: `DataInv` says where the two sides are in the answer: the device holds the packet
  after what the host has, or, the toggles differing, the last one again. `AddrInv` says that
  an address is pending exactly while its status stage is open. `InInv` and `OutInv` say that the
  toggles differ exactly when the receiver has the packet (on EP3 that packet is then in
  `unheard`, which is why only it can be doubled), and `NewInv` that nothing flows
  before the first SET_CONFIGURATION, so that it finds the host's toggles where it puts them.
* **BleHost**: `LinksInv` tells a story of each handle: what is queued about it (Established,
  Terminated, or both in the order in which they happened) is just what leads from what the
  slots have to what the stack has. `OutcomeInv` says that a pending connect is owed one
  outcome, and no other is queued; `SlotsInv` that slots and `ble_link_fsm.c` agree.
* **BleLink**: `ClientInv` relates the stack's procedure to the slot's, `MsgsInv` the queued messages to
  the procedures begun, and `Owed` says that a busy slot's procedure still runs or its final
  message is queued.

Each inductive invariant was model-checked on the instance of its run before it was proved.

The proof attempts changed two things. `OneFate` of `Mux` had been stated over a set of sets and so
could not tell a command with one fate from one with two equal ones; it now counts fates by
name, and the ghosts `answers` and `dataAfter` replace one list of all that the host has read. And
`UsbEp0` defines its requests with IF instead of CASE ... OTHER, which tlapm does not read.

Only model-checked: all liveness (`TxDrains`, `RxServed`, `FramesFlow`, `HintFlow`, `CommandsEnd`,
`Enumerates`), which with ENABLED is out of the prover's reach, and the five violation runs, which
are counterexamples. `ServerSpec` has no fairness, so it is proved whole.

## 5. Not modelled

* The codec: CRC-16 and the serialisation of fields are computations on data that no
  property tells apart; the parser takes a header for good exactly when the host built it. The 16-bit
  sum of lengths wraps only for headers that no host in these modules writes.
* The log (a diagnostic ring inside critical sections, lossy by design), the heartbeat (an LED and
  one comparison; the HEARTBEAT event of the task with it), start-up order, and the event
  queue and statistics, which nothing calls.
* Answers of SYS and BLE_MGMT commands: in `Mux` they are a response and nothing else; what BLE
  commands do is in `BleHost` and `BleLink`. Their response queue is the one in `Mux`.
* The composition of `BleHost` and `BleLink`: it turns on the order in which the closed stack
  delivers GAP events against GATT messages, and on when it reuses a handle. No header in
  the repository documents either, so a model would check a guess.
* The vendored parts: `src/Peripheral`, `src/BLE` (headers and a closed library), core and
  start-up files. They make up most of the C lines of the repository (some 34000 of 40000,
  register definitions and drivers the application does not call for the most part) and appear
  as environment, with the behaviour the code relies on. Of the application's own
  lines, about 5600, the modules map about 2500.
* UART_OVERRUN EVT, half-frame and BLE timeouts of the design document: no code exists.

## 6. Plan

Done, in this order: the rings under everything, the two halves with real preemption
(UART, USB transmit), the parser, BLE, then control transfers and the composition `Mux`
with its abstract `Server`. Of the original plan, Codec, AppLog and Heartbeat were dropped
for the reasons above, and BlePair for want of a documented stack.

After these came the proofs of section 4. What is left would be new ground for the models: the
codec's 16-bit length arithmetic, if it is ever changed to accept longer frames, and the
pair of BLE modules, once the stack's ordering is documented.
