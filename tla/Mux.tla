-------------------------------- MODULE Mux --------------------------------
(***************************************************************************)
(* A command on its way through the device: UsbRx's host, ring and parser  *)
(* composed with VendorRouter_Dispatch, one UART port, the response and    *)
(* data queues, and AppTask_ProcessEvent, which runs them.                 *)
(*                                                                         *)
(* A round of AppTask_RunIo is USBRX_Process (one byte per step, until the *)
(* ring is empty), then UartMgr_Process and USBTX_Process (one step); the  *)
(* handlers come in between.  What can happen inside USBTX_Process and     *)
(* inside a port is the matter of UsbTx and UartPort.                      *)
(***************************************************************************)
EXTENDS UsbRx

CONSTANTS Depth,    \* USBTX_QUEUE_DEPTH
          Opcodes,  \* what the host's frames can be
          MaxUart   \* bound: bytes that arrive at the UART

(* A CMD that changes nothing here (SYS, BLE_MGMT, a query, a frame that the *)
(* router or a manager refuses with a status), UART_OPEN, UART_DATA.         *)
Commands == {"CMD", "OPEN"}

ASSUME MuxAssumption ==
    Opcodes \subseteq Commands \cup {"DATA"} /\ Depth \in Nat \ {0} /\ MaxUart \in Nat

VARIABLES
    opcode,      \* of each frame: never changes
    events, timer,      \* the task's event flags; tmos_start_task has POLL under way.
                 \* "IO" is USB_RX, USB_TX or UART: all three only run AppTask_RunIo
    at, serving, \* where AppTask_RunIo is, and for which event
    open, rxq,   \* the port is UART_OPEN; bytes in its rx_rb
    rspq, dataq, \* rsp_q: the commands answered; data_q: the bytes in each frame
    configured, ep2,    \* g_usbdev_ctx.configured; the frame EP2 transmits
    uart,        \* ghost: bytes that have arrived
    answers,     \* ghost: the commands whose RSP the host has read, in order
    dataAfter,   \* ghost: how many of them came before each UART_DATA it has read
    lost,        \* ghost: commands that get no RSP: refused by rsp_q, cut off on EP2
    burst        \* ghost: the host has had more than Depth commands unanswered

taskVars == <<events, timer, at, serving>>
portVars == <<open, rxq, uart>>
hostVars == <<answers, dataAfter>>
txVars   == <<rspq, dataq, configured, ep2, hostVars, lost>>
muxVars  == <<opcode, taskVars, portVars, txVars, burst>>
allVars  == <<vars, muxVars>>

Nothing == [type |-> "NONE", ref |-> 0]
Rsp(f)  == [type |-> "RSP", ref |-> f]
Data(n) == [type |-> "DATA", ref |-> n]

(* Bound: the host opens the port first and asks for something last.         *)
Plans == {p \in [FrameIds -> Opcodes] : p[1] = "OPEN" /\ p[FrameCount] = "CMD"}

MuxInit ==
    /\ Init /\ opcode \in Plans
    /\ events = {"IO", "POLL"} /\ timer = FALSE
    /\ at = "idle" /\ serving = "IO"
    /\ open = FALSE /\ rxq = 0 /\ uart = 0
    /\ rspq = <<>> /\ dataq = <<>> /\ configured = FALSE /\ ep2 = Nothing
    /\ answers = <<>> /\ dataAfter = {} /\ lost = {} /\ burst = FALSE

Kick(e) == events' = events \cup {e}

-----------------------------------------------------------------------------
(* The host and the USB handler *)

Elements(s) == {s[i] : i \in 1 .. Len(s)}
Begun == {f \in FrameIds : f < out.f \/ (f = out.f /\ out.i > 1)}
Unanswered == {f \in Begun : opcode[f] \in Commands} \ Elements(answers)

HostWrites ==
    /\ configured /\ PushBytes
    /\ Kick("IO")
    /\ burst' = (burst \/ (out.i = 1 /\ opcode[out.f] \in Commands /\ Cardinality(Unanswered) >= Depth))
    /\ UNCHANGED <<opcode, timer, at, serving, portVars, txVars>>

(* A response that EP2 transmits is lost; what is queued stays queued.       *)
Reset ==
    /\ configured /\ configured' = FALSE
    /\ ep2' = Nothing
    /\ lost' = IF ep2.type = "RSP" THEN lost \cup {ep2.ref} ELSE lost
    /\ UNCHANGED <<opcode, taskVars, portVars, rspq, dataq, hostVars, burst>>

ResetInFrame == BusReset /\ Reset
ResetBetweenFrames ==
    /\ out.i = 1 /\ cuts < MaxCuts /\ cuts' = cuts + 1
    /\ UNCHANGED <<size, out, raw, state, buf, got, hurt>>
    /\ Reset

SetConfiguration ==
    /\ ~configured /\ configured' = TRUE
    /\ UNCHANGED <<vars, opcode, taskVars, portVars, rspq, dataq, ep2, hostVars, lost, burst>>

HostReads ==
    /\ configured /\ ep2 # Nothing
    /\ ep2' = Nothing
    /\ IF ep2.type = "RSP" THEN answers' = Append(answers, ep2.ref) /\ UNCHANGED dataAfter
       ELSE dataAfter' = dataAfter \cup {Len(answers)} /\ UNCHANGED answers
    /\ Kick("IO")
    /\ UNCHANGED <<vars, opcode, timer, at, serving, portVars, rspq, dataq, configured, lost, burst>>

(* UartMgr_IrqRxByte *)
UartByte ==
    /\ uart < MaxUart /\ uart' = uart + 1
    /\ IF open THEN rxq' = rxq + 1 /\ Kick("IO") ELSE UNCHANGED <<rxq, events>>
    /\ UNCHANGED <<vars, opcode, timer, at, serving, open, txVars, burst>>

-----------------------------------------------------------------------------
(* AppTask_ProcessEvent *)

(* TMOS calls the task with its events and clears the one that is served.    *)
RunIo ==
    /\ at = "idle" /\ at' = "rx"
    /\ events # {}
    /\ serving' = IF "IO" \in events THEN "IO" ELSE "POLL"
    /\ events' = events \ {serving'}
    /\ UNCHANGED <<vars, opcode, timer, portVars, txVars, burst>>

PollTimer ==
    /\ timer /\ timer' = FALSE
    /\ Kick("POLL")
    /\ UNCHANGED <<vars, opcode, at, serving, portVars, txVars, burst>>

(* Mutant: the test for a full queue is off by one. *)
QueueRspLess(f) ==
    IF Len(rspq) + 1 < Depth THEN rspq' = Append(rspq, f) /\ Kick("IO") /\ UNCHANGED lost
                             ELSE lost' = lost \cup {f} /\ UNCHANGED <<rspq, events>>

(* Mutant: a full queue makes room for a new response by its oldest one. *)
QueueRspOver(f) ==
    /\ rspq' = IF Len(rspq) < Depth THEN Append(rspq, f) ELSE Append(Tail(rspq), f)
    /\ Kick("IO") /\ UNCHANGED lost

(* USBTX_QueueRsp; nobody looks at its result.                               *)
QueueRsp(f) ==
    IF Len(rspq) < Depth THEN rspq' = Append(rspq, f) /\ Kick("IO") /\ UNCHANGED lost
                         ELSE lost' = lost \cup {f} /\ UNCHANGED <<rspq, events>>

(* UART_OPEN: opens a closed port, unless the line coding in the payload is  *)
(* damaged.                                                                  *)
Opens(f) == IF f \in hurt THEN {open, TRUE} ELSE {TRUE}

(* VendorRouter_Dispatch of frame f.  UART_DATA goes to the port and kicks   *)
(* the task, without a response.                                             *)
Route(f) ==
    \/ opcode[f] = "CMD" /\ QueueRsp(f) /\ UNCHANGED open
    \/ opcode[f] = "OPEN" /\ QueueRsp(f) /\ open' \in Opens(f)
    \/ /\ opcode[f] = "DATA"
       /\ IF open THEN Kick("IO") ELSE UNCHANGED events
       /\ UNCHANGED <<open, rspq, lost>>

(* One byte in USBRX_Process.                                                *)
ParseByte ==
    /\ at = "rx" /\ Process
    /\ IF Len(got') > Len(got) THEN Route(got'[Len(got')][1].f)
                               ELSE UNCHANGED <<open, events, rspq, lost>>
    /\ UNCHANGED <<opcode, timer, at, serving, rxq, uart, dataq, configured, ep2, hostVars, burst>>

(* UartMgr_Process: what the full data queue refuses is dropped (counted).   *)
Chunk     == rxq > 0 /\ Len(dataq) < Depth
AfterUart == IF Chunk THEN Append(dataq, rxq) ELSE dataq

(* Mutant: the data queue comes first. *)
NextFrameData(rs, ds) ==
    IF ds # <<>> THEN ep2' = Data(Head(ds)) /\ dataq' = Tail(ds) /\ rspq' = rs
    ELSE IF rs # <<>> THEN ep2' = Rsp(Head(rs)) /\ rspq' = Tail(rs) /\ dataq' = ds
    ELSE UNCHANGED ep2 /\ rspq' = rs /\ dataq' = ds

(* Mutant: the frame is sent and stays in its queue. *)
NextFrameKeeps(rs, ds) ==
    IF rs # <<>> THEN ep2' = Rsp(Head(rs)) /\ rspq' = rs /\ dataq' = ds
    ELSE IF ds # <<>> THEN ep2' = Data(Head(ds)) /\ dataq' = Tail(ds) /\ rspq' = rs
    ELSE UNCHANGED ep2 /\ rspq' = rs /\ dataq' = ds

(* USBTX_SendNextFrame *)
NextFrame(rs, ds) ==
    IF rs # <<>> THEN ep2' = Rsp(Head(rs)) /\ rspq' = Tail(rs) /\ dataq' = ds
    ELSE IF ds # <<>> THEN ep2' = Data(Head(ds)) /\ dataq' = Tail(ds) /\ rspq' = rs
    ELSE UNCHANGED ep2 /\ rspq' = rs /\ dataq' = ds

(* The ring is empty: UartMgr_Process, USBTX_Process, and POLL is started    *)
(* again if the round was for POLL.                                          *)
RoundEnds ==
    /\ at = "rx" /\ raw = <<>> /\ at' = "idle"
    /\ rxq' = 0
    /\ IF configured /\ ep2 = Nothing THEN NextFrame(rspq, AfterUart)
       ELSE dataq' = AfterUart /\ UNCHANGED <<ep2, rspq>>
    /\ IF Chunk THEN Kick("IO") ELSE UNCHANGED events
    /\ timer' = (timer \/ serving = "POLL")
    /\ UNCHANGED <<vars, opcode, serving, open, uart, configured, hostVars, lost, burst>>

-----------------------------------------------------------------------------
Host == HostWrites \/ ResetInFrame \/ ResetBetweenFrames \/ SetConfiguration \/ HostReads
Task == RunIo \/ ParseByte \/ RoundEnds

MuxNext == Host \/ UartByte \/ PollTimer \/ Task

(* The task runs while it has an event; the timer fires; the host reads.     *)
MuxSpec == /\ MuxInit /\ [][MuxNext]_allVars
           /\ WF_allVars(Task) /\ WF_allVars(PollTimer)
           /\ WF_allVars(HostReads) /\ WF_allVars(SetConfiguration)

-----------------------------------------------------------------------------
(* Properties *)

MuxTypeOK ==
    /\ TypeOK /\ opcode \in [FrameIds -> Opcodes]
    /\ events \subseteq {"IO", "POLL"} /\ timer \in BOOLEAN
    /\ at \in {"idle", "rx"} /\ serving \in {"IO", "POLL"}
    /\ open \in BOOLEAN /\ uart \in 0 .. MaxUart /\ rxq \in 0 .. uart
    /\ rspq \in Seq(FrameIds) /\ Len(rspq) <= Depth
    /\ dataq \in Seq(1 .. MaxUart) /\ Len(dataq) <= Depth
    /\ configured \in BOOLEAN /\ burst \in BOOLEAN /\ lost \subseteq FrameIds
    /\ answers \in Seq(FrameIds) /\ dataAfter \subseteq Nat
    /\ ep2 \in {Nothing} \cup {Rsp(f) : f \in FrameIds} \cup {Data(n) : n \in 1 .. MaxUart}

(* A command that was dispatched has exactly one fate: its response is       *)
(* queued, on EP2, with the host, or lost.                                   *)
OnEp2 == IF ep2.type = "RSP" THEN {ep2.ref} ELSE {}
Fates == <<Elements(rspq), OnEp2, Elements(answers), lost>>
OneFate == \A g \in 1 .. Len(got) : opcode[HeaderOf(g)] \in Commands =>
    Cardinality({k \in 1 .. 4 : HeaderOf(g) \in Fates[k]}) = 1

(* The device is a server of its commands: no response twice, none out of    *)
(* order, none without a command, across bus resets that leave rsp_q as it   *)
(* is and frames that lost bytes.                                            *)
AsServer == INSTANCE Server WITH
    Requests <- FrameIds,
    asked    <- Unanswered \ lost
ServerSpec == AsServer!Spec

(* A host that keeps to Depth commands unanswered loses no response unless   *)
(* the bus is reset: only a burst fills rsp_q, whose refusals no caller looks *)
(* at and a hint tells as one bit for all of them (design document 5: each   *)
(* CMD must get exactly one RSP).  After a first reset nothing is said.      *)
WindowSafe == lost # {} => burst \/ cuts > 0

(* The host reads no UART_DATA before the response to the UART_OPEN that     *)
(* allows it, unless that response was lost: rsp_q goes first.               *)
OpenFirst == \A n \in dataAfter :
    \E f \in FrameIds : opcode[f] = "OPEN" /\ (f \in lost \/ \E j \in 1 .. n : answers[j] = f)

(* Every frame all of whose bytes came in is dispatched, and a command among *)
(* them ends with a response that the host has read or that was lost, unless *)
(* a damaged frame has taken its bytes for its own: the device comes back,   *)
(* time and again, to owing the host nothing, also when a bus reset has put  *)
(* responses off that no event asks for any more.  (With finitely many       *)
(* frames this is the same as f ~> its end for each of them.)                *)
Ended(f) == \/ Dispatched(f) /\ (opcode[f] \in Commands => f \in Elements(answers) \cup lost)
            \/ Swallowed(f)
CommandsEnd == []<>(\A f \in FrameIds : Intact(f) => Ended(f))
=============================================================================
