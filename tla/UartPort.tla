------------------------------ MODULE UartPort ------------------------------
(***************************************************************************)
(* One logical UART: the port context of uart/uart_manager.c, the driver   *)
(* uart/uart_port_ch32v20x.c and the USART it drives.  Ports share nothing *)
(* but the USB transmit queue, whose answer to UartMgr_Process is an input *)
(* here, so one port stands for each of the four.                          *)
(*                                                                         *)
(* The task half (UartMgr_HandleCtrl, UartMgr_WriteFromHost and            *)
(* UartMgr_Process, called from the TMOS loop) is split at every statement *)
(* the USART handler can observe.  The handler (UARTPort_CommonIrq) is one *)
(* step: nothing preempts it, and while it is pending and enabled the task *)
(* executes no further statement.  The rings are the atomic queues of      *)
(* ByteFifo, which RingBuffer implements, except under the live reset that *)
(* FLUSH does: its two stores are two steps here, with the handler between *)
(* them.  A byte is its place in the stream it belongs to.                 *)
(***************************************************************************)
EXTENDS Naturals, Sequences

CONSTANTS RxCap,     \* UART_RX_RB_SIZE - 1
          TxCap,     \* UART_TX_RB_SIZE - 1
          Chunk,     \* UART_USB_CHUNK_SIZE
          MaxFrame,  \* bound: payload bytes of one UART_DATA frame
          MaxRx,     \* bound: bytes the peer sends
          MaxTx      \* bound: bytes the host sends

ASSUME UartAssumption ==
    /\ RxCap \in Nat \ {0} /\ TxCap \in Nat \ {0}
    /\ Chunk \in Nat \ {0} /\ MaxFrame \in Nat \ {0}
    /\ MaxRx \in Nat /\ MaxTx \in Nat

VARIABLES
    state,     \* ctx->state; an enabled, mapped port is never DISABLED or ERROR
    rxq, txq,  \* what ctx->rx_rb and ctx->tx_rb queue
    rxTail, txTail,  \* the tail of each, which decides what a live reset does
    rxBytes, dropRx, dropTx,  \* ctx->rx_bytes, drop_rx_bytes, drop_tx_bytes
    at,        \* the statement the task executes next; "idle": outside the port
    todo,      \* bytes in the task's hands: frame[] of Process, payload left to write
    saved,     \* drop_rx_bytes as the task loaded it for its +=
    usart,     \* the USART is enabled (UE)
    rxie,      \* its receive interrupt is enabled (RXNEIE)
    txie,      \* its transmit interrupt is enabled (TXEIE)
    rdr,       \* the received byte not yet read, 0 if none (RXNE)
    tdrBusy,   \* the transmit data register still holds a byte (not TXE)
    up,        \* bytes accepted by the USB transmit queue
    wire,      \* queued bytes handed to the transmit data register
    slips,     \* old slots handed to it during a live reset (with wire: tx_bytes)
    seen,      \* ghost: bytes that came from the peer and from the host
    gone,      \* ghost: bytes discarded, by cause
    recoded    \* ghost: SET_LINE_CODING since the transmitter was last kicked

tailVars  == <<rxTail, txTail>>
portVars  == <<state, rxq, txq, tailVars, rxBytes, dropRx, dropTx>>
taskVars  == <<at, todo, saved>>
hwVars    == <<usart, rxie, txie, rdr, tdrBusy>>
outVars   == <<up, wire, slips>>
ghostVars == <<seen, gone, recoded>>
vars == <<portVars, taskVars, hwVars, outVars, ghostVars>>

IrqPending == (rxie /\ rdr # 0) \/ (txie /\ ~tdrBusy)
TaskAt(s)  == at = s /\ ~IrqPending

Init ==
    /\ state = "CLOSED"
    /\ rxq = <<>> /\ txq = <<>> /\ rxTail = 0 /\ txTail = 0
    /\ rxBytes = 0 /\ dropRx = 0 /\ dropTx = 0
    /\ at = "idle" /\ todo = <<>> /\ saved = 0
    /\ usart = FALSE /\ rxie = FALSE /\ txie = FALSE /\ rdr = 0 /\ tdrBusy = FALSE
    /\ up = <<>> /\ wire = <<>> /\ slips = 0
    /\ seen = [peer |-> 0, host |-> 0]
    /\ gone = [full |-> 0, refused |-> 0, rx |-> 0, tx |-> 0, unopened |-> 0]
    /\ recoded = FALSE

-----------------------------------------------------------------------------
(* The USART and its peer *)

(* A byte comes in; if the last one has not been read it is lost (overrun).  *)
RxArrive ==
    /\ usart /\ seen.peer < MaxRx
    /\ seen' = [seen EXCEPT !.peer = @ + 1]
    /\ rdr' = IF rdr = 0 THEN seen.peer + 1 ELSE rdr
    /\ UNCHANGED <<portVars, taskVars, usart, rxie, txie, tdrBusy, outVars, gone, recoded>>

TxShifted ==
    /\ usart /\ tdrBusy
    /\ tdrBusy' = FALSE
    /\ UNCHANGED <<portVars, taskVars, usart, rxie, txie, rdr, outVars, ghostVars>>

-----------------------------------------------------------------------------
(* UARTPort_CommonIrq: a received byte first, then the next one to send.     *)

(* Mutant: no look at whether the ring has room. *)
IrqRxByteUnbounded ==
    rxq' = Append(rxq, rdr) /\ rxBytes' = rxBytes + 1 /\ UNCHANGED <<dropRx, gone>>

(* RingBuffer_NextIndex of a ring of cap + 1 slots. *)
NextSlot(i, cap) == IF i >= cap THEN 0 ELSE i + 1

(* RingBuffer_PushByte finds room.  Between the two stores of FLUSH_RX the   *)
(* head counts from slot 0 and the tail still stands where it was.           *)
RxRoom == IF at = "flushRx" /\ rxTail # 0 THEN Len(rxq) + 1 < rxTail ELSE Len(rxq) < RxCap

(* UartMgr_IrqRxByte of an open port. *)
IrqRxByte ==
    IF RxRoom
    THEN rxq' = Append(rxq, rdr) /\ rxBytes' = rxBytes + 1 /\ UNCHANGED <<dropRx, gone>>
    ELSE /\ dropRx' = dropRx + 1
         /\ gone' = [gone EXCEPT !.full = @ + 1]
         /\ UNCHANGED <<rxq, rxBytes>>

IrqReceive ==
    IF rxie /\ rdr # 0
    THEN /\ rdr' = 0
         /\ IF state = "OPEN" THEN IrqRxByte ELSE UNCHANGED <<rxq, rxBytes, dropRx, gone>>
    ELSE UNCHANGED <<rdr, rxq, rxBytes, dropRx, gone>>

(* The oldest byte queued. *)
IrqSend == /\ txq # <<>>
           /\ wire' = Append(wire, Head(txq)) /\ txq' = Tail(txq)
           /\ UNCHANGED slips

(* Between the two stores of FLUSH_TX the head is 0: every slot from the     *)
(* tail to the end of the storage passes for queued, whatever it holds.      *)
IrqSlip == /\ at = "flushTx" /\ txTail # 0
           /\ slips' = slips + 1
           /\ UNCHANGED <<wire, txq>>

IrqTransmit ==
    IF txie /\ ~tdrBusy
    THEN IF state = "OPEN" /\ (txq # <<>> \/ (at = "flushTx" /\ txTail # 0))
         THEN /\ IrqSend \/ IrqSlip
              /\ txTail' = NextSlot(txTail, TxCap)
              /\ tdrBusy' = TRUE
              /\ UNCHANGED txie
         ELSE txie' = FALSE /\ UNCHANGED <<txq, txTail, wire, slips, tdrBusy>>
    ELSE UNCHANGED <<txie, txq, txTail, wire, slips, tdrBusy>>

UsartIrq ==
    /\ IrqPending
    /\ IrqReceive
    /\ IrqTransmit
    /\ UNCHANGED <<state, rxTail, dropTx, taskVars, usart, rxie, up, seen, recoded>>

-----------------------------------------------------------------------------
(* UartMgr_HandleCtrl.  The response each command queues is a call into      *)
(* usb_tx_sched.c and leaves the port alone; queries, and commands refused   *)
(* for a bad line coding or in the wrong state, do nothing else.             *)

CtrlOpen ==
    /\ TaskAt("idle") /\ state = "CLOSED"
    /\ state' = "OPENING"
    /\ at' = "cfgOff"
    /\ UNCHANGED <<rxq, txq, tailVars, rxBytes, dropRx, dropTx, todo, saved, hwVars, outVars,
                   ghostVars>>

CtrlSetLineCoding ==
    /\ TaskAt("idle") /\ state = "OPEN"
    /\ at' = "cfgOff"
    /\ UNCHANGED <<portVars, todo, saved, hwVars, outVars, ghostVars>>

(* UARTPort_ApplyConfig, the register writes in order. *)
ConfigUnchanged == UNCHANGED <<rxq, txq, tailVars, rxBytes, dropRx, dropTx, todo, saved, rdr,
                               tdrBusy, outVars, seen, gone>>

ConfigOff ==
    /\ TaskAt("cfgOff")
    /\ usart' = FALSE /\ at' = "cfgRx"
    /\ UNCHANGED <<rxie, txie, state, recoded>> /\ ConfigUnchanged

ConfigRx ==
    /\ TaskAt("cfgRx")
    /\ rxie' = TRUE /\ at' = "cfgTx"
    /\ UNCHANGED <<usart, txie, state, recoded>> /\ ConfigUnchanged

ConfigTx ==
    /\ TaskAt("cfgTx")
    /\ txie' = FALSE /\ at' = "cfgOn"
    /\ recoded' = (state = "OPEN")
    /\ UNCHANGED <<usart, rxie, state>> /\ ConfigUnchanged

ConfigOn ==
    /\ TaskAt("cfgOn")
    /\ usart' = TRUE /\ at' = "cfgDone"
    /\ UNCHANGED <<rxie, txie, state, recoded>> /\ ConfigUnchanged

(* UartMgr_Open marks the port open once it is configured. *)
ConfigDone ==
    /\ TaskAt("cfgDone")
    /\ state' = "OPEN" /\ at' = "idle"
    /\ UNCHANGED <<usart, rxie, txie, recoded>> /\ ConfigUnchanged

(* Mutant: VP_UART_CLOSE without the call of UARTPort_Close. *)
CtrlCloseLive ==
    /\ TaskAt("idle")
    /\ at' = "clsRxq"
    /\ UNCHANGED <<portVars, todo, saved, hwVars, outVars, ghostVars>>

CtrlClose ==
    /\ TaskAt("idle")
    /\ at' = "clsRxie"
    /\ UNCHANGED <<portVars, todo, saved, hwVars, outVars, ghostVars>>

(* UARTPort_Close *)
CloseUnchanged == UNCHANGED <<portVars, todo, saved, rdr, tdrBusy, outVars, ghostVars>>

CloseRxie == /\ TaskAt("clsRxie") /\ rxie' = FALSE /\ at' = "clsTxie"
             /\ UNCHANGED <<usart, txie>> /\ CloseUnchanged
CloseTxie == /\ TaskAt("clsTxie") /\ txie' = FALSE /\ at' = "clsOff"
             /\ UNCHANGED <<usart, rxie>> /\ CloseUnchanged
CloseOff  == /\ TaskAt("clsOff") /\ usart' = FALSE /\ at' = "clsRxq"
             /\ UNCHANGED <<rxie, txie>> /\ CloseUnchanged

(* RingBuffer_Reset: head, then tail.  With the handler off, as here, the    *)
(* two stores are one step.                                                  *)
ResetRxHead == /\ rxq' = <<>>
               /\ gone' = [gone EXCEPT !.rx = @ + Len(rxq)]
ResetTxHead == /\ txq' = <<>>
               /\ gone' = [gone EXCEPT !.tx = @ + Len(txq)]
ResetRxTail == rxTail' = 0
ResetTxTail == txTail' = 0

CloseRxq ==
    /\ TaskAt("clsRxq") /\ at' = "clsTxq"
    /\ ResetRxHead /\ ResetRxTail
    /\ UNCHANGED <<state, txq, txTail, rxBytes, dropRx, dropTx, todo, saved, hwVars, outVars,
                   seen, recoded>>

CloseTxq ==
    /\ TaskAt("clsTxq") /\ at' = "clsDone"
    /\ ResetTxHead /\ ResetTxTail
    /\ UNCHANGED <<state, rxq, rxTail, rxBytes, dropRx, dropTx, todo, saved, hwVars, outVars,
                   seen, recoded>>

CloseDone ==
    /\ TaskAt("clsDone") /\ at' = "idle"
    /\ state' = "CLOSED"
    /\ UNCHANGED <<rxq, txq, tailVars, rxBytes, dropRx, dropTx, todo, saved, hwVars, outVars,
                   ghostVars>>

(* FLUSH_RX and FLUSH_TX: the handler may run between the two stores.        *)
FlushRx ==
    /\ TaskAt("idle") /\ at' = "flushRx"
    /\ ResetRxHead
    /\ UNCHANGED <<state, txq, tailVars, rxBytes, dropRx, dropTx, todo, saved, hwVars, outVars,
                   seen, recoded>>

FlushRxTail ==
    /\ TaskAt("flushRx") /\ at' = "idle"
    /\ ResetRxTail
    /\ UNCHANGED <<state, rxq, txq, txTail, rxBytes, dropRx, dropTx, todo, saved, hwVars,
                   outVars, ghostVars>>

FlushTx ==
    /\ TaskAt("idle") /\ at' = "flushTx"
    /\ ResetTxHead
    /\ UNCHANGED <<state, rxq, tailVars, rxBytes, dropRx, dropTx, todo, saved, hwVars, outVars,
                   seen, recoded>>

FlushTxTail ==
    /\ TaskAt("flushTx") /\ at' = "idle"
    /\ ResetTxTail
    /\ UNCHANGED <<state, rxq, txq, rxTail, rxBytes, dropRx, dropTx, todo, saved, hwVars,
                   outVars, ghostVars>>

-----------------------------------------------------------------------------
(* UartMgr_WriteFromHost *)

HostBytes(n) == [i \in 1 .. n |-> seen.host + i]

WriteRejected(n) ==
    /\ TaskAt("idle") /\ state # "OPEN" /\ seen.host + n <= MaxTx
    /\ seen' = [seen EXCEPT !.host = @ + n]
    /\ gone' = [gone EXCEPT !.unopened = @ + n]
    /\ UNCHANGED <<portVars, taskVars, hwVars, outVars, recoded>>

WriteStart(n) ==
    /\ TaskAt("idle") /\ state = "OPEN" /\ seen.host + n <= MaxTx
    /\ seen' = [seen EXCEPT !.host = @ + n]
    /\ todo' = HostBytes(n)
    /\ at' = "push"
    /\ UNCHANGED <<portVars, saved, hwVars, outVars, gone, recoded>>

(* One turn of RingBuffer_Write, which stops at the first byte refused. *)
WritePush ==
    /\ TaskAt("push")
    /\ IF todo # <<>> /\ Len(txq) < TxCap
       THEN txq' = Append(txq, Head(todo)) /\ todo' = Tail(todo) /\ UNCHANGED at
       ELSE at' = "count" /\ UNCHANGED <<txq, todo>>
    /\ UNCHANGED <<state, rxq, tailVars, rxBytes, dropRx, dropTx, saved, hwVars, outVars,
                   ghostVars>>

(* Mutant: an overflow returns its error at once, without the kick. *)
WriteCountReturns ==
    /\ TaskAt("count")
    /\ dropTx' = dropTx + Len(todo)
    /\ todo' = <<>>
    /\ at' = IF todo = <<>> THEN "kick" ELSE "idle"
    /\ UNCHANGED <<state, rxq, txq, tailVars, rxBytes, dropRx, saved, hwVars, outVars, ghostVars>>

WriteCount ==
    /\ TaskAt("count")
    /\ dropTx' = dropTx + Len(todo)
    /\ todo' = <<>>
    /\ at' = "kick"
    /\ UNCHANGED <<state, rxq, txq, tailVars, rxBytes, dropRx, saved, hwVars, outVars, ghostVars>>

(* UARTPort_TryKickTx *)
WriteKick ==
    /\ TaskAt("kick")
    /\ txie' = TRUE /\ at' = "idle"
    /\ recoded' = FALSE
    /\ UNCHANGED <<portVars, todo, saved, usart, rxie, rdr, tdrBusy, outVars, seen, gone>>

-----------------------------------------------------------------------------
(* UartMgr_Process *)

(* Mutant: waits until a whole chunk is there. *)
ProcessWhenFull ==
    /\ TaskAt("idle") /\ state = "OPEN" /\ Len(rxq) >= Chunk
    /\ at' = "read"
    /\ UNCHANGED <<portVars, todo, saved, hwVars, outVars, ghostVars>>

Process ==
    /\ TaskAt("idle") /\ state = "OPEN" /\ rxq # <<>>
    /\ at' = "read"
    /\ UNCHANGED <<portVars, todo, saved, hwVars, outVars, ghostVars>>

(* Mutant: the last byte of a full chunk is read and left in the ring. *)
ProcessReadPeek ==
    /\ TaskAt("read")
    /\ IF rxq # <<>> /\ Len(todo) < Chunk
       THEN /\ todo' = Append(todo, Head(rxq))
            /\ rxq' = IF Len(todo) + 1 = Chunk THEN rxq ELSE Tail(rxq)
            /\ UNCHANGED <<at, rxTail>>
       ELSE at' = "queue" /\ UNCHANGED <<todo, rxq, rxTail>>
    /\ UNCHANGED <<state, txq, txTail, rxBytes, dropRx, dropTx, saved, hwVars, outVars, ghostVars>>

(* One turn of RingBuffer_Read. *)
ProcessRead ==
    /\ TaskAt("read")
    /\ IF rxq # <<>> /\ Len(todo) < Chunk
       THEN /\ todo' = Append(todo, Head(rxq)) /\ rxq' = Tail(rxq)
            /\ rxTail' = NextSlot(rxTail, RxCap)
            /\ UNCHANGED at
       ELSE at' = "queue" /\ UNCHANGED <<todo, rxq, rxTail>>
    /\ UNCHANGED <<state, txq, txTail, rxBytes, dropRx, dropTx, saved, hwVars, outVars, ghostVars>>

(* USBTX_QueueData takes the chunk, or its queue is full. *)
ProcessQueued ==
    /\ TaskAt("queue")
    /\ up' = up \o todo /\ todo' = <<>> /\ at' = "idle"
    /\ UNCHANGED <<portVars, saved, hwVars, wire, slips, ghostVars>>

ProcessRefused ==
    /\ TaskAt("queue")
    /\ saved' = dropRx /\ at' = "store"
    /\ UNCHANGED <<portVars, todo, hwVars, outVars, ghostVars>>

(* Mutant: a refused chunk is counted as a full one. *)
ProcessStoreChunk ==
    /\ TaskAt("store")
    /\ dropRx' = saved + Chunk
    /\ gone' = [gone EXCEPT !.refused = @ + Len(todo)]
    /\ todo' = <<>> /\ saved' = 0 /\ at' = "idle"
    /\ UNCHANGED <<state, rxq, txq, tailVars, rxBytes, dropTx, hwVars, outVars, seen, recoded>>

(* drop_rx_bytes += read_len, the handler having run since it was loaded. *)
ProcessStore ==
    /\ TaskAt("store")
    /\ dropRx' = saved + Len(todo)
    /\ gone' = [gone EXCEPT !.refused = @ + Len(todo)]
    /\ todo' = <<>> /\ saved' = 0 /\ at' = "idle"
    /\ UNCHANGED <<state, rxq, txq, tailVars, rxBytes, dropTx, hwVars, outVars, seen, recoded>>

-----------------------------------------------------------------------------
Hardware == RxArrive \/ TxShifted \/ UsartIrq

Command == CtrlOpen \/ CtrlSetLineCoding \/ CtrlClose \/ FlushRx \/ FlushTx

Configure == ConfigOff \/ ConfigRx \/ ConfigTx \/ ConfigOn \/ ConfigDone

Close == CloseRxie \/ CloseTxie \/ CloseOff \/ CloseRxq \/ CloseTxq \/ CloseDone

Write == \E n \in 1 .. MaxFrame : WriteStart(n) \/ WriteRejected(n)

(* The task inside a handler: it runs on to the end. *)
TaskStep == Configure \/ Close \/ FlushRxTail \/ FlushTxTail \/ WritePush \/ WriteCount \/ WriteKick
              \/ ProcessRead \/ ProcessQueued \/ ProcessRefused \/ ProcessStore

Next == Hardware \/ Command \/ Write \/ Process \/ TaskStep

(* Interrupts are served, the transmitter shifts, a handler once begun runs  *)
(* to its end, and the TMOS loop comes round to UartMgr_Process whatever the *)
(* host sends (AppTask_RunIo calls it in every event, and a 1 ms poll event  *)
(* re-arms itself).  The host and the peer promise nothing.                  *)
Fairness == /\ WF_vars(UsartIrq) /\ WF_vars(TxShifted)
            /\ WF_vars(TaskStep) /\ SF_vars(Process)

Spec == Init /\ [][Next]_vars /\ Fairness

-----------------------------------------------------------------------------
(* Properties *)

States == {"CLOSED", "OPENING", "OPEN"}
Points == {"idle", "cfgOff", "cfgRx", "cfgTx", "cfgOn", "cfgDone",
           "clsRxie", "clsTxie", "clsOff", "clsRxq", "clsTxq", "clsDone", "flushRx", "flushTx",
           "push", "count", "kick", "read", "queue", "store"}
Causes == {"full", "refused", "rx", "tx", "unopened"}

TypeOK ==
    /\ state \in States /\ at \in Points
    /\ rxq \in Seq(Nat) /\ Len(rxq) <= RxCap
    /\ txq \in Seq(Nat) /\ Len(txq) <= TxCap
    /\ rxTail \in 0 .. RxCap /\ txTail \in 0 .. TxCap
    /\ todo \in Seq(Nat)
    /\ rxBytes \in Nat /\ dropRx \in Nat /\ dropTx \in Nat /\ saved \in Nat
    /\ usart \in BOOLEAN /\ rxie \in BOOLEAN /\ txie \in BOOLEAN /\ tdrBusy \in BOOLEAN
    /\ rdr \in 0 .. MaxRx
    /\ up \in Seq(Nat) /\ wire \in Seq(Nat) /\ slips \in Nat
    /\ seen \in [peer : 0 .. MaxRx, host : 0 .. MaxTx]
    /\ gone \in [Causes -> Nat]
    /\ recoded \in BOOLEAN

Ascending(s) == \A i, j \in 1 .. Len(s) : i < j => s[i] < s[j]

Reading == at \in {"read", "queue", "store"}
Writing == at \in {"push", "count"}
Held(b) == IF b THEN todo ELSE <<>>

(* The host gets the peer's bytes in the order they arrived, and the wire    *)
(* carries the host's in the order they were sent, none twice, across        *)
(* chunks, refused chunks, partial writes, flushes, recodings, reopenings.   *)
(* Exempt are the slots that the handler sends between the two stores of a   *)
(* live FLUSH_TX: old bytes in any order, counted in slips and left off the  *)
(* wire here (PopsOldest of RingBuffer shows them).  The bytes sent before   *)
(* and after such a flush are still in order.                                *)
ByteOrder == /\ Ascending(up \o Held(Reading) \o rxq)
             /\ Ascending(wire \o txq \o Held(Writing))

(* A session inherits nothing: no byte of the last one waits in a ring when  *)
(* CLOSE has returned (VP_UART_CLOSE resets the rings while the port is      *)
(* still OPEN to the handler), and nothing is sent or received until OPEN.   *)
ClosedQuiet ==
    state # "OPEN" => rxq = <<>> /\ txq = <<>> /\ ~txie

(* Bytes to send never wait with the transmitter switched off, once the      *)
(* task has returned: the kick and the handler's switching off cannot cross. *)
(* (SET_LINE_CODING is the exception: see TxDelivered.)                      *)
TxArmed == at = "idle" /\ txq # <<>> => txie \/ recoded

(* The counters add up.  rx_bytes counts the bytes that reached the receive  *)
(* ring, and each is still there, in the task's hands, passed on, refused by *)
(* USB, or flushed; every byte the host sent is on the wire, on its way,     *)
(* flushed, in drop_tx_bytes, or answered with NOT_OPEN, and only one of     *)
(* these; and drop_rx_bytes reports no more than was dropped (it may report  *)
(* less: the task's += can overwrite an increment of the handler).  No       *)
(* counter sees the bytes that an overrun destroys or the handler drops in   *)
(* OPENING, and tx_bytes is Len(wire) only as long as no live FLUSH_TX has   *)
(* slipped an old slot out: then it counts those as well (slips).            *)
Accounted ==
    /\ rxBytes = Len(up) + Len(Held(Reading)) + Len(rxq) + gone.refused + gone.rx
    /\ seen.host = Len(wire) + Len(txq) + Len(Held(Writing))
                     + gone.tx + gone.unopened + dropTx
    /\ dropRx <= gone.full + gone.refused

(* Every byte in the receive ring of a port leaves it: towards the host, or  *)
(* by a flush or CLOSE.                                                      *)
RxServed == \A b \in 1 .. MaxRx :
    (\E i \in 1 .. Len(rxq) : rxq[i] = b) ~> ~(\E i \in 1 .. Len(rxq) : rxq[i] = b)

(* Every byte in the transmit ring leaves it, unless the line is recoded.    *)
InTxq(b) == \E i \in 1 .. Len(txq) : txq[i] = b
TxDrains == \A b \in 1 .. MaxTx : InTxq(b) ~> (~InTxq(b) \/ recoded)

(* Design document 7.4: the payload of Host -> Device frames is "the raw     *)
(* bytes to send to the physical UART".  A byte taken into the transmit ring *)
(* of an open port is sent, unless it is flushed or the port closed (and     *)
(* unless the host recodes the line for ever).                               *)
TxDelivered == <>[](at # "cfgOff") => \A b \in 1 .. MaxTx : InTxq(b) ~> ~InTxq(b)
=============================================================================
