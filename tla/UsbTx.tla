------------------------------- MODULE UsbTx -------------------------------
(***************************************************************************)
(* The way to the host: the three transmit queues and the hint of          *)
(* usb/usb_tx_sched.c, and the two IN endpoints of usb/usb_dev_ll.c they    *)
(* feed.  EP1 carries 8-byte hints, EP2 the frames, 64 bytes at a time.     *)
(*                                                                         *)
(* The queues belong to the task alone, so an operation on them is one     *)
(* step.  USBDEV_SendHint and USBDEV_SendFrame share the device context    *)
(* and the endpoint registers with USBHD_IRQHandler and are split at every *)
(* access to them; the handler is one step.  Lengths are in chunks of      *)
(* USBDEV_EP2_SIZE bytes.                                                  *)
(***************************************************************************)
EXTENDS Naturals, Sequences, FiniteSets

CONSTANTS Depth,      \* USBTX_QUEUE_DEPTH
          MaxChunks,  \* chunks of the longest frame
          MaxFrames,  \* bound: frames accepted into the queues
          MaxResets,  \* bound: bus resets
          Traffic     \* bound: the queues that get frames

(* The queues in the order USBTX_SendNextFrame looks at them. *)
Classes == {"RSP", "EVT", "DATA"}
Before(c) == CASE c = "RSP" -> {} [] c = "EVT" -> {"RSP"} [] c = "DATA" -> {"RSP", "EVT"}

ASSUME UsbTxAssumption ==
    /\ Traffic \subseteq Classes
    /\ Depth \in Nat \ {0} /\ MaxChunks \in Nat \ {0}
    /\ MaxFrames \in Nat /\ MaxResets \in Nat

NoFrame == [id |-> 0, cls |-> "RSP", n |-> 0]
Frames  == [id : 0 .. MaxFrames, cls : Classes, n : 0 .. MaxChunks]
NoHint  == [pending |-> {}, dropped |-> {}]

VARIABLES
    queue,       \* rsp_q, evt_q, data_q: frames [id, cls, n], id being their seq
    seq,         \* seq of the next frame
    pending, dropped, dirty,  \* pending_bitmap, dropped_bitmap, hint_dirty
    at, cls,     \* the task's next statement, and the queue SendNextFrame chose
    chunk,       \* chunk_len in USBDEV_LoadEp2Chunk
    configured,  \* g_usbdev_ctx.configured
    ep1,         \* EP1: [busy, dma, len, armed]
    ep2,         \* EP2: [active, len, off, stage, dma, txlen, armed]
    host,        \* ghost: [tog, stream] its EP1 toggle, the EP2 packets of this session
    done,        \* ghost: ids the host has received to the last chunk
    cut,         \* ghost: ids a bus reset caught on their way out
    untold,      \* ghost: queues that refused a frame in this session, told in no hint
    resets,      \* ghost: bus resets so far
    torn         \* ghost: a bus reset has hit the inside of SendHint or SendFrame (wider
                 \* than each property that exempts it needs: the two share one flag)

queueVars == <<queue, seq, pending, dropped, dirty>>
taskVars  == <<at, cls, chunk>>
devVars   == <<configured, ep1, ep2>>
ghostVars == <<host, done, cut, untold, resets, torn>>
vars == <<queueVars, taskVars, devVars, ghostVars>>

(* Mutant: a bus reset leaves the frame transfer marked active. *)
Ep2ResetActive(e) == [e EXCEPT !.len = 0, !.off = 0, !.txlen = 0, !.armed = FALSE]

(* USBDEV_ResetDataEndpoints *)
Ep1Reset(e) == [e EXCEPT !.busy = FALSE, !.len = 0, !.armed = FALSE]
Ep2Reset(e) == [e EXCEPT !.active = FALSE, !.len = 0, !.off = 0, !.txlen = 0, !.armed = FALSE]

HostStart == [tog |-> 0, stream |-> <<>>]

Init ==
    /\ queue = [c \in Classes |-> <<>>] /\ seq = 1
    /\ pending = {} /\ dropped = {} /\ dirty = TRUE
    /\ at = "idle" /\ cls = "RSP" /\ chunk = 0
    /\ configured = FALSE
    /\ ep1 = [busy |-> FALSE, dma |-> NoHint, len |-> 0, armed |-> FALSE]
    /\ ep2 = [active |-> FALSE, len |-> 0, off |-> 0, stage |-> NoFrame,
              dma |-> [frame |-> NoFrame, k |-> 0], txlen |-> 0, armed |-> FALSE]
    /\ host = HostStart
    /\ done = {} /\ cut = {} /\ untold = {} /\ resets = 0 /\ torn = FALSE

-----------------------------------------------------------------------------
(* USBTX_QueueFrame: USBTX_QueueRsp, USBTX_QueueEvt, USBTX_QueueData *)

(* USBTX_UpdatePendingBitmap, after the queues have become q. *)
PendingOf(q) == {c \in Classes : q[c] # <<>>}
UpdatePending(q) ==
    /\ pending' = PendingOf(q)
    /\ dirty' = (dirty \/ pending # PendingOf(q))

(* Mutant: the test for a full queue is off by one. *)
EnqueueOver(c, n) ==
    /\ at = "idle" /\ seq <= MaxFrames
    /\ Len(queue[c]) <= Depth
    /\ queue' = [queue EXCEPT ![c] = Append(@, [id |-> seq, cls |-> c, n |-> n])]
    /\ seq' = seq + 1
    /\ UpdatePending(queue')
    /\ UNCHANGED <<dropped, taskVars, devVars, ghostVars>>

Enqueue(c, n) ==
    /\ at = "idle" /\ seq <= MaxFrames
    /\ Len(queue[c]) < Depth
    /\ queue' = [queue EXCEPT ![c] = Append(@, [id |-> seq, cls |-> c, n |-> n])]
    /\ seq' = seq + 1
    /\ UpdatePending(queue')
    /\ UNCHANGED <<dropped, taskVars, devVars, ghostVars>>

(* The queue is full.  The other refusals of USBTX_QueueFrame, which set the *)
(* same bit, are never reached: every caller's payload fits a frame (that of *)
(* a heartbeat came in one), and VP_EncodeHeader fails for a null pointer.   *)
Refuse(c) ==
    /\ at = "idle"
    /\ Len(queue[c]) = Depth
    /\ dropped' = dropped \cup {c} /\ dirty' = TRUE
    /\ untold' = untold \cup {c}
    /\ UNCHANGED <<queue, seq, pending, taskVars, devVars, host, done, cut, resets, torn>>

-----------------------------------------------------------------------------
(* USBTX_Process.  First the hint: USBTX_SendHintIfNeeded, USBDEV_SendHint.  *)

Step(from, to) == at = from /\ at' = to

CanSendHint  == configured /\ ~ep1.busy
CanSendFrame == configured /\ ~ep2.active

ProcessStart ==
    /\ configured
    /\ Step("idle", "hint")
    /\ UNCHANGED <<queueVars, cls, chunk, devVars, ghostVars>>

HintSkip ==
    /\ ~(dirty /\ CanSendHint)
    /\ Step("hint", "frame")
    /\ UNCHANGED <<queueVars, cls, chunk, devVars, ghostVars>>

HintBegin ==
    /\ dirty /\ CanSendHint
    /\ Step("hint", "hintCopy")
    /\ UNCHANGED <<queueVars, cls, chunk, devVars, ghostVars>>

(* Mutant: the hint counts as sent though it was rejected. *)
HintRejectForgets ==
    /\ ~CanSendHint
    /\ Step("hintCopy", "frame")
    /\ dirty' = FALSE /\ dropped' = {}
    /\ UNCHANGED <<queue, seq, pending, cls, chunk, devVars, ghostVars>>

(* USBDEV_SendHint looks again: a bus reset may have come in between. *)
HintReject ==
    /\ ~CanSendHint
    /\ Step("hintCopy", "frame")
    /\ UNCHANGED <<queueVars, cls, chunk, devVars, ghostVars>>

(* Mutant: dropped_bitmap is left out of the hint. *)
HintCopyPending ==
    /\ CanSendHint
    /\ Step("hintCopy", "hintBusy")
    /\ ep1' = [ep1 EXCEPT !.dma = [pending |-> pending, dropped |-> {}]]
    /\ UNCHANGED <<queueVars, cls, chunk, configured, ep2, ghostVars>>

HintCopy ==
    /\ CanSendHint
    /\ Step("hintCopy", "hintBusy")
    /\ ep1' = [ep1 EXCEPT !.dma = [pending |-> pending, dropped |-> dropped]]
    /\ UNCHANGED <<queueVars, cls, chunk, configured, ep2, ghostVars>>

HintBusy ==
    /\ Step("hintBusy", "hintLen")
    /\ ep1' = [ep1 EXCEPT !.busy = TRUE]
    /\ UNCHANGED <<queueVars, cls, chunk, configured, ep2, ghostVars>>

HintLen ==
    /\ Step("hintLen", "hintArm")
    /\ ep1' = [ep1 EXCEPT !.len = 1]
    /\ UNCHANGED <<queueVars, cls, chunk, configured, ep2, ghostVars>>

(* The endpoint is armed; USBTX_SendHintIfNeeded has nothing more to tell. *)
HintArm ==
    /\ Step("hintArm", "frame")
    /\ ep1' = [ep1 EXCEPT !.armed = TRUE]
    /\ dirty' = FALSE /\ dropped' = {}
    /\ UNCHANGED <<queue, seq, pending, cls, chunk, configured, ep2, ghostVars>>

-----------------------------------------------------------------------------
(* Then a frame: USBTX_SendNextFrame, USBDEV_SendFrame, USBDEV_LoadEp2Chunk. *)

FrameSkip ==
    /\ ~CanSendFrame \/ \A c \in Classes : queue[c] = <<>>
    /\ Step("frame", "idle")
    /\ UNCHANGED <<queueVars, cls, chunk, devVars, ghostVars>>

FrameChoose ==
    /\ CanSendFrame
    /\ \E c \in Classes : /\ queue[c] # <<>> /\ \A b \in Before(c) : queue[b] = <<>>
                          /\ cls' = c
    /\ Step("frame", "sendCopy")
    /\ UNCHANGED <<queueVars, chunk, devVars, ghostVars>>

(* Mutant: the frame leaves its queue though it was rejected. *)
SendRejectPops ==
    /\ ~CanSendFrame
    /\ Step("sendCopy", "idle")
    /\ queue' = [queue EXCEPT ![cls] = Tail(@)]
    /\ UpdatePending(queue')
    /\ UNCHANGED <<seq, dropped, cls, chunk, devVars, ghostVars>>

SendReject ==
    /\ ~CanSendFrame
    /\ Step("sendCopy", "idle")
    /\ UNCHANGED <<queueVars, cls, chunk, devVars, ghostVars>>

SendCopy ==
    /\ CanSendFrame
    /\ Step("sendCopy", "sendLen")
    /\ ep2' = [ep2 EXCEPT !.stage = Head(queue[cls])]
    /\ UNCHANGED <<queueVars, cls, chunk, configured, ep1, ghostVars>>

SendLen ==
    /\ Step("sendLen", "sendOff")
    /\ ep2' = [ep2 EXCEPT !.len = ep2.stage.n]
    /\ UNCHANGED <<queueVars, cls, chunk, configured, ep1, ghostVars>>

SendOff ==
    /\ Step("sendOff", "sendActive")
    /\ ep2' = [ep2 EXCEPT !.off = 0]
    /\ UNCHANGED <<queueVars, cls, chunk, configured, ep1, ghostVars>>

SendActive ==
    /\ Step("sendActive", "loadLen")
    /\ ep2' = [ep2 EXCEPT !.active = TRUE]
    /\ UNCHANGED <<queueVars, cls, chunk, configured, ep1, ghostVars>>

(* What USBDEV_LoadEp2Chunk puts in the endpoint buffer, off chunks being out. *)
NextChunk(e)   == IF e.len > e.off THEN 1 ELSE 0
ChunkAt(e, c)  == IF c = 0 THEN e.dma ELSE [frame |-> e.stage, k |-> e.off + 1]

LoadLen ==
    /\ Step("loadLen", "loadCopy")
    /\ chunk' = NextChunk(ep2)
    /\ UNCHANGED <<queueVars, cls, devVars, ghostVars>>

LoadCopy ==
    /\ Step("loadCopy", "loadOff")
    /\ ep2' = [ep2 EXCEPT !.dma = ChunkAt(ep2, chunk)]
    /\ UNCHANGED <<queueVars, cls, chunk, configured, ep1, ghostVars>>

LoadOff ==
    /\ Step("loadOff", "loadTxLen")
    /\ ep2' = [ep2 EXCEPT !.off = @ + chunk]
    /\ UNCHANGED <<queueVars, cls, chunk, configured, ep1, ghostVars>>

LoadTxLen ==
    /\ Step("loadTxLen", "loadArm")
    /\ ep2' = [ep2 EXCEPT !.txlen = chunk]
    /\ UNCHANGED <<queueVars, cls, chunk, configured, ep1, ghostVars>>

(* The endpoint is armed; USBDEV_SendFrame has succeeded: USBTX_PopQueue. *)
LoadArm ==
    /\ Step("loadArm", "idle")
    /\ ep2' = [ep2 EXCEPT !.armed = TRUE]
    /\ queue' = [queue EXCEPT ![cls] = Tail(@)]
    /\ UpdatePending(queue')
    /\ UNCHANGED <<seq, dropped, cls, chunk, configured, ep1, ghostVars>>

-----------------------------------------------------------------------------
(* USBHD_IRQHandler, and the host behind it *)

(* Past the last look at configured: what these do a bus reset can undo. *)
HintPoints == {"hintBusy", "hintLen", "hintArm"}
SendPoints == {"sendLen", "sendOff", "sendActive",
               "loadLen", "loadCopy", "loadOff", "loadTxLen", "loadArm"}

(* The frame of the stage buffer that has not reached the host. *)
OnItsWay == IF ep2.active /\ ep2.stage.id \notin done THEN {ep2.stage.id} ELSE {}

BusReset ==
    /\ resets < MaxResets
    /\ resets' = resets + 1
    /\ configured' = FALSE
    /\ ep1' = Ep1Reset(ep1) /\ ep2' = Ep2Reset(ep2)
    /\ host' = HostStart
    /\ cut' = cut \cup OnItsWay /\ untold' = {}
    /\ torn' = (torn \/ at \in HintPoints \cup SendPoints)
    /\ UNCHANGED <<queueVars, taskVars, done>>

SetConfiguration ==
    /\ ~configured
    /\ configured' = TRUE
    /\ UNCHANGED <<queueVars, taskVars, ep1, ep2, ghostVars>>

(* What EP1 transmits: nothing if a reset has zeroed the length meanwhile.    *)
HintOut == IF ep1.len > 0 THEN ep1.dma ELSE NoHint

(* The host reads EP1.  T_TOG of UEP1_TX_CTRL is never set, so every hint is *)
(* a DATA0 packet: the host takes one it expects as DATA0 and drops one it   *)
(* expects as DATA1 as a repetition, acknowledging both.                     *)
Ep1In ==
    /\ configured /\ ep1.armed
    /\ ep1' = [ep1 EXCEPT !.busy = FALSE, !.armed = FALSE]
    /\ untold' = untold \ HintOut.dropped
    /\ host' = [host EXCEPT !.tog = 1]
    /\ UNCHANGED <<queueVars, taskVars, configured, ep2, done, cut, resets, torn>>

Packet == ep2.dma
HostTakes ==
    IF ep2.txlen = 0 THEN UNCHANGED <<host, done>>
    ELSE /\ host' = [host EXCEPT !.stream = Append(@, Packet)]
         /\ done' = IF Packet.k = Packet.frame.n THEN done \cup {Packet.frame.id} ELSE done

(* Mutant: one chunk too few. *)
Ep2InShort ==
    /\ configured /\ ep2.armed
    /\ HostTakes
    /\ ep2' = IF ep2.off + 1 < ep2.len
              THEN [ep2 EXCEPT !.dma = ChunkAt(ep2, 1), !.off = @ + 1, !.txlen = 1]
              ELSE [ep2 EXCEPT !.active = FALSE, !.txlen = 0, !.armed = FALSE]
    /\ UNCHANGED <<queueVars, taskVars, configured, ep1, cut, untold, resets, torn>>

(* The host reads EP2: the next chunk, or the transfer is over. *)
Ep2In ==
    /\ configured /\ ep2.armed
    /\ HostTakes
    /\ ep2' = IF ep2.off < ep2.len
              THEN [ep2 EXCEPT !.dma = ChunkAt(ep2, 1), !.off = @ + 1, !.txlen = 1]
              ELSE [ep2 EXCEPT !.active = FALSE, !.txlen = 0, !.armed = FALSE]
    /\ UNCHANGED <<queueVars, taskVars, configured, ep1, cut, untold, resets, torn>>

-----------------------------------------------------------------------------
Queue == \E c \in Traffic : Refuse(c) \/ \E n \in 1 .. MaxChunks : Enqueue(c, n)

ProcessStep ==
    \/ HintSkip \/ HintBegin \/ HintReject \/ HintCopy \/ HintBusy \/ HintLen \/ HintArm
    \/ FrameSkip \/ FrameChoose \/ SendReject \/ SendCopy \/ SendLen \/ SendOff \/ SendActive
    \/ LoadLen \/ LoadCopy \/ LoadOff \/ LoadTxLen \/ LoadArm

Usb == BusReset \/ SetConfiguration \/ Ep1In \/ Ep2In

Next == Queue \/ ProcessStart \/ ProcessStep \/ Usb

(* USBTX_Process is called in every round of the TMOS loop (1 ms poll), a    *)
(* call once begun returns, and a host that has configured the device goes   *)
(* on reading both IN endpoints.                                             *)
Fairness == /\ SF_vars(ProcessStart) /\ WF_vars(ProcessStep)
            /\ WF_vars(SetConfiguration) /\ WF_vars(Ep1In) /\ WF_vars(Ep2In)

Spec == Init /\ [][Next]_vars /\ Fairness

-----------------------------------------------------------------------------
(* Properties *)

Points == {"idle", "hint", "hintCopy", "frame", "sendCopy"} \cup HintPoints \cup SendPoints

TypeOK ==
    /\ queue \in [Classes -> Seq(Frames)] /\ \A c \in Classes : Len(queue[c]) <= Depth
    /\ seq \in 1 .. MaxFrames + 1
    /\ pending \subseteq Classes /\ dropped \subseteq Classes /\ dirty \in BOOLEAN
    /\ at \in Points /\ cls \in Classes /\ chunk \in {0, 1}
    /\ configured \in BOOLEAN
    /\ ep1 \in [busy : BOOLEAN, dma : [pending : SUBSET Classes, dropped : SUBSET Classes],
                len : {0, 1}, armed : BOOLEAN]
    /\ ep2 \in [active : BOOLEAN, len : 0 .. MaxChunks, off : 0 .. MaxChunks + 1, stage : Frames,
                dma : [frame : Frames, k : 0 .. MaxChunks + 1], txlen : {0, 1}, armed : BOOLEAN]
    /\ host.tog \in {0, 1}
    /\ done \subseteq 1 .. MaxFrames /\ cut \subseteq 1 .. MaxFrames /\ untold \subseteq Classes
    /\ resets \in 0 .. MaxResets /\ torn \in BOOLEAN

(* What the host reads from EP2 in one session is whole frames back to back, *)
(* none twice, those of one queue in the order of their seq; the last one    *)
(* may still be incomplete.  (A reset inside SendFrame can break this; torn  *)
(* exempts one inside SendHint as well.)                                     *)
HostStream == ~torn => LET s == host.stream IN
    /\ \A i \in 1 .. Len(s) :
         IF s[i].k = 1
         THEN i = 1 \/ s[i - 1].k = s[i - 1].frame.n
         ELSE i > 1 /\ s[i - 1] = [s[i] EXCEPT !.k = @ - 1]
    /\ \A i, j \in 1 .. Len(s) :
         i < j /\ s[i].frame.cls = s[j].frame.cls /\ s[i].k >= s[j].k => s[i].frame.id < s[j].frame.id

(* An accepted frame is queued, on its way, with the host, or was cut off by *)
(* a bus reset: SendFrame returning 0 and the pop that follows lose none.    *)
Queued == UNION {{queue[c][i].id : i \in 1 .. Len(queue[c])} : c \in Classes}
FrameKept == ~torn => 1 .. seq - 1 = Queued \cup OnItsWay \cup done \cup cut

(* An endpoint marked busy is armed, so that the interrupt that clears the   *)
(* mark will come, wherever a bus reset has hit the task.                    *)
BusyArmed == /\ ep1.busy /\ at \notin HintPoints => ep1.armed
             /\ ep2.active /\ at \notin SendPoints => ep2.armed

(* No hint is owed by mistake: with none due, the last one built shows the   *)
(* queues as they are, and a refused frame is remembered, with a hint due    *)
(* for it, until one that says so is handed to EP1 -- also when a bus reset  *)
(* comes between CanSendHint and SendHint.  (Whether the host ever sees that *)
(* last hint is not said: a bus reset discards an armed one and makes none   *)
(* due again, and HostHears shows the host dropping them.  After a reset     *)
(* inside SendHint, torn, refusals can be forgotten as well.)                *)
HintTruth ==
    /\ ~dirty => ep1.dma.pending = pending
    /\ ~torn => /\ dropped # {} => dirty
                /\ untold \subseteq dropped \cup (IF ep1.armed THEN HintOut.dropped ELSE {})

(* Every queued frame leaves its queue while the device stays configured,    *)
(* once the traffic ends (MaxFrames; the RSP queue goes before the others    *)
(* for as long as it is refilled): the queues come to be empty.              *)
FramesFlow == []<>(Queued = {} \/ ~configured)

(* Every refusal is told in a hint that EP1 transmits, or the session ends.  *)
(* (After a reset inside SendHint EP1 can be armed and not busy, and the     *)
(* next hint then overwrites one the host has not read.)                     *)
HintFlow == \A c \in Traffic : c \in untold ~> c \notin untold \/ torn

(* Design document 6.6: dropped_bitmap "indicates which logical queues have  *)
(* dropped data".  A refusal is settled by a hint the host takes, or by the  *)
(* end of the session.                                                       *)
HostHears == [][\A c \in untold \ untold' : host.tog = 0 \/ ~configured']_vars
=============================================================================
