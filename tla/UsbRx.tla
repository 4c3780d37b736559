------------------------------- MODULE UsbRx -------------------------------
(***************************************************************************)
(* From the host: the EP3 OUT branch of USBHD_IRQHandler, the raw ring and *)
(* the frame parser of usb/usb_rx_fsm.c, and the host that writes frames   *)
(* in packets.  The ring is the atomic queue of ByteFifo.  The parser      *)
(* belongs to the task and shares only the ring with the handler, so one   *)
(* turn of the loop in USBRX_Process is one step.                          *)
(*                                                                         *)
(* Byte i of the host's f-th frame is [f |-> f, i |-> i]; the first        *)
(* HeaderLen bytes are its header.  Payload bytes that look like a header  *)
(* are left out.  frame_target_len is size[buf[1].f] once a header has     *)
(* been parsed.  USB_RX_DROP is left out: no statement enters it.          *)
(***************************************************************************)
EXTENDS Naturals, Sequences, FiniteSets

CONSTANTS RawCap,     \* USBRX_RAW_RING_SIZE - 1
          HeaderLen,  \* VP_HEADER_LEN
          MaxFrame,   \* APP_USB_MAX_FRAME_LEN
          MaxPacket,  \* USBDEV_EP3_SIZE
          FrameCount, \* bound: frames the host writes
          MaxCuts     \* bound: frames a bus reset cuts off

ASSUME UsbRxAssumption ==
    /\ RawCap \in Nat \ {0} /\ HeaderLen \in Nat \ {0}
    /\ MaxFrame \in Nat /\ HeaderLen <= MaxFrame
    /\ MaxPacket \in Nat \ {0} /\ FrameCount \in Nat /\ MaxCuts \in Nat

FrameIds  == 1 .. FrameCount
ByteMarks == [f : FrameIds, i : 1 .. MaxFrame]

VARIABLES
    size,     \* total_len of each frame the host will write: never changes
    out,      \* the next byte the host writes
    raw,      \* raw_rb
    state,    \* USB_RX_IDLE, HEADER or PAYLOAD (DISPATCH lasts within a step)
    buf,      \* frame_buf up to frame_len
    got,      \* the frames passed to VendorRouter_Dispatch
    hurt,     \* ghost: frames of which the device will never have every byte
    cuts      \* ghost: bus resets in the middle of a frame

vars == <<size, out, raw, state, buf, got, hurt, cuts>>

Bytes(f, i, j) == [k \in 1 .. (j + 1 - i) |-> [f |-> f, i |-> i + k - 1]]

Init == /\ size \in [FrameIds -> HeaderLen .. MaxFrame]
        /\ out = [f |-> 1, i |-> 1]
        /\ raw = <<>> /\ state = "IDLE" /\ buf = <<>>
        /\ got = <<>> /\ hurt = {} /\ cuts = 0

-----------------------------------------------------------------------------
(* The host, and the handler's EP3 OUT branch *)

Lesser(a, b) == IF a < b THEN a ELSE b

(* A frame goes out in packets of MaxPacket bytes and a shorter last one.    *)
Packet == Bytes(out.f, out.i, Lesser(out.i + MaxPacket - 1, size[out.f]))

NextOut(n) == IF out.i + n > size[out.f] THEN [f |-> out.f + 1, i |-> 1]
                                         ELSE [out EXCEPT !.i = @ + n]

(* USBRX_PushBytes: RingBuffer_Write stores what fits, and nobody looks at   *)
(* how much that was.                                                        *)
PushBytes ==
    /\ out.f \in FrameIds
    /\ LET kept == SubSeq(Packet, 1, RawCap - Len(raw)) IN
         /\ raw' = raw \o IF Len(Packet) <= RawCap - Len(raw) THEN Packet ELSE kept
         /\ hurt' = IF Len(Packet) <= RawCap - Len(raw) THEN hurt ELSE hurt \cup {out.f}
    /\ out' = NextOut(Len(Packet))
    /\ UNCHANGED <<size, state, buf, got, cuts>>

(* A bus reset: the host gives the frame up and writes the next one.  The    *)
(* device's USBDEV_ResetDataEndpoints leaves ring and parser as they are.    *)
BusReset ==
    /\ out.f \in FrameIds /\ out.i > 1 /\ cuts < MaxCuts
    /\ hurt' = hurt \cup {out.f}
    /\ out' = [f |-> out.f + 1, i |-> 1]
    /\ cuts' = cuts + 1
    /\ UNCHANGED <<size, raw, state, buf, got>>

-----------------------------------------------------------------------------
(* USBRX_Process, one byte at a time *)

(* frame_buf with the byte popped from the ring. *)
Window == Append(buf, Head(raw))

Pop == raw # <<>> /\ raw' = Tail(raw)

(* USBRX_ParseHeader accepts exactly the headers the host has built: magic,  *)
(* version, lengths and CRC.                                                 *)
ParseHeader(w) == SubSeq(w, 1, HeaderLen) = Bytes(w[1].f, 1, HeaderLen)

(* VendorRouter_Dispatch and USBRX_ResetFrame *)
Dispatch(frame) == /\ got' = Append(got, frame)
                   /\ state' = "IDLE" /\ buf' = <<>>

HeaderByte ==
    /\ state # "PAYLOAD" /\ Pop
    /\ Len(Window) < HeaderLen
    /\ state' = "HEADER" /\ buf' = Window
    /\ UNCHANGED <<size, out, got, hurt, cuts>>

(* Mutant: a bad header is thrown away as a whole. *)
HeaderBadClears ==
    /\ state # "PAYLOAD" /\ Pop
    /\ Len(Window) >= HeaderLen /\ ~ParseHeader(Window)
    /\ state' = "HEADER" /\ buf' = <<>>
    /\ UNCHANGED <<size, out, got, hurt, cuts>>

(* Mutant: the window is not shifted after a bad header. *)
HeaderBadStays ==
    /\ state # "PAYLOAD" /\ Pop
    /\ Len(Window) >= HeaderLen /\ ~ParseHeader(Window)
    /\ state' = "HEADER" /\ buf' = Window
    /\ UNCHANGED <<size, out, got, hurt, cuts>>

(* USBRX_ShiftHeaderWindow *)
HeaderBad ==
    /\ state # "PAYLOAD" /\ Pop
    /\ Len(Window) >= HeaderLen /\ ~ParseHeader(Window)
    /\ state' = "HEADER" /\ buf' = Tail(Window)
    /\ UNCHANGED <<size, out, got, hurt, cuts>>

HeaderGood ==
    /\ state # "PAYLOAD" /\ Pop
    /\ Len(Window) >= HeaderLen /\ ParseHeader(Window)
    /\ IF size[Window[1].f] = HeaderLen
       THEN Dispatch(Window)
       ELSE state' = "PAYLOAD" /\ buf' = Window /\ UNCHANGED got
    /\ UNCHANGED <<size, out, hurt, cuts>>

(* Mutant: the target is compared before the byte is counted. *)
PayloadByteLate ==
    /\ state = "PAYLOAD" /\ Pop
    /\ IF Len(buf) >= size[buf[1].f]
       THEN Dispatch(Window)
       ELSE buf' = Window /\ UNCHANGED <<state, got>>
    /\ UNCHANGED <<size, out, hurt, cuts>>

PayloadByte ==
    /\ state = "PAYLOAD" /\ Pop
    /\ IF Len(Window) >= size[buf[1].f]
       THEN Dispatch(Window)
       ELSE buf' = Window /\ UNCHANGED <<state, got>>
    /\ UNCHANGED <<size, out, hurt, cuts>>

-----------------------------------------------------------------------------
Process == HeaderByte \/ HeaderBad \/ HeaderGood \/ PayloadByte

(* The host may stop writing; then the next-state relation is disabled.      *)
Next == PushBytes \/ BusReset \/ Process

(* AppTask_RunIo calls USBRX_Process in every round of the TMOS loop. *)
Spec == Init /\ [][Next]_vars /\ WF_vars(Process)

-----------------------------------------------------------------------------
(* Properties *)

(* frame_buf, of MaxFrame bytes, is never overrun: a header announces at     *)
(* most MaxFrame bytes and the parser stops there.                           *)
TypeOK ==
    /\ size \in [FrameIds -> HeaderLen .. MaxFrame]
    /\ out \in [f : 1 .. FrameCount + 1, i : 1 .. MaxFrame]
    /\ raw \in Seq(ByteMarks) /\ Len(raw) <= RawCap
    /\ state \in {"IDLE", "HEADER", "PAYLOAD"}
    /\ buf \in Seq(ByteMarks)
    /\ Len(buf) < IF state = "PAYLOAD" THEN size[buf[1].f] ELSE HeaderLen
    /\ \A g \in 1 .. Len(got) : got[g] \in Seq(ByteMarks) /\ Len(got[g]) <= MaxFrame
    /\ hurt \subseteq FrameIds /\ cuts \in 0 .. MaxCuts

Frame(f) == Bytes(f, 1, size[f])
HeaderOf(g) == got[g][1].f

(* Frames are dispatched in the order in which the host wrote them, none      *)
(* twice, and one all of whose bytes came in as it was written: what other   *)
(* frames lost does not damage it.                                           *)
WholeInOrder ==
    /\ \A g, h \in 1 .. Len(got) : g < h => HeaderOf(g) < HeaderOf(h)
    /\ \A g \in 1 .. Len(got) : HeaderOf(g) \notin hurt => got[g] = Frame(HeaderOf(g))

(* A frame all of whose bytes came in is dispatched, or its bytes are still  *)
(* in the ring or the parser, or a frame that lost bytes has taken some of   *)
(* its bytes for its own: nothing else makes the parser lose one.            *)
Within(f, s) == \E k \in 1 .. Len(s) : s[k].f = f
Swallowed(f) == \/ \E g \in 1 .. Len(got) : HeaderOf(g) \in hurt \ {f} /\ Within(f, got[g])
                \/ state = "PAYLOAD" /\ buf[1].f \in hurt \ {f} /\ Within(f, buf)
Dispatched(f) == \E g \in 1 .. Len(got) : HeaderOf(g) = f
Intact(f) == f < out.f /\ f \notin hurt
Resync == \A f \in FrameIds :
    Intact(f) => Dispatched(f) \/ Within(f, raw) \/ Within(f, buf) \/ Swallowed(f)

(* Design document 6.1: the protocol checks magic, version, lengths, header  *)
(* CRC and payload CRC; 10.4: an erroneous frame is dropped.  So what is     *)
(* dispatched is a frame as the host wrote it.                               *)
DispatchGenuine == \A g \in 1 .. Len(got) : got[g] = Frame(HeaderOf(g))
=============================================================================
