------------------------------- MODULE UsbEp0 -------------------------------
(***************************************************************************)
(* Control transfers and data toggles: the EP0 half of usb/usb_dev_ll.c    *)
(* (SETUP, data and status stages, pending address, configuration), the    *)
(* toggle bits of EP2 and EP3, and the host that enumerates the device,     *)
(* repeats what is not acknowledged and resets the bus when all else fails. *)
(*                                                                         *)
(* USBHD_IRQHandler is one step, and the controller answers NAK until it   *)
(* has run (USBFS_UC_INT_BUSY).  The task comes in only where it shares a  *)
(* register with the handler: USBDEV_LoadEp2Chunk reads UEP2_TX_CTRL and    *)
(* writes it back.  What the frames are and how they are cut is UsbTx's     *)
(* and UsbRx's matter; here a packet is its number.                        *)
(***************************************************************************)
EXTENDS Naturals, Sequences

CONSTANTS Ep0Size,     \* USBDEV_EP0_SIZE
          DescLen,     \* length of the descriptor asked for
          Wants,       \* values of wLength
          Retries,     \* of the host, before it resets the bus
          MaxFaults,   \* bound: lost handshakes, given up transfers, surprise resets
          MaxPackets   \* bound: packets on EP2, and on EP3

(* Every descriptor of the firmware (4 to 39 bytes) ends in a packet of EP0  *)
(* (64 bytes) that it does not fill: USBDEV_HandleEp0In sends no             *)
(* zero-length packet after a full one.                                      *)
ASSUME UsbEp0Assumption ==
    /\ Ep0Size \in Nat \ {0} /\ DescLen \in Nat \ {0} /\ DescLen % Ep0Size # 0
    /\ Wants \subseteq Nat \ {0} /\ Retries \in Nat
    /\ MaxFaults \in Nat /\ MaxPackets \in Nat

Kinds    == {"DESC", "ADDR", "CONF", "GETCONF", "STATUS", "OTHER"}
None     == 2     \* USB_ADDRESS_PENDING_NONE: addresses are 0 and 1

(* What a host asks until the device is configured. *)
Script == <<"DESC", "ADDR", "DESC", "CONF">>
Done   == Len(Script) + 1

VARIABLES
    host,     \* [addr, step, phase, req, tog, got, tries]: its control pipe
    addr,     \* DEV_ADDR
    pending,  \* ep0.pending_address
    conf,     \* configured
    rest,     \* ep0.data, ep0.remaining: the bytes still to send
    tx0,      \* UEP0_TX_CTRL and the packet: [tog, res, pkt]
    rx0,      \* response bits of UEP0_RX_CTRL
    ep2,      \* [active, left, tog, armed, pkt]: left packets are still to be loaded
    at, reg,  \* the task in USBDEV_LoadEp2Chunk, and the toggle bit it has read
    ep3,      \* toggle bit of UEP3_RX_CTRL
    pipe,     \* the host's ends of EP2 and EP3: [in, out, next]
    acked,    \* ghost: EP2 packets of this session the device has seen acknowledged
    taken,    \* ghost: EP2 packets the host has taken for new
    gone,     \* ghost: EP3 packets of this session the host has seen acknowledged
    pushed,   \* ghost: EP3 packets pushed by USBRX_PushBytes
    unheard,  \* ghost: EP3 packets of this session that have lost an acknowledgement
    faults,   \* ghost: faults so far
    loose,    \* ghost: a SET_ADDRESS the two sides may see differently
    session   \* ghost: SET_CONFIGURATION since the reset: "new", "set", "again"; or "torn"

ctrlVars == <<host, addr, pending, conf, rest, tx0, rx0, loose>>
dataVars == <<ep2, at, reg, ep3, pipe, acked, taken, gone, pushed, unheard>>
vars == <<ctrlVars, dataVars, faults, session>>

Start == [addr |-> 0, step |-> 1, phase |-> "idle", req |-> [kind |-> "OTHER", arg |-> 0],
             tog |-> 1, got |-> <<>>, tries |-> 0]

Init ==
    /\ host = Start /\ loose = FALSE
    /\ addr = 0 /\ pending = None /\ conf = 0 /\ rest = <<>>
    /\ tx0 = [tog |-> 0, res |-> "NAK", pkt |-> <<>>] /\ rx0 = "ACK"
    /\ ep2 = [active |-> FALSE, left |-> 0, tog |-> 0, armed |-> FALSE, pkt |-> 0]
    /\ at = "idle" /\ reg = 0 /\ ep3 = 0
    /\ pipe = [in |-> 0, out |-> 0, next |-> 1]
    /\ acked = {} /\ taken = <<>> /\ gone = {} /\ pushed = <<>> /\ unheard = {}
    /\ faults = 0 /\ session = "new"

Lesser(a, b) == IF a < b THEN a ELSE b
Fault == faults < MaxFaults /\ faults' = faults + 1
Sound == UNCHANGED faults
Flip(t) == 1 - t

-----------------------------------------------------------------------------
(* EP0 in the device *)

(* The bytes that answer a request, were the host to ask for all of them.    *)
Answer(r) ==
    IF r.kind = "DESC"         THEN [i \in 1 .. DescLen |-> <<"DESC", i>>]
    ELSE IF r.kind = "GETCONF" THEN << <<"CONF", conf>> >>
    ELSE IF r.kind = "STATUS"  THEN << <<"STATUS", 0>>, <<"STATUS", 0>> >>
    ELSE <<>>

(* min(desc_len, wLength); GET_CONFIGURATION and GET_STATUS have fixed sizes. *)
Limited(r) == IF r.kind = "DESC" THEN SubSeq(Answer(r), 1, Lesser(DescLen, r.arg))
                                 ELSE Answer(r)

(* Mutant: the chunk is not limited to the endpoint's size. *)
ContinueEp0TxWhole(t, bytes) ==
    /\ tx0' = [tog |-> t, res |-> "ACK", pkt |-> bytes]
    /\ rest' = <<>>
    /\ rx0' = "ACK"

(* USBDEV_ContinueEp0Tx and USBDEV_LoadEp0Tx, the toggle bit being t.        *)
ContinueEp0Tx(t, bytes) ==
    LET n == Lesser(Len(bytes), Ep0Size) IN
    /\ tx0' = [tog |-> t, res |-> "ACK", pkt |-> SubSeq(bytes, 1, n)]
    /\ rest' = SubSeq(bytes, n + 1, Len(bytes))
    /\ rx0' = "ACK"

StallEp0 == /\ tx0' = [tx0 EXCEPT !.tog = 1, !.res = "STALL"]
            /\ rx0' = "STALL" /\ rest' = <<>>

(* Mutant: the toggle bit is the one the last transfer has left. *)
HandleEp0SetupOldTog(r) ==
    /\ IF r.kind = "OTHER" THEN StallEp0 ELSE ContinueEp0Tx(tx0.tog, Limited(r))
    /\ pending' = IF r.kind = "ADDR" THEN r.arg ELSE pending
    /\ conf' = IF r.kind = "CONF" THEN r.arg ELSE conf
    /\ UNCHANGED addr

(* USBDEV_HandleEp0Setup, USBDEV_HandleStandardRequest, USBDEV_StartEp0Data. *)
(* A request that is not standard, not known, or asks for a descriptor there *)
(* is not, is stalled.  pending_address survives a new SETUP.                *)
HandleEp0Setup(r) ==
    /\ IF r.kind = "OTHER" THEN StallEp0 ELSE ContinueEp0Tx(1, Limited(r))
    /\ pending' = IF r.kind = "ADDR" THEN r.arg ELSE pending
    /\ conf' = IF r.kind = "CONF" THEN r.arg ELSE conf
    /\ UNCHANGED addr

TakeAddress == /\ addr' = IF pending = None THEN addr ELSE pending
               /\ pending' = None

(* Mutant: the toggle bit stays as it is between the packets of a transfer. *)
HandleEp0InSame ==
    /\ TakeAddress
    /\ IF rest # <<>> THEN ContinueEp0Tx(tx0.tog, rest)
       ELSE tx0' = [tog |-> 0, res |-> "NAK", pkt |-> <<>>] /\ rx0' = "ACK" /\ UNCHANGED rest
    /\ UNCHANGED conf

(* USBDEV_HandleEp0In *)
HandleEp0In ==
    /\ TakeAddress
    /\ IF rest # <<>> THEN ContinueEp0Tx(Flip(tx0.tog), rest)
       ELSE tx0' = [tog |-> 0, res |-> "NAK", pkt |-> <<>>] /\ rx0' = "ACK" /\ UNCHANGED rest
    /\ UNCHANGED conf

HandleEp0Out == rx0' = "ACK" /\ UNCHANGED <<addr, pending, conf, rest, tx0>>

ep0Vars == <<addr, pending, conf, rest, tx0, rx0>>

-----------------------------------------------------------------------------
(* Bus reset: USBDEV_ResetDataEndpoints, and the host starting over.         *)

(* Mutant: the pending address is left as it is. *)
ResetEp0Pending ==
    /\ addr' = 0 /\ conf' = 0 /\ rest' = <<>>
    /\ tx0' = [tog |-> 0, res |-> "NAK", pkt |-> <<>>] /\ rx0' = "ACK"
    /\ UNCHANGED pending

ResetEp0 ==
    /\ addr' = 0 /\ pending' = None /\ conf' = 0 /\ rest' = <<>>
    /\ tx0' = [tog |-> 0, res |-> "NAK", pkt |-> <<>>] /\ rx0' = "ACK"

ResetDataEndpoints ==
    /\ ep2' = [ep2 EXCEPT !.active = FALSE, !.left = 0, !.tog = 0, !.armed = FALSE]
    /\ ep3' = 0
    /\ UNCHANGED <<at, reg>>

BusResets ==
    /\ ResetEp0 /\ ResetDataEndpoints
    /\ host' = Start /\ loose' = FALSE
    /\ session' = IF at = "idle" THEN "new" ELSE "torn"
    /\ pipe' = [in |-> 0, out |-> 0, next |-> 1]
    /\ acked' = {} /\ taken' = <<>> /\ gone' = {} /\ pushed' = <<>> /\ unheard' = {}

(* For no reason known here, or because the host has run out of patience.    *)
SurpriseReset == BusResets /\ Fault

-----------------------------------------------------------------------------
(* The host's control pipe *)

Hears == host.addr = addr

(* The host sends a SETUP; a device with another address does not hear it.   *)
Ask(r) ==
    /\ host.phase = "idle"
    /\ host' = [host EXCEPT !.phase = IF r.kind \in {"ADDR", "CONF"} THEN "statusIn" ELSE "data",
                            !.req = r, !.tog = 1, !.got = <<>>]
    /\ IF Hears THEN HandleEp0Setup(r) ELSE UNCHANGED ep0Vars
    /\ loose' = (loose /\ ~(Hears /\ r.kind = "ADDR"))
    /\ Sound /\ UNCHANGED <<dataVars, session>>

ArgsOf(kind) == IF kind = "DESC" THEN Wants ELSE IF kind \in {"ADDR", "CONF"} THEN {1} ELSE {0}
AskKind(kind) == \E a \in ArgsOf(kind) : Ask([kind |-> kind, arg |-> a])

AskNext == host.step # Done /\ AskKind(Script[host.step])

(* Requests in between; a configured device may be configured again, or not. *)
AskMore == \/ \E kind \in {"DESC", "GETCONF", "STATUS", "OTHER"} : AskKind(kind)
           \/ host.step = Done /\ \E c \in {0, 1} : Ask([kind |-> "CONF", arg |-> c])

(* The host's view after a transfer that has worked.                         *)
Finished(h) ==
    [h EXCEPT !.phase = "idle", !.tries = 0,
              !.addr = IF h.req.kind = "ADDR" THEN h.req.arg ELSE @,
              !.step = IF h.req.kind = "CONF" THEN Len(Script) + h.req.arg
                       ELSE IF @ # Done /\ h.req.kind = Script[@] THEN @ + 1 ELSE @]

(* With the status stage of SET_CONFIGURATION the host's toggles start anew; *)
(* those of the device do not.                                               *)
PipesAfter(h) ==
    IF h.req.kind = "CONF" /\ h.phase = "idle"
    THEN /\ pipe' = [pipe EXCEPT !.in = 0, !.out = 0]
         /\ session' = IF session = "new" THEN "set" ELSE IF session = "set" THEN "again" ELSE session
    ELSE UNCHANGED <<pipe, session>>

ep2Vars == <<ep2, at, reg, acked, taken>>
ep3Vars == <<ep3, gone, pushed, unheard>>

WLength(r) == IF r.kind = "DESC" THEN r.arg ELSE IF r.kind = "GETCONF" THEN 1
              ELSE IF r.kind = "STATUS" THEN 2 ELSE 0

(* The host takes a packet with the toggle bit it expects.                   *)
TakePacket(h) ==
    IF tx0.tog # h.tog THEN h
    ELSE IF h.phase = "statusIn" THEN Finished(h)
    ELSE LET g == h.got \o tx0.pkt
             over == Len(g) >= WLength(h.req) \/ Len(tx0.pkt) < Ep0Size
         IN  [h EXCEPT !.got = g, !.tog = Flip(@), !.phase = IF over THEN "statusOut" ELSE "data"]

AnswersIn == host.phase \in {"data", "statusIn"} /\ Hears

In == /\ AnswersIn /\ tx0.res = "ACK"
      /\ host' = TakePacket(host) /\ HandleEp0In
      /\ PipesAfter(host') /\ Sound
      /\ UNCHANGED <<ep2Vars, ep3Vars, loose>>

(* The device does not get the host's ACK and keeps the packet.              *)
InUnheard ==
    /\ AnswersIn /\ tx0.res = "ACK"
    /\ host' = TakePacket(host) /\ UNCHANGED ep0Vars
    /\ PipesAfter(host') /\ Fault
    /\ loose' = (loose \/ host.req.kind = "ADDR")
    /\ UNCHANGED <<ep2Vars, ep3Vars>>

Stalled ==
    /\ AnswersIn /\ tx0.res = "STALL"
    /\ host' = [host EXCEPT !.phase = "idle"]
    /\ Sound /\ UNCHANGED <<ep0Vars, loose, dataVars, session>>

Out == /\ host.phase = "statusOut" /\ Hears /\ rx0 = "ACK"
       /\ HandleEp0Out
       /\ host' = Finished(host)
       /\ Sound /\ UNCHANGED <<loose, dataVars, session>>

OutUnheard ==
    /\ host.phase = "statusOut" /\ Hears /\ rx0 = "ACK"
    /\ HandleEp0Out
    /\ Fault /\ UNCHANGED <<host, loose, dataVars, session>>

(* Nobody answers, or with NAK for ever.                                     *)
Stuck == ~Hears \/ IF host.phase = "statusOut" THEN rx0 # "ACK" ELSE tx0.res = "NAK"

(* The host gives a transfer up, tries again, and resets the bus in the end. *)
GiveUp ==
    /\ host.phase # "idle"
    /\ (Stuck /\ Sound) \/ (~Stuck /\ Fault)
    /\ IF host.tries < Retries
       THEN /\ host' = [host EXCEPT !.phase = "idle", !.tries = @ + 1]
            /\ loose' = (loose \/ host.req.kind = "ADDR")
            /\ UNCHANGED <<ep0Vars, dataVars, session>>
       ELSE BusResets

-----------------------------------------------------------------------------
(* EP2: the task sends frames of one or two packets, the host reads them     *)

Configured == host.step = Done /\ Hears

(* USBDEV_SendFrame up to the point where USBDEV_LoadEp2Chunk has read       *)
(* UEP2_TX_CTRL.                                                             *)
SendFrame(n) ==
    /\ at = "idle" /\ conf # 0 /\ ~ep2.active
    /\ ep2.pkt + n <= MaxPackets
    /\ ep2' = [ep2 EXCEPT !.active = TRUE, !.left = n - 1]
    /\ at' = "load" /\ reg' = ep2.tog
    /\ Sound /\ UNCHANGED <<ctrlVars, ep3Vars, pipe, acked, taken, session>>

LoadEp2Chunk ==
    /\ at = "load" /\ at' = "idle"
    /\ ep2' = [ep2 EXCEPT !.tog = reg, !.armed = TRUE, !.pkt = @ + 1]
    /\ Sound /\ UNCHANGED <<ctrlVars, ep3Vars, reg, pipe, acked, taken, session>>

(* Mutant: the control register is written anew when a frame is out.         *)
Ep2DoneAnew(e) == IF e.left > 0 THEN [e EXCEPT !.tog = Flip(@), !.left = @ - 1, !.pkt = @ + 1]
                                ELSE [e EXCEPT !.tog = 0, !.active = FALSE, !.armed = FALSE]

(* The controller turns the toggle bit (T_AUTO_TOG) and the handler keeps it. *)
Ep2Done(e) == IF e.left > 0 THEN [e EXCEPT !.tog = Flip(@), !.left = @ - 1, !.pkt = @ + 1]
                            ELSE [e EXCEPT !.tog = Flip(@), !.active = FALSE, !.armed = FALSE]

HostTakes ==
    IF ep2.tog = pipe.in
    THEN taken' = Append(taken, ep2.pkt) /\ pipe' = [pipe EXCEPT !.in = Flip(@)]
    ELSE UNCHANGED <<taken, pipe>>

Ep2In ==
    /\ Configured /\ ep2.armed
    /\ HostTakes
    /\ acked' = acked \cup {ep2.pkt}
    /\ ep2' = Ep2Done(ep2)
    /\ Sound /\ UNCHANGED <<ctrlVars, ep3Vars, at, reg, session>>

Ep2InUnheard ==
    /\ Configured /\ ep2.armed
    /\ HostTakes
    /\ Fault /\ UNCHANGED <<ctrlVars, ep3Vars, ep2, at, reg, acked, session>>

-----------------------------------------------------------------------------
(* EP3: the host writes packets, the handler pushes them                     *)

(* Mutant: the handler writes UEP3_RX_CTRL without R_TOG. *)
Ep3HandlerAnew ==
    IF pipe.out = ep3 THEN pushed' = Append(pushed, pipe.next) /\ ep3' = 0
                      ELSE pushed' \in {pushed, Append(pushed, pipe.next)} /\ UNCHANGED ep3

(* A packet with the wrong toggle is acknowledged as a repetition; whether   *)
(* the controller still raises the interrupt is not known, and the handler   *)
(* does not look at USBFS_UIS_TOG_OK.                                        *)
Ep3Handler ==
    IF pipe.out = ep3 THEN pushed' = Append(pushed, pipe.next) /\ ep3' = Flip(ep3)
                      ELSE pushed' \in {pushed, Append(pushed, pipe.next)} /\ UNCHANGED ep3

Ep3Out ==
    /\ Configured /\ pipe.next <= MaxPackets
    /\ Ep3Handler
    /\ gone' = gone \cup {pipe.next}
    /\ pipe' = [pipe EXCEPT !.out = Flip(@), !.next = @ + 1]
    /\ Sound /\ UNCHANGED <<ctrlVars, ep2Vars, unheard, session>>

Ep3OutUnheard ==
    /\ Configured /\ pipe.next <= MaxPackets
    /\ Ep3Handler
    /\ unheard' = unheard \cup {pipe.next}
    /\ Fault /\ UNCHANGED <<ctrlVars, ep2Vars, gone, pipe, session>>

-----------------------------------------------------------------------------
Control ==
    AskNext \/ AskMore \/ In \/ InUnheard \/ Stalled \/ Out \/ OutUnheard \/ GiveUp
Data == LoadEp2Chunk \/ (\E n \in 1 .. 2 : SendFrame(n))
        \/ Ep2In \/ Ep2InUnheard \/ Ep3Out \/ Ep3OutUnheard

Next == Control \/ Data \/ SurpriseReset

(* A host driver finishes what it has begun, gives up what is stuck, and     *)
(* enumerates, whatever else asks on EP0 in between; a handler returns.      *)
Fairness == /\ SF_vars(AskNext)
            /\ WF_vars(In) /\ WF_vars(Stalled) /\ WF_vars(Out) /\ WF_vars(GiveUp /\ Stuck)

Spec == Init /\ [][Next]_vars /\ Fairness

-----------------------------------------------------------------------------
(* Properties *)

TypeOK ==
    /\ host.addr \in {0, 1} /\ host.step \in 1 .. Done /\ host.tries \in 0 .. Retries
    /\ host.phase \in {"idle", "data", "statusIn", "statusOut"} /\ host.tog \in {0, 1}
    /\ host.req.kind \in Kinds
    /\ addr \in {0, 1} /\ pending \in {1, None} /\ conf \in {0, 1}
    /\ Len(rest) < DescLen + 2 /\ Len(tx0.pkt) <= Ep0Size
    /\ tx0.tog \in {0, 1} /\ tx0.res \in {"ACK", "NAK", "STALL"} /\ rx0 \in {"ACK", "STALL"}
    /\ ep2 \in [active : BOOLEAN, left : {0, 1}, tog : {0, 1}, armed : BOOLEAN, pkt : 0 .. MaxPackets]
    /\ at \in {"idle", "load"} /\ reg \in {0, 1} /\ ep3 \in {0, 1}
    /\ pipe \in [in : {0, 1}, out : {0, 1}, next : 1 .. MaxPackets + 1]
    /\ acked \subseteq 1 .. MaxPackets /\ gone \subseteq 1 .. MaxPackets
    /\ unheard \subseteq 1 .. MaxPackets
    /\ \A i \in 1 .. Len(taken) : taken[i] \in 1 .. MaxPackets
    /\ \A i \in 1 .. Len(pushed) : pushed[i] \in 1 .. MaxPackets
    /\ faults \in 0 .. MaxFaults /\ loose \in BOOLEAN
    /\ session \in {"new", "set", "again", "torn"}

(* What the host has at the status stage is the answer to its request, cut   *)
(* to wLength: no packet missing, none twice, none of an earlier request,    *)
(* whatever was lost or given up before.                                     *)
Wanted == SubSeq(Answer(host.req), 1, Lesser(Len(Answer(host.req)), WLength(host.req)))
Answered == host.phase \in {"data", "statusOut"} =>
    /\ host.got = SubSeq(Wanted, 1, Len(host.got))
    /\ host.phase = "statusOut" => host.got = Wanted

(* Device and host agree on the address at every moment of a SET_ADDRESS,    *)
(* unless one was given up half way or its last handshake was lost: then     *)
(* USBDEV_HandleEp0In takes the pending address at the next IN of any        *)
(* transfer, and only a reset helps.                                         *)
AddressAgrees == Hears \/ loose

Increasing(s) == \A i \in 1 .. Len(s) - 1 : s[i] < s[i + 1]
Elements(s)   == {s[i] : i \in 1 .. Len(s)}
FirstSet == session \in {"new", "set"}

(* Toggles on EP2: what the host has acknowledged it has taken, once and in  *)
(* order, though acknowledgements are lost and frames end on either toggle.  *)
(* (Not after a second SET_CONFIGURATION, nor after a reset inside           *)
(* USBDEV_LoadEp2Chunk: both leave the device's toggle bit where it was.)    *)
InKept == FirstSet => acked \subseteq Elements(taken) /\ Increasing(taken)

(* In order, and one twice in a row only if it is in u. *)
Repeats(s, u) == \A i \in 1 .. Len(s) - 1 : s[i] < s[i + 1] \/ (s[i] = s[i + 1] /\ s[i] \in u)

(* Toggles on EP3: what the device has acknowledged has been pushed, in      *)
(* order, and a packet twice only when an acknowledgement of that very       *)
(* packet was lost, whatever was lost or given up on EP0 and EP2.            *)
OutKept == FirstSet => gone \subseteq Elements(pushed) /\ Repeats(pushed, unheard)

(* A host that goes on trying gets the device configured, after any faults   *)
(* and from every state they leave EP0 in.                                   *)
Enumerates == []<>(host.step = Done)
=============================================================================
