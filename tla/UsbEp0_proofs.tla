---------------------------- MODULE UsbEp0_proofs ----------------------------
(***************************************************************************)
(* Proofs about UsbEp0 for every packet size, descriptor, number of        *)
(* retries, of faults and of packets: what the host is told at the status  *)
(* stage is the answer to its request, the two sides agree on the address, *)
(* and the toggles of EP2 and EP3 lose and double no packet.               *)
(***************************************************************************)
EXTENDS UsbEp0, QueueLemmas

-----------------------------------------------------------------------------
(* The inductive invariant *)

ByteSet == {<<"DESC", i>> : i \in 1 .. DescLen} \cup {<<"CONF", c>> : c \in {0, 1}} \cup {<<"STATUS", 0>>}
Texts   == Seq(ByteSet)
Reqs    == [kind : Kinds, arg : Wants \cup {0, 1}]

(* A request as the host makes it, and a pipe whose stage fits its request.  *)
ReqOK(r) == /\ r \in Reqs
            /\ r.kind = "DESC" => r.arg \in Wants
            /\ r.kind = "ADDR" => r.arg = 1
            /\ r.kind = "CONF" => r.arg \in {0, 1}
HostOK(h) ==
    /\ h \in [addr : {0, 1}, step : 1 .. Done, phase : {"idle", "data", "statusIn", "statusOut"},
              req : Reqs, tog : {0, 1}, got : Texts, tries : 0 .. Retries]
    /\ ReqOK(h.req)
    /\ h.phase = "statusIn" => h.req.kind \in {"ADDR", "CONF"}
    /\ h.phase \in {"data", "statusOut"} => h.req.kind \notin {"ADDR", "CONF"}
DeviceOK ==
    /\ addr \in {0, 1} /\ pending \in {1, None} /\ conf \in {0, 1}
    /\ rest \in Texts /\ Len(rest) < DescLen + 2
    /\ tx0 \in [tog : {0, 1}, res : {"ACK", "NAK", "STALL"}, pkt : Texts] /\ Len(tx0.pkt) <= Ep0Size
    /\ rx0 \in {"ACK", "STALL"}

TaskOK ==
    /\ ep2 \in [active : BOOLEAN, left : {0, 1}, tog : {0, 1}, armed : BOOLEAN, pkt : 0 .. MaxPackets]
    /\ at \in {"idle", "load"} /\ reg \in {0, 1}
    /\ ep2.pkt + ep2.left + (IF at = "load" THEN 1 ELSE 0) <= MaxPackets
    /\ ep2.armed => ep2.pkt >= 1
Pkts == 1 .. MaxPackets
PipeOK ==
    /\ ep3 \in {0, 1} /\ pipe \in [in : {0, 1}, out : {0, 1}, next : 1 .. MaxPackets + 1]
    /\ acked \subseteq Pkts /\ gone \subseteq Pkts /\ unheard \subseteq Pkts
    /\ taken \in Seq(Pkts) /\ pushed \in Seq(Pkts)
GhostOK == /\ faults \in 0 .. MaxFaults /\ loose \in BOOLEAN
           /\ session \in {"new", "set", "again", "torn"}
Types == HostOK(host) /\ DeviceOK /\ TaskOK /\ PipeOK /\ GhostOK

(* A pending address is the one the host is just waiting for, unless that    *)
(* SET_ADDRESS was given up.                                                 *)
AddrInv ==
    ~loose => /\ Hears
              /\ IF host.phase = "statusIn" /\ host.req.kind = "ADDR"
                 THEN pending = 1 /\ tx0.res = "ACK" /\ tx0.tog = host.tog
                 ELSE pending = None

(* In the data stage the host has a beginning of the answer, L; the device    *)
(* holds the packet after it and the rest, or, when its ACK was lost, the    *)
(* last packet the host has and the rest.                                    *)
Along(L, p, o) == \A i \in 1 .. Len(p) : p[i] = L[o + i]
NextOf(L, h, x, r) ==
    /\ x.tog = h.tog /\ (r # <<>> => Len(x.pkt) = Ep0Size)
    /\ Len(h.got) + Len(x.pkt) + Len(r) = Len(L)
    /\ Along(L, x.pkt, Len(h.got)) /\ Along(L, r, Len(h.got) + Len(x.pkt))
AgainOf(L, h, x, r) ==
    /\ x.tog # h.tog
    /\ Len(h.got) + Len(r) = Len(L) /\ Along(L, r, Len(h.got))
DataOK(L, h, x, r, hears) ==
    /\ h.phase \in {"data", "statusOut"} => Len(h.got) <= Len(L) /\ Along(L, h.got, 0)
    /\ h.phase = "statusOut" => Len(h.got) = Len(L)
    /\ h.phase = "data" /\ hears /\ x.res = "ACK" =>
          h.req.kind # "OTHER" /\ (NextOf(L, h, x, r) \/ AgainOf(L, h, x, r))
DataInv == DataOK(Limited(host.req), host, tx0, rest, Hears)

(* Before the first SET_CONFIGURATION is through no data flows.              *)
NewInv ==
    session = "new" => /\ host.step # Done /\ ep2.tog = 0 /\ ep3 = 0
                       /\ pipe.in = 0 /\ pipe.out = 0
                       /\ taken = <<>> /\ acked = {} /\ pushed = <<>> /\ gone = {}

(* The host has the packet on EP2 exactly when the toggles differ.           *)
InInv == FirstSet =>
    /\ at = "load" => reg = ep2.tog /\ ep2.active /\ ~ep2.armed
    /\ ep2.armed => ep2.active
    /\ acked \subseteq Elements(taken) /\ Increasing(taken)
    /\ \A x \in Elements(taken) : x <= ep2.pkt
    /\ IF ep2.armed /\ ep2.tog # pipe.in THEN ep2.pkt \in Elements(taken)
       ELSE ep2.tog = pipe.in /\ (ep2.armed => ep2.pkt \notin Elements(taken))

(* The device has the next packet of the host exactly when the toggles       *)
(* differ, and then it is the acknowledgement of that packet that was lost.  *)
OutInv == FirstSet =>
    /\ gone \subseteq Elements(pushed) /\ Repeats(pushed, unheard)
    /\ pipe.out # ep3 => pipe.next \in unheard
    /\ \A x \in Elements(pushed) : x <= pipe.next
    /\ IF pipe.out = ep3 THEN pipe.next \notin Elements(pushed) ELSE pipe.next \in Elements(pushed)

IInv == Types /\ AddrInv /\ DataInv /\ NewInv /\ InInv /\ OutInv

-----------------------------------------------------------------------------
(* Requests, answers, and the packets they are cut into *)

LEMMA ScriptFacts ==
  /\ Done = 5 /\ Len(Script) = 4
  /\ Script[1] = "DESC" /\ Script[2] = "ADDR" /\ Script[3] = "DESC" /\ Script[4] = "CONF"
  BY DEF Done, Script

(* Answers are texts of known lengths. *)
LEMMA AnswerFacts ==
  ASSUME NEW r, ReqOK(r), conf \in {0, 1}
  PROVE  /\ Answer(r) \in Texts
         /\ Len(Answer(r)) = IF r.kind = "DESC" THEN DescLen
                             ELSE IF r.kind = "GETCONF" THEN 1
                             ELSE IF r.kind = "STATUS" THEN 2 ELSE 0
<1>1. DescLen \in Nat
  BY UsbEp0Assumption
<1>2. CASE r.kind = "DESC"
  <2>1. Answer(r) = [i \in 1 .. DescLen |-> <<"DESC", i>>]
    BY <1>2 DEF Answer
  <2>2. \A i \in 1 .. DescLen : <<"DESC", i>> \in ByteSet
    BY DEF ByteSet
  <2> QED
    BY <1>1, <1>2, <2>1, <2>2 DEF Texts
<1>3. CASE r.kind = "GETCONF"
  <2>1. Answer(r) = << <<"CONF", conf>> >>
    BY <1>3 DEF Answer
  <2>2. <<"CONF", conf>> \in ByteSet
    BY DEF ByteSet
  <2> QED
    BY <1>3, <2>1, <2>2 DEF Texts
<1>4. CASE r.kind = "STATUS"
  <2>1. Answer(r) = << <<"STATUS", 0>>, <<"STATUS", 0>> >>
    BY <1>4 DEF Answer
  <2>2. <<"STATUS", 0>> \in ByteSet
    BY DEF ByteSet
  <2> QED
    BY <1>4, <2>1, <2>2 DEF Texts
<1>5. CASE r.kind \notin {"DESC", "GETCONF", "STATUS"}
  <2>1. Answer(r) = <<>>
    BY <1>5 DEF Answer
  <2> QED
    BY <1>5, <2>1 DEF Texts
<1> QED
  BY <1>2, <1>3, <1>4, <1>5

(* Texts have lengths, and only the empty one has length 0. *)
LEMMA TextsFacts ==
  /\ \A q : q \in Texts => Len(q) \in Nat /\ (q = <<>> <=> Len(q) = 0)
  /\ <<>> \in Texts /\ Len(<<>>) = 0
<1>1. ASSUME NEW q \in Texts PROVE Len(q) \in Nat /\ (q = <<>> <=> Len(q) = 0)
  BY QueuePlaces DEF Texts
<1> QED
  BY <1>1 DEF Texts

(* A part of a text. *)
LEMMA SubFacts ==
  ASSUME NEW q \in Texts, NEW a \in Nat \ {0}, NEW b \in Nat, b <= Len(q), a <= b + 1
  PROVE  /\ SubSeq(q, a, b) \in Texts /\ Len(SubSeq(q, a, b)) = b - a + 1
         /\ \A i \in 1 .. b - a + 1 : SubSeq(q, a, b)[i] = q[a + i - 1]
<1>1. Len(q) \in Nat
  BY TextsFacts
<1>2. /\ SubSeq(q, a, b) \in Seq(ByteSet)
      /\ Len(SubSeq(q, a, b)) = IF a <= b THEN b - a + 1 ELSE 0
      /\ \A i \in 1 .. b - a + 1 : SubSeq(q, a, b)[i] = q[a + i - 1]
  BY <1>1, SubSeqProperties DEF Texts
<1> QED
  BY <1>1, <1>2 DEF Texts

(* A text behind another. *)
LEMMA JoinTexts ==
  ASSUME NEW q \in Texts, NEW p \in Texts
  PROVE  /\ q \o p \in Texts /\ Len(q \o p) = Len(q) + Len(p)
         /\ \A i \in 1 .. Len(q) : (q \o p)[i] = q[i]
         /\ \A i \in 1 .. Len(p) : (q \o p)[Len(q) + i] = p[i]
<1>1. Len(q) \in Nat /\ Len(p) \in Nat
  BY TextsFacts
<1>2. /\ q \o p \in Seq(ByteSet) /\ Len(q \o p) = Len(q) + Len(p)
      /\ \A i \in 1 .. Len(q) + Len(p) : (q \o p)[i] = IF i <= Len(q) THEN q[i] ELSE p[i - Len(q)]
  BY ConcatProperties DEF Texts
<1> HIDE DEF Texts
<1> QED
  BY <1>1, <1>2 DEF Texts

(* A chunk for EP0 and what is left after it. *)
Split(bytes, p, r) ==
    /\ p \in Texts /\ r \in Texts /\ Len(p) <= Ep0Size /\ Len(p) + Len(r) = Len(bytes)
    /\ r # <<>> => Len(p) = Ep0Size
    /\ bytes # <<>> => Len(p) >= 1
    /\ \A i \in 1 .. Len(p) : p[i] = bytes[i]
    /\ \A i \in 1 .. Len(r) : r[i] = bytes[Len(p) + i]

(* USBDEV_ContinueEp0Tx splits what is to be sent into a packet and the      *)
(* rest.                                                                     *)
LEMMA TxSplits ==
  ASSUME NEW t, NEW bytes \in Texts, ContinueEp0Tx(t, bytes)
  PROVE  /\ \E p : tx0' = [tog |-> t, res |-> "ACK", pkt |-> p] /\ Split(bytes, p, rest')
         /\ rx0' = "ACK"
<1> DEFINE n == Lesser(Len(bytes), Ep0Size)
           m == Len(bytes)
           p == SubSeq(bytes, 1, n)
           r == SubSeq(bytes, n + 1, Len(bytes))
<1>1. m \in Nat /\ Ep0Size \in Nat \ {0} /\ (bytes = <<>> <=> m = 0)
  BY TextsFacts, UsbEp0Assumption
<1>2. /\ n \in Nat /\ n <= m /\ n <= Ep0Size /\ (n < m => n = Ep0Size) /\ (m # 0 => n >= 1)
  BY <1>1 DEF Lesser
<1>3. tx0' = [tog |-> t, res |-> "ACK", pkt |-> p] /\ rest' = r /\ rx0' = "ACK"
  BY DEF ContinueEp0Tx
<1> HIDE DEF n
<1>4. p \in Texts /\ Len(p) = n /\ \A i \in 1 .. n : p[i] = bytes[i]
  <2>1. /\ p \in Texts /\ Len(p) = n - 1 + 1
        /\ \A i \in 1 .. n - 1 + 1 : p[i] = bytes[1 + i - 1]
    BY <1>2, SubFacts
  <2> HIDE DEF p
  <2> QED
    BY <1>2, <2>1
<1>5. r \in Texts /\ Len(r) = m - n /\ \A i \in 1 .. m - n : r[i] = bytes[n + i]
  <2>1. /\ r \in Texts /\ Len(r) = m - (n + 1) + 1
        /\ \A i \in 1 .. m - (n + 1) + 1 : r[i] = bytes[(n + 1) + i - 1]
    BY <1>1, <1>2, SubFacts
  <2> HIDE DEF r, m
  <2>2. m - (n + 1) + 1 = m - n /\ \A i \in Nat : (n + 1) + i - 1 = n + i
    BY <1>1, <1>2
  <2> QED
    BY <1>1, <1>2, <2>1, <2>2
<1> HIDE DEF p, r
<1>6. r # <<>> <=> n < m
  BY <1>1, <1>2, <1>5, TextsFacts
<1>7. Split(bytes, p, r)
  BY <1>1, <1>2, <1>4, <1>5, <1>6 DEF Split
<1> QED
  BY <1>3, <1>7

(* The answer, cut to wLength, is what the host waits for.                   *)
LEMMA LimitedFacts ==
  ASSUME NEW r, ReqOK(r), conf \in {0, 1}
  PROVE  /\ Limited(r) \in Texts /\ Len(Limited(r)) <= WLength(r) /\ WLength(r) \in Nat
         /\ Len(Limited(r)) < DescLen + 2
         /\ r.kind \in {"ADDR", "CONF", "OTHER"} => Limited(r) = <<>>
         /\ r.kind \notin {"ADDR", "CONF"} =>
               Limited(r) = SubSeq(Answer(r), 1, Lesser(Len(Answer(r)), WLength(r)))
<1> DEFINE A == Answer(r)
<1>1. /\ A \in Texts /\ DescLen \in Nat \ {0}
      /\ Len(A) = IF r.kind = "DESC" THEN DescLen
                  ELSE IF r.kind = "GETCONF" THEN 1
                  ELSE IF r.kind = "STATUS" THEN 2 ELSE 0
  BY AnswerFacts, UsbEp0Assumption
<1> HIDE DEF A
<1>2. CASE r.kind = "DESC"
  <2> DEFINE n == Lesser(DescLen, r.arg)
  <2>1. r.arg \in Nat \ {0} /\ WLength(r) = r.arg
    BY <1>2, UsbEp0Assumption DEF ReqOK, WLength
  <2>2. n \in Nat /\ n <= DescLen /\ n <= r.arg /\ Len(A) = DescLen
    BY <1>1, <1>2, <2>1 DEF Lesser
  <2>3. Limited(r) = SubSeq(A, 1, n)
    BY <1>2 DEF Limited, A
  <2> HIDE DEF n
  <2>4. Limited(r) \in Texts /\ Len(Limited(r)) = n
    <3>1. SubSeq(A, 1, n) \in Texts /\ Len(SubSeq(A, 1, n)) = n - 1 + 1
      BY <1>1, <2>2, SubFacts
    <3> QED
      BY <2>2, <2>3, <3>1
  <2> QED
    BY <1>1, <1>2, <2>1, <2>2, <2>3, <2>4 DEF n, A
<1>3. CASE r.kind # "DESC"
  <2>1. Limited(r) = A
    BY <1>3 DEF Limited, A
  <2>2. r.kind \notin {"ADDR", "CONF"} => WLength(r) = Len(A) /\ Lesser(Len(A), Len(A)) = Len(A)
    BY <1>1, <1>3 DEF WLength, Lesser
  <2>3. WLength(r) \in Nat /\ Len(A) <= WLength(r) /\ Len(A) < DescLen + 2
    BY <1>1, <1>3 DEF WLength
  <2>4. SubSeq(A, 1, Len(A)) = A
    BY <1>1, SubSeqFull DEF Texts
  <2>5. r.kind \in {"ADDR", "CONF", "OTHER"} => A = <<>>
    BY <1>1, <1>3, TextsFacts
  <2> QED
    BY <1>1, <1>3, <2>1, <2>2, <2>3, <2>4, <2>5 DEF A
<1> QED
  BY <1>2, <1>3

-----------------------------------------------------------------------------
(* What the steps do *)

LEMMA AskAsks ==
  ASSUME HostOK(host), AskNext \/ AskMore
  PROVE  \E r : ReqOK(r) /\ Ask(r)
<1>1. host.step \in 1 .. 5 /\ Done = 5
  BY ScriptFacts DEF HostOK
<1>2. ASSUME NEW k \in Kinds, AskKind(k) PROVE \E r : ReqOK(r) /\ Ask(r)
  <2>1. PICK a \in ArgsOf(k) : Ask([kind |-> k, arg |-> a])
    BY <1>2 DEF AskKind
  <2> DEFINE r == [kind |-> k, arg |-> a]
  <2>2. r.kind = k /\ r.arg = a
    OBVIOUS
  <2>3. ReqOK(r)
    BY <2>1, <2>2 DEF ReqOK, Reqs, ArgsOf
  <2> QED
    BY <2>1, <2>3
<1>3. ASSUME NEW c \in {0, 1}, Ask([kind |-> "CONF", arg |-> c]) PROVE \E r : ReqOK(r) /\ Ask(r)
  <2> DEFINE r == [kind |-> "CONF", arg |-> c]
  <2>1. r.kind = "CONF" /\ r.arg = c
    OBVIOUS
  <2>2. ReqOK(r)
    BY <2>1 DEF ReqOK, Reqs, Kinds
  <2> QED
    BY <1>3, <2>2
<1>4. CASE AskNext
  <2>1. host.step \in 1 .. 4
    BY <1>1, <1>4 DEF AskNext
  <2>2. host.step = 1 \/ host.step = 2 \/ host.step = 3 \/ host.step = 4
    BY <2>1
  <2>3. Script[host.step] \in Kinds
    BY <2>2, ScriptFacts DEF Kinds
  <2> QED
    BY <1>2, <1>4, <2>3 DEF AskNext
<1>5. CASE AskMore
  BY <1>2, <1>3, <1>5 DEF AskMore, Kinds
<1> QED
  BY <1>4, <1>5

(* A transfer that has worked leaves the host idle, a step further.          *)
LEMMA FinishedFacts ==
  ASSUME NEW h, HostOK(h)
  PROVE  /\ HostOK(Finished(h)) /\ Finished(h).phase = "idle" /\ Finished(h).req = h.req
         /\ Finished(h).addr = IF h.req.kind = "ADDR" THEN 1 ELSE h.addr
         /\ h.step # Done /\ h.req.kind # "CONF" => Finished(h).step # Done
<1> DEFINE st == IF h.req.kind = "CONF" THEN Len(Script) + h.req.arg
                 ELSE IF h.step # Done /\ h.req.kind = Script[h.step] THEN h.step + 1 ELSE h.step
           ad == IF h.req.kind = "ADDR" THEN h.req.arg ELSE h.addr
<1>1. /\ h \in [addr : {0, 1}, step : 1 .. 5, phase : {"idle", "data", "statusIn", "statusOut"},
                req : Reqs, tog : {0, 1}, got : Texts, tries : 0 .. Retries]
      /\ ReqOK(h.req) /\ Retries \in Nat /\ Done = 5
  BY ScriptFacts, UsbEp0Assumption DEF HostOK
<1>2. h.step \in 1 .. 5
  BY <1>1
<1>3. st \in 1 .. 5 /\ (h.step # 5 /\ h.req.kind # "CONF" => st # 5)
  <2>1. CASE h.req.kind = "CONF"
    <3>1. h.req.arg \in {0, 1}
      BY <1>1, <2>1 DEF ReqOK
    <3> QED
      BY <2>1, <3>1, ScriptFacts
  <2>2. CASE h.req.kind # "CONF"
    <3>1. h.req.kind = Script[h.step] => h.step # 4
      BY <2>2, ScriptFacts
    <3> QED
      BY <1>1, <1>2, <2>2, <3>1
  <2> QED
    BY <2>1, <2>2
<1>4. ad \in {0, 1} /\ ad = IF h.req.kind = "ADDR" THEN 1 ELSE h.addr
  BY <1>1 DEF ReqOK
<1> HIDE DEF st, ad
<1>5. Finished(h) = [h EXCEPT !.phase = "idle", !.tries = 0, !.addr = ad, !.step = st]
  BY <1>1 DEF Finished, ad, st
<1>6. /\ Finished(h) \in [addr : {0, 1}, step : 1 .. 5, phase : {"idle", "data", "statusIn", "statusOut"},
                          req : Reqs, tog : {0, 1}, got : Texts, tries : 0 .. Retries]
      /\ Finished(h).phase = "idle" /\ Finished(h).req = h.req
      /\ Finished(h).addr = ad /\ Finished(h).step = st
  <2>1. 0 \in 0 .. Retries
    BY <1>1
  <2> QED
    BY <1>1, <1>3, <1>4, <1>5, <2>1
<1> QED
  BY <1>1, <1>3, <1>4, <1>6 DEF HostOK

(* The host takes a packet: a status, the next one of the answer, or none.   *)
Ends(h, g) == Len(g) >= WLength(h.req) \/ Len(tx0.pkt) < Ep0Size
(* The host keeps its pipe well-formed when it is shown a packet. *)
LEMMA TakeFacts ==
  ASSUME NEW h, HostOK(h), DeviceOK, h.phase \in {"data", "statusIn"}
  PROVE  /\ HostOK(TakePacket(h))
         /\ \/ tx0.tog # h.tog /\ TakePacket(h) = h
            \/ tx0.tog = h.tog /\ h.phase = "statusIn" /\ TakePacket(h) = Finished(h)
            \/ /\ tx0.tog = h.tog /\ h.phase = "data"
               /\ TakePacket(h).got = h.got \o tx0.pkt /\ TakePacket(h).tog = Flip(h.tog)
               /\ TakePacket(h).req = h.req /\ TakePacket(h).addr = h.addr /\ TakePacket(h).step = h.step
               /\ TakePacket(h).phase = IF Ends(h, h.got \o tx0.pkt) THEN "statusOut" ELSE "data"
<1>1. CASE tx0.tog # h.tog
  BY <1>1 DEF TakePacket
<1>2. CASE tx0.tog = h.tog /\ h.phase = "statusIn"
  BY <1>2, FinishedFacts DEF TakePacket
<1>3. CASE tx0.tog = h.tog /\ h.phase = "data"
  <2> DEFINE g == h.got \o tx0.pkt
             ph == IF Ends(h, g) THEN "statusOut" ELSE "data"
  <2>1. h.got \in Texts /\ tx0.pkt \in Texts /\ h.tog \in {0, 1}
    BY DEF HostOK, DeviceOK
  <2>2. g \in Texts /\ Flip(h.tog) \in {0, 1}
    BY <2>1, JoinTexts DEF Flip
  <2>3. ph \in {"idle", "data", "statusIn", "statusOut"} /\ ph # "statusIn"
    OBVIOUS
  <2>4. TakePacket(h) = [h EXCEPT !.got = g, !.tog = Flip(h.tog), !.phase = ph]
    BY <1>3 DEF TakePacket, Ends, HostOK
  <2> HIDE DEF g, ph
  <2>5. HostOK(TakePacket(h))
    BY <1>3, <2>2, <2>3, <2>4 DEF HostOK
  <2>6. /\ TakePacket(h).got = g /\ TakePacket(h).tog = Flip(h.tog) /\ TakePacket(h).phase = ph
        /\ TakePacket(h).req = h.req /\ TakePacket(h).addr = h.addr /\ TakePacket(h).step = h.step
    BY <2>4 DEF HostOK
  <2> QED
    BY <1>3, <2>5, <2>6 DEF g, ph
<1> QED
  BY <1>1, <1>2, <1>3

(* A SETUP is stalled, or the first packet of its answer goes out as DATA1.  *)
LEMMA SetupDoes ==
  ASSUME NEW r, ReqOK(r), DeviceOK, HandleEp0Setup(r)
  PROVE  /\ DeviceOK'
         /\ r.kind = "OTHER" => tx0'.res = "STALL"
         /\ r.kind # "OTHER" => /\ tx0'.tog = 1 /\ tx0'.res = "ACK"
                                /\ Split(Limited(r), tx0'.pkt, rest')
         /\ pending' = IF r.kind = "ADDR" THEN 1 ELSE pending
         /\ r.kind # "CONF" => conf' = conf
         /\ addr' = addr
<1>1. /\ addr \in {0, 1} /\ pending \in {1, None} /\ conf \in {0, 1}
      /\ tx0 \in [tog : {0, 1}, res : {"ACK", "NAK", "STALL"}, pkt : Texts] /\ Len(tx0.pkt) <= Ep0Size
  BY DEF DeviceOK
<1>2. /\ pending' = IF r.kind = "ADDR" THEN 1 ELSE pending
      /\ conf' = IF r.kind = "CONF" THEN r.arg ELSE conf
      /\ addr' = addr
  BY DEF HandleEp0Setup, ReqOK
<1>3. addr' \in {0, 1} /\ pending' \in {1, None} /\ conf' \in {0, 1}
  BY <1>1, <1>2 DEF ReqOK
<1>4. CASE r.kind = "OTHER"
  <2>1. tx0' = [tx0 EXCEPT !.tog = 1, !.res = "STALL"] /\ rx0' = "STALL" /\ rest' = <<>>
    BY <1>4 DEF HandleEp0Setup, StallEp0
  <2>2. /\ tx0' \in [tog : {0, 1}, res : {"ACK", "NAK", "STALL"}, pkt : Texts]
        /\ tx0'.pkt = tx0.pkt /\ tx0'.res = "STALL"
    BY <1>1, <2>1
  <2>3. rest' \in Texts /\ Len(rest') < DescLen + 2
    BY <2>1, TextsFacts, UsbEp0Assumption
  <2> QED
    BY <1>1, <1>2, <1>3, <1>4, <2>1, <2>2, <2>3 DEF DeviceOK
<1>5. CASE r.kind # "OTHER"
  <2>1. ContinueEp0Tx(1, Limited(r))
    BY <1>5 DEF HandleEp0Setup
  <2>2. Limited(r) \in Texts /\ Len(Limited(r)) < DescLen + 2 /\ Len(Limited(r)) \in Nat
    BY <1>1, LimitedFacts, TextsFacts
  <2>3. PICK p : tx0' = [tog |-> 1, res |-> "ACK", pkt |-> p] /\ Split(Limited(r), p, rest') /\ rx0' = "ACK"
    BY <2>1, <2>2, TxSplits
  <2>4. tx0'.tog = 1 /\ tx0'.res = "ACK" /\ tx0'.pkt = p
    BY <2>3
  <2>5. p \in Texts /\ Len(p) <= Ep0Size /\ rest' \in Texts /\ Len(rest') < DescLen + 2
    <3>1. /\ p \in Texts /\ rest' \in Texts /\ Len(p) <= Ep0Size /\ Len(p) + Len(rest') = Len(Limited(r))
      BY <2>3 DEF Split
    <3>2. Len(p) \in Nat /\ Len(rest') \in Nat
      BY <3>1, TextsFacts
    <3> QED
      BY <2>2, <3>1, <3>2, UsbEp0Assumption
  <2>6. tx0' \in [tog : {0, 1}, res : {"ACK", "NAK", "STALL"}, pkt : Texts]
    BY <2>3, <2>5
  <2> QED
    BY <1>2, <1>3, <1>5, <2>3, <2>4, <2>5, <2>6 DEF DeviceOK
<1> QED
  BY <1>4, <1>5

(* The next packet goes out of what is left, or nothing is.                  *)
LEMMA InDoes ==
  ASSUME DeviceOK, HandleEp0In
  PROVE  /\ DeviceOK'
         /\ rest # <<>> => /\ tx0'.tog = Flip(tx0.tog) /\ tx0'.res = "ACK"
                           /\ Split(rest, tx0'.pkt, rest')
         /\ rest = <<>> => tx0'.res = "NAK"
         /\ addr' = IF pending = None THEN addr ELSE pending
         /\ pending' = None /\ conf' = conf
<1>1. /\ addr \in {0, 1} /\ pending \in {1, None} /\ conf \in {0, 1}
      /\ tx0.tog \in {0, 1} /\ rest \in Texts /\ Len(rest) < DescLen + 2
      /\ Len(rest) \in Nat /\ DescLen \in Nat /\ Ep0Size \in Nat
  BY TextsFacts, UsbEp0Assumption DEF DeviceOK
<1>2. /\ addr' = IF pending = None THEN addr ELSE pending
      /\ pending' = None /\ conf' = conf
  BY DEF HandleEp0In, TakeAddress
<1>3. addr' \in {0, 1} /\ pending' \in {1, None} /\ conf' \in {0, 1}
  BY <1>1, <1>2
<1>4. CASE rest = <<>>
  <2>1. tx0' = [tog |-> 0, res |-> "NAK", pkt |-> <<>>] /\ rx0' = "ACK" /\ rest' = rest
    BY <1>4 DEF HandleEp0In
  <2>2. <<>> \in Texts /\ Len(<<>>) <= Ep0Size
    BY <1>1, TextsFacts
  <2>3. /\ tx0' \in [tog : {0, 1}, res : {"ACK", "NAK", "STALL"}, pkt : Texts]
        /\ tx0'.pkt = <<>> /\ tx0'.res = "NAK"
    BY <2>1, <2>2
  <2> QED
    BY <1>1, <1>2, <1>3, <1>4, <2>1, <2>2, <2>3 DEF DeviceOK
<1>5. CASE rest # <<>>
  <2>1. ContinueEp0Tx(Flip(tx0.tog), rest)
    BY <1>5 DEF HandleEp0In
  <2>2. PICK p : /\ tx0' = [tog |-> Flip(tx0.tog), res |-> "ACK", pkt |-> p]
                 /\ Split(rest, p, rest') /\ rx0' = "ACK"
    BY <1>1, <2>1, TxSplits
  <2>3. tx0'.tog = Flip(tx0.tog) /\ tx0'.res = "ACK" /\ tx0'.pkt = p
    BY <2>2
  <2>4. /\ p \in Texts /\ rest' \in Texts /\ Len(p) <= Ep0Size /\ Len(p) + Len(rest') = Len(rest)
    BY <2>2 DEF Split
  <2>5. Len(p) \in Nat /\ Len(rest') \in Nat
    BY <2>4, TextsFacts
  <2>6. Len(rest') < DescLen + 2
    BY <1>1, <2>4, <2>5
  <2>7. tx0' \in [tog : {0, 1}, res : {"ACK", "NAK", "STALL"}, pkt : Texts]
    BY <1>1, <2>2, <2>4 DEF Flip
  <2> QED
    BY <1>2, <1>3, <1>5, <2>2, <2>3, <2>4, <2>6, <2>7 DEF DeviceOK
<1> QED
  BY <1>4, <1>5

(* The host's pipe is well-formed when it starts over. *)
LEMMA StartOK == HostOK(Start) /\ Start.step # Done /\ Start.phase = "idle" /\ Start.addr = 0
<1>1. 0 \in 0 .. Retries
  BY UsbEp0Assumption
<1>2. 1 \in 1 .. Done /\ 1 # Done
  BY ScriptFacts
<1>3. <<>> \in Texts
  BY TextsFacts
<1>4. [kind |-> "OTHER", arg |-> 0] \in Reqs
  BY DEF Reqs, Kinds
<1>5. Start \in [addr : {0, 1}, step : 1 .. Done, phase : {"idle", "data", "statusIn", "statusOut"},
                 req : Reqs, tog : {0, 1}, got : Texts, tries : 0 .. Retries]
  BY <1>1, <1>2, <1>3, <1>4 DEF Start
<1>6. /\ Start.phase = "idle" /\ Start.step = 1 /\ Start.addr = 0
      /\ Start.req = [kind |-> "OTHER", arg |-> 0]
  BY DEF Start
<1>7. ReqOK(Start.req)
  BY <1>4, <1>6 DEF ReqOK
<1> QED
  BY <1>2, <1>5, <1>6, <1>7 DEF HostOK

(* EP0 as a reset and the start leave it. *)
LEMMA QuietEp0 ==
  ASSUME ResetEp0
  PROVE  /\ DeviceOK' /\ addr' = 0 /\ pending' = None /\ tx0'.res = "NAK"
<1>1. /\ addr' = 0 /\ pending' = None /\ conf' = 0 /\ rest' = <<>>
      /\ tx0' = [tog |-> 0, res |-> "NAK", pkt |-> <<>>] /\ rx0' = "ACK"
  BY DEF ResetEp0
<1>2. <<>> \in Texts /\ Len(<<>>) = 0 /\ 0 <= Ep0Size /\ 0 < DescLen + 2
  BY TextsFacts, UsbEp0Assumption
<1>3. /\ tx0' \in [tog : {0, 1}, res : {"ACK", "NAK", "STALL"}, pkt : Texts]
      /\ tx0'.pkt = <<>> /\ tx0'.res = "NAK"
  BY <1>1, <1>2
<1> QED
  BY <1>1, <1>2, <1>3 DEF DeviceOK

(* After a reset both sides have forgotten everything but the packets that   *)
(* are numbered, and the task may be in the middle of a load.                *)
LEMMA ResetDoes ==
  ASSUME Types, BusResets
  PROVE  /\ HostOK(host)' /\ DeviceOK' /\ TaskOK' /\ PipeOK'
         /\ loose' = FALSE /\ session' = IF at = "idle" THEN "new" ELSE "torn"
         /\ host' = Start /\ addr' = 0 /\ pending' = None /\ at' = at
         /\ ep2'.tog = 0 /\ ep2'.armed = FALSE /\ ep3' = 0
         /\ pipe'.in = 0 /\ pipe'.out = 0 /\ pipe'.next = 1
         /\ taken' = <<>> /\ acked' = {} /\ pushed' = <<>> /\ gone' = {} /\ unheard' = {}
<1>1. host' = Start /\ HostOK(host)'
  BY StartOK DEF BusResets, HostOK, ReqOK
<1>2. DeviceOK' /\ addr' = 0 /\ pending' = None
  BY QuietEp0 DEF BusResets
<1>3. /\ ep2' = [ep2 EXCEPT !.active = FALSE, !.left = 0, !.tog = 0, !.armed = FALSE]
      /\ ep3' = 0 /\ at' = at /\ reg' = reg
  BY DEF BusResets, ResetDataEndpoints
<1>4. MaxPackets \in Nat
  BY UsbEp0Assumption
<1>5. /\ ep2' \in [active : BOOLEAN, left : {0, 1}, tog : {0, 1}, armed : BOOLEAN, pkt : 0 .. MaxPackets]
      /\ ep2'.tog = 0 /\ ep2'.left = 0 /\ ep2'.armed = FALSE /\ ep2'.pkt = ep2.pkt
  BY <1>3 DEF Types, TaskOK
<1>6. TaskOK'
  BY <1>3, <1>4, <1>5 DEF Types, TaskOK
<1>7. pipe' = [in |-> 0, out |-> 0, next |-> 1] /\ 1 \in 1 .. MaxPackets + 1
  BY <1>4 DEF BusResets
<1>8. PipeOK' /\ pipe'.in = 0 /\ pipe'.out = 0 /\ pipe'.next = 1
  BY <1>3, <1>7 DEF BusResets, PipeOK
<1> QED
  BY <1>1, <1>2, <1>3, <1>5, <1>6, <1>8 DEF BusResets

-----------------------------------------------------------------------------
(* Types are kept *)

LEMMA FaultCounts ==
  ASSUME faults \in 0 .. MaxFaults
  PROVE  /\ Fault => faults' \in 0 .. MaxFaults /\ faults' # 0
         /\ Sound => faults' = faults
  BY UsbEp0Assumption DEF Fault, Sound

(* A SETUP keeps the types and starts the host's stage. *)
LEMMA AskTypes ==
  ASSUME Types, NEW r, ReqOK(r), Ask(r)
  PROVE  /\ Types'
         /\ host'.phase = IF r.kind \in {"ADDR", "CONF"} THEN "statusIn" ELSE "data"
         /\ host'.req = r /\ host'.tog = 1 /\ host'.got = <<>>
         /\ host'.addr = host.addr /\ host'.step = host.step
<1> DEFINE ph == IF r.kind \in {"ADDR", "CONF"} THEN "statusIn" ELSE "data"
<1>1. host' = [host EXCEPT !.phase = ph, !.req = r, !.tog = 1, !.got = <<>>]
  BY DEF Ask
<1>2. r \in Reqs /\ <<>> \in Texts /\ ph \in {"idle", "data", "statusIn", "statusOut"}
  BY TextsFacts DEF ReqOK
<1>3. ph = "statusIn" <=> r.kind \in {"ADDR", "CONF"}
  OBVIOUS
<1>4. ph # "statusOut"
  OBVIOUS
<1> HIDE DEF ph
<1>5. /\ host' \in [addr : {0, 1}, step : 1 .. Done, phase : {"idle", "data", "statusIn", "statusOut"},
                    req : Reqs, tog : {0, 1}, got : Texts, tries : 0 .. Retries]
      /\ host'.phase = ph /\ host'.req = r /\ host'.tog = 1 /\ host'.got = <<>>
      /\ host'.addr = host.addr /\ host'.step = host.step
  BY <1>1, <1>2 DEF Types, HostOK
<1>6. HostOK(host)'
  BY <1>3, <1>5 DEF HostOK, ReqOK
<1>7. DeviceOK'
  <2>1. CASE Hears
    BY <2>1, SetupDoes DEF Types, Ask
  <2>2. CASE ~Hears
    BY <2>2 DEF Types, Ask, ep0Vars, DeviceOK
  <2> QED
    BY <2>1, <2>2
<1>8. UNCHANGED <<ep2, at, reg, ep3, pipe, acked, taken, gone, pushed, unheard, session, faults>>
  BY DEF Ask, Sound, dataVars
<1>9. TaskOK' /\ PipeOK'
  BY <1>8 DEF Types, TaskOK, PipeOK
<1>10. GhostOK'
  BY <1>8 DEF Types, GhostOK, Ask
<1> QED
  BY <1>5, <1>6, <1>7, <1>9, <1>10 DEF Types, ph

(* The end of a transfer keeps the types of the host's pipes. *)
LEMMA PipesAfterTypes ==
  ASSUME PipeOK, session \in {"new", "set", "again", "torn"}, NEW h, PipesAfter(h)
  PROVE  /\ pipe' \in [in : {0, 1}, out : {0, 1}, next : 1 .. MaxPackets + 1]
         /\ session' \in {"new", "set", "again", "torn"}
         /\ pipe'.next = pipe.next
<1>1. CASE h.req.kind = "CONF" /\ h.phase = "idle"
  BY <1>1 DEF PipesAfter, PipeOK
<1>2. CASE ~(h.req.kind = "CONF" /\ h.phase = "idle")
  BY <1>2 DEF PipesAfter, PipeOK
<1> QED
  BY <1>1, <1>2

(* An IN, heard of or not, keeps the types. *)
LEMMA InTypes ==
  ASSUME Types, In \/ InUnheard
  PROVE  Types'
<1>1. /\ HostOK(host) /\ DeviceOK /\ host.phase \in {"data", "statusIn"} /\ host' = TakePacket(host)
      /\ UNCHANGED <<ep2, at, reg, acked, taken, ep3, gone, pushed, unheard>>
      /\ PipesAfter(host')
  BY DEF Types, In, InUnheard, AnswersIn, ep2Vars, ep3Vars
<1>2. HostOK(host)'
  BY <1>1, TakeFacts DEF HostOK, ReqOK
<1>3. DeviceOK'
  <2>1. CASE In
    BY <1>1, <2>1, InDoes DEF In
  <2>2. CASE InUnheard
    BY <1>1, <2>2 DEF InUnheard, ep0Vars, DeviceOK
  <2> QED
    BY <2>1, <2>2
<1>4. TaskOK'
  BY <1>1 DEF Types, TaskOK
<1>5. PipeOK' /\ session' \in {"new", "set", "again", "torn"}
  BY <1>1, PipesAfterTypes DEF Types, PipeOK, GhostOK
<1>6. faults' \in 0 .. MaxFaults /\ loose' \in BOOLEAN
  BY FaultCounts DEF Types, GhostOK, In, InUnheard
<1> QED
  BY <1>2, <1>3, <1>4, <1>5, <1>6 DEF Types, GhostOK

(* A STALL keeps the types and ends the transfer. *)
LEMMA StalledTypes ==
  ASSUME Types, Stalled
  PROVE  Types' /\ host'.phase = "idle" /\ host'.addr = host.addr /\ host'.step = host.step
<1>1. host' = [host EXCEPT !.phase = "idle"]
  BY DEF Stalled
<1>2. HostOK(host)' /\ host'.phase = "idle" /\ host'.addr = host.addr /\ host'.step = host.step
  BY <1>1 DEF Types, HostOK, ReqOK
<1>3. UNCHANGED <<addr, pending, conf, rest, tx0, rx0, ep2, at, reg, ep3, pipe, acked, taken, gone, pushed, unheard,
                  faults, loose, session>>
  BY DEF Stalled, ep0Vars, dataVars, Sound
<1>4. DeviceOK' /\ TaskOK' /\ PipeOK' /\ GhostOK'
  BY <1>3 DEF Types, DeviceOK, TaskOK, PipeOK, GhostOK
<1> QED
  BY <1>2, <1>4 DEF Types

(* A status OUT, heard of or not, keeps the types. *)
LEMMA OutTypes ==
  ASSUME Types, Out \/ OutUnheard
  PROVE  Types'
<1>1. /\ HostOK(host) /\ host.phase = "statusOut"
      /\ UNCHANGED <<addr, pending, conf, rest, tx0>> /\ rx0' = "ACK"
      /\ UNCHANGED <<ep2, at, reg, ep3, pipe, acked, taken, gone, pushed, unheard, loose, session>>
  BY DEF Types, Out, OutUnheard, HandleEp0Out, dataVars
<1>2. HostOK(host)'
  BY <1>1, FinishedFacts DEF Out, OutUnheard, HostOK, ReqOK
<1>3. DeviceOK' /\ TaskOK' /\ PipeOK'
  BY <1>1 DEF Types, DeviceOK, TaskOK, PipeOK
<1>4. faults' \in 0 .. MaxFaults
  BY FaultCounts DEF Types, GhostOK, Out, OutUnheard
<1> QED
  BY <1>1, <1>2, <1>3, <1>4 DEF Types, GhostOK

(* The host gives up and stays in the session, or resets the bus. *)
GivesUp == /\ host.phase # "idle" /\ host.tries < Retries
           /\ host' = [host EXCEPT !.phase = "idle", !.tries = @ + 1]
           /\ loose' = (loose \/ host.req.kind = "ADDR")
           /\ UNCHANGED <<ep0Vars, dataVars, session>>
(* Giving up ends the transfer or resets the bus. *)
LEMMA GiveUpDoes ==
  ASSUME GiveUp
  PROVE  GivesUp \/ BusResets
  BY DEF GiveUp, GivesUp

(* Giving up without a reset keeps the types and ends the transfer. *)
LEMMA GivesUpTypes ==
  ASSUME Types, GivesUp
  PROVE  /\ HostOK(host)' /\ DeviceOK' /\ TaskOK' /\ PipeOK' /\ loose' \in BOOLEAN
         /\ host'.phase = "idle" /\ host'.addr = host.addr /\ host'.step = host.step
<1>1. host' = [host EXCEPT !.phase = "idle", !.tries = host.tries + 1]
  BY DEF GivesUp
<1>2. host.tries + 1 \in 0 .. Retries
  BY UsbEp0Assumption DEF GivesUp, Types, HostOK
<1>3. HostOK(host)' /\ host'.phase = "idle" /\ host'.addr = host.addr /\ host'.step = host.step
  BY <1>1, <1>2 DEF Types, HostOK, ReqOK
<1>4. UNCHANGED <<addr, pending, conf, rest, tx0, rx0, ep2, at, reg, ep3, pipe, acked, taken, gone, pushed,
                  unheard, session>>
  BY DEF GivesUp, ep0Vars, dataVars
<1>5. DeviceOK' /\ TaskOK' /\ PipeOK' /\ loose' \in BOOLEAN
  BY <1>4 DEF Types, DeviceOK, TaskOK, PipeOK, GivesUp
<1> QED
  BY <1>3, <1>5

(* Giving up and resets keep the types. *)
LEMMA EndTypes ==
  ASSUME Types, GiveUp \/ SurpriseReset
  PROVE  Types'
<1>1. faults' \in 0 .. MaxFaults
  BY FaultCounts DEF Types, GhostOK, GiveUp, SurpriseReset
<1>2. CASE BusResets
  BY <1>1, <1>2, ResetDoes DEF Types, GhostOK
<1>3. CASE GivesUp
  <2>1. session' = session
    BY <1>3 DEF GivesUp
  <2> QED
    BY <1>1, <1>3, <2>1, GivesUpTypes DEF Types, GhostOK
<1> QED
  BY <1>2, <1>3, GiveUpDoes DEF SurpriseReset

(* Appending an element that is larger than all others keeps the order, and  *)
(* so does one as large as the last, if it may be repeated.                  *)
LEMMA AppendFacts ==
  ASSUME NEW s \in Seq(Pkts), NEW x \in Pkts
  PROVE  /\ Append(s, x) \in Seq(Pkts) /\ Elements(Append(s, x)) = Elements(s) \cup {x}
         /\ Increasing(s) /\ (\A y \in Elements(s) : y < x) => Increasing(Append(s, x))
         /\ \A u : Repeats(s, u) /\ (\A y \in Elements(s) : y < x) => Repeats(Append(s, x), u)
         /\ \A u : Repeats(s, u) /\ x \in u /\ (\A y \in Elements(s) : y <= x)
                      => Repeats(Append(s, x), u)
<1> DEFINE r == Append(s, x)
<1>1. r \in Seq(Pkts) /\ Put(s, x, r)
  BY AppendPuts
<1> HIDE DEF r
<1>2. Len(s) \in Nat /\ Len(r) = Len(s) + 1 /\ r[Len(s) + 1] = x /\ \A i \in 1 .. Len(s) : r[i] = s[i]
  BY <1>1 DEF Put
<1>3. Elements(r) = Elements(s) \cup {x}
  <2>1. \A i \in 1 .. Len(r) : i \in 1 .. Len(s) \/ i = Len(s) + 1
    BY <1>2
  <2>2. \A i \in 1 .. Len(s) : i \in 1 .. Len(r)
    BY <1>2
  <2>3. Len(s) + 1 \in 1 .. Len(r)
    BY <1>2
  <2> QED
    BY <1>2, <2>1, <2>2, <2>3 DEF Elements
<1>4. \A i \in 1 .. Len(s) : r[i] \in Elements(s)
  BY <1>2 DEF Elements
<1>5. ASSUME NEW i \in 1 .. Len(r) - 1
      PROVE  /\ i \in 1 .. Len(s)
             /\ i \in 1 .. Len(s) - 1 => r[i] = s[i] /\ r[i + 1] = s[i + 1]
             /\ i \notin 1 .. Len(s) - 1 => r[i] \in Elements(s) /\ r[i + 1] = x
  <2>1. i \in 1 .. Len(s) /\ (i \in 1 .. Len(s) - 1 => i + 1 \in 1 .. Len(s))
        /\ (i \notin 1 .. Len(s) - 1 => i + 1 = Len(s) + 1)
    BY <1>2
  <2> QED
    BY <1>2, <1>4, <2>1
<1>6. Increasing(s) /\ (\A y \in Elements(s) : y < x) => Increasing(r)
  BY <1>5 DEF Increasing
<1>7. ASSUME NEW u, Repeats(s, u), \A y \in Elements(s) : y < x
      PROVE  Repeats(r, u)
  BY <1>5, <1>7 DEF Repeats
<1>8. ASSUME NEW u, Repeats(s, u), x \in u, \A y \in Elements(s) : y <= x
      PROVE  Repeats(r, u)
  <2>1. ASSUME NEW i \in 1 .. Len(r) - 1
        PROVE  r[i] < r[i + 1] \/ (r[i] = r[i + 1] /\ r[i] \in u)
    <3>1. CASE i \in 1 .. Len(s) - 1
      BY <1>5, <1>8, <3>1 DEF Repeats
    <3>2. CASE i \notin 1 .. Len(s) - 1
      <4>1. r[i] \in Elements(s) /\ r[i + 1] = x
        BY <1>5, <3>2
      <4>2. r[i] \in Nat /\ x \in Nat /\ r[i] <= x
        <5>1. i \in 1 .. Len(r) /\ r \in Seq(Pkts)
          BY <1>1, <1>2
        <5>2. r[i] \in Pkts
          BY <5>1
        <5> QED
          BY <1>8, <4>1, <5>2 DEF Pkts
      <4> QED
        BY <1>8, <4>1, <4>2
    <3> QED
      BY <3>1, <3>2
  <2> QED
    BY <2>1 DEF Repeats
<1> QED
  BY <1>1, <1>3, <1>6, <1>7, <1>8 DEF r

(* What may be repeated in a set may be in a larger one. *)
LEMMA RepeatsMore ==
  ASSUME NEW s, NEW u, NEW v, u \subseteq v, Repeats(s, u)
  PROVE  Repeats(s, v)
  BY DEF Repeats

(* No packets are in order. *)
LEMMA EmptyOrder ==
  Elements(<<>>) = {} /\ Increasing(<<>>) /\ \A u : Repeats(<<>>, u)
<1>1. Len(<<>>) = 0 /\ 1 .. 0 = {} /\ 1 .. Len(<<>>) - 1 = {}
  OBVIOUS
<1> QED
  BY <1>1 DEF Elements, Increasing, Repeats

(* The frame's next packet is loaded, or the frame is done. *)
LEMMA DoneFacts ==
  ASSUME TaskOK, ep2.armed
  PROVE  /\ Ep2Done(ep2) \in [active : BOOLEAN, left : {0, 1}, tog : {0, 1}, armed : BOOLEAN, pkt : 0 .. MaxPackets]
         /\ Ep2Done(ep2).tog = Flip(ep2.tog)
         /\ \/ /\ Ep2Done(ep2).pkt = ep2.pkt + 1 /\ Ep2Done(ep2).left = 0 /\ ep2.left = 1
               /\ Ep2Done(ep2).armed = ep2.armed /\ Ep2Done(ep2).active = ep2.active
            \/ /\ Ep2Done(ep2).pkt = ep2.pkt /\ Ep2Done(ep2).left = ep2.left /\ ~Ep2Done(ep2).armed
<1>1. /\ ep2 \in [active : BOOLEAN, left : {0, 1}, tog : {0, 1}, armed : BOOLEAN, pkt : 0 .. MaxPackets]
      /\ MaxPackets \in Nat /\ ep2.pkt + ep2.left <= MaxPackets /\ ep2.left \in {0, 1}
  BY UsbEp0Assumption DEF TaskOK
<1>2. Flip(ep2.tog) \in {0, 1}
  BY <1>1 DEF Flip
<1>3. CASE ep2.left > 0
  <2>1. ep2.left = 1 /\ ep2.left - 1 = 0
    BY <1>1, <1>3
  <2>2. Ep2Done(ep2) = [ep2 EXCEPT !.tog = Flip(ep2.tog), !.left = 0, !.pkt = ep2.pkt + 1]
    BY <1>3, <2>1 DEF Ep2Done
  <2>3. ep2.pkt + 1 \in 0 .. MaxPackets
    BY <1>1, <2>1
  <2> QED
    BY <1>1, <1>2, <2>1, <2>2, <2>3
<1>4. CASE ~(ep2.left > 0)
  <2>1. Ep2Done(ep2) = [ep2 EXCEPT !.tog = Flip(ep2.tog), !.active = FALSE, !.armed = FALSE]
    BY <1>4 DEF Ep2Done
  <2> QED
    BY <1>1, <1>2, <2>1
<1> QED
  BY <1>3, <1>4

(* A packet that the host takes for new is put behind the others. *)
LEMMA HostTakesDoes ==
  ASSUME TaskOK, PipeOK, ep2.armed, HostTakes
  PROVE  /\ pipe' \in [in : {0, 1}, out : {0, 1}, next : 1 .. MaxPackets + 1]
         /\ pipe'.out = pipe.out /\ pipe'.next = pipe.next
         /\ ep2.pkt \in Pkts /\ taken' \in Seq(Pkts)
         /\ ep2.tog = pipe.in => taken' = Append(taken, ep2.pkt) /\ pipe'.in = Flip(pipe.in)
         /\ ep2.tog # pipe.in => taken' = taken /\ pipe' = pipe
<1>1. ep2.pkt \in Pkts
  BY UsbEp0Assumption DEF TaskOK, Pkts
<1>2. CASE ep2.tog = pipe.in
  <2>1. taken' = Append(taken, ep2.pkt) /\ pipe' = [pipe EXCEPT !.in = Flip(pipe.in)]
    BY <1>2 DEF HostTakes
  <2>2. taken' \in Seq(Pkts)
    BY <1>1, <2>1, AppendFacts DEF PipeOK
  <2>3. Flip(pipe.in) \in {0, 1}
    BY DEF PipeOK, Flip
  <2> QED
    BY <1>1, <1>2, <2>1, <2>2, <2>3 DEF PipeOK
<1>3. CASE ep2.tog # pipe.in
  BY <1>1, <1>3 DEF HostTakes, PipeOK
<1> QED
  BY <1>2, <1>3

(* The task's load and the INs of EP2 keep the types. *)
LEMMA Ep2Types ==
  ASSUME Types, LoadEp2Chunk \/ (\E n \in 1 .. 2 : SendFrame(n)) \/ Ep2In \/ Ep2InUnheard
  PROVE  Types'
<1>1. TaskOK /\ PipeOK /\ MaxPackets \in Nat
  BY UsbEp0Assumption DEF Types
<1>2. UNCHANGED <<host, addr, pending, conf, rest, tx0, rx0, loose, ep3, gone, pushed, unheard, session>>
  BY DEF LoadEp2Chunk, SendFrame, Ep2In, Ep2InUnheard, ctrlVars, ep3Vars
<1>3. HostOK(host)' /\ DeviceOK' /\ loose' \in BOOLEAN /\ session' \in {"new", "set", "again", "torn"}
  BY <1>2 DEF Types, HostOK, ReqOK, DeviceOK, GhostOK
<1>4. faults' \in 0 .. MaxFaults
  BY FaultCounts DEF Types, GhostOK, LoadEp2Chunk, SendFrame, Ep2In, Ep2InUnheard
<1>5. CASE LoadEp2Chunk
  <2>1. /\ ep2' = [ep2 EXCEPT !.tog = reg, !.armed = TRUE, !.pkt = ep2.pkt + 1]
        /\ at = "load" /\ at' = "idle" /\ UNCHANGED <<reg, pipe, acked, taken>>
    BY <1>5 DEF LoadEp2Chunk
  <2>2. ep2.pkt \in Nat /\ ep2.pkt + ep2.left + 1 <= MaxPackets /\ ep2.left \in {0, 1}
    BY <1>1, <2>1 DEF TaskOK
  <2>3. ep2.pkt + 1 \in 0 .. MaxPackets
    BY <1>1, <2>2
  <2>4. /\ ep2' \in [active : BOOLEAN, left : {0, 1}, tog : {0, 1}, armed : BOOLEAN, pkt : 0 .. MaxPackets]
        /\ ep2'.left = ep2.left /\ ep2'.pkt = ep2.pkt + 1
    BY <1>1, <2>1, <2>3 DEF TaskOK
  <2>5. TaskOK'
    BY <1>1, <2>1, <2>2, <2>4 DEF TaskOK
  <2> QED
    BY <1>1, <1>2, <1>3, <1>4, <2>1, <2>5 DEF Types, PipeOK, GhostOK
<1>6. CASE \E n \in 1 .. 2 : SendFrame(n)
  <2>1. PICK n \in 1 .. 2 : SendFrame(n)
    BY <1>6
  <2>2. /\ ep2' = [ep2 EXCEPT !.active = TRUE, !.left = n - 1]
        /\ at = "idle" /\ at' = "load" /\ reg' = ep2.tog /\ UNCHANGED <<pipe, acked, taken>>
        /\ ep2.pkt + n <= MaxPackets
    BY <2>1 DEF SendFrame
  <2>3. n - 1 \in {0, 1}
    OBVIOUS
  <2>4. /\ ep2' \in [active : BOOLEAN, left : {0, 1}, tog : {0, 1}, armed : BOOLEAN, pkt : 0 .. MaxPackets]
        /\ ep2'.left = n - 1 /\ ep2'.pkt = ep2.pkt /\ ep2'.armed = ep2.armed
    BY <1>1, <2>2, <2>3 DEF TaskOK
  <2>5. TaskOK'
    BY <1>1, <2>2, <2>3, <2>4 DEF TaskOK
  <2> QED
    BY <1>1, <1>2, <1>3, <1>4, <2>2, <2>5 DEF Types, PipeOK, GhostOK
<1>7. CASE Ep2In
  <2>1. /\ ep2.armed /\ HostTakes /\ acked' = acked \cup {ep2.pkt} /\ ep2' = Ep2Done(ep2)
        /\ at' = at /\ reg' = reg
    BY <1>7 DEF Ep2In
  <2>2. ep2.pkt >= 1
    BY <1>1, <2>1 DEF TaskOK
  <2>3. TaskOK'
    <3>1. /\ ep2' \in [active : BOOLEAN, left : {0, 1}, tog : {0, 1}, armed : BOOLEAN, pkt : 0 .. MaxPackets]
          /\ \/ ep2'.pkt = ep2.pkt + 1 /\ ep2'.left = 0 /\ ep2.left = 1
             \/ ep2'.pkt = ep2.pkt /\ ep2'.left = ep2.left
      BY <1>1, <2>1, DoneFacts
    <3>2. /\ ep2.pkt \in Nat /\ at \in {"idle", "load"} /\ reg \in {0, 1}
          /\ ep2.pkt + ep2.left + (IF at = "load" THEN 1 ELSE 0) <= MaxPackets
      BY <1>1 DEF TaskOK
    <3>3. /\ ep2'.pkt + ep2'.left + (IF at = "load" THEN 1 ELSE 0) <= MaxPackets
          /\ ep2'.pkt >= 1
      BY <2>2, <3>1, <3>2
    <3> QED
      BY <2>1, <3>1, <3>2, <3>3 DEF TaskOK
  <2>4. PipeOK'
    BY <1>1, <1>2, <2>1, HostTakesDoes DEF PipeOK
  <2> QED
    BY <1>3, <1>4, <2>3, <2>4 DEF Types, GhostOK
<1>8. CASE Ep2InUnheard
  <2>1. ep2.armed /\ HostTakes /\ UNCHANGED <<ep2, at, reg, acked>>
    BY <1>8 DEF Ep2InUnheard
  <2>2. TaskOK'
    BY <1>1, <2>1 DEF TaskOK
  <2>3. PipeOK'
    BY <1>1, <1>2, <2>1, HostTakesDoes DEF PipeOK
  <2> QED
    BY <1>3, <1>4, <2>2, <2>3 DEF Types, GhostOK
<1> QED
  BY <1>5, <1>6, <1>7, <1>8

(* The OUTs of EP3 keep the types. *)
LEMMA Ep3Types ==
  ASSUME Types, Ep3Out \/ Ep3OutUnheard
  PROVE  Types' /\ pipe.next \in Pkts
<1>1. PipeOK /\ MaxPackets \in Nat /\ pipe.next <= MaxPackets
  BY UsbEp0Assumption DEF Types, Ep3Out, Ep3OutUnheard
<1>2. UNCHANGED <<host, addr, pending, conf, rest, tx0, rx0, loose, ep2, at, reg, acked, taken, session>>
  BY DEF Ep3Out, Ep3OutUnheard, ctrlVars, ep2Vars
<1>3. /\ HostOK(host)' /\ DeviceOK' /\ TaskOK' /\ loose' \in BOOLEAN
      /\ session' \in {"new", "set", "again", "torn"}
  BY <1>2 DEF Types, HostOK, ReqOK, DeviceOK, TaskOK, GhostOK
<1>4. faults' \in 0 .. MaxFaults
  BY FaultCounts DEF Types, GhostOK, Ep3Out, Ep3OutUnheard
<1>5. pipe.next \in Pkts /\ pipe.next \in Nat
  BY <1>1 DEF PipeOK, Pkts
<1>6. pushed' \in Seq(Pkts) /\ ep3' \in {0, 1}
  <2>1. Append(pushed, pipe.next) \in Seq(Pkts)
    BY <1>1, <1>5, AppendFacts DEF PipeOK
  <2>2. Ep3Handler /\ pushed \in Seq(Pkts) /\ ep3 \in {0, 1}
    BY <1>1 DEF PipeOK, Ep3Out, Ep3OutUnheard
  <2>3. Flip(ep3) \in {0, 1}
    BY <2>2 DEF Flip
  <2> QED
    BY <2>1, <2>2, <2>3 DEF Ep3Handler
<1>7. /\ pipe' \in [in : {0, 1}, out : {0, 1}, next : 1 .. MaxPackets + 1]
      /\ gone' \subseteq Pkts /\ unheard' \subseteq Pkts
  <2>1. CASE Ep3Out
    <3>1. /\ pipe' = [pipe EXCEPT !.out = Flip(pipe.out), !.next = pipe.next + 1]
          /\ gone' = gone \cup {pipe.next} /\ unheard' = unheard
      BY <2>1 DEF Ep3Out
    <3>2. Flip(pipe.out) \in {0, 1} /\ pipe.next + 1 \in 1 .. MaxPackets + 1
      BY <1>1, <1>5 DEF PipeOK, Flip
    <3> QED
      BY <1>1, <1>5, <3>1, <3>2 DEF PipeOK
  <2>2. CASE Ep3OutUnheard
    BY <1>1, <1>5, <2>2 DEF Ep3OutUnheard, PipeOK
  <2> QED
    BY <2>1, <2>2
<1> QED
  BY <1>1, <1>2, <1>3, <1>4, <1>5, <1>6, <1>7 DEF Types, PipeOK, GhostOK

(* Every step keeps the types. *)
LEMMA TypesStep ==
  ASSUME Types, [Next]_vars
  PROVE  Types'
<1>1. CASE AskNext \/ AskMore
  <2>1. PICK r : ReqOK(r) /\ Ask(r)
    BY <1>1, AskAsks DEF Types
  <2> QED
    BY <2>1, AskTypes
<1>2. CASE UNCHANGED vars
  BY <1>2 DEF vars, ctrlVars, dataVars, Types, HostOK, ReqOK, DeviceOK, TaskOK, PipeOK, GhostOK
<1> QED
  BY <1>1, <1>2, InTypes, StalledTypes, OutTypes, EndTypes, Ep2Types, Ep3Types DEF Next, Control, Data

-----------------------------------------------------------------------------
(* The two addresses *)

(* Only the status of SET_ADDRESS gives the host's pipe another address, and *)
(* only that of SET_CONFIGURATION the last step of the script.               *)
LEMMA TakeKeeps ==
  ASSUME NEW h, HostOK(h), DeviceOK, h.phase \in {"data", "statusIn"}
  PROVE  /\ ~(h.phase = "statusIn" /\ h.req.kind = "ADDR") =>
               /\ TakePacket(h).addr = h.addr
               /\ ~(TakePacket(h).phase = "statusIn" /\ TakePacket(h).req.kind = "ADDR")
         /\ h.step # Done /\ ~(TakePacket(h).req.kind = "CONF" /\ TakePacket(h).phase = "idle") =>
               TakePacket(h).step # Done
<1>1. CASE TakePacket(h) = h
  BY <1>1
<1>2. CASE h.phase = "statusIn" /\ TakePacket(h) = Finished(h)
  <2>1. /\ Finished(h).phase = "idle" /\ Finished(h).req = h.req
        /\ Finished(h).addr = IF h.req.kind = "ADDR" THEN 1 ELSE h.addr
        /\ h.step # Done /\ h.req.kind # "CONF" => Finished(h).step # Done
    BY FinishedFacts
  <2> QED
    BY <1>2, <2>1
<1>3. CASE /\ TakePacket(h).req = h.req /\ TakePacket(h).addr = h.addr /\ TakePacket(h).step = h.step
           /\ TakePacket(h).phase \in {"statusOut", "data"}
  BY <1>3
<1> QED
  <2>1. \/ TakePacket(h) = h
        \/ h.phase = "statusIn" /\ TakePacket(h) = Finished(h)
        \/ /\ TakePacket(h).req = h.req /\ TakePacket(h).addr = h.addr /\ TakePacket(h).step = h.step
           /\ TakePacket(h).phase = IF Ends(h, h.got \o tx0.pkt) THEN "statusOut" ELSE "data"
    BY TakeFacts
  <2> QED
    BY <1>1, <1>2, <1>3, <2>1

(* Every step keeps the addresses equal, or notes that they may differ. *)
LEMMA AddrStep ==
  ASSUME Types, AddrInv, [Next]_vars
  PROVE  AddrInv'
<1> DEFINE Asked == host.phase = "statusIn" /\ host.req.kind = "ADDR"
<1>1. /\ HostOK(host) /\ DeviceOK /\ loose \in BOOLEAN
      /\ ~loose => Hears /\ IF Asked THEN pending = 1 /\ tx0.res = "ACK" /\ tx0.tog = host.tog
                                     ELSE pending = None
  BY DEF Types, GhostOK, AddrInv
<1>2. CASE AskNext \/ AskMore
  <2>1. PICK r : ReqOK(r) /\ Ask(r)
    BY <1>1, <1>2, AskAsks
  <2>2. /\ host.phase = "idle" /\ loose' = (loose /\ ~(Hears /\ r.kind = "ADDR"))
        /\ Hears => HandleEp0Setup(r)
        /\ host'.phase = IF r.kind \in {"ADDR", "CONF"} THEN "statusIn" ELSE "data"
        /\ host'.req = r /\ host'.tog = 1 /\ host'.addr = host.addr
    BY <2>1, AskTypes DEF Ask
  <2> SUFFICES ASSUME ~loose'
               PROVE  /\ Hears'
                      /\ IF Asked' THEN pending' = 1 /\ tx0'.res = "ACK" /\ tx0'.tog = host'.tog
                                   ELSE pending' = None
    BY DEF AddrInv
  <2>3. Hears /\ (r.kind # "ADDR" => pending = None)
    BY <1>1, <2>2
  <2>4. /\ r.kind # "OTHER" => tx0'.tog = 1 /\ tx0'.res = "ACK"
        /\ pending' = IF r.kind = "ADDR" THEN 1 ELSE pending
        /\ addr' = addr
    BY <1>1, <2>1, <2>2, <2>3, SetupDoes
  <2>5. Hears'
    BY <2>2, <2>3, <2>4 DEF Hears
  <2>6. Asked' <=> r.kind = "ADDR"
    BY <2>2
  <2> QED
    BY <2>2, <2>3, <2>4, <2>5, <2>6
<1>3. CASE In
  <2>1. /\ host.phase \in {"data", "statusIn"} /\ Hears /\ host' = TakePacket(host) /\ loose' = loose
        /\ addr' = IF pending = None THEN addr ELSE pending
        /\ pending' = None
    BY <1>3 DEF In, AnswersIn, HandleEp0In, TakeAddress
  <2> SUFFICES ASSUME ~loose
               PROVE  host'.addr = addr' /\ ~Asked'
    BY <2>1 DEF AddrInv, Hears
  <2>2. CASE Asked
    <3>1. tx0.tog = host.tog /\ pending = 1 /\ addr' = 1
      BY <1>1, <2>1, <2>2 DEF None
    <3>2. host' = Finished(host)
      BY <2>1, <2>2, <3>1 DEF TakePacket
    <3>3. host'.addr = 1 /\ host'.phase = "idle"
      BY <1>1, <2>2, <3>2, FinishedFacts
    <3> QED
      BY <3>1, <3>3
  <2>3. CASE ~Asked
    <3>1. pending = None /\ addr' = addr /\ addr = host.addr
      BY <1>1, <2>1, <2>3 DEF Hears
    <3>2. host'.addr = host.addr /\ ~Asked'
      BY <1>1, <2>1, <2>3, TakeKeeps
    <3> QED
      BY <3>1, <3>2
  <2> QED
    BY <2>2, <2>3
<1>4. CASE InUnheard
  <2>1. /\ host.phase \in {"data", "statusIn"} /\ Hears /\ host' = TakePacket(host)
        /\ loose' = (loose \/ host.req.kind = "ADDR")
        /\ addr' = addr /\ pending' = pending
    BY <1>4 DEF InUnheard, AnswersIn, ep0Vars
  <2> SUFFICES ASSUME ~loose, host.req.kind # "ADDR"
               PROVE  host'.addr = addr' /\ ~Asked' /\ pending' = None
    BY <2>1 DEF AddrInv, Hears
  <2>2. host'.addr = host.addr /\ ~Asked'
    BY <1>1, <2>1, TakeKeeps
  <2> QED
    BY <1>1, <2>1, <2>2 DEF Hears
<1>5. CASE Stalled
  <2>1. /\ tx0.res = "STALL" /\ addr' = addr /\ pending' = pending /\ loose' = loose
        /\ host'.phase = "idle" /\ host'.addr = host.addr
    BY <1>5, StalledTypes DEF Stalled, ep0Vars
  <2> QED
    BY <1>1, <2>1 DEF AddrInv, Hears
<1>6. CASE Out
  <2>1. /\ host.phase = "statusOut" /\ addr' = addr /\ pending' = pending /\ loose' = loose
        /\ host' = Finished(host) /\ host.req.kind # "ADDR"
    BY <1>1, <1>6 DEF Out, HandleEp0Out, HostOK
  <2>2. host'.phase = "idle" /\ host'.addr = host.addr
    BY <1>1, <2>1, FinishedFacts
  <2> QED
    BY <1>1, <2>1, <2>2 DEF AddrInv, Hears
<1>7. CASE OutUnheard
  <2>1. UNCHANGED <<host, addr, pending, tx0, loose>>
    BY <1>7 DEF OutUnheard, HandleEp0Out
  <2> QED
    BY <1>1, <2>1 DEF AddrInv, Hears
<1>8. CASE BusResets
  <2>1. host'.phase = "idle" /\ host'.addr = 0 /\ addr' = 0 /\ pending' = None
    BY <1>8, ResetDoes, StartOK
  <2> QED
    BY <2>1 DEF AddrInv, Hears
<1>9. CASE GivesUp
  <2>1. /\ host.phase # "idle" /\ loose' = (loose \/ host.req.kind = "ADDR")
        /\ addr' = addr /\ pending' = pending
        /\ host'.phase = "idle" /\ host'.addr = host.addr
    BY <1>9, GivesUpTypes DEF GivesUp, ep0Vars
  <2> QED
    BY <1>1, <2>1 DEF AddrInv, Hears
<1>10. CASE Data \/ UNCHANGED vars
  <2>1. UNCHANGED ctrlVars
    BY <1>10 DEF Data, LoadEp2Chunk, SendFrame, Ep2In, Ep2InUnheard, Ep3Out, Ep3OutUnheard, vars
  <2>2. UNCHANGED <<host, addr, pending, tx0, loose>>
    BY <2>1 DEF ctrlVars
  <2> QED
    BY <1>1, <2>2 DEF AddrInv, Hears
<1> QED
  BY <1>2, <1>3, <1>4, <1>5, <1>6, <1>7, <1>8, <1>9, <1>10, GiveUpDoes DEF Next, Control, SurpriseReset

-----------------------------------------------------------------------------
(* The data stage *)

(* The host takes the packet the device has for it: what it has is a longer  *)
(* beginning of the answer, and the rest goes on from there.                 *)
LEMMA TakeNext ==
  ASSUME NEW L, Len(L) \in Nat, NEW h, NEW x, NEW r \in Texts, h.got \in Texts, x.pkt \in Texts,
         NextOf(L, h, x, r), Along(L, h.got, 0)
  PROVE  /\ Len(h.got \o x.pkt) + Len(r) = Len(L) /\ Len(h.got \o x.pkt) <= Len(L)
         /\ Along(L, h.got \o x.pkt, 0) /\ Along(L, r, Len(h.got \o x.pkt))
<1> DEFINE g == h.got
           p == x.pkt
           q == h.got \o x.pkt
<1>1. Len(g) \in Nat /\ Len(p) \in Nat /\ Len(r) \in Nat
  BY TextsFacts
<1>2. /\ Len(q) = Len(g) + Len(p)
      /\ \A i \in 1 .. Len(g) : q[i] = g[i]
      /\ \A i \in 1 .. Len(p) : q[Len(g) + i] = p[i]
  BY JoinTexts
<1>3. /\ Len(g) + Len(p) + Len(r) = Len(L)
      /\ \A i \in 1 .. Len(p) : p[i] = L[Len(g) + i]
      /\ \A i \in 1 .. Len(r) : r[i] = L[Len(g) + Len(p) + i]
      /\ \A i \in 1 .. Len(g) : g[i] = L[0 + i]
  BY DEF NextOf, Along
<1> HIDE DEF g, p, q
<1>4. ASSUME NEW i \in 1 .. Len(q) PROVE q[i] = L[0 + i]
  <2>1. CASE i \in 1 .. Len(g)
    BY <1>2, <1>3, <2>1
  <2>2. CASE i \notin 1 .. Len(g)
    <3> DEFINE k == i - Len(g)
    <3>1. k \in 1 .. Len(p) /\ Len(g) + k = i /\ 0 + i = i
      BY <1>1, <1>2, <2>2
    <3> HIDE DEF k
    <3>2. q[Len(g) + k] = p[k] /\ p[k] = L[Len(g) + k]
      BY <1>2, <1>3, <3>1
    <3> QED
      BY <3>1, <3>2
  <2> QED
    BY <2>1, <2>2
<1>5. Len(q) + Len(r) = Len(L) /\ Len(q) <= Len(L)
  BY <1>1, <1>2, <1>3
<1> QED
  BY <1>2, <1>3, <1>4, <1>5 DEF Along, q

(* The pieces of what is left are the next packet and what is left then.     *)
LEMMA SplitNext ==
  ASSUME NEW L, Len(L) \in Nat, NEW h, h.got \in Texts, NEW b \in Texts,
         Len(h.got) + Len(b) = Len(L), Along(L, b, Len(h.got)),
         NEW x, NEW r, Split(b, x.pkt, r), x.tog = h.tog
  PROVE  NextOf(L, h, x, r)
<1> DEFINE g == h.got
           p == x.pkt
<1>1. p \in Texts /\ r \in Texts
  BY DEF Split
<1>2. Len(g) \in Nat /\ Len(p) \in Nat /\ Len(r) \in Nat /\ Len(b) \in Nat
  BY <1>1, TextsFacts
<1>3. /\ Len(p) + Len(r) = Len(b) /\ (r # <<>> => Len(p) = Ep0Size)
      /\ \A i \in 1 .. Len(p) : p[i] = b[i]
      /\ \A i \in 1 .. Len(r) : r[i] = b[Len(p) + i]
      /\ \A i \in 1 .. Len(b) : b[i] = L[Len(g) + i]
      /\ Len(g) + Len(b) = Len(L)
  BY DEF Split, Along
<1> HIDE DEF g, p
<1>4. \A i \in 1 .. Len(p) : p[i] = L[Len(g) + i]
  BY <1>2, <1>3
<1>5. ASSUME NEW i \in 1 .. Len(r) PROVE r[i] = L[Len(g) + Len(p) + i]
  <2>1. Len(p) + i \in 1 .. Len(b) /\ Len(g) + (Len(p) + i) = Len(g) + Len(p) + i
    BY <1>2, <1>3
  <2> QED
    BY <1>3, <2>1
<1>6. Len(g) + Len(p) + Len(r) = Len(L)
  BY <1>2, <1>3
<1> QED
  BY <1>3, <1>4, <1>5, <1>6 DEF NextOf, Along, g, p

(* The answer to a request stays what it is while the configuration does.    *)
LEMMA LimitedStays ==
  ASSUME NEW r, host'.req = r, conf' = conf
  PROVE  Limited(host.req)' = Limited(r)
  BY DEF Limited, Answer

(* A SETUP that is heard makes its answer the one the device holds. *)
LEMMA AskData ==
  ASSUME Types, NEW r, ReqOK(r), Ask(r)
  PROVE  DataInv'
<1>1. /\ HostOK(host) /\ DeviceOK
      /\ host'.phase = IF r.kind \in {"ADDR", "CONF"} THEN "statusIn" ELSE "data"
      /\ host'.req = r /\ host'.tog = 1 /\ host'.got = <<>> /\ host'.addr = host.addr
      /\ DeviceOK'
  BY AskTypes DEF Types
<1>2. CASE r.kind \in {"ADDR", "CONF"}
  BY <1>1, <1>2 DEF DataInv, DataOK
<1>3. CASE r.kind \notin {"ADDR", "CONF"}
  <2> DEFINE L == Limited(r)
  <2>1. addr' = addr /\ conf' = conf
    <3>1. CASE Hears
      BY <1>1, <1>3, <3>1, SetupDoes DEF Ask
    <3>2. CASE ~Hears
      BY <3>2 DEF Ask, ep0Vars
    <3> QED
      BY <3>1, <3>2
  <2>2. Limited(host.req)' = L
    BY <1>1, <2>1, LimitedStays
  <2>3. L \in Texts /\ Len(L) \in Nat
    BY <1>1, LimitedFacts, TextsFacts DEF DeviceOK
  <2>4. Hears' <=> Hears
    BY <1>1, <2>1 DEF Hears
  <2> HIDE DEF L
  <2>5. host'.phase = "data" /\ Len(host'.got) = 0 /\ host'.got \in Texts
    BY <1>1, <1>3, TextsFacts
  <2>6. Len(host'.got) <= Len(L) /\ Along(L, host'.got, 0)
    BY <2>3, <2>5 DEF Along
  <2>7. ASSUME Hears, tx0'.res = "ACK"
        PROVE  r.kind # "OTHER" /\ NextOf(L, host', tx0', rest')
    <3>1. /\ r.kind = "OTHER" => tx0'.res = "STALL"
          /\ r.kind # "OTHER" => tx0'.tog = 1 /\ Split(L, tx0'.pkt, rest')
      BY <1>1, <2>7, SetupDoes DEF Ask, L
    <3>2. Along(L, L, Len(host'.got)) /\ Len(host'.got) + Len(L) = Len(L)
      BY <2>3, <2>5 DEF Along
    <3> QED
      BY <1>1, <2>3, <2>5, <2>7, <3>1, <3>2, SplitNext
  <2> QED
    BY <1>1, <2>2, <2>4, <2>5, <2>6, <2>7 DEF DataInv, DataOK
<1> QED
  BY <1>2, <1>3

(* A packet taken, or not, of which the device hears.                        *)
LEMMA InData ==
  ASSUME Types, DataInv, In
  PROVE  DataInv'
<1> DEFINE L == Limited(host.req)
<1>1. /\ HostOK(host) /\ DeviceOK /\ host.phase \in {"data", "statusIn"} /\ Hears /\ tx0.res = "ACK"
      /\ host' = TakePacket(host) /\ HandleEp0In
  BY DEF Types, In, AnswersIn
<1>2. /\ rest # <<>> => tx0'.tog = Flip(tx0.tog) /\ Split(rest, tx0'.pkt, rest')
      /\ rest = <<>> => tx0'.res = "NAK"
      /\ conf' = conf
  BY <1>1, InDoes
<1>3. \/ tx0.tog # host.tog /\ host' = host
      \/ host.phase = "statusIn" /\ host' = Finished(host)
      \/ /\ tx0.tog = host.tog /\ host.phase = "data"
         /\ host'.got = host.got \o tx0.pkt /\ host'.tog = Flip(host.tog) /\ host'.req = host.req
         /\ host'.phase = IF Ends(host, host.got \o tx0.pkt) THEN "statusOut" ELSE "data"
  BY <1>1, TakeFacts
<1>4. /\ host.got \in Texts /\ tx0.pkt \in Texts /\ rest \in Texts
      /\ host.tog \in {0, 1} /\ tx0.tog \in {0, 1}
      /\ ReqOK(host.req) /\ conf \in {0, 1}
  BY <1>1 DEF HostOK, DeviceOK
<1>5. L \in Texts /\ Len(L) \in Nat /\ WLength(host.req) \in Nat /\ Len(L) <= WLength(host.req)
  BY <1>4, LimitedFacts, TextsFacts
<1>6. host'.req = host.req => Limited(host.req)' = L
  BY <1>2, LimitedStays
<1>7. host.phase = "data" =>
        /\ Len(host.got) <= Len(L) /\ Along(L, host.got, 0) /\ host.req.kind # "OTHER"
        /\ NextOf(L, host, tx0, rest) \/ AgainOf(L, host, tx0, rest)
  BY <1>1 DEF DataInv, DataOK
<1> HIDE DEF L
<1>8. CASE host'.phase \notin {"data", "statusOut"}
  BY <1>8 DEF DataInv, DataOK
<1>9. CASE host.phase = "data" /\ tx0.tog # host.tog /\ host' = host
  <2>1. Len(host.got) + Len(rest) = Len(L) /\ Along(L, rest, Len(host.got))
    BY <1>7, <1>9 DEF NextOf, AgainOf
  <2>2. ASSUME tx0'.res = "ACK" PROVE NextOf(L, host', tx0', rest')
    <3>1. rest # <<>> /\ Flip(tx0.tog) = host.tog
      BY <1>2, <1>4, <1>9, <2>2 DEF Flip
    <3>2. tx0'.tog = host'.tog /\ Split(rest, tx0'.pkt, rest')
      BY <1>2, <1>9, <3>1
    <3> QED
      BY <1>4, <1>5, <1>9, <2>1, <3>2, SplitNext
  <2> QED
    BY <1>6, <1>7, <1>9, <2>2 DEF DataInv, DataOK
<1>10. CASE /\ tx0.tog = host.tog /\ host.phase = "data"
            /\ host'.got = host.got \o tx0.pkt /\ host'.tog = Flip(host.tog) /\ host'.req = host.req
            /\ host'.phase = IF Ends(host, host.got \o tx0.pkt) THEN "statusOut" ELSE "data"
  <2>1. NextOf(L, host, tx0, rest)
    BY <1>7, <1>10 DEF AgainOf
  <2>2. /\ Len(host'.got) + Len(rest) = Len(L) /\ Len(host'.got) <= Len(L)
        /\ Along(L, host'.got, 0) /\ Along(L, rest, Len(host'.got))
    <3>1. Along(L, host.got, 0)
      BY <1>7, <1>10
    <3>2. LET q == host.got \o tx0.pkt
          IN  /\ Len(q) + Len(rest) = Len(L) /\ Len(q) <= Len(L)
              /\ Along(L, q, 0) /\ Along(L, rest, Len(q))
      BY <1>4, <1>5, <2>1, <3>1, TakeNext
    <3> QED
      BY <1>10, <3>2
  <2>3. host'.got \in Texts /\ Len(host'.got) \in Nat
    BY <1>4, <1>10, JoinTexts, TextsFacts
  <2>4. ASSUME host'.phase = "statusOut" PROVE Len(host'.got) = Len(L)
    <3>1. Len(host'.got) >= WLength(host.req) \/ Len(tx0.pkt) < Ep0Size
      BY <1>10, <2>4 DEF Ends
    <3>2. CASE Len(host'.got) >= WLength(host.req)
      BY <1>5, <2>2, <2>3, <3>2
    <3>3. CASE Len(tx0.pkt) < Ep0Size
      <4>1. rest = <<>>
        BY <1>4, <2>1, <3>3, TextsFacts, UsbEp0Assumption DEF NextOf
      <4> QED
        BY <2>2, <2>3, <4>1, TextsFacts
    <3> QED
      BY <3>1, <3>2, <3>3
  <2>5. ASSUME tx0'.res = "ACK" PROVE NextOf(L, host', tx0', rest')
    <3>1. rest # <<>> /\ tx0'.tog = host'.tog /\ Split(rest, tx0'.pkt, rest')
      BY <1>2, <1>10, <2>5
    <3> QED
      BY <1>4, <1>5, <2>2, <2>3, <3>1, SplitNext
  <2> QED
    BY <1>6, <1>7, <1>10, <2>2, <2>4, <2>5 DEF DataInv, DataOK
<1>11. CASE host.phase = "statusIn" /\ host' = Finished(host)
  BY <1>1, <1>8, <1>11, FinishedFacts
<1> QED
  BY <1>1, <1>3, <1>8, <1>9, <1>10, <1>11

(* A packet taken, or not, of which the device does not hear: it holds what  *)
(* it held, and the host, if it has taken it, has the other toggle.          *)
LEMMA InUnheardData ==
  ASSUME Types, DataInv, InUnheard
  PROVE  DataInv'
<1> DEFINE L == Limited(host.req)
<1>1. /\ HostOK(host) /\ DeviceOK /\ host.phase \in {"data", "statusIn"} /\ Hears /\ tx0.res = "ACK"
      /\ host' = TakePacket(host) /\ UNCHANGED <<addr, conf, rest, tx0>>
  BY DEF Types, InUnheard, AnswersIn, ep0Vars
<1>2. \/ tx0.tog # host.tog /\ host' = host
      \/ host.phase = "statusIn" /\ host' = Finished(host)
      \/ /\ tx0.tog = host.tog /\ host.phase = "data"
         /\ host'.got = host.got \o tx0.pkt /\ host'.tog = Flip(host.tog) /\ host'.req = host.req
         /\ host'.phase = IF Ends(host, host.got \o tx0.pkt) THEN "statusOut" ELSE "data"
  BY <1>1, TakeFacts
<1>3. /\ host.got \in Texts /\ tx0.pkt \in Texts /\ rest \in Texts
      /\ host.tog \in {0, 1} /\ ReqOK(host.req) /\ conf \in {0, 1}
  BY <1>1 DEF HostOK, DeviceOK
<1>4. L \in Texts /\ Len(L) \in Nat /\ WLength(host.req) \in Nat /\ Len(L) <= WLength(host.req)
  BY <1>3, LimitedFacts, TextsFacts
<1>5. host'.req = host.req => Limited(host.req)' = L
  BY <1>1, LimitedStays
<1>6. host.phase = "data" =>
        /\ Len(host.got) <= Len(L) /\ Along(L, host.got, 0) /\ host.req.kind # "OTHER"
        /\ NextOf(L, host, tx0, rest) \/ AgainOf(L, host, tx0, rest)
  BY <1>1 DEF DataInv, DataOK
<1> HIDE DEF L
<1>7. CASE host.phase = "statusIn" /\ host' = Finished(host)
  <2>1. host'.phase = "idle"
    BY <1>1, <1>7, FinishedFacts
  <2> QED
    BY <2>1 DEF DataInv, DataOK
<1>8. CASE tx0.tog # host.tog /\ host' = host
  <2>1. Limited(host.req)' = L /\ Hears' = Hears
    BY <1>1, <1>5, <1>8 DEF Hears
  <2> QED
    BY <1>1, <1>8, <2>1 DEF DataInv, DataOK, L
<1>9. CASE /\ tx0.tog = host.tog /\ host.phase = "data"
           /\ host'.got = host.got \o tx0.pkt /\ host'.tog = Flip(host.tog) /\ host'.req = host.req
           /\ host'.phase = IF Ends(host, host.got \o tx0.pkt) THEN "statusOut" ELSE "data"
  <2>1. NextOf(L, host, tx0, rest)
    BY <1>6, <1>9 DEF AgainOf
  <2>2. /\ Len(host'.got) + Len(rest) = Len(L) /\ Len(host'.got) <= Len(L)
        /\ Along(L, host'.got, 0) /\ Along(L, rest, Len(host'.got))
    <3>1. Along(L, host.got, 0)
      BY <1>6, <1>9
    <3>2. LET q == host.got \o tx0.pkt
          IN  /\ Len(q) + Len(rest) = Len(L) /\ Len(q) <= Len(L)
              /\ Along(L, q, 0) /\ Along(L, rest, Len(q))
      BY <1>3, <1>4, <2>1, <3>1, TakeNext
    <3> QED
      BY <1>9, <3>2
  <2>3. Len(host'.got) \in Nat
    BY <1>3, <1>9, JoinTexts, TextsFacts
  <2>4. ASSUME host'.phase = "statusOut" PROVE Len(host'.got) = Len(L)
    <3>1. Len(host'.got) >= WLength(host.req) \/ Len(tx0.pkt) < Ep0Size
      BY <1>9, <2>4 DEF Ends
    <3>2. CASE Len(host'.got) >= WLength(host.req)
      BY <1>4, <2>2, <2>3, <3>2
    <3>3. CASE Len(tx0.pkt) < Ep0Size
      <4>1. rest = <<>>
        BY <1>3, <2>1, <3>3, TextsFacts, UsbEp0Assumption DEF NextOf
      <4> QED
        BY <2>2, <2>3, <4>1, TextsFacts
    <3> QED
      BY <3>1, <3>2, <3>3
  <2>5. AgainOf(L, host', tx0', rest')
    <3>1. tx0'.tog # host'.tog
      BY <1>1, <1>3, <1>9 DEF Flip
    <3> QED
      BY <1>1, <2>2, <3>1 DEF AgainOf
  <2> QED
    BY <1>5, <1>6, <1>9, <2>2, <2>4, <2>5 DEF DataInv, DataOK
<1> QED
  BY <1>2, <1>7, <1>8, <1>9

(* Every step keeps the two sides at the same place of the answer. *)
LEMMA DataStep ==
  ASSUME Types, DataInv, [Next]_vars
  PROVE  DataInv'
<1>1. CASE AskNext \/ AskMore
  <2>1. PICK r : ReqOK(r) /\ Ask(r)
    BY <1>1, AskAsks DEF Types
  <2> QED
    BY <2>1, AskData
<1>2. CASE host'.phase = "idle"
  BY <1>2 DEF DataInv, DataOK
<1>3. CASE Stalled
  BY <1>2, <1>3, StalledTypes
<1>4. CASE Out
  BY <1>2, <1>4, FinishedFacts DEF Out, Types
<1>5. CASE BusResets
  BY <1>2, <1>5, ResetDoes, StartOK
<1>6. CASE GivesUp
  BY <1>2, <1>6, GivesUpTypes
<1>7. CASE UNCHANGED <<host, addr, conf, rest, tx0>>
  <2>1. Limited(host.req)' = Limited(host.req)
    BY <1>7, LimitedStays
  <2>2. Hears' = Hears
    BY <1>7 DEF Hears
  <2> QED
    BY <1>7, <2>1, <2>2 DEF DataInv
<1>8. CASE OutUnheard
  <2>1. UNCHANGED <<host, addr, conf, rest, tx0>>
    BY <1>8 DEF OutUnheard, HandleEp0Out
  <2> QED
    BY <1>7, <2>1
<1>9. CASE Data \/ UNCHANGED vars
  <2>1. UNCHANGED ctrlVars
    BY <1>9 DEF Data, LoadEp2Chunk, SendFrame, Ep2In, Ep2InUnheard, Ep3Out, Ep3OutUnheard, vars
  <2>2. UNCHANGED <<host, addr, conf, rest, tx0>>
    BY <2>1 DEF ctrlVars
  <2> QED
    BY <1>7, <2>2
<1> QED
  BY <1>1, <1>3, <1>4, <1>5, <1>6, <1>8, <1>9, InData, InUnheardData, GiveUpDoes
  DEF Next, Control, SurpriseReset

-----------------------------------------------------------------------------
(* The toggles of EP2 and EP3 *)

(* As long as the first SET_CONFIGURATION is the only one, it finds the      *)
(* host's toggles where it puts them.                                        *)
LEMMA PipesStay ==
  ASSUME NewInv, NEW h, PipesAfter(h)
  PROVE  /\ FirstSet' => FirstSet /\ pipe'.in = pipe.in /\ pipe'.out = pipe.out
         /\ session' = "new" => /\ session = "new" /\ pipe' = pipe
                                /\ ~(h.req.kind = "CONF" /\ h.phase = "idle")
<1>1. CASE h.req.kind = "CONF" /\ h.phase = "idle"
  <2>1. /\ pipe' = [pipe EXCEPT !.in = 0, !.out = 0]
        /\ session' = IF session = "new" THEN "set" ELSE IF session = "set" THEN "again" ELSE session
    BY <1>1 DEF PipesAfter
  <2>2. ASSUME FirstSet' PROVE session = "new"
    BY <2>1, <2>2 DEF FirstSet
  <2>3. session' # "new"
    BY <2>1
  <2>4. session = "new" => pipe.in = 0 /\ pipe.out = 0
    BY DEF NewInv
  <2>5. pipe'.in \in {0, pipe.in} /\ pipe'.out \in {0, pipe.out}
    BY <2>1
  <2> QED
    BY <1>1, <2>1, <2>2, <2>3, <2>4, <2>5 DEF FirstSet
<1>2. CASE ~(h.req.kind = "CONF" /\ h.phase = "idle")
  BY <1>2 DEF PipesAfter, FirstSet
<1> QED
  BY <1>1, <1>2

(* Every step keeps data away before SET_CONFIGURATION. *)
LEMMA NewStep ==
  ASSUME Types, NewInv, InInv, [Next]_vars
  PROVE  NewInv'
<1> SUFFICES ASSUME session' = "new" PROVE NewInv'
  BY DEF NewInv
<1>1. CASE BusResets
  BY <1>1, ResetDoes, StartOK DEF NewInv
<1>2. CASE In \/ InUnheard
  <2>1. /\ HostOK(host) /\ DeviceOK /\ host.phase \in {"data", "statusIn"} /\ host' = TakePacket(host)
        /\ PipesAfter(host') /\ UNCHANGED <<ep2, ep3, acked, taken, gone, pushed, unheard>>
    BY <1>2 DEF Types, In, InUnheard, AnswersIn, ep2Vars, ep3Vars
  <2>2. session = "new" /\ pipe' = pipe /\ ~(host'.req.kind = "CONF" /\ host'.phase = "idle")
    BY <2>1, PipesStay
  <2>3. host'.step # Done
    BY <2>1, <2>2, TakeKeeps DEF NewInv
  <2> QED
    BY <2>1, <2>2, <2>3 DEF NewInv
<1>3. CASE session' = session /\ UNCHANGED <<ep2, ep3, pipe, acked, taken, gone, pushed, unheard>> /\ host'.step = host.step
  BY <1>3 DEF NewInv
<1>4. CASE AskNext \/ AskMore
  <2>1. PICK r : ReqOK(r) /\ Ask(r)
    BY <1>4, AskAsks DEF Types
  <2>2. host'.step = host.step
    BY <2>1, AskTypes
  <2> QED
    BY <1>3, <2>1, <2>2 DEF Ask, dataVars
<1>5. CASE Stalled
  BY <1>3, <1>5, StalledTypes DEF Stalled, dataVars
<1>6. CASE GivesUp
  BY <1>3, <1>6, GivesUpTypes DEF GivesUp, dataVars
<1>7. CASE OutUnheard \/ UNCHANGED vars
  BY <1>3, <1>7 DEF OutUnheard, dataVars, ctrlVars, vars
<1>8. CASE Out
  <2>1. /\ HostOK(host) /\ host' = Finished(host) /\ host.req.kind # "CONF"
        /\ session' = session /\ UNCHANGED <<ep2, ep3, pipe, acked, taken, gone, pushed, unheard>>
    BY <1>8 DEF Types, HostOK, Out, dataVars
  <2>2. host.step # Done => host'.step # Done
    BY <2>1, FinishedFacts
  <2> QED
    BY <2>1, <2>2 DEF NewInv
<1>9. CASE LoadEp2Chunk \/ \E n \in 1 .. 2 : SendFrame(n)
  <2>1. /\ session' = session /\ UNCHANGED <<host, ep3, pipe, acked, taken, gone, pushed, unheard>>
    BY <1>9 DEF LoadEp2Chunk, SendFrame, ctrlVars, ep3Vars
  <2>2. ep2'.tog = ep2.tog
    <3>1. ep2 \in [active : BOOLEAN, left : {0, 1}, tog : {0, 1}, armed : BOOLEAN, pkt : 0 .. MaxPackets]
      BY DEF Types, TaskOK
    <3>2. at = "load" => reg = ep2.tog
      BY <2>1 DEF InInv, FirstSet
    <3> QED
      BY <1>9, <3>1, <3>2 DEF LoadEp2Chunk, SendFrame
  <2> QED
    BY <2>1, <2>2 DEF NewInv
<1>10. CASE Ep2In \/ Ep2InUnheard \/ Ep3Out \/ Ep3OutUnheard
  BY <1>10 DEF Ep2In, Ep2InUnheard, Ep3Out, Ep3OutUnheard, Configured, NewInv
<1> QED
  BY <1>1, <1>2, <1>4, <1>5, <1>6, <1>7, <1>8, <1>9, <1>10, GiveUpDoes
  DEF Next, Control, Data, SurpriseReset

(* Control transfers leave EP2 and EP3 alone, and the pipes too until there  *)
(* is a second SET_CONFIGURATION.                                            *)
LEMMA ControlKeeps ==
  ASSUME Types, NewInv, Control \/ UNCHANGED vars, ~BusResets
  PROVE  /\ UNCHANGED <<ep2, at, reg, ep3, acked, taken, gone, pushed, unheard>>
         /\ pipe'.next = pipe.next
         /\ FirstSet' => FirstSet /\ pipe'.in = pipe.in /\ pipe'.out = pipe.out
<1>1. CASE In \/ InUnheard
  <2>1. PipesAfter(host') /\ UNCHANGED <<ep2, at, reg, acked, taken, ep3, gone, pushed, unheard>>
    BY <1>1 DEF In, InUnheard, ep2Vars, ep3Vars
  <2>2. pipe'.next = pipe.next
    BY <2>1, PipesAfterTypes DEF Types, GhostOK
  <2> QED
    BY <2>1, <2>2, PipesStay
<1>2. CASE UNCHANGED <<dataVars, session>>
  BY <1>2 DEF dataVars, FirstSet
<1>3. CASE AskNext \/ AskMore
  <2>1. PICK r : ReqOK(r) /\ Ask(r)
    BY <1>3, AskAsks DEF Types
  <2> QED
    BY <1>2, <2>1 DEF Ask
<1>4. CASE Stalled \/ Out \/ OutUnheard
  BY <1>2, <1>4 DEF Stalled, Out, OutUnheard
<1>5. CASE GiveUp
  BY <1>2, <1>5 DEF GiveUp
<1>6. CASE UNCHANGED vars
  BY <1>2, <1>6 DEF vars
<1> QED
  BY <1>1, <1>3, <1>4, <1>5, <1>6 DEF Control

(* Every step keeps the toggles of EP2 in step with its packets. *)
LEMMA InStep ==
  ASSUME Types, NewInv, InInv, [Next]_vars
  PROVE  InInv'
<1> SUFFICES ASSUME FirstSet' PROVE InInv'
  BY DEF InInv
<1>1. TaskOK /\ PipeOK
  BY DEF Types
<1>2. CASE BusResets
  <2>1. /\ session' = IF at = "idle" THEN "new" ELSE "torn"
        /\ at' = at /\ ep2'.tog = 0 /\ ep2'.armed = FALSE /\ pipe'.in = 0
        /\ taken' = <<>> /\ acked' = {}
    BY <1>2, ResetDoes
  <2>2. at' = "idle"
    BY <2>1 DEF FirstSet
  <2> QED
    BY <2>1, <2>2, EmptyOrder DEF InInv
<1>3. CASE (Control \/ UNCHANGED vars) /\ ~BusResets
  <2>1. /\ UNCHANGED <<ep2, at, reg, acked, taken>>
        /\ FirstSet /\ pipe'.in = pipe.in
    BY <1>3, ControlKeeps
  <2> QED
    BY <2>1 DEF InInv
<1> DEFINE Have == Elements(taken)
<1>4. FirstSet =>
        /\ at = "load" => reg = ep2.tog /\ ep2.active /\ ~ep2.armed
        /\ ep2.armed => ep2.active
        /\ acked \subseteq Have /\ Increasing(taken)
        /\ \A x \in Have : x <= ep2.pkt
        /\ IF ep2.armed /\ ep2.tog # pipe.in THEN ep2.pkt \in Have
           ELSE ep2.tog = pipe.in /\ (ep2.armed => ep2.pkt \notin Have)
  BY DEF InInv
<1>5. /\ taken \in Seq(Pkts) /\ pipe.in \in {0, 1} /\ ep2.pkt \in Nat
      /\ ep2 \in [active : BOOLEAN, left : {0, 1}, tog : {0, 1}, armed : BOOLEAN, pkt : 0 .. MaxPackets]
  BY <1>1 DEF TaskOK, PipeOK
<1>6. Have \subseteq Nat
  <2>1. \A i \in 1 .. Len(taken) : taken[i] \in Pkts
    BY <1>5
  <2> QED
    BY <2>1 DEF Elements, Pkts
<1>7. CASE \E n \in 1 .. 2 : SendFrame(n)
  <2>1. /\ ep2'.active = TRUE /\ ep2'.armed = ep2.armed /\ ep2'.tog = ep2.tog /\ ep2'.pkt = ep2.pkt
        /\ at = "idle" /\ reg' = ep2.tog /\ ~ep2.active
        /\ UNCHANGED <<pipe, acked, taken>> /\ FirstSet
    BY <1>5, <1>7 DEF SendFrame, FirstSet
  <2> QED
    BY <1>4, <2>1 DEF InInv
<1>8. CASE LoadEp2Chunk
  <2>1. /\ ep2'.active = ep2.active /\ ep2'.armed = TRUE /\ ep2'.tog = reg /\ ep2'.pkt = ep2.pkt + 1
        /\ at = "load" /\ at' = "idle"
        /\ UNCHANGED <<pipe, acked, taken>> /\ FirstSet
    BY <1>5, <1>8 DEF LoadEp2Chunk, FirstSet
  <2>2. \A x \in Have : x <= ep2.pkt + 1 /\ x # ep2.pkt + 1
    BY <1>4, <1>5, <1>6, <2>1
  <2> QED
    BY <1>4, <2>1, <2>2 DEF InInv
<1>9. CASE Ep2In \/ Ep2InUnheard
  <2>1. /\ ep2.armed /\ HostTakes /\ UNCHANGED <<at, reg, session>>
        /\ \/ acked' = acked /\ ep2' = ep2
           \/ acked' = acked \cup {ep2.pkt} /\ ep2' = Ep2Done(ep2)
    BY <1>9 DEF Ep2In, Ep2InUnheard
  <2>2. FirstSet /\ at # "load" /\ ep2.active
    BY <1>4, <2>1 DEF FirstSet
  <2>3. ep2.pkt \in Pkts
    BY <1>1, <2>1, HostTakesDoes
  <2>4. /\ Elements(taken)' = Have \cup {ep2.pkt} /\ Increasing(taken)'
        /\ pipe'.in = Flip(ep2.tog)
    <3>1. CASE ep2.tog = pipe.in
      <4>1. taken' = Append(taken, ep2.pkt) /\ pipe'.in = Flip(pipe.in)
        BY <1>1, <2>1, <3>1, HostTakesDoes
      <4>2. \A x \in Have : x < ep2.pkt
        BY <1>4, <1>5, <1>6, <2>1, <2>2, <3>1
      <4>3. Elements(taken') = Have \cup {ep2.pkt} /\ Increasing(taken')
        BY <1>4, <1>5, <2>2, <2>3, <4>1, <4>2, AppendFacts
      <4> QED
        BY <3>1, <4>1, <4>3 DEF Elements, Increasing
    <3>2. CASE ep2.tog # pipe.in
      <4>1. taken' = taken /\ pipe' = pipe
        BY <1>1, <2>1, <3>2, HostTakesDoes
      <4>2. ep2.pkt \in Have /\ Increasing(taken)
        BY <1>4, <2>1, <2>2, <3>2
      <4>3. Flip(ep2.tog) = pipe.in
        BY <1>5, <3>2 DEF Flip
      <4> QED
        BY <4>1, <4>2, <4>3 DEF Elements, Increasing
    <3> QED
      BY <3>1, <3>2
  <2>5. \A x \in Elements(taken)' : x <= ep2.pkt
    BY <1>4, <1>5, <2>2, <2>4
  <2>6. acked' \subseteq Elements(taken)'
    BY <1>4, <2>1, <2>2, <2>4
  <2>7. CASE ep2' = ep2
    BY <1>5, <2>1, <2>2, <2>4, <2>5, <2>6, <2>7 DEF InInv, Flip
  <2>8. CASE ep2' = Ep2Done(ep2)
    <3>1. /\ ep2'.tog = pipe'.in
          /\ \/ ep2'.pkt = ep2.pkt + 1 /\ ep2'.active = ep2.active
             \/ ep2'.pkt = ep2.pkt /\ ~ep2'.armed
      BY <1>1, <2>1, <2>4, <2>8, DoneFacts
    <3>2. \A x \in Elements(taken)' : x \in Nat /\ x <= ep2.pkt + 1 /\ x # ep2.pkt + 1
      BY <1>5, <1>6, <2>4, <2>5
    <3>3. CASE ep2'.pkt = ep2.pkt + 1 /\ ep2'.active = ep2.active
      BY <2>1, <2>2, <2>4, <2>6, <3>1, <3>2, <3>3 DEF InInv
    <3>4. CASE ep2'.pkt = ep2.pkt /\ ~ep2'.armed
      BY <2>1, <2>2, <2>4, <2>5, <2>6, <3>1, <3>4 DEF InInv
    <3> QED
      BY <3>1, <3>3, <3>4
  <2> QED
    BY <2>1, <2>7, <2>8
<1>10. CASE Ep3Out \/ Ep3OutUnheard
  <2>1. UNCHANGED <<ep2, at, reg, acked, taken, session>> /\ pipe'.in = pipe.in
    BY <1>1, <1>10 DEF Ep3Out, Ep3OutUnheard, ep2Vars, PipeOK
  <2> QED
    BY <2>1 DEF InInv, FirstSet
<1> QED
  BY <1>2, <1>3, <1>7, <1>8, <1>9, <1>10 DEF Next, Data, SurpriseReset

(* Every step keeps the toggles of EP3 in step with its packets. *)
LEMMA OutStep ==
  ASSUME Types, NewInv, OutInv, [Next]_vars
  PROVE  OutInv'
<1> SUFFICES ASSUME FirstSet' PROVE OutInv'
  BY DEF OutInv
<1>1. TaskOK /\ PipeOK
  BY DEF Types
<1>2. CASE BusResets
  <2>1. /\ ep3' = 0 /\ pipe'.out = 0 /\ pushed' = <<>> /\ gone' = {}
    BY <1>2, ResetDoes
  <2> QED
    BY <2>1, EmptyOrder DEF OutInv
<1>3. CASE (Control \/ UNCHANGED vars) /\ ~BusResets
  <2>1. /\ UNCHANGED <<ep3, gone, pushed, unheard>> /\ pipe'.next = pipe.next
        /\ FirstSet /\ pipe'.out = pipe.out
    BY <1>3, ControlKeeps
  <2> QED
    BY <2>1 DEF OutInv
<1> DEFINE Pushed == Elements(pushed)
<1>4. FirstSet =>
        /\ gone \subseteq Pushed /\ Repeats(pushed, unheard)
        /\ pipe.out # ep3 => pipe.next \in unheard
        /\ \A x \in Pushed : x <= pipe.next
        /\ IF pipe.out = ep3 THEN pipe.next \notin Pushed ELSE pipe.next \in Pushed
  BY DEF OutInv
<1>5. CASE LoadEp2Chunk \/ (\E n \in 1 .. 2 : SendFrame(n)) \/ Ep2In \/ Ep2InUnheard
  <2>1. UNCHANGED <<ep3, gone, pushed, unheard, session>>
    BY <1>5 DEF LoadEp2Chunk, SendFrame, Ep2In, Ep2InUnheard, ep3Vars
  <2>2. pipe'.out = pipe.out /\ pipe'.next = pipe.next
    BY <1>1, <1>5, HostTakesDoes DEF LoadEp2Chunk, SendFrame, Ep2In, Ep2InUnheard
  <2> QED
    BY <2>1, <2>2 DEF OutInv, FirstSet
<1>6. CASE Ep3Out \/ Ep3OutUnheard
  <2>1. session' = session /\ FirstSet /\ Ep3Handler
    BY <1>6 DEF Ep3Out, Ep3OutUnheard, FirstSet
  <2>2. /\ pushed \in Seq(Pkts) /\ pipe.next \in Pkts /\ pipe.next \in Nat
        /\ pipe.out \in {0, 1} /\ ep3 \in {0, 1}
    BY <1>1, <1>6, Ep3Types DEF PipeOK, Pkts
  <2>3. Pushed \subseteq Nat
    <3>1. \A i \in 1 .. Len(pushed) : pushed[i] \in Pkts
      BY <2>2
    <3> QED
      BY <3>1 DEF Elements, Pkts
  <2>4. Elements(pushed') = Pushed \cup {pipe.next} /\ Repeats(pushed', unheard) /\ ep3' = Flip(pipe.out)
    <3> DEFINE longer == Append(pushed, pipe.next)
    <3>1. /\ Elements(longer) = Pushed \cup {pipe.next}
          /\ (\A x \in Pushed : x < pipe.next) => Repeats(longer, unheard)
          /\ pipe.next \in unheard => Repeats(longer, unheard)
      BY <1>4, <2>1, <2>2, AppendFacts
    <3> HIDE DEF longer
    <3>2. CASE pipe.out = ep3
      <4>1. pushed' = longer /\ ep3' = Flip(pipe.out)
        BY <2>1, <3>2 DEF Ep3Handler, longer
      <4>2. \A x \in Pushed : x < pipe.next
        BY <1>4, <2>1, <2>2, <2>3, <3>2
      <4> QED
        BY <3>1, <4>1, <4>2
    <3>3. CASE pipe.out # ep3
      <4>1. pushed' \in {pushed, longer} /\ ep3' = ep3
        BY <2>1, <3>3 DEF Ep3Handler, longer
      <4>2. pipe.next \in Pushed /\ pipe.next \in unheard /\ Repeats(pushed, unheard)
        BY <1>4, <2>1, <3>3
      <4>3. Flip(pipe.out) = ep3
        BY <2>2, <3>3 DEF Flip
      <4>4. CASE pushed' = pushed
        BY <4>1, <4>2, <4>3, <4>4
      <4>5. CASE pushed' = longer
        BY <3>1, <4>1, <4>2, <4>3, <4>5
      <4> QED
        BY <4>1, <4>4, <4>5
    <3> QED
      BY <3>2, <3>3
  <2>5. \A x \in Elements(pushed') : x \in Nat /\ x <= pipe.next
    BY <1>4, <2>1, <2>2, <2>3, <2>4
  <2>6. CASE Ep3Out
    <3>1. /\ pipe'.out = Flip(pipe.out) /\ pipe'.next = pipe.next + 1
          /\ gone' = gone \cup {pipe.next} /\ unheard' = unheard
      BY <1>1, <2>6 DEF Ep3Out, PipeOK
    <3>2. gone' \subseteq Elements(pushed')
      BY <1>4, <2>1, <2>4, <3>1
    <3>3. \A x \in Elements(pushed') : x <= pipe'.next /\ x # pipe'.next
      BY <2>2, <2>5, <3>1
    <3>4. pipe'.out = ep3' /\ Repeats(pushed', unheard')
      BY <2>4, <3>1
    <3> QED
      BY <3>2, <3>3, <3>4 DEF OutInv, Elements, Repeats
  <2>7. CASE Ep3OutUnheard
    <3>1. pipe' = pipe /\ gone' = gone /\ unheard' = unheard \cup {pipe.next}
      BY <2>7 DEF Ep3OutUnheard
    <3>2. ep3' # pipe.out /\ pipe.next \in Elements(pushed')
      BY <2>2, <2>4 DEF Flip
    <3>3. Repeats(pushed', unheard') /\ pipe.next \in unheard'
      BY <2>4, <3>1, RepeatsMore
    <3>4. gone' \subseteq Elements(pushed')
      BY <1>4, <2>1, <2>4, <3>1
    <3> QED
      BY <2>5, <3>1, <3>2, <3>3, <3>4 DEF OutInv, Elements, Repeats
  <2> QED
    BY <1>6, <2>6, <2>7
<1> QED
  BY <1>2, <1>3, <1>5, <1>6 DEF Next, Data, SurpriseReset

-----------------------------------------------------------------------------
(* The theorems *)

LEMMA InitInv == Init => IInv
<1> SUFFICES ASSUME Init PROVE IInv
  OBVIOUS
<1>1. /\ host = Start /\ loose = FALSE
      /\ addr = 0 /\ pending = None /\ conf = 0 /\ rest = <<>>
      /\ tx0 = [tog |-> 0, res |-> "NAK", pkt |-> <<>>] /\ rx0 = "ACK"
      /\ ep2 = [active |-> FALSE, left |-> 0, tog |-> 0, armed |-> FALSE, pkt |-> 0]
      /\ at = "idle" /\ reg = 0 /\ ep3 = 0
      /\ pipe = [in |-> 0, out |-> 0, next |-> 1]
      /\ acked = {} /\ taken = <<>> /\ gone = {} /\ pushed = <<>> /\ unheard = {}
      /\ faults = 0 /\ session = "new"
  BY DEF Init
<1>2. /\ MaxPackets \in Nat /\ 0 \in 0 .. MaxPackets /\ 0 \in 0 .. MaxFaults
      /\ 1 \in 1 .. MaxPackets + 1 /\ 0 <= Ep0Size /\ 0 < DescLen + 2
  BY UsbEp0Assumption
<1>3. HostOK(host) /\ host.step # Done /\ host.phase = "idle" /\ host.addr = 0
  BY <1>1, StartOK
<1>4. DeviceOK
  <2>1. /\ tx0 \in [tog : {0, 1}, res : {"ACK", "NAK", "STALL"}, pkt : Texts] /\ tx0.pkt = <<>>
    BY <1>1, TextsFacts
  <2> QED
    BY <1>1, <1>2, <2>1, TextsFacts DEF DeviceOK
<1>5. TaskOK
  BY <1>1, <1>2 DEF TaskOK
<1>6. PipeOK
  BY <1>1, <1>2 DEF PipeOK
<1>7. GhostOK
  BY <1>1, <1>2 DEF GhostOK
<1>8. AddrInv /\ DataInv
  BY <1>1, <1>3 DEF AddrInv, DataInv, DataOK, Hears
<1>9. NewInv
  BY <1>1, <1>3 DEF NewInv
<1>10. InInv /\ OutInv
  BY <1>1, EmptyOrder DEF InInv, OutInv
<1> QED
  BY <1>3, <1>4, <1>5, <1>6, <1>7, <1>8, <1>9, <1>10 DEF IInv, Types

(* Every step keeps the inductive invariant. *)
LEMMA StepInv == IInv /\ [Next]_vars => IInv'
  BY TypesStep, AddrStep, DataStep, NewStep, InStep, OutStep DEF IInv

(* Whatever is lost, given up, repeated or reset, IInv holds. *)
THEOREM Ep0Invariance == Spec => []IInv
  BY InitInv, StepInv, PTL DEF Spec

(* The registers, the bookkeeping of EP0 and EP2 and the host's pipes stay   *)
(* in their ranges, and what is counted in its bounds.                       *)
THEOREM Ep0TypeCorrect == Spec => []TypeOK
<1>1. IInv => TypeOK
  <2> SUFFICES ASSUME IInv PROVE TypeOK
    OBVIOUS
  <2>1. HostOK(host) /\ DeviceOK /\ TaskOK /\ PipeOK /\ GhostOK
    BY DEF IInv, Types
  <2>2. /\ host.addr \in {0, 1} /\ host.step \in 1 .. Done /\ host.tries \in 0 .. Retries
        /\ host.phase \in {"idle", "data", "statusIn", "statusOut"} /\ host.tog \in {0, 1}
        /\ host.req.kind \in Kinds
    BY <2>1 DEF HostOK, Reqs
  <2>3. /\ \A i \in 1 .. Len(taken) : taken[i] \in 1 .. MaxPackets
        /\ \A i \in 1 .. Len(pushed) : pushed[i] \in 1 .. MaxPackets
    <3>1. taken \in Seq(Pkts) /\ pushed \in Seq(Pkts)
      BY <2>1 DEF PipeOK
    <3>2. /\ \A i \in 1 .. Len(taken) : taken[i] \in Pkts
          /\ \A i \in 1 .. Len(pushed) : pushed[i] \in Pkts
      BY <3>1
    <3> QED
      BY <3>2 DEF Pkts
  <2> QED
    BY <2>1, <2>2, <2>3 DEF DeviceOK, TaskOK, PipeOK, GhostOK, Pkts, TypeOK
<1> QED
  BY <1>1, Ep0Invariance, PTL

(* At the status stage the host has the answer to its request, cut to        *)
(* wLength, and before it a beginning of that answer.                        *)
THEOREM AnswerAtStatus == Spec => []Answered
<1>1. IInv => Answered
  <2> SUFFICES ASSUME IInv, host.phase \in {"data", "statusOut"}
               PROVE  /\ host.got = SubSeq(Wanted, 1, Len(host.got))
                      /\ host.phase = "statusOut" => host.got = Wanted
    BY DEF Answered
  <2> DEFINE L == Limited(host.req)
             g == host.got
  <2>1. ReqOK(host.req) /\ conf \in {0, 1} /\ g \in Texts /\ host.req.kind \notin {"ADDR", "CONF"}
    BY DEF IInv, Types, HostOK, DeviceOK
  <2>2. L = Wanted /\ L \in Texts
    BY <2>1, LimitedFacts DEF Wanted
  <2>3. /\ Len(g) <= Len(L) /\ \A i \in 1 .. Len(g) : g[i] = L[0 + i]
        /\ host.phase = "statusOut" => Len(g) = Len(L)
    BY DEF IInv, DataInv, DataOK, Along
  <2> HIDE DEF L, g
  <2>4. Len(g) \in Nat /\ Len(L) \in Nat
    BY <2>1, <2>2, TextsFacts
  <2>5. /\ SubSeq(L, 1, Len(g)) \in Texts /\ Len(SubSeq(L, 1, Len(g))) = Len(g) - 1 + 1
        /\ \A i \in 1 .. Len(g) - 1 + 1 : SubSeq(L, 1, Len(g))[i] = L[1 + i - 1]
    BY <2>2, <2>3, <2>4, SubFacts
  <2>6. g = SubSeq(L, 1, Len(g))
    <3> DEFINE q == SubSeq(L, 1, Len(g))
    <3>1. q \in Texts /\ Len(q) = Len(g) /\ \A i \in 1 .. Len(g) : q[i] = g[i]
      BY <2>3, <2>4, <2>5
    <3> HIDE DEF q
    <3>2. g = q
      BY <2>1, <3>1, SeqEqual DEF Texts
    <3> QED
      BY <3>2 DEF q
  <2>7. SubSeq(L, 1, Len(L)) = L
    BY <2>2, SubSeqFull DEF Texts
  <2> QED
    BY <2>2, <2>3, <2>6, <2>7 DEF g
<1> QED
  BY <1>1, Ep0Invariance, PTL

(* Device and host have the same address, unless a SET_ADDRESS was given up  *)
(* or its last handshake lost.                                               *)
THEOREM AddressesAgree == Spec => []AddressAgrees
<1>1. IInv => AddressAgrees
  BY DEF IInv, AddrInv, AddressAgrees
<1> QED
  BY <1>1, Ep0Invariance, PTL

(* EP2's toggle loses and doubles no packet until a second                   *)
(* SET_CONFIGURATION, or a reset inside USBDEV_LoadEp2Chunk.                 *)
THEOREM InPacketsKept == Spec => []InKept
<1>1. IInv => InKept
  BY DEF IInv, InInv, InKept
<1> QED
  BY <1>1, Ep0Invariance, PTL

(* EP3's toggle loses no packet, and doubles one only when an                *)
(* acknowledgement of that packet itself was lost: no other fault, on EP0,   *)
(* on EP2 or of another packet, excuses a doubling.                          *)
THEOREM OutPacketsKept == Spec => []OutKept
<1>1. IInv => OutKept
  BY DEF IInv, OutInv, OutKept
<1> QED
  BY <1>1, Ep0Invariance, PTL
=============================================================================
