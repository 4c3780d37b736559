----------------------------- MODULE Mux_proofs -----------------------------
(***************************************************************************)
(* Proofs about UsbRx and Mux for every ring, frame and packet size, every *)
(* number of frames and bus resets: the parser dispatches what came in     *)
(* whole, in order, and loses nothing else; and the device is a server of  *)
(* its commands.                                                           *)
(***************************************************************************)
EXTENDS Mux, QueueLemmas, FunctionTheorems, FiniteSetTheorems

-----------------------------------------------------------------------------
(* The inductive invariant of UsbRx *)

(* What the device still holds of the host's bytes: frame_buf, then the ring. *)
Held    == Len(buf) + Len(raw)
Mark(k) == IF k <= Len(buf) THEN buf[k] ELSE raw[k - Len(buf)]

Earlier(a, b) == a.f < b.f \/ (a.f = b.f /\ a.i < b.i)

(* These bytes are in the order in which the host wrote them, and before the *)
(* next one it writes.                                                       *)
HeldInv ==
    /\ \A j, k \in 1 .. Held : j < k => Earlier(Mark(j), Mark(k))
    /\ \A k \in 1 .. Held : Earlier(Mark(k), out)
    /\ out.f \in FrameIds => out.i <= size[out.f]

(* A header that was accepted is at the beginning of frame_buf. *)
HeaderOK(w) == \A i \in 1 .. HeaderLen : w[i] = [f |-> w[1].f, i |-> i]
BufInv == state = "PAYLOAD" => Len(buf) >= HeaderLen /\ HeaderOK(buf)

(* A dispatched frame begins with its header and comes before all that the   *)
(* device still holds or will get.                                           *)
GotInv ==
    /\ got \in Seq(Seq(ByteMarks))
    /\ \A g \in 1 .. Len(got) :
         /\ Len(got[g]) >= 1 /\ got[g][1].i = 1
         /\ \A m \in 1 .. Len(got[g]) : /\ \A k \in 1 .. Held : Earlier(got[g][m], Mark(k))
                                        /\ Earlier(got[g][m], out)

(* A frame that lost no byte so far is held from its first byte on, each     *)
(* byte in its place, until it is dispatched or swallowed.                   *)
Sent(f) == IF f < out.f THEN size[f] ELSE out.i - 1
HeldAfter(f, p) == /\ p + Sent(f) <= Held
                   /\ \A i \in 1 .. Sent(f) : Mark(p + i) = [f |-> f, i |-> i]
                   /\ f = out.f => p + Sent(f) = Held
KeptInv == \A f \in FrameIds : f <= out.f /\ f \notin hurt =>
    Dispatched(f) \/ Swallowed(f) \/ \E p \in 0 .. Held : HeldAfter(f, p)

RxInv == TypeOK /\ HeldInv /\ BufInv /\ GotInv /\ KeptInv /\ WholeInOrder

-----------------------------------------------------------------------------
(* Sequences of bytes and of frames *)

Marks  == Seq(ByteMarks)
Gots   == Seq(Marks)

(* The raw ring and the frame buffer are made by Put and Take. *)
LEMMA MarksFacts ==
  /\ \A q, e : q \in Marks /\ e \in ByteMarks => Append(q, e) \in Marks /\ Put(q, e, Append(q, e))
  /\ \A q : q \in Marks /\ q # <<>> =>
        Head(q) \in ByteMarks /\ Tail(q) \in Marks /\ Take(q, Head(q), Tail(q))
  /\ \A q : q \in Marks => /\ Len(q) \in Nat /\ (q = <<>> <=> Len(q) = 0)
                           /\ \A i \in 1 .. Len(q) : q[i] \in ByteMarks
<1>1. ASSUME NEW q \in Marks, NEW e \in ByteMarks
      PROVE  Append(q, e) \in Marks /\ Put(q, e, Append(q, e))
  BY AppendPuts DEF Marks
<1>2. ASSUME NEW q \in Marks, q # <<>>
      PROVE  Head(q) \in ByteMarks /\ Tail(q) \in Marks /\ Take(q, Head(q), Tail(q))
  BY <1>2, TailTakes DEF Marks
<1>3. ASSUME NEW q \in Marks
      PROVE  /\ Len(q) \in Nat /\ (q = <<>> <=> Len(q) = 0)
             /\ \A i \in 1 .. Len(q) : q[i] \in ByteMarks
  BY QueuePlaces DEF Marks
<1> QED
  BY <1>1, <1>2, <1>3

(* What has been dispatched is made by Put. *)
LEMMA GotsFacts ==
  /\ \A q, e : q \in Gots /\ e \in Marks => Append(q, e) \in Gots /\ Put(q, e, Append(q, e))
  /\ \A q : q \in Gots => Len(q) \in Nat /\ \A i \in 1 .. Len(q) : q[i] \in Marks
<1>1. ASSUME NEW q \in Gots, NEW e \in Marks
      PROVE  Append(q, e) \in Gots /\ Put(q, e, Append(q, e))
  BY AppendPuts DEF Gots
<1>2. ASSUME NEW q \in Gots PROVE Len(q) \in Nat /\ \A i \in 1 .. Len(q) : q[i] \in Marks
  BY QueuePlaces DEF Gots
<1> QED
  BY <1>1, <1>2

(* r is q with the first m of the places of p behind it. *)
Joined(q, p, m, r) ==
    /\ Len(q) \in Nat /\ Len(r) = Len(q) + m
    /\ \A i \in 1 .. Len(q) : r[i] = q[i]
    /\ \A i \in 1 .. m : r[Len(q) + i] = p[i]

(* A packet that fits in part is joined to the ring up to there. *)
LEMMA JoinFacts ==
  ASSUME NEW q \in Marks, NEW p \in Marks, NEW m \in 0 .. Len(p)
  PROVE  /\ q \o SubSeq(p, 1, m) \in Marks /\ Joined(q, p, m, q \o SubSeq(p, 1, m))
         /\ m = Len(p) => q \o p \in Marks /\ Joined(q, p, m, q \o p)
<1>1. Len(q) \in Nat /\ Len(p) \in Nat
  BY MarksFacts
<1>2. /\ SubSeq(p, 1, m) \in Marks /\ Len(SubSeq(p, 1, m)) = m
      /\ \A i \in 1 .. m : SubSeq(p, 1, m)[i] = p[i]
  <2>1. /\ SubSeq(p, 1, m) \in Seq(ByteMarks)
        /\ Len(SubSeq(p, 1, m)) = IF 1 <= m THEN m - 1 + 1 ELSE 0
        /\ \A i \in 1 .. m - 1 + 1 : SubSeq(p, 1, m)[i] = p[1 + i - 1]
    BY <1>1, SubSeqProperties DEF Marks
  <2> QED
    BY <1>1, <2>1 DEF Marks
<1>3. ASSUME NEW x \in Marks
      PROVE  /\ q \o x \in Marks /\ Len(q \o x) = Len(q) + Len(x) /\ Len(x) \in Nat
             /\ \A i \in 1 .. Len(q) : (q \o x)[i] = q[i]
             /\ \A i \in 1 .. Len(x) : (q \o x)[Len(q) + i] = x[i]
  <2>1. /\ q \o x \in Seq(ByteMarks) /\ Len(q \o x) = Len(q) + Len(x) /\ Len(x) \in Nat
        /\ \A i \in 1 .. Len(q) + Len(x) : (q \o x)[i] = IF i <= Len(q) THEN q[i] ELSE x[i - Len(q)]
    BY MarksFacts, ConcatProperties DEF Marks
  <2> HIDE DEF Marks
  <2> QED
    BY <1>1, <2>1 DEF Marks
<1> QED
  BY <1>1, <1>2, <1>3 DEF Joined

(* The bytes i to j of a frame are in order. *)
LEMMA BytesFacts ==
  ASSUME NEW f \in FrameIds, NEW i \in 1 .. MaxFrame, NEW j \in 1 .. MaxFrame, i <= j
  PROVE  /\ Bytes(f, i, j) \in Marks /\ Len(Bytes(f, i, j)) = j + 1 - i
         /\ \A k \in 1 .. j + 1 - i : Bytes(f, i, j)[k] = [f |-> f, i |-> i + k - 1]
<1> DEFINE n == j + 1 - i
<1>1. n \in Nat
  BY UsbRxAssumption
<1>2. \A k \in 1 .. n : [f |-> f, i |-> i + k - 1] \in ByteMarks
  BY UsbRxAssumption DEF ByteMarks
<1> QED
  BY <1>1, <1>2 DEF Marks, Bytes

-----------------------------------------------------------------------------
(* What a turn of USBRX_Process does *)

RxTypes ==
    /\ size \in [FrameIds -> HeaderLen .. MaxFrame]
    /\ out \in [f : 1 .. FrameCount + 1, i : 1 .. MaxFrame]
    /\ raw \in Marks /\ Len(raw) <= RawCap
    /\ state \in {"IDLE", "HEADER", "PAYLOAD"}
    /\ buf \in Marks /\ Len(buf) < IF state = "PAYLOAD" THEN size[buf[1].f] ELSE HeaderLen
    /\ got \in Gots /\ \A g \in 1 .. Len(got) : Len(got[g]) <= MaxFrame
    /\ hurt \subseteq FrameIds /\ cuts \in 0 .. MaxCuts

(* RxTypes is TypeOK and the type of got. *)
LEMMA RxTypeParts ==
  /\ RxTypes <=> TypeOK /\ got \in Seq(Seq(ByteMarks))
  /\ RxTypes' <=> TypeOK' /\ (got \in Seq(Seq(ByteMarks)))'
<1>1. \A q : q \in Gots => \A g \in 1 .. Len(q) : q[g] \in Marks
  BY GotsFacts
<1>2. RxTypes <=> TypeOK /\ got \in Gots
  BY <1>1, Zenon DEF RxTypes, TypeOK, Marks
<1>3. RxTypes' <=> TypeOK' /\ got' \in Gots
  BY <1>1, Zenon DEF RxTypes, TypeOK, Marks
<1> QED
  BY <1>2, <1>3 DEF Gots, Marks

(* What the device holds is bytes of frames. *)
LEMMA MarkTypes ==
  ASSUME RxTypes
  PROVE  /\ Held \in Nat /\ Len(buf) \in Nat /\ Len(raw) \in Nat
         /\ \A k \in 1 .. Held : Mark(k) \in ByteMarks
<1>1. Len(buf) \in Nat /\ Len(raw) \in Nat
  BY MarksFacts DEF RxTypes
<1>2. ASSUME NEW k \in 1 .. Held PROVE Mark(k) \in ByteMarks
  <2>1. CASE k <= Len(buf)
    <3>1. k \in 1 .. Len(buf)
      BY <1>1, <2>1
    <3> QED
      BY <2>1, <3>1, MarksFacts DEF RxTypes, Mark
  <2>2. CASE ~(k <= Len(buf))
    <3>1. k - Len(buf) \in 1 .. Len(raw)
      BY <1>1, <1>2, <2>2 DEF Held
    <3> QED
      BY <2>2, <3>1, MarksFacts DEF RxTypes, Mark
  <2> QED
    BY <2>1, <2>2
<1> QED
  BY <1>1, <1>2 DEF Held

(* The first byte of the ring goes behind frame_buf. *)
LEMMA Popped ==
  ASSUME RxTypes, Pop
  PROVE  /\ Window \in Marks /\ Len(Window) = Len(buf) + 1 /\ Put(buf, Head(raw), Window)
         /\ raw' \in Marks /\ Len(raw') \in Nat /\ Len(raw') <= RawCap
         /\ Len(Window) \in Nat /\ Len(Window) + Len(raw') = Held
         /\ \A i \in 1 .. Len(Window) : Window[i] = Mark(i)
         /\ \A i \in 1 .. Len(raw') : raw'[i] = Mark(Len(Window) + i)
<1>1. /\ Head(raw) \in ByteMarks /\ raw' \in Marks /\ Take(raw, Head(raw), raw')
      /\ buf \in Marks /\ RawCap \in Nat /\ Len(raw) <= RawCap
  BY MarksFacts, UsbRxAssumption DEF RxTypes, Pop
<1>2. Window \in Marks /\ Put(buf, Head(raw), Window)
  BY <1>1, MarksFacts DEF Window
<1> HIDE DEF Window
<1>3. ASSUME NEW i \in 1 .. Len(Window) PROVE Window[i] = Mark(i)
  <2>1. CASE i <= Len(buf)
    BY <1>2, <2>1 DEF Mark, Put
  <2>2. CASE ~(i <= Len(buf))
    <3>1. i = Len(buf) + 1 /\ i - Len(buf) = 1
      BY <1>2, <2>2 DEF Put
    <3> QED
      BY <1>1, <1>2, <2>2, <3>1 DEF Mark, Put, Take
  <2> QED
    BY <2>1, <2>2
<1>4. ASSUME NEW i \in 1 .. Len(raw') PROVE raw'[i] = Mark(Len(Window) + i)
  <2>1. ~(Len(Window) + i <= Len(buf)) /\ Len(Window) + i - Len(buf) = i + 1
    BY <1>1, <1>2 DEF Put, Take
  <2> QED
    BY <1>1, <2>1 DEF Mark, Take
<1> QED
  BY <1>1, <1>2, <1>3, <1>4 DEF Put, Take, Held

(* The parser has done with the first n bytes. *)
Drops(n) == /\ n \in 0 .. Held /\ Held' = Held - n
            /\ \A k \in 1 .. Held - n : Mark(k)' = Mark(k + n)

(* A byte that only moves from the ring to the buffer drops nothing. *)
LEMMA DropNone ==
  ASSUME RxTypes, Pop, buf' = Window
  PROVE  Drops(0)
<1>1. Held' = Held /\ Held \in Nat
  BY Popped, MarkTypes DEF Held
<1>2. ASSUME NEW k \in 1 .. Held PROVE Mark(k)' = Mark(k)
  <2>1. CASE k <= Len(Window)
    <3>1. k \in 1 .. Len(Window)
      BY <2>1, Popped
    <3> QED
      BY <2>1, <3>1, Popped DEF Mark
  <2>2. CASE ~(k <= Len(Window))
    <3>1. k - Len(Window) \in 1 .. Len(raw') /\ Len(Window) + (k - Len(Window)) = k
      BY <1>1, <1>2, <2>2, Popped
    <3> QED
      BY <2>2, <3>1, Popped DEF Mark
  <2> QED
    BY <2>1, <2>2
<1> QED
  BY <1>1, <1>2 DEF Drops

(* An emptied buffer drops the window. *)
LEMMA DropAll ==
  ASSUME RxTypes, Pop, buf' = <<>>
  PROVE  Drops(Len(Window))
<1>1. Len(buf') = 0 /\ Len(raw') \in Nat
  BY Popped
<1>2. Held' = Held - Len(Window) /\ Held' = Len(raw') /\ Len(Window) \in 0 .. Held
  BY <1>1, Popped DEF Held
<1>3. ASSUME NEW k \in 1 .. Len(raw') PROVE Mark(k)' = Mark(k + Len(Window))
  <2>1. ~(k <= Len(buf')) /\ k - Len(buf') = k /\ k + Len(Window) = Len(Window) + k
    BY <1>1, Popped
  <2> QED
    BY <2>1, Popped DEF Mark
<1> QED
  BY <1>2, <1>3 DEF Drops

(* A window shifted by one byte drops its first. *)
LEMMA DropFirst ==
  ASSUME RxTypes, Pop, Take(Window, Head(Window), buf')
  PROVE  Drops(1) /\ Len(buf') = Len(buf)
<1>1. Window \in Marks /\ Window # <<>> /\ Len(Window) = Len(buf) + 1 /\ Len(buf) \in Nat
  BY Popped, MarkTypes, MarksFacts
<1>2. Len(buf') = Len(buf) /\ \A i \in 1 .. Len(buf') : buf'[i] = Window[i + 1]
  BY <1>1 DEF Take
<1>3. Held' = Held - 1 /\ 1 \in 0 .. Held
  BY <1>1, <1>2, Popped DEF Held
<1>4. ASSUME NEW k \in 1 .. Held - 1 PROVE Mark(k)' = Mark(k + 1)
  <2>1. CASE k <= Len(buf')
    <3>1. k \in 1 .. Len(buf') /\ k + 1 \in 1 .. Len(Window)
      BY <1>1, <1>2, <2>1
    <3> QED
      BY <1>2, <2>1, <3>1, Popped DEF Mark
  <2>2. CASE ~(k <= Len(buf'))
    <3>1. k - Len(buf') \in 1 .. Len(raw') /\ Len(Window) + (k - Len(buf')) = k + 1
      BY <1>1, <1>2, <1>4, <2>2, Popped
    <3> QED
      BY <2>2, <3>1, Popped DEF Mark
  <2> QED
    BY <2>1, <2>2
<1> QED
  BY <1>2, <1>3, <1>4 DEF Drops

(* USBRX_ParseHeader looks at the whole window. *)
LEMMA WindowParsed ==
  ASSUME RxTypes, Pop, state # "PAYLOAD", Len(Window) >= HeaderLen
  PROVE  /\ Len(Window) = HeaderLen
         /\ ParseHeader(Window) <=> HeaderOK(Window)
<1>1. Len(Window) = HeaderLen /\ Window \in Marks /\ HeaderLen \in Nat \ {0} /\ HeaderLen <= MaxFrame
      /\ MaxFrame \in Nat
  BY Popped, MarkTypes, UsbRxAssumption DEF RxTypes
<1>2. Window[1].f \in FrameIds
  BY <1>1, MarksFacts DEF ByteMarks
<1> HIDE DEF Window
<1>3. SubSeq(Window, 1, HeaderLen) = Window
  BY <1>1, SubSeqFull DEF Marks
<1> DEFINE b == Bytes(Window[1].f, 1, HeaderLen)
<1>4. /\ b \in Marks /\ Len(b) = HeaderLen
      /\ \A k \in 1 .. HeaderLen : b[k] = [f |-> Window[1].f, i |-> k]
  BY <1>1, <1>2, BytesFacts
<1> HIDE DEF b
<1>5. Window = b <=> \A k \in 1 .. HeaderLen : Window[k] = b[k]
  BY <1>1, <1>4, SeqEqual DEF Marks
<1> QED
  BY <1>1, <1>3, <1>4, <1>5 DEF ParseHeader, HeaderOK, b

(* The byte stays in frame_buf; the window is shifted; a frame is passed on. *)
Grows  == Drops(0) /\ buf' = Window /\ got' = got /\ (state = "PAYLOAD" => state' = "PAYLOAD")
Shifts == /\ Drops(1) /\ got' = got /\ state # "PAYLOAD" /\ state' # "PAYLOAD"
          /\ Len(Window) = HeaderLen /\ ~HeaderOK(Window)
Passes == /\ Drops(Len(Window)) /\ Put(got, Window, got') /\ state' # "PAYLOAD"
          /\ HeaderOK(Window) /\ Len(Window) >= HeaderLen /\ Len(Window) = size[Window[1].f]

(* A byte of USBRX_Process lets the window grow, shifts it, or passes it on. *)
LEMMA ProcessDoes ==
  ASSUME RxTypes, BufInv, Process
  PROVE  /\ Pop /\ UNCHANGED <<size, out, hurt, cuts>>
         /\ RxTypes' /\ BufInv' /\ (Grows \/ Shifts \/ Passes)
<1>1. Pop /\ UNCHANGED <<size, out, hurt, cuts>>
  BY DEF Process, HeaderByte, HeaderBad, HeaderGood, PayloadByte
<1>2. /\ Window \in Marks /\ Len(Window) = Len(buf) + 1 /\ Len(buf) \in Nat
      /\ \A i \in 1 .. Len(buf) : Window[i] = buf[i]
  BY <1>1, Popped, MarkTypes DEF Put
<1>3. raw' \in Marks /\ Len(raw') <= RawCap
  BY <1>1, Popped
<1>4. HeaderLen \in Nat \ {0} /\ HeaderLen <= MaxFrame /\ MaxFrame \in Nat
  BY UsbRxAssumption
<1>5. Window[1] \in ByteMarks /\ Window[1].f \in FrameIds
      /\ size[Window[1].f] \in HeaderLen .. MaxFrame
  BY <1>2, MarksFacts DEF RxTypes, ByteMarks
<1> DEFINE Rest == /\ size' \in [FrameIds -> HeaderLen .. MaxFrame]
                   /\ out' \in [f : 1 .. FrameCount + 1, i : 1 .. MaxFrame]
                   /\ raw' \in Marks /\ Len(raw') <= RawCap
                   /\ hurt' \subseteq FrameIds /\ cuts' \in 0 .. MaxCuts
<1>6. Rest
  BY <1>1, <1>3, Zenon DEF RxTypes
<1> HIDE DEF Rest
<1>7. ASSUME state' \in {"IDLE", "HEADER"}, buf' \in Marks, Len(buf') < HeaderLen, got' = got
      PROVE  RxTypes' /\ BufInv'
  BY <1>6, <1>7 DEF RxTypes, BufInv, Rest
<1>8. ASSUME state' = "IDLE", buf' = <<>>, got' = Append(got, Window), Len(Window) <= MaxFrame
      PROVE  RxTypes' /\ BufInv' /\ Put(got, Window, got')
  <2>1. got' \in Gots /\ Put(got, Window, got')
    BY <1>2, <1>8, GotsFacts DEF RxTypes
  <2>2. \A g \in 1 .. Len(got') : Len(got'[g]) <= MaxFrame
    <3>1. \A g \in 1 .. Len(got') : (g \in 1 .. Len(got) /\ got'[g] = got[g]) \/ got'[g] = Window
      BY <2>1 DEF Put
    <3> QED
      BY <1>8, <3>1 DEF RxTypes
  <2>3. buf' \in Marks /\ Len(buf') = 0
    BY <1>8 DEF Marks
  <2>4. Len(buf') < IF state' = "PAYLOAD" THEN size'[buf'[1].f] ELSE HeaderLen
    BY <1>4, <1>8, <2>3
  <2>5. state' \in {"IDLE", "HEADER", "PAYLOAD"} /\ state' # "PAYLOAD"
    BY <1>8
  <2> QED
    BY <1>6, <2>1, <2>2, <2>3, <2>4, <2>5, Zenon DEF RxTypes, BufInv, Rest
<1>9. ASSUME state' = "PAYLOAD", buf' = Window, got' = got, Len(Window) < size[Window[1].f],
             Len(Window) >= HeaderLen, HeaderOK(Window)
      PROVE  RxTypes' /\ BufInv'
  <2>1. buf' \in Marks /\ Len(buf') < IF state' = "PAYLOAD" THEN size'[buf'[1].f] ELSE HeaderLen
    BY <1>1, <1>2, <1>9
  <2>2. BufInv'
    BY <1>9 DEF BufInv, HeaderOK
  <2> QED
    BY <1>6, <1>9, <2>1, <2>2 DEF RxTypes, Rest
<1>10. CASE HeaderByte
  <2>1. state' = "HEADER" /\ buf' = Window /\ got' = got /\ Len(Window) < HeaderLen
        /\ state # "PAYLOAD"
    BY <1>10 DEF HeaderByte
  <2> QED
    BY <1>1, <1>2, <1>7, <2>1, DropNone DEF Grows
<1>11. CASE HeaderBad
  <2>1. /\ state' = "HEADER" /\ buf' = Tail(Window) /\ got' = got /\ Len(Window) >= HeaderLen
        /\ state # "PAYLOAD" /\ ~ParseHeader(Window)
    BY <1>11 DEF HeaderBad
  <2>2. Len(Window) = HeaderLen /\ ~HeaderOK(Window)
    BY <1>1, <2>1, WindowParsed
  <2>3. buf' \in Marks /\ Take(Window, Head(Window), buf')
    <3>1. Window # <<>>
      BY <1>2, MarksFacts
    <3> QED
      BY <1>2, <2>1, <3>1, MarksFacts
  <2>4. Drops(1) /\ Len(buf') = Len(buf)
    BY <1>1, <2>3, DropFirst
  <2>5. Len(buf) < HeaderLen
    BY <1>2, <1>4, <2>2
  <2>6. RxTypes' /\ BufInv'
    <3>1. Len(buf') < HeaderLen
      BY <2>4, <2>5
    <3> QED
      BY <1>7, <2>1, <2>3, <3>1
  <2> QED
    BY <1>1, <2>1, <2>2, <2>4, <2>6 DEF Shifts
<1>12. CASE HeaderGood
  <2>1. /\ state # "PAYLOAD" /\ Len(Window) >= HeaderLen /\ ParseHeader(Window)
        /\ IF size[Window[1].f] = HeaderLen THEN Dispatch(Window)
           ELSE state' = "PAYLOAD" /\ buf' = Window /\ got' = got
    BY <1>12 DEF HeaderGood
  <2>2. Len(Window) = HeaderLen /\ HeaderOK(Window)
    BY <1>1, <2>1, WindowParsed
  <2>3. CASE size[Window[1].f] = HeaderLen
    <3>1. state' = "IDLE" /\ buf' = <<>> /\ got' = Append(got, Window)
      BY <2>1, <2>3 DEF Dispatch
    <3> QED
      BY <1>1, <1>4, <1>8, <2>2, <2>3, <3>1, DropAll DEF Passes
  <2>4. CASE size[Window[1].f] # HeaderLen
    <3>1. Len(Window) < size[Window[1].f]
      BY <1>4, <1>5, <2>2, <2>4
    <3> QED
      BY <1>1, <1>9, <2>1, <2>2, <2>4, <3>1, DropNone DEF Grows
  <2> QED
    BY <2>3, <2>4
<1>13. CASE PayloadByte
  <2>1. /\ state = "PAYLOAD"
        /\ IF Len(Window) >= size[buf[1].f] THEN Dispatch(Window)
           ELSE buf' = Window /\ state' = state /\ got' = got
    BY <1>13 DEF PayloadByte
  <2>2. Len(buf) >= HeaderLen /\ HeaderOK(buf) /\ Len(buf) < size[buf[1].f]
    BY <2>1 DEF BufInv, RxTypes
  <2>3. Window[1] = buf[1] /\ HeaderOK(Window) /\ Len(Window) >= HeaderLen
    <3>1. Window[1] = buf[1] /\ \A i \in 1 .. HeaderLen : Window[i] = buf[i]
      BY <1>2, <1>4, <2>2
    <3> QED
      BY <1>2, <1>4, <2>2, <3>1 DEF HeaderOK
  <2>4. CASE Len(Window) >= size[buf[1].f]
    <3>1. state' = "IDLE" /\ buf' = <<>> /\ got' = Append(got, Window)
      BY <2>1, <2>4 DEF Dispatch
    <3>2. Len(Window) = size[Window[1].f] /\ Len(Window) <= MaxFrame
      BY <1>2, <1>4, <1>5, <2>2, <2>3, <2>4
    <3> QED
      BY <1>1, <1>8, <2>3, <3>1, <3>2, DropAll DEF Passes
  <2>5. CASE ~(Len(Window) >= size[buf[1].f])
    <3>1. Len(Window) < size[Window[1].f]
      BY <1>2, <1>4, <1>5, <2>3, <2>5
    <3> QED
      BY <1>1, <1>9, <2>1, <2>3, <2>5, <3>1, DropNone DEF Grows
  <2> QED
    BY <2>4, <2>5
<1> QED
  BY <1>10, <1>11, <1>12, <1>13 DEF Process

-----------------------------------------------------------------------------
(* What the host's packets and the bus resets do *)

(* The next l bytes of the host, of which the ring takes m. *)
Pushes(l, m) ==
    /\ out.f \in FrameIds /\ l \in Nat \ {0} /\ m \in 0 .. l /\ out.i + l - 1 <= size[out.f]
    /\ Held' = Held + m
    /\ \A k \in 1 .. Held : Mark(k)' = Mark(k)
    /\ \A k \in Held + 1 .. Held + m : Mark(k)' = [f |-> out.f, i |-> out.i + (k - Held) - 1]
    /\ hurt' = IF m = l THEN hurt ELSE hurt \cup {out.f}
    /\ out' = NextOut(l)
    /\ UNCHANGED <<size, state, buf, got, cuts>>

(* The handler puts a part of the packet behind what is held, and what does  *)
(* not fit is lost.                                                          *)
LEMMA PushDoes ==
  ASSUME RxTypes, HeldInv, PushBytes
  PROVE  /\ RxTypes'
         /\ \E l, m \in Nat : Pushes(l, m)
<1> DEFINE n == size[out.f]
           h == Lesser(out.i + MaxPacket - 1, n)
           p == Packet
<1>1. /\ out.f \in FrameIds /\ out.i \in 1 .. MaxFrame /\ n \in HeaderLen .. MaxFrame /\ out.i <= n
      /\ MaxFrame \in Nat /\ HeaderLen \in Nat \ {0} /\ MaxPacket \in Nat \ {0} /\ RawCap \in Nat
      /\ FrameCount \in Nat
  BY UsbRxAssumption DEF PushBytes, RxTypes, HeldInv
<1>2. h \in 1 .. MaxFrame /\ out.i <= h /\ h <= n
  <2> HIDE DEF n
  <2> QED
    BY <1>1 DEF Lesser
<1> DEFINE l == h + 1 - out.i
<1>3. /\ p \in Marks /\ Len(p) = l
      /\ \A k \in 1 .. l : p[k] = [f |-> out.f, i |-> out.i + k - 1]
  <2>1. p = Bytes(out.f, out.i, h)
    BY DEF Packet
  <2> HIDE DEF p, h
  <2> QED
    BY <1>1, <1>2, <2>1, BytesFacts
<1>4. l \in Nat \ {0} /\ out.i + l - 1 = h
  <2> HIDE DEF h
  <2> QED
    BY <1>1, <1>2
<1> DEFINE room == RawCap - Len(raw)
           m == Lesser(l, room)
<1>5. raw \in Marks /\ Len(raw) \in Nat /\ room \in Nat /\ buf \in Marks /\ Len(buf) \in Nat
  BY <1>1, MarksFacts DEF RxTypes
<1>6. m \in 0 .. l /\ m <= room /\ (m = l <=> l <= room)
  <2> HIDE DEF l, room
  <2> QED
    BY <1>4, <1>5 DEF Lesser
<1>7. /\ raw' \in Marks /\ Joined(raw, p, m, raw') /\ Len(raw') <= RawCap
      /\ hurt' = IF m = l THEN hurt ELSE hurt \cup {out.f}
  <2>1. /\ raw' = raw \o (IF Len(p) <= room THEN p ELSE SubSeq(p, 1, room))
        /\ hurt' = IF Len(p) <= room THEN hurt ELSE hurt \cup {out.f}
    BY DEF PushBytes
  <2> HIDE DEF p, l, room
  <2>2. raw' \in Marks /\ Joined(raw, p, m, raw')
    <3>1. CASE l <= room
      <4>1. raw' = raw \o p /\ m = Len(p) /\ m \in 0 .. Len(p)
        BY <1>3, <1>6, <2>1, <3>1
      <4> HIDE DEF m
      <4> QED
        BY <1>3, <1>5, <4>1, JoinFacts
    <3>2. CASE ~(l <= room)
      <4>1. m = room /\ m \in 0 .. Len(p)
        BY <1>3, <1>4, <1>5, <1>6, <3>2 DEF Lesser
      <4>2. raw' = raw \o SubSeq(p, 1, m)
        BY <1>3, <2>1, <3>2, <4>1
      <4> HIDE DEF m
      <4> QED
        BY <1>3, <1>5, <4>1, <4>2, JoinFacts
    <3> QED
      BY <3>1, <3>2
  <2>3. Len(raw') <= RawCap
    <3> HIDE DEF m
    <3> QED
      BY <1>1, <1>5, <1>6, <2>2 DEF Joined, room
  <2> QED
    BY <1>3, <1>6, <2>1, <2>2, <2>3
<1>8. out' = NextOut(l) /\ UNCHANGED <<size, state, buf, got, cuts>>
  BY <1>3 DEF PushBytes
<1>9. out' \in [f : 1 .. FrameCount + 1, i : 1 .. MaxFrame]
  <2>1. out \in [f : 1 .. FrameCount + 1, i : 1 .. MaxFrame]
    BY DEF RxTypes
  <2> HIDE DEF l, h, n
  <2>2. CASE out.i + l > n
    <3>1. out' = [f |-> out.f + 1, i |-> 1]
      BY <1>8, <2>2 DEF NextOut, n
    <3>2. out.f + 1 \in 1 .. FrameCount + 1 /\ 1 \in 1 .. MaxFrame
      BY <1>1 DEF FrameIds
    <3> QED
      BY <3>1, <3>2
  <2>3. CASE ~(out.i + l > n)
    <3>1. out' = [out EXCEPT !.i = out.i + l]
      BY <1>8, <2>3 DEF NextOut, n
    <3>2. out.i + l \in 1 .. MaxFrame
      BY <1>1, <1>4, <2>3
    <3> QED
      BY <2>1, <3>1, <3>2
  <2> QED
    BY <2>2, <2>3
<1> HIDE DEF l, m, n, h, p, room
<1>10. RxTypes'
  <2>1. hurt' \subseteq FrameIds
    BY <1>1, <1>7 DEF RxTypes
  <2> QED
    BY <1>7, <1>8, <1>9, <2>1, Zenon DEF RxTypes
<1>11. Held' = Held + m /\ Held = Len(buf) + Len(raw)
  BY <1>5, <1>6, <1>7, <1>8 DEF Held, Joined
<1>12. ASSUME NEW k \in 1 .. Held PROVE Mark(k)' = Mark(k)
  <2>1. CASE k <= Len(buf)
    <3>1. buf' = buf
      BY <1>8
    <3> QED
      BY <2>1, <3>1 DEF Mark
  <2>2. CASE ~(k <= Len(buf))
    <3>1. k - Len(buf) \in 1 .. Len(raw)
      BY <1>5, <1>11, <1>12, <2>2
    <3> QED
      BY <1>7, <1>8, <2>2, <3>1 DEF Mark, Joined
  <2> QED
    BY <2>1, <2>2
<1>13. ASSUME NEW k \in Held + 1 .. Held + m
       PROVE  Mark(k)' = [f |-> out.f, i |-> out.i + (k - Held) - 1]
  <2>1. ~(k <= Len(buf)) /\ k - Len(buf) = Len(raw) + (k - Held) /\ k - Held \in 1 .. m
    BY <1>5, <1>6, <1>11, <1>13
  <2>2. raw'[Len(raw) + (k - Held)] = p[k - Held] /\ k - Held \in 1 .. l
    BY <1>4, <1>6, <1>7, <2>1 DEF Joined
  <2>3. buf' = buf
    BY <1>8
  <2>4. Mark(k)' = raw'[Len(raw) + (k - Held)]
    BY <2>1, <2>3 DEF Mark
  <2> QED
    BY <1>3, <2>2, <2>4
<1>14. Pushes(l, m) /\ l \in Nat /\ m \in Nat
  BY <1>1, <1>2, <1>4, <1>6, <1>7, <1>8, <1>11, <1>12, <1>13 DEF Pushes, n
<1> QED
  BY <1>10, <1>14

-----------------------------------------------------------------------------
(* The bytes that are held *)

LEMMA HeldDrop ==
  ASSUME NEW n \in Nat, RxTypes, HeldInv, Drops(n), UNCHANGED <<size, out>>
  PROVE  HeldInv'
<1>1. Held \in Nat
  BY MarkTypes
<1>2. /\ Held' = Held - n /\ Held - n \in Nat
      /\ \A k \in 1 .. Held - n : Mark(k)' = Mark(k + n) /\ k + n \in 1 .. Held
  BY <1>1 DEF Drops
<1>3. \A j, k \in 1 .. Held' : j < k => Earlier(Mark(j)', Mark(k)')
  BY <1>2 DEF HeldInv
<1>4. \A k \in 1 .. Held' : Earlier(Mark(k)', out')
  BY <1>2 DEF HeldInv
<1>5. out'.f \in FrameIds => out'.i <= size'[out'.f]
  BY DEF HeldInv
<1> QED
  BY <1>3, <1>4, <1>5 DEF HeldInv, Earlier

(* The next byte of the host is later than the ones before. *)
LEMMA NextLater ==
  ASSUME NEW l \in Nat \ {0}, RxTypes, out.f \in FrameIds, out.i + l - 1 <= size[out.f],
         out' = NextOut(l), size' = size
  PROVE  /\ out'.f \in Nat /\ out'.i \in Nat /\ Earlier(out, out')
         /\ \A k \in 1 .. l : Earlier([f |-> out.f, i |-> out.i + k - 1], out')
         /\ out'.f \in FrameIds => out'.i <= size'[out'.f]
         /\ IF out.i + l - 1 = size[out.f] THEN out'.f = out.f + 1 /\ out'.i = 1
                                           ELSE out'.f = out.f /\ out'.i = out.i + l
<1> DEFINE n == size[out.f]
<1>1. /\ out \in [f : 1 .. FrameCount + 1, i : 1 .. MaxFrame] /\ out.f \in Nat /\ out.i \in Nat
      /\ n \in Nat
  <2>1. out \in [f : 1 .. FrameCount + 1, i : 1 .. MaxFrame] /\ n \in HeaderLen .. MaxFrame
    BY DEF RxTypes
  <2>2. out.f \in 1 .. FrameCount + 1 /\ out.i \in 1 .. MaxFrame
    BY <2>1
  <2> HIDE DEF n
  <2> QED
    BY <2>1, <2>2, UsbRxAssumption
<1>2. CASE out.i + l - 1 = n
  <2>1. out' = [f |-> out.f + 1, i |-> 1]
    BY <1>1, <1>2 DEF NextOut
  <2>2. out'.f = out.f + 1 /\ out'.i = 1
    BY <2>1
  <2>3. out'.f \in FrameIds => out'.i <= size'[out'.f]
    BY <2>2, UsbRxAssumption DEF RxTypes
  <2> QED
    BY <1>1, <1>2, <2>2, <2>3 DEF Earlier
<1>3. CASE out.i + l - 1 # n
  <2>1. out' = [out EXCEPT !.i = out.i + l]
    BY <1>1, <1>3 DEF NextOut
  <2>2. out'.f = out.f /\ out'.i = out.i + l
    BY <1>1, <2>1
  <2>3. out.i + l <= n
    BY <1>1, <1>3
  <2> QED
    BY <1>1, <1>3, <2>2, <2>3 DEF Earlier
<1> QED
  BY <1>2, <1>3

(* Earlier is transitive, and no byte is earlier than itself. *)
LEMMA EarlierFacts ==
  ASSUME NEW a, NEW b, NEW c, a.f \in Int, a.i \in Int, b.f \in Int, b.i \in Int, c.f \in Int, c.i \in Int
  PROVE  /\ Earlier(a, b) /\ Earlier(b, c) => Earlier(a, c)
         /\ ~Earlier(a, a)
  BY DEF Earlier

(* Frames and the places in them are numbers. *)
LEMMA MarkNumbers ==
  ASSUME RxTypes
  PROVE  /\ \A k \in 1 .. Held : Mark(k).f \in FrameIds /\ Mark(k).i \in 1 .. MaxFrame
         /\ FrameIds \subseteq Nat \ {0} /\ 1 .. MaxFrame \subseteq Nat
         /\ out.f \in 1 .. FrameCount + 1 /\ out.f \in Nat /\ out.i \in Nat \ {0}
<1>1. \A k \in 1 .. Held : Mark(k).f \in FrameIds /\ Mark(k).i \in 1 .. MaxFrame
  BY MarkTypes DEF ByteMarks
<1>2. out.f \in 1 .. FrameCount + 1 /\ out.i \in 1 .. MaxFrame
  BY DEF RxTypes
<1>3. FrameIds \subseteq Nat \ {0} /\ 1 .. MaxFrame \subseteq Nat
  BY UsbRxAssumption DEF FrameIds
<1> QED
  BY <1>1, <1>2, <1>3, UsbRxAssumption

(* A packet keeps what is held in order. *)
LEMMA HeldPush ==
  ASSUME NEW l \in Nat, NEW m \in Nat, RxTypes, HeldInv, Pushes(l, m)
  PROVE  HeldInv'
<1>1. /\ Held \in Nat /\ out.f \in Nat /\ out.i \in Nat
      /\ \A k \in 1 .. Held : Mark(k).f \in Nat /\ Mark(k).i \in Nat
  BY MarkTypes, MarkNumbers
<1>2. /\ out'.f \in Nat /\ out'.i \in Nat /\ Earlier(out, out')
      /\ \A k \in 1 .. l : Earlier([f |-> out.f, i |-> out.i + k - 1], out')
      /\ out'.f \in FrameIds => out'.i <= size'[out'.f]
  BY NextLater DEF Pushes
<1>3. /\ Held' = Held + m /\ m <= l
      /\ \A k \in 1 .. Held : Mark(k)' = Mark(k)
      /\ \A k \in Held + 1 .. Held + m : Mark(k)' = [f |-> out.f, i |-> out.i + (k - Held) - 1]
  BY DEF Pushes
<1>4. \A k \in 1 .. Held : Earlier(Mark(k)', out) /\ Earlier(Mark(k)', out')
  BY <1>1, <1>2, <1>3, EarlierFacts DEF HeldInv
<1>5. ASSUME NEW k \in 1 .. Held' PROVE Earlier(Mark(k)', out')
  <2>1. CASE k <= Held
    BY <1>1, <1>3, <1>4, <2>1
  <2>2. CASE ~(k <= Held)
    <3>1. k \in Held + 1 .. Held + m /\ k - Held \in 1 .. l
      BY <1>1, <1>3, <2>2
    <3> QED
      BY <1>2, <1>3, <3>1
  <2> QED
    BY <2>1, <2>2
<1>6. ASSUME NEW j \in 1 .. Held', NEW k \in 1 .. Held', j < k PROVE Earlier(Mark(j)', Mark(k)')
  <2>1. CASE k <= Held
    BY <1>1, <1>3, <1>6, <2>1 DEF HeldInv
  <2>2. CASE ~(k <= Held)
    <3>1. k \in Held + 1 .. Held + m
      BY <1>1, <1>3, <2>2
    <3>2. Mark(k)'.f = out.f /\ Mark(k)'.i = out.i + (k - Held) - 1
      BY <1>3, <3>1
    <3>3. CASE j <= Held
      <4>1. Earlier(Mark(j)', out) /\ Mark(j)'.f \in Nat /\ Mark(j)'.i \in Nat
        BY <1>1, <1>3, <1>4, <3>3
      <4> QED
        BY <1>1, <3>1, <3>2, <4>1 DEF Earlier
    <3>4. CASE ~(j <= Held)
      <4>1. j \in Held + 1 .. Held + m
        BY <1>1, <1>3, <3>4
      <4>2. Mark(j)'.f = out.f /\ Mark(j)'.i = out.i + (j - Held) - 1
        BY <1>3, <4>1
      <4> QED
        BY <1>1, <1>6, <3>1, <3>2, <4>1, <4>2 DEF Earlier
    <3> QED
      BY <3>3, <3>4
  <2> QED
    BY <2>1, <2>2
<1> QED
  BY <1>2, <1>5, <1>6 DEF HeldInv, Earlier

(* A bus reset makes the host go on with its next frame. *)
Cuts == /\ out.f \in FrameIds /\ out'.f = out.f + 1 /\ out'.i = 1 /\ hurt' = hurt \cup {out.f}
        /\ UNCHANGED <<size, state, buf, got>>
        /\ Held' = Held /\ \A k \in 1 .. Held : Mark(k)' = Mark(k)

(* A reset in a frame drops nothing that is held; the host goes on with the  *)
(* next frame.                                                               *)
LEMMA CutDoes ==
  ASSUME RxTypes, HeldInv, BusReset
  PROVE  RxTypes' /\ Cuts /\ HeldInv'
<1>1. /\ out.f \in FrameIds /\ out' = [f |-> out.f + 1, i |-> 1] /\ hurt' = hurt \cup {out.f}
      /\ cuts' = cuts + 1 /\ cuts < MaxCuts
      /\ UNCHANGED <<size, raw, state, buf, got>>
  BY DEF BusReset
<1>2. out' \in [f : 1 .. FrameCount + 1, i : 1 .. MaxFrame]
  <2>1. out.f + 1 \in 1 .. FrameCount + 1 /\ 1 \in 1 .. MaxFrame
    BY <1>1, UsbRxAssumption DEF FrameIds
  <2> QED
    BY <1>1, <2>1
<1>3. cuts' \in 0 .. MaxCuts /\ hurt' \subseteq FrameIds
  BY <1>1, UsbRxAssumption DEF RxTypes
<1>4. RxTypes'
  BY <1>1, <1>2, <1>3, Zenon DEF RxTypes
<1>5. out'.f = out.f + 1 /\ out'.i = 1
  BY <1>1
<1>6. Held' = Held /\ \A k \in 1 .. Held : Mark(k)' = Mark(k)
  BY <1>1 DEF Held, Mark
<1>7. Cuts
  BY <1>1, <1>5, <1>6 DEF Cuts
<1>8. \A k \in 1 .. Held : Earlier(Mark(k), out')
  BY <1>5, MarkNumbers DEF HeldInv, Earlier
<1>9. out'.f \in FrameIds => out'.i <= size'[out'.f]
  BY <1>1, <1>5, UsbRxAssumption DEF RxTypes
<1>10. \A j, k \in 1 .. Held' : j < k => Earlier(Mark(j)', Mark(k)')
  BY <1>6 DEF HeldInv
<1>11. \A k \in 1 .. Held' : Earlier(Mark(k)', out')
  BY <1>6, <1>8
<1> QED
  BY <1>4, <1>7, <1>9, <1>10, <1>11 DEF HeldInv, Earlier

-----------------------------------------------------------------------------
(* The frames that were dispatched *)

LEMMA GotNumbers ==
  ASSUME RxTypes, NEW g \in 1 .. Len(got)
  PROVE  /\ got[g] \in Marks /\ Len(got[g]) \in Nat
         /\ \A m \in 1 .. Len(got[g]) : got[g][m].f \in FrameIds /\ got[g][m].i \in 1 .. MaxFrame
<1>1. got[g] \in Marks
  BY GotsFacts DEF RxTypes
<1> QED
  BY <1>1, MarksFacts DEF ByteMarks

(* A frame that comes before everything else of the host.                    *)
Past(x) ==
    /\ Len(x) >= 1 /\ x[1].i = 1
    /\ \A m \in 1 .. Len(x) : (\A k \in 1 .. Held : Earlier(x[m], Mark(k))) /\ Earlier(x[m], out)

(* A dispatched frame stays before all that is held or will come. *)
LEMMA PastStays ==
  ASSUME RxTypes, NEW x \in Marks, Past(x),
         \/ \E n \in Nat : Drops(n) /\ out' = out
         \/ \E l, m \in Nat : Pushes(l, m)
         \/ Cuts
  PROVE  Past(x)'
<1>1. /\ Held \in Nat /\ out.f \in Nat /\ out.i \in Nat
      /\ \A k \in 1 .. Held : Mark(k).f \in Nat /\ Mark(k).i \in Nat
  BY MarkTypes, MarkNumbers
<1>2. ASSUME NEW i \in 1 .. Len(x)
      PROVE  /\ x[i].f \in Nat /\ x[i].i \in Nat /\ Earlier(x[i], out)
             /\ \A k \in 1 .. Held : Earlier(x[i], Mark(k))
  BY MarksFacts, MarkNumbers DEF ByteMarks, Past
<1>3. ASSUME NEW n \in Nat, Drops(n), out' = out PROVE Past(x)'
  <2>1. /\ Held' = Held - n /\ Held - n \in Nat
        /\ \A k \in 1 .. Held - n : Mark(k)' = Mark(k + n) /\ k + n \in 1 .. Held
    BY <1>1, <1>3 DEF Drops
  <2> QED
    BY <1>2, <1>3, <2>1 DEF Past
<1>4. ASSUME NEW l \in Nat, NEW m \in Nat, Pushes(l, m) PROVE Past(x)'
  <2>1. out'.f \in Nat /\ out'.i \in Nat /\ Earlier(out, out')
    BY <1>4, NextLater DEF Pushes
  <2>2. /\ Held' = Held + m
        /\ \A k \in 1 .. Held : Mark(k)' = Mark(k)
        /\ \A k \in Held + 1 .. Held + m : Mark(k)' = [f |-> out.f, i |-> out.i + (k - Held) - 1]
    BY <1>4 DEF Pushes
  <2>3. ASSUME NEW i \in 1 .. Len(x) PROVE Earlier(x[i], out')
    BY <1>1, <1>2, <2>1 DEF Earlier
  <2>4. ASSUME NEW i \in 1 .. Len(x), NEW k \in 1 .. Held' PROVE Earlier(x[i], Mark(k)')
    <3>1. CASE k <= Held
      BY <1>1, <1>2, <2>2, <3>1
    <3>2. CASE ~(k <= Held)
      <4>1. k \in Held + 1 .. Held + m
        BY <1>1, <2>2, <3>2
      <4>2. Mark(k)'.f = out.f /\ Mark(k)'.i = out.i + (k - Held) - 1
        BY <2>2, <4>1
      <4>3. Mark(k)'.f = out.f /\ Mark(k)'.i \in Nat /\ out.i <= Mark(k)'.i
        BY <1>1, <4>1, <4>2
      <4>4. Earlier(x[i], out) /\ x[i].i \in Nat
        BY <1>2
      <4> QED
        BY <1>1, <4>3, <4>4 DEF Earlier
    <3> QED
      BY <3>1, <3>2
  <2> QED
    BY <2>3, <2>4 DEF Past, Earlier
<1>5. CASE Cuts
  <2>1. /\ Held' = Held /\ out'.f = out.f + 1
        /\ \A k \in 1 .. Held : Mark(k)' = Mark(k)
    BY <1>5 DEF Cuts
  <2>2. ASSUME NEW i \in 1 .. Len(x) PROVE Earlier(x[i], out')
    BY <1>1, <1>2, <2>1, SMTT(30) DEF Earlier
  <2>3. ASSUME NEW i \in 1 .. Len(x), NEW k \in 1 .. Held' PROVE Earlier(x[i], Mark(k)')
    BY <1>2, <2>1
  <2> QED
    BY <2>2, <2>3 DEF Past, Earlier
<1> QED
  BY <1>3, <1>4, <1>5

(* The frame that is passed on: its bytes are the first that are held.       *)
LEMMA PassedPast ==
  ASSUME RxTypes, HeldInv, Pop, Passes, out' = out
  PROVE  (\A w : w = Window => Past(w)') /\ Window[1].i = 1 /\ 1 \in 1 .. Len(Window) /\ 1 \in 1 .. Held
<1>1. /\ Window \in Marks /\ Len(Window) \in Nat /\ Len(Window) <= Held /\ Held \in Nat
      /\ \A i \in 1 .. Len(Window) : Window[i] = Mark(i)
  BY Popped, MarkTypes
<1>2. Len(Window) >= 1 /\ HeaderLen \in Nat \ {0}
  BY <1>1, UsbRxAssumption DEF Passes
<1>3. Window[1].i = 1
  <2>1. Window[1] = [f |-> Window[1].f, i |-> 1]
    BY <1>2 DEF Passes, HeaderOK
  <2> QED
    BY <2>1
<1>4. /\ Held' = Held - Len(Window)
      /\ \A k \in 1 .. Held - Len(Window) : Mark(k)' = Mark(k + Len(Window))
  BY DEF Passes, Drops
<1>5. ASSUME NEW i \in 1 .. Len(Window) PROVE Earlier(Window[i], out')
  BY <1>1, <1>5 DEF HeldInv
<1>6. ASSUME NEW i \in 1 .. Len(Window), NEW k \in 1 .. Held' PROVE Earlier(Window[i], Mark(k)')
  <2>1. i \in 1 .. Held /\ k + Len(Window) \in 1 .. Held /\ i < k + Len(Window)
    BY <1>1, <1>4
  <2>2. Earlier(Mark(i), Mark(k + Len(Window)))
    BY <2>1 DEF HeldInv
  <2> QED
    BY <1>1, <1>4, <2>2
<1>7. \A w : w = Window => Past(w)'
  BY <1>2, <1>3, <1>5, <1>6 DEF Past, Earlier
<1> QED
  BY <1>1, <1>2, <1>3, <1>7

(* What is said of the dispatched frames holds while none is dispatched. *)
LEMMA GotKept ==
  ASSUME RxTypes, GotInv, RxTypes', got' = got, \A x \in Marks : Past(x) => Past(x)'
  PROVE  GotInv'
<1>1. \A g \in 1 .. Len(got) : got[g] \in Marks /\ Past(got[g])
  BY GotNumbers DEF GotInv, Past
<1>2. (got \in Seq(Seq(ByteMarks)))'
  BY RxTypeParts
<1>3. \A g \in 1 .. Len(got') : \A w : w = got'[g] => Past(w)'
  BY <1>1
<1> QED
  BY <1>2, <1>3 DEF GotInv, Past

(* And when one is. *)
LEMMA GotPassed ==
  ASSUME RxTypes, HeldInv, GotInv, RxTypes', Pop, Passes, out' = out
  PROVE  GotInv'
<1>1. \A x \in Marks : Past(x) => Past(x)'
  <2>1. Len(Window) \in Nat /\ Drops(Len(Window))
    BY Popped DEF Passes
  <2> QED
    BY <2>1, PastStays
<1>2. \A g \in 1 .. Len(got) : got[g] \in Marks /\ Past(got[g])
  BY GotNumbers DEF GotInv, Past
<1>3. (got \in Seq(Seq(ByteMarks)))'
  BY RxTypeParts
<1>4. \A w : w = Window => Past(w)'
  BY PassedPast
<1>5. ASSUME NEW g \in 1 .. Len(got'), NEW w, w = got'[g] PROVE Past(w)'
  <2>1. (g \in 1 .. Len(got) /\ got'[g] = got[g]) \/ got'[g] = Window
    BY DEF Passes, Put
  <2> QED
    BY <1>1, <1>2, <1>4, <1>5, <2>1
<1> QED
  BY <1>3, <1>5 DEF GotInv, Past

(* A frame that lost nothing is passed on as it was written: its bytes are   *)
(* the first that are held.                                                  *)
LEMMA PassedWhole ==
  ASSUME RxTypes, HeldInv, GotInv, KeptInv, Pop, Passes, out' = out,
         state = "PAYLOAD" => Window[1] = buf[1], Window[1].f \notin hurt
  PROVE  \A i \in 1 .. Len(Window) : Window[i] = [f |-> Window[1].f, i |-> i]
<1> DEFINE h == Window[1].f
<1>1. /\ Window \in Marks /\ Len(Window) \in Nat \ {0} /\ Len(Window) <= Held /\ Held \in Nat
      /\ \A i \in 1 .. Len(Window) : Window[i] = Mark(i)
      /\ Window[1].i = 1 /\ Len(Window) = size[h]
  BY Popped, MarkTypes, PassedPast, UsbRxAssumption DEF Passes
<1>2. /\ Mark(1).f = h /\ Mark(1).i = 1 /\ h \in FrameIds /\ h \in Nat /\ 1 \in 1 .. Held
      /\ \A k \in 1 .. Held : Mark(k).f \in Nat /\ Mark(k).i \in Nat \ {0}
      /\ out.f \in Nat /\ out.i \in Nat
  BY <1>1, MarkNumbers
<1> HIDE DEF h
<1>3. Earlier(Mark(1), out)
  BY <1>2 DEF HeldInv
<1>4. h <= out.f /\ (h = out.f => 1 < out.i)
  BY <1>2, <1>3 DEF Earlier
<1>5. ~Dispatched(h)
  <2> SUFFICES ASSUME NEW g \in 1 .. Len(got), HeaderOf(g) = h PROVE FALSE
    BY DEF Dispatched
  <2>1. got[g][1].f = h /\ got[g][1].i = 1 /\ Earlier(got[g][1], Mark(1))
    BY <1>2, GotNumbers DEF GotInv, HeaderOf
  <2> QED
    BY <1>2, <2>1 DEF Earlier
<1>6. ~Swallowed(h)
  <2>1. ASSUME NEW g \in 1 .. Len(got), Within(h, got[g]) PROVE FALSE
    <3>1. PICK k \in 1 .. Len(got[g]) : got[g][k].f = h
      BY <2>1 DEF Within
    <3>2. Earlier(got[g][k], Mark(1)) /\ got[g][k].i \in Nat \ {0}
      BY <1>2, GotNumbers, MarkNumbers DEF GotInv
    <3> QED
      BY <1>2, <3>1, <3>2 DEF Earlier
  <2>2. ~(state = "PAYLOAD" /\ buf[1].f \in hurt \ {h})
    BY DEF h
  <2> QED
    BY <2>1, <2>2 DEF Swallowed
<1>7. PICK p \in 0 .. Held : HeldAfter(h, p)
  BY <1>2, <1>4, <1>5, <1>6 DEF KeptInv, h
<1>8. Sent(h) \in Nat \ {0}
  BY <1>1, <1>2, <1>4 DEF Sent
<1>9. p = 0
  <2>1. p + 1 \in 1 .. Held /\ Mark(p + 1) = [f |-> h, i |-> 1]
    <3>1. 1 \in 1 .. Sent(h) /\ p + Sent(h) <= Held
      BY <1>7, <1>8 DEF HeldAfter
    <3>2. p + 1 \in 1 .. Held
      BY <1>1, <1>8, <3>1
    <3> QED
      BY <1>7, <3>1, <3>2 DEF HeldAfter
  <2>2. Mark(p + 1).f = h /\ Mark(p + 1).i = 1
    BY <2>1
  <2>3. CASE p # 0
    <3>1. Earlier(Mark(1), Mark(p + 1))
      BY <1>2, <1>7, <2>1, <2>3 DEF HeldInv
    <3> QED
      BY <1>2, <2>2, <3>1 DEF Earlier
  <2> QED
    BY <2>3
<1>10. Len(Window) <= Sent(h)
  BY <1>1, <1>2, <1>4, <1>7, <1>8, <1>9 DEF HeldAfter, Sent
<1>11. ASSUME NEW i \in 1 .. Len(Window) PROVE Window[i] = [f |-> h, i |-> i]
  <2>1. i \in 1 .. Sent(h) /\ p + i = i
    BY <1>1, <1>8, <1>9, <1>10
  <2>2. Mark(i) = [f |-> h, i |-> i]
    BY <1>7, <2>1 DEF HeldAfter
  <2> QED
    BY <1>1, <2>2
<1> QED
  BY <1>11 DEF h

(* The order of the dispatched frames holds while none is dispatched. *)
LEMMA OrderStays ==
  ASSUME WholeInOrder, got' = got, size' = size, hurt \subseteq hurt'
  PROVE  WholeInOrder'
  BY DEF WholeInOrder, HeaderOf, Frame

(* And when one is: it begins with a later header, and is whole unless hurt. *)
LEMMA OrderPassed ==
  ASSUME RxTypes, HeldInv, GotInv, KeptInv, WholeInOrder, Pop, Passes,
         state = "PAYLOAD" => Window[1] = buf[1], UNCHANGED <<size, out, hurt>>
  PROVE  WholeInOrder'
<1> DEFINE n == Len(got)
           h == Window[1].f
<1>1. /\ n \in Nat /\ Len(got') = n + 1 /\ got'[n + 1] = Window
      /\ \A g \in 1 .. n : got'[g] = got[g]
  BY GotsFacts DEF RxTypes, Passes, Put
<1>2. /\ Window \in Marks /\ Len(Window) = size[h] /\ Window[1] = Mark(1) /\ h \in FrameIds
      /\ 1 \in 1 .. Held /\ Window[1].i = 1 /\ Len(Window) \in Nat \ {0}
  BY Popped, PassedPast, MarkNumbers DEF Passes
<1>3. ASSUME NEW g \in 1 .. n PROVE HeaderOf(g) < h
  <2>1. /\ Earlier(got[g][1], Mark(1)) /\ got[g][1].i = 1 /\ got[g][1].f \in Nat
    BY <1>2, <1>3, GotNumbers, MarkNumbers DEF GotInv
  <2> QED
    BY <1>2, <2>1, MarkNumbers DEF Earlier, HeaderOf
<1>4. ASSUME h \notin hurt PROVE Window = Frame(h)
  <2>1. \A i \in 1 .. Len(Window) : Window[i] = [f |-> h, i |-> i]
    BY <1>4, PassedWhole
  <2>2. size[h] \in 1 .. MaxFrame /\ 1 \in 1 .. MaxFrame
    BY <1>2, UsbRxAssumption DEF RxTypes
  <2>3. /\ Frame(h) \in Marks /\ Len(Frame(h)) = size[h]
        /\ \A i \in 1 .. size[h] : Frame(h)[i] = [f |-> h, i |-> i]
    BY <1>2, <2>2, BytesFacts DEF Frame
  <2> DEFINE x == Frame(h)
  <2>4. /\ Window \in Marks /\ x \in Marks /\ Len(Window) = Len(x)
        /\ \A i \in 1 .. Len(Window) : Window[i] = x[i]
    BY <1>2, <2>1, <2>3
  <2>5. Window = x
    <3> HIDE DEF x, h
    <3> QED
      BY <2>4, SeqEqual DEF Marks
  <2> QED
    BY <2>5
<1>5. \A g \in 1 .. n + 1 : HeaderOf(g)' = IF g = n + 1 THEN h ELSE HeaderOf(g)
  BY <1>1 DEF HeaderOf
<1>6. \A f : Frame(f)' = Frame(f)
  BY DEF Frame
<1> HIDE DEF n, h
<1>7. \A g, k \in 1 .. n + 1 : g < k => HeaderOf(g)' < HeaderOf(k)'
  <2> SUFFICES ASSUME NEW g \in 1 .. n + 1, NEW k \in 1 .. n + 1, g < k
               PROVE  HeaderOf(g)' < HeaderOf(k)'
    OBVIOUS
  <2>1. g \in 1 .. n /\ g # n + 1 /\ (k \in 1 .. n \/ k = n + 1)
    BY <1>1
  <2> QED
    BY <1>3, <1>5, <2>1 DEF WholeInOrder, n
<1>8. \A g \in 1 .. n + 1 : \A f : f = HeaderOf(g)' /\ f \notin hurt' => got'[g] = Frame(f)'
  <2> SUFFICES ASSUME NEW g \in 1 .. n + 1, NEW f, f = HeaderOf(g)', f \notin hurt
               PROVE  got'[g] = Frame(f)
    BY <1>6
  <2>1. CASE g = n + 1
    BY <1>1, <1>4, <1>5, <2>1
  <2>2. CASE g # n + 1
    <3>1. g \in 1 .. n /\ HeaderOf(g)' = HeaderOf(g)
      BY <1>1, <1>5, <2>2
    <3> QED
      BY <1>1, <3>1 DEF WholeInOrder, n
  <2> QED
    BY <2>1, <2>2
<1> QED
  BY <1>1, <1>7, <1>8 DEF WholeInOrder, Frame, HeaderOf

(* Where a frame's bytes are after the parser has dropped n, p being no less. *)
LEMMA HeldAfterDrop ==
  ASSUME RxTypes, NEW n \in Nat, Drops(n), UNCHANGED <<size, out>>,
         NEW f \in FrameIds, f <= out.f, NEW p \in 0 .. Held, HeldAfter(f, p), n <= p
  PROVE  p - n \in 0 .. Held' /\ HeldAfter(f, p - n)'
<1>1. /\ Held \in Nat /\ Held' = Held - n
      /\ \A k \in 1 .. Held - n : Mark(k)' = Mark(k + n)
  BY MarkTypes DEF Drops
<1>2. Sent(f)' = Sent(f) /\ Sent(f) \in Nat
  BY MarkNumbers, UsbRxAssumption DEF Sent, RxTypes
<1>3. /\ p + Sent(f) <= Held /\ (f = out.f => p + Sent(f) = Held)
      /\ \A i \in 1 .. Sent(f) : Mark(p + i) = [f |-> f, i |-> i]
  BY DEF HeldAfter
<1>4. ASSUME NEW q, q = p - n PROVE HeldAfter(f, q)'
  <2>1. \A i \in 1 .. Sent(f) : Mark(q + i)' = [f |-> f, i |-> i]
    <3> SUFFICES ASSUME NEW i \in 1 .. Sent(f) PROVE Mark(q + i)' = [f |-> f, i |-> i]
      OBVIOUS
    <3>1. q + i \in 1 .. Held - n /\ (q + i) + n = p + i
      BY <1>1, <1>2, <1>3, <1>4
    <3> QED
      BY <1>1, <1>3, <3>1
  <2>2. q + Sent(f) <= Held' /\ (f = out'.f => q + Sent(f) = Held')
    BY <1>1, <1>2, <1>3, <1>4
  <2> QED
    BY <1>2, <2>1, <2>2 DEF HeldAfter
<1>5. p - n \in 0 .. Held'
  BY <1>1
<1> QED
  BY <1>4, <1>5

(* A frame that a damaged one has swallowed stays so while the parser runs. *)
LEMMA SwallowedStays ==
  ASSUME RxTypes, BufInv, Pop, hurt \subseteq hurt', NEW f \in FrameIds, Swallowed(f),
         Grows \/ Shifts \/ Passes
  PROVE  Swallowed(f)'
<1>1. ASSUME NEW g \in 1 .. Len(got), HeaderOf(g) \in hurt \ {f}, Within(f, got[g])
      PROVE  Swallowed(f)'
  <2>1. g \in 1 .. Len(got') /\ got'[g] = got[g]
    BY GotsFacts DEF Grows, Shifts, Passes, Put, RxTypes
  <2>2. HeaderOf(g)' \in hurt' \ {f}
    BY <1>1, <2>1 DEF HeaderOf
  <2> QED
    BY <1>1, <2>1, <2>2 DEF Swallowed, Within
<1>2. ASSUME state = "PAYLOAD", buf[1].f \in hurt \ {f}, Within(f, buf)
      PROVE  Swallowed(f)'
  <2>1. /\ Len(buf) \in Nat \ {0} /\ Len(Window) = Len(buf) + 1
        /\ \A i \in 1 .. Len(buf) : Window[i] = buf[i]
    BY <1>2, Popped, MarkTypes, UsbRxAssumption DEF BufInv, Put
  <2>2. Window[1] = buf[1] /\ Within(f, Window)
    <3>1. PICK k \in 1 .. Len(buf) : buf[k].f = f
      BY <1>2 DEF Within
    <3> QED
      BY <2>1, <3>1 DEF Within
  <2>3. CASE Grows
    <3>1. state' = "PAYLOAD" /\ buf' = Window
      BY <1>2, <2>3 DEF Grows
    <3>2. buf'[1].f \in hurt' \ {f}
      BY <1>2, <2>2, <3>1
    <3>3. Within(f, buf')
      BY <2>2, <3>1
    <3> QED
      BY <3>1, <3>2, <3>3 DEF Swallowed, Within
  <2>4. CASE Passes
    <3>1. /\ Len(got) + 1 \in 1 .. Len(got') /\ got'[Len(got) + 1] = Window
      BY <2>4 DEF Passes, Put
    <3> DEFINE g == Len(got) + 1
    <3>2. \A k : k = g => HeaderOf(k)' \in hurt' \ {f} /\ Within(f, got'[k]) /\ k \in 1 .. Len(got')
      BY <1>2, <2>2, <3>1 DEF HeaderOf
    <3> QED
      BY <3>2 DEF Swallowed, Within
  <2> QED
    BY <1>2, <2>3, <2>4 DEF Shifts
<1> QED
  BY <1>1, <1>2 DEF Swallowed

(* A dispatched frame stays so. *)
LEMMA DispatchedStays ==
  ASSUME RxTypes, NEW f, Dispatched(f), Grows \/ Shifts \/ Passes
  PROVE  Dispatched(f)'
<1>1. PICK g \in 1 .. Len(got) : HeaderOf(g) = f
  BY DEF Dispatched
<1>2. g \in 1 .. Len(got') /\ got'[g] = got[g]
  BY GotsFacts DEF Grows, Shifts, Passes, Put, RxTypes
<1> QED
  BY <1>1, <1>2 DEF Dispatched, HeaderOf

(* A frame that is whole is not shifted out of the window, and goes with a   *)
(* frame that is passed on only if that one has swallowed it.                *)
LEMMA KeptProcess ==
  ASSUME RxTypes, HeldInv, BufInv, GotInv, KeptInv, Process
  PROVE  KeptInv'
<1>1. Pop /\ UNCHANGED <<size, out, hurt>> /\ (Grows \/ Shifts \/ Passes)
  BY ProcessDoes
<1> SUFFICES ASSUME NEW f \in FrameIds, f <= out.f, f \notin hurt
             PROVE  Dispatched(f)' \/ Swallowed(f)' \/ \E p \in 0 .. Held' : HeldAfter(f, p)'
  BY <1>1 DEF KeptInv
<1>2. CASE Dispatched(f)
  BY <1>1, <1>2, DispatchedStays
<1>3. CASE Swallowed(f)
  BY <1>1, <1>3, SwallowedStays
<1>4. ASSUME NEW p \in 0 .. Held, HeldAfter(f, p)
      PROVE  Dispatched(f)' \/ Swallowed(f)' \/ \E q \in 0 .. Held' : HeldAfter(f, q)'
  <2> DEFINE Goal == Dispatched(f)' \/ Swallowed(f)' \/ \E q \in 0 .. Held' : HeldAfter(f, q)'
  <2>1. ASSUME NEW n \in Nat, Drops(n), n <= p PROVE Goal
    BY <1>1, <1>4, <2>1, HeldAfterDrop
  <2> HIDE DEF Goal
  <2>2. /\ Len(Window) \in Nat /\ Len(Window) <= Held /\ Held \in Nat /\ Window \in Marks
        /\ \A i \in 1 .. Len(Window) : Window[i] = Mark(i)
    BY <1>1, Popped, MarkTypes
  <2>3. /\ p + Sent(f) <= Held /\ (f = out.f => p + Sent(f) = Held) /\ Sent(f) \in Nat
        /\ \A i \in 1 .. Sent(f) : Mark(p + i) = [f |-> f, i |-> i]
    BY <1>4, MarkNumbers, UsbRxAssumption, SMTT(30) DEF HeldAfter, Sent, RxTypes
  <2>4. CASE Grows
    BY <1>4, <2>1, <2>4 DEF Grows, Goal
  <2>5. CASE Shifts
    <3>1. CASE p = 0
      <4>1. HeaderLen <= Sent(f)
        <5>1. CASE f = out.f
          BY <2>2, <2>3, <2>5, <3>1, <5>1 DEF Shifts
        <5>2. CASE f # out.f
          BY <5>2, MarkNumbers, UsbRxAssumption DEF Sent, RxTypes
        <5> QED
          BY <5>1, <5>2
      <4>2. \A i \in 1 .. HeaderLen : Window[i] = [f |-> f, i |-> i] /\ Window[i].f = f
        <5> SUFFICES ASSUME NEW i \in 1 .. HeaderLen
                     PROVE  Window[i] = [f |-> f, i |-> i] /\ Window[i].f = f
          OBVIOUS
        <5>1. i \in 1 .. Sent(f) /\ i \in 1 .. Len(Window) /\ p + i = i
          BY <2>3, <2>5, <3>1, <4>1, UsbRxAssumption DEF Shifts
        <5> QED
          BY <2>2, <2>3, <5>1
      <4>3. HeaderOK(Window)
        <5>1. Window[1].f = f
          <6>1. 1 \in 1 .. HeaderLen
            BY UsbRxAssumption
          <6> QED
            BY <4>2, <6>1
        <5> QED
          BY <4>2, <5>1 DEF HeaderOK
      <4> QED
        BY <2>5, <4>3 DEF Shifts
    <3>2. CASE p # 0
      BY <1>4, <2>1, <2>2, <2>5, <3>2 DEF Shifts, Goal
    <3> QED
      BY <3>1, <3>2
  <2>6. CASE Passes
    <3> DEFINE h == Window[1].f
    <3>1. /\ Len(Window) \in Nat \ {0} /\ Drops(Len(Window)) /\ Len(got) + 1 \in 1 .. Len(got')
          /\ got'[Len(got) + 1] = Window
      BY <2>2, <2>6, UsbRxAssumption DEF Passes, Put
    <3>2. CASE h = f
      <4>1. \A k : k = Len(got) + 1 => k \in 1 .. Len(got') /\ HeaderOf(k)' = f
        BY <3>1, <3>2 DEF HeaderOf
      <4>2. Dispatched(f)'
        BY <4>1 DEF Dispatched
      <4> QED
        BY <4>2 DEF Goal
    <3>3. CASE h # f /\ Len(Window) <= p
      BY <2>1, <3>1, <3>3 DEF Goal
    <3>4. CASE h # f /\ ~(Len(Window) <= p)
      <4>1. Sent(f) # 0
        <5>1. CASE f = out.f
          BY <2>2, <2>3, <3>4, <5>1
        <5>2. CASE f # out.f
          BY <5>2, MarkNumbers, UsbRxAssumption DEF Sent, RxTypes
        <5> QED
          BY <5>1, <5>2
      <4>2. p + 1 \in 1 .. Len(Window) /\ Window[p + 1] = [f |-> f, i |-> 1]
        <5>1. 1 \in 1 .. Sent(f) /\ p + 1 \in 1 .. Len(Window)
          BY <2>2, <2>3, <3>4, <4>1
        <5> QED
          BY <2>2, <2>3, <5>1
      <4>3. Window[p + 1].f = f
        BY <4>2
      <4>4. h \in hurt
        <5> SUFFICES ASSUME h \notin hurt PROVE FALSE
          OBVIOUS
        <5>1. state = "PAYLOAD" => Window[1] = buf[1]
          <6> SUFFICES ASSUME state = "PAYLOAD" PROVE Window[1] = buf[1]
            OBVIOUS
          <6>1. Len(buf) \in Nat \ {0}
            BY MarkTypes, UsbRxAssumption DEF BufInv
          <6> QED
            BY <1>1, <6>1, Popped DEF Put
        <5>2. Window[p + 1] = [f |-> h, i |-> p + 1]
          BY <1>1, <2>6, <4>2, <5>1, PassedWhole
        <5>3. Window[p + 1].f = h
          BY <5>2
        <5> QED
          BY <3>4, <4>3, <5>3
      <4>5. \A k : k = Len(got) + 1 =>
              k \in 1 .. Len(got') /\ HeaderOf(k)' \in hurt' \ {f} /\ Within(f, got'[k])
        BY <1>1, <3>1, <3>4, <4>2, <4>3, <4>4 DEF HeaderOf, Within
      <4>6. Swallowed(f)'
        BY <4>5 DEF Swallowed, Within
      <4> QED
        BY <4>6 DEF Goal
    <3> QED
      BY <3>2, <3>3, <3>4
  <2> QED
    BY <1>1, <2>4, <2>5, <2>6 DEF Goal
<1> QED
  BY <1>2, <1>3, <1>4 DEF KeptInv

(* Both stay so when the parser does not run. *)
LEMMA FateStays ==
  ASSUME UNCHANGED <<got, state, buf>>, hurt \subseteq hurt', NEW f
  PROVE  (Dispatched(f) => Dispatched(f)') /\ (Swallowed(f) => Swallowed(f)')
  BY DEF Dispatched, Swallowed, HeaderOf, Within

(* A packet keeps each unhurt frame dispatched, swallowed or held. *)
LEMMA KeptPush ==
  ASSUME NEW l \in Nat, NEW m \in Nat, RxTypes, KeptInv, Pushes(l, m)
  PROVE  KeptInv'
<1>1. /\ out.f \in FrameIds /\ l # 0 /\ m <= l /\ Held' = Held + m /\ hurt \subseteq hurt'
      /\ \A k \in 1 .. Held : Mark(k)' = Mark(k)
      /\ \A k \in Held + 1 .. Held + m : Mark(k)' = [f |-> out.f, i |-> out.i + (k - Held) - 1]
      /\ hurt' = IF m = l THEN hurt ELSE hurt \cup {out.f}
      /\ UNCHANGED <<size, got, state, buf>>
  BY DEF Pushes
<1>2. /\ Held \in Nat /\ out.f \in Nat /\ out.i \in Nat \ {0} /\ FrameIds \subseteq Nat \ {0}
      /\ \A g \in FrameIds : size[g] \in Nat
  BY MarkTypes, MarkNumbers, UsbRxAssumption DEF RxTypes
<1>3. IF out.i + l - 1 = size[out.f] THEN out'.f = out.f + 1 /\ out'.i = 1
                                     ELSE out'.f = out.f /\ out'.i = out.i + l
  BY NextLater DEF Pushes
<1> SUFFICES ASSUME NEW f \in FrameIds, f <= out'.f, f \notin hurt'
             PROVE  Dispatched(f)' \/ Swallowed(f)' \/ \E p \in 0 .. Held' : HeldAfter(f, p)'
  BY DEF KeptInv
<1>4. CASE f <= out.f /\ (Dispatched(f) \/ Swallowed(f))
  BY <1>1, <1>4, FateStays
<1>5. ASSUME f <= out.f, NEW p \in 0 .. Held, HeldAfter(f, p)
      PROVE  \E q \in 0 .. Held' : HeldAfter(f, q)'
  <2>1. /\ p + Sent(f) <= Held /\ (f = out.f => p + Sent(f) = Held) /\ Sent(f) \in Nat
        /\ \A i \in 1 .. Sent(f) : Mark(p + i) = [f |-> f, i |-> i] /\ p + i \in 1 .. Held
    BY <1>2, <1>5 DEF HeldAfter, Sent
  <2>2. p \in 0 .. Held'
    BY <1>1, <1>2, <1>5
  <2>3. CASE f # out.f
    <3>1. Sent(f)' = Sent(f) /\ f # out'.f
      BY <1>1, <1>2, <1>3, <1>5, <2>3 DEF Sent
    <3>2. p + Sent(f) <= Held'
      BY <1>1, <1>2, <2>1
    <3>3. HeldAfter(f, p)'
      BY <1>1, <2>1, <3>1, <3>2 DEF HeldAfter
    <3> QED
      BY <2>2, <3>3
  <2>4. CASE f = out.f
    <3>1. m = l
      BY <1>1, <2>4
    <3>2. Sent(f) = out.i - 1 /\ Sent(f)' = out.i - 1 + l
      BY <1>1, <1>2, <1>3, <2>4 DEF Sent
    <3>3. p + Sent(f)' = Held'
      BY <1>1, <1>2, <2>1, <2>4, <3>1, <3>2
    <3>4. \A i \in 1 .. Sent(f)' : Mark(p + i)' = [f |-> f, i |-> i]
      <4> SUFFICES ASSUME NEW i \in 1 .. Sent(f)' PROVE Mark(p + i)' = [f |-> f, i |-> i]
        OBVIOUS
      <4>1. CASE i <= Sent(f)
        <5>1. i \in 1 .. Sent(f)
          BY <2>1, <4>1
        <5> QED
          BY <1>1, <2>1, <5>1
      <4>2. CASE ~(i <= Sent(f))
        <5>1. p + i \in Held + 1 .. Held + m /\ out.i + ((p + i) - Held) - 1 = i
          BY <1>2, <2>1, <2>4, <3>1, <3>2, <4>2
        <5>2. Mark(p + i)' = [f |-> out.f, i |-> out.i + ((p + i) - Held) - 1]
          BY <1>1, <5>1
        <5> QED
          BY <2>4, <5>1, <5>2
      <4> QED
        BY <4>1, <4>2
    <3>5. HeldAfter(f, p)'
      BY <1>2, <3>2, <3>3, <3>4 DEF HeldAfter
    <3> QED
      BY <2>2, <3>5
  <2> QED
    BY <2>3, <2>4
<1>6. CASE ~(f <= out.f)
  <2>1. f = out'.f /\ out'.i = 1
    BY <1>2, <1>3, <1>6
  <2>2. Sent(f)' = 0
    BY <1>2, <2>1 DEF Sent
  <2>3. \A q : q = Held' => q \in 0 .. Held' /\ HeldAfter(f, q)'
    BY <1>1, <1>2, <2>2 DEF HeldAfter
  <2> QED
    BY <2>3
<1> QED
  BY <1>1, <1>4, <1>5, <1>6 DEF KeptInv

(* So does a reset in a frame. *)
LEMMA KeptCut ==
  ASSUME RxTypes, KeptInv, Cuts
  PROVE  KeptInv'
<1>1. /\ out.f \in FrameIds /\ Held' = Held /\ hurt' = hurt \cup {out.f}
      /\ \A k \in 1 .. Held : Mark(k)' = Mark(k)
      /\ UNCHANGED <<size, got, state, buf>> /\ out'.f = out.f + 1 /\ out'.i = 1
  BY DEF Cuts
<1>2. /\ Held \in Nat /\ out.f \in Nat /\ FrameIds \subseteq Nat \ {0}
      /\ \A g \in FrameIds : size[g] \in Nat
  BY MarkTypes, MarkNumbers, UsbRxAssumption DEF RxTypes
<1> SUFFICES ASSUME NEW f \in FrameIds, f <= out'.f, f \notin hurt'
             PROVE  Dispatched(f)' \/ Swallowed(f)' \/ \E p \in 0 .. Held' : HeldAfter(f, p)'
  BY DEF KeptInv
<1>3. f # out.f /\ f \notin hurt /\ (f < out.f \/ f = out'.f)
  BY <1>1, <1>2
<1>4. CASE f < out.f /\ (Dispatched(f) \/ Swallowed(f))
  BY <1>1, <1>4, FateStays
<1>5. ASSUME f < out.f, NEW p \in 0 .. Held, HeldAfter(f, p)
      PROVE  \E q \in 0 .. Held' : HeldAfter(f, q)'
  <2>1. /\ p + Sent(f) <= Held /\ Sent(f) \in Nat
        /\ \A i \in 1 .. Sent(f) : Mark(p + i) = [f |-> f, i |-> i] /\ p + i \in 1 .. Held
    BY <1>2, <1>5 DEF HeldAfter, Sent
  <2>2. Sent(f)' = Sent(f) /\ f # out'.f
    BY <1>1, <1>2, <1>5 DEF Sent
  <2>3. HeldAfter(f, p)'
    BY <1>1, <2>1, <2>2 DEF HeldAfter
  <2> QED
    BY <1>1, <1>5, <2>3
<1>6. CASE f = out'.f
  <2>1. Sent(f)' = 0
    BY <1>1, <1>2, <1>6 DEF Sent
  <2>2. \A q : q = Held' => q \in 0 .. Held' /\ HeldAfter(f, q)'
    BY <1>1, <1>2, <2>1 DEF HeldAfter
  <2> QED
    BY <2>2
<1> QED
  BY <1>1, <1>2, <1>3, <1>4, <1>5, <1>6 DEF KeptInv

-----------------------------------------------------------------------------
(* UsbRx *)

LEMMA RxInit == Init => RxInv
<1> SUFFICES ASSUME Init PROVE RxInv
  OBVIOUS
<1>1. /\ size \in [FrameIds -> HeaderLen .. MaxFrame] /\ out = [f |-> 1, i |-> 1]
      /\ raw = <<>> /\ buf = <<>> /\ got = <<>> /\ state = "IDLE" /\ hurt = {} /\ cuts = 0
  BY DEF Init
<1>2. Len(<<>>) = 0 /\ Held = 0 /\ out.f = 1 /\ out.i = 1 /\ \A i : i \notin 1 .. 0
  BY <1>1 DEF Held
<1>3. RxTypes
  <2>1. out \in [f : 1 .. FrameCount + 1, i : 1 .. MaxFrame] /\ cuts \in 0 .. MaxCuts
    <3>1. 1 \in 1 .. FrameCount + 1 /\ 1 \in 1 .. MaxFrame /\ 0 \in 0 .. MaxCuts
      BY UsbRxAssumption
    <3> QED
      BY <1>1, <3>1
  <2>2. raw \in Marks /\ buf \in Marks /\ got \in Gots
    BY <1>1 DEF Marks, Gots
  <2>3. Len(raw) <= RawCap /\ Len(buf) < HeaderLen
    BY <1>1, <1>2, UsbRxAssumption
  <2> QED
    BY <1>1, <1>2, <2>1, <2>2, <2>3 DEF RxTypes
<1>4. TypeOK /\ GotInv
  BY <1>1, <1>2, <1>3, RxTypeParts DEF GotInv
<1>5. HeldInv
  <2>1. out.f \in FrameIds => out.i <= size[out.f]
    BY <1>1, <1>2, UsbRxAssumption
  <2> QED
    BY <1>2, <2>1 DEF HeldInv
<1>6. BufInv /\ WholeInOrder
  BY <1>1, <1>2 DEF BufInv, WholeInOrder
<1>7. KeptInv
  <2> SUFFICES ASSUME NEW f \in FrameIds, f <= out.f PROVE HeldAfter(f, 0) /\ 0 \in 0 .. Held
    BY DEF KeptInv
  <2>1. Sent(f) = 0
    BY <1>2 DEF Sent, FrameIds
  <2> QED
    BY <1>2, <2>1 DEF HeldAfter
<1> QED
  BY <1>4, <1>5, <1>6, <1>7 DEF RxInv

(* The rest of the system does not touch what the parser has and will get.   *)
LEMMA RxSame ==
  ASSUME RxInv, UNCHANGED <<size, out, raw, state, buf, got, hurt>>, cuts' \in 0 .. MaxCuts
  PROVE  RxInv'
<1>1. RxTypes /\ HeldInv /\ BufInv /\ GotInv /\ KeptInv /\ WholeInOrder
  BY RxTypeParts DEF RxInv, GotInv
<1>2. /\ size' = size /\ out' = out /\ raw' = raw /\ state' = state /\ buf' = buf
      /\ got' = got /\ hurt' = hurt
  OBVIOUS
<1>3. RxTypes'
  BY <1>1, <1>2, Zenon DEF RxTypes
<1>4. Held' = Held /\ Held \in Nat /\ \A k : Mark(k)' = Mark(k)
  BY <1>1, <1>2, MarkTypes DEF Held, Mark
<1>5. Drops(0)
  BY <1>4 DEF Drops
<1>6. HeldInv'
  BY <1>1, <1>2, <1>5, HeldDrop
<1>7. BufInv'
  BY <1>1, <1>2 DEF BufInv, HeaderOK
<1>8. GotInv'
  <2>1. \A x \in Marks : Past(x) => Past(x)'
    BY <1>1, <1>2, <1>5, PastStays
  <2> QED
    BY <1>1, <1>2, <1>3, <2>1, GotKept
<1>9. KeptInv'
  <2> SUFFICES ASSUME NEW f \in FrameIds, f <= out.f, f \notin hurt
               PROVE  Dispatched(f)' \/ Swallowed(f)' \/ \E p \in 0 .. Held' : HeldAfter(f, p)'
    BY <1>2 DEF KeptInv
  <2>1. ASSUME NEW p \in 0 .. Held, HeldAfter(f, p) PROVE p \in 0 .. Held' /\ HeldAfter(f, p)'
    BY <1>2, <1>4, <2>1 DEF HeldAfter, Sent
  <2> QED
    BY <1>1, <1>2, <2>1, FateStays DEF KeptInv
<1>10. WholeInOrder'
  BY <1>1, <1>2, OrderStays
<1> QED
  BY <1>3, <1>6, <1>7, <1>8, <1>9, <1>10, RxTypeParts DEF RxInv

(* Every step of host, ring and parser keeps the inductive invariant. *)
LEMMA RxStep == RxInv /\ [Next]_vars => RxInv'
<1> SUFFICES ASSUME RxInv, [Next]_vars PROVE RxInv'
  OBVIOUS
<1>1. RxTypes /\ HeldInv /\ BufInv /\ GotInv /\ KeptInv /\ WholeInOrder
  BY RxTypeParts DEF RxInv, GotInv
<1>2. ASSUME RxTypes', HeldInv', BufInv', GotInv', KeptInv', WholeInOrder' PROVE RxInv'
  BY <1>2, RxTypeParts DEF RxInv
<1>3. CASE Process
  <2>1. /\ Pop /\ UNCHANGED <<size, out, hurt, cuts>>
        /\ RxTypes' /\ BufInv' /\ (Grows \/ Shifts \/ Passes)
    BY <1>1, <1>3, ProcessDoes
  <2>2. PICK n \in Nat : Drops(n)
    BY <1>1, <2>1, Popped DEF Grows, Shifts, Passes
  <2>3. HeldInv'
    BY <1>1, <2>1, <2>2, HeldDrop
  <2>4. KeptInv'
    BY <1>1, <1>3, KeptProcess
  <2>5. CASE Grows \/ Shifts
    <3>1. got' = got
      BY <2>5 DEF Grows, Shifts
    <3>2. \A x \in Marks : Past(x) => Past(x)'
      BY <1>1, <2>1, <2>2, PastStays
    <3>3. GotInv'
      BY <1>1, <2>1, <3>1, <3>2, GotKept
    <3>4. WholeInOrder'
      BY <1>1, <2>1, <3>1, OrderStays
    <3> QED
      BY <1>2, <2>1, <2>3, <2>4, <3>3, <3>4
  <2>6. CASE Passes
    <3>1. state = "PAYLOAD" => Window[1] = buf[1]
      <4> SUFFICES ASSUME state = "PAYLOAD" PROVE Window[1] = buf[1]
        OBVIOUS
      <4>1. Len(buf) \in Nat \ {0}
        BY <1>1, MarkTypes, UsbRxAssumption DEF BufInv
      <4> QED
        BY <1>1, <2>1, <4>1, Popped DEF Put
    <3>2. GotInv'
      BY <1>1, <2>1, <2>6, GotPassed
    <3>3. WholeInOrder'
      BY <1>1, <2>1, <2>6, <3>1, OrderPassed
    <3> QED
      BY <1>2, <2>1, <2>3, <2>4, <3>2, <3>3
  <2> QED
    BY <2>1, <2>5, <2>6
<1>4. CASE PushBytes
  <2>1. RxTypes' /\ \E l, m \in Nat : Pushes(l, m)
    BY <1>1, <1>4, PushDoes
  <2>2. PICK l \in Nat, m \in Nat : Pushes(l, m)
    BY <2>1
  <2>3. UNCHANGED <<size, state, buf, got>> /\ hurt \subseteq hurt'
    BY <2>2 DEF Pushes
  <2>4. HeldInv' /\ KeptInv'
    BY <1>1, <2>2, HeldPush, KeptPush
  <2>5. \A x \in Marks : Past(x) => Past(x)'
    BY <1>1, <2>2, PastStays
  <2>6. GotInv' /\ WholeInOrder'
    BY <1>1, <2>1, <2>3, <2>5, GotKept, OrderStays
  <2>7. BufInv'
    BY <1>1, <2>3 DEF BufInv, HeaderOK
  <2> QED
    BY <1>2, <2>1, <2>4, <2>6, <2>7
<1>5. CASE BusReset
  <2>1. RxTypes' /\ Cuts /\ HeldInv'
    BY <1>1, <1>5, CutDoes
  <2>2. UNCHANGED <<size, state, buf, got>> /\ hurt \subseteq hurt'
    BY <2>1 DEF Cuts
  <2>3. KeptInv'
    BY <1>1, <2>1, KeptCut
  <2>4. \A x \in Marks : Past(x) => Past(x)'
    BY <1>1, <2>1, PastStays
  <2>5. GotInv' /\ WholeInOrder'
    BY <1>1, <2>1, <2>2, <2>4, GotKept, OrderStays
  <2>6. BufInv'
    BY <1>1, <2>2 DEF BufInv, HeaderOK
  <2> QED
    BY <1>2, <2>1, <2>3, <2>5, <2>6
<1>6. CASE UNCHANGED vars
  <2>1. UNCHANGED <<size, out, raw, state, buf, got, hurt>> /\ cuts' \in 0 .. MaxCuts
    BY <1>1, <1>6 DEF vars, RxTypes
  <2> QED
    BY <2>1, RxSame
<1> QED
  BY <1>3, <1>4, <1>5, <1>6 DEF Next

(* The inductive invariant holds of the host, the ring and the parser.       *)
THEOREM RxInvariance == Spec => []RxInv
  BY RxInit, RxStep, PTL DEF Spec

(* frame_buf is never overrun, whatever is lost on the way.                  *)
THEOREM ParserTypes == Spec => []TypeOK
<1>1. RxInv => TypeOK
  BY DEF RxInv
<1> QED
  BY <1>1, RxInvariance, PTL

(* Frames are dispatched in order and, if all their bytes came in, whole.    *)
THEOREM FramesWhole == Spec => []WholeInOrder
<1>1. RxInv => WholeInOrder
  BY DEF RxInv
<1> QED
  BY <1>1, RxInvariance, PTL

(* A frame that is held in one piece, dispatched or swallowed is not lost. *)
LEMMA RxInvResync == RxInv => Resync
<1> SUFFICES ASSUME RxInv, NEW f \in FrameIds, Intact(f), ~Dispatched(f), ~Swallowed(f)
             PROVE  Within(f, raw) \/ Within(f, buf)
  BY DEF Resync
<1>1. RxTypes /\ f < out.f /\ f \notin hurt /\ f \in Nat /\ out.f \in Nat
  BY RxTypeParts, MarkNumbers DEF RxInv, GotInv, Intact
<1>2. PICK p \in 0 .. Held : HeldAfter(f, p)
  BY <1>1 DEF RxInv, KeptInv
<1>3. Sent(f) \in Nat \ {0}
  BY <1>1, UsbRxAssumption DEF Sent, RxTypes
<1>4. /\ p + 1 \in 1 .. Held /\ Mark(p + 1) = [f |-> f, i |-> 1] /\ Held = Len(buf) + Len(raw)
      /\ Len(buf) \in Nat /\ Len(raw) \in Nat
  <2>1. 1 \in 1 .. Sent(f) /\ p + Sent(f) <= Held
    BY <1>2, <1>3 DEF HeldAfter
  <2>2. Held = Len(buf) + Len(raw) /\ Len(buf) \in Nat /\ Len(raw) \in Nat
    BY <1>1, MarkTypes DEF Held
  <2> QED
    BY <1>2, <1>3, <2>1, <2>2 DEF HeldAfter
<1>5. Mark(p + 1).f = f
  BY <1>4
<1>6. CASE p + 1 <= Len(buf)
  <2>1. p + 1 \in 1 .. Len(buf) /\ buf[p + 1].f = f
    BY <1>4, <1>5, <1>6 DEF Mark
  <2> QED
    BY <2>1 DEF Within
<1>7. CASE ~(p + 1 <= Len(buf))
  <2>1. (p + 1) - Len(buf) \in 1 .. Len(raw) /\ raw[(p + 1) - Len(buf)].f = f
    BY <1>4, <1>5, <1>7 DEF Mark
  <2> QED
    BY <2>1 DEF Within
<1> QED
  BY <1>6, <1>7

(* The parser loses no frame that came in whole, except to one that did not. *)
THEOREM NothingElseLost == Spec => []Resync
  BY RxInvResync, RxInvariance, PTL

-----------------------------------------------------------------------------
(* Commands in the order of their numbers *)

Rsps == Seq(FrameIds)
Ascending(q) == \A i, j \in 1 .. Len(q) : i < j => q[i] < q[j]

(* The queue of responses is made by Put and Take. *)
LEMMA RspsFacts ==
  /\ \A q, e : q \in Rsps /\ e \in FrameIds => Append(q, e) \in Rsps /\ Put(q, e, Append(q, e))
  /\ \A q : q \in Rsps /\ q # <<>> =>
        Head(q) \in FrameIds /\ Tail(q) \in Rsps /\ Take(q, Head(q), Tail(q))
  /\ \A q : q \in Rsps => /\ Len(q) \in Nat /\ (q = <<>> <=> Len(q) = 0)
                          /\ \A i \in 1 .. Len(q) : q[i] \in FrameIds
                          /\ q \in [1 .. Len(q) -> FrameIds]
<1>1. ASSUME NEW q \in Rsps, NEW e \in FrameIds
      PROVE  Append(q, e) \in Rsps /\ Put(q, e, Append(q, e))
  BY AppendPuts DEF Rsps
<1>2. ASSUME NEW q \in Rsps, q # <<>>
      PROVE  Head(q) \in FrameIds /\ Tail(q) \in Rsps /\ Take(q, Head(q), Tail(q))
  BY <1>2, TailTakes DEF Rsps
<1>3. ASSUME NEW q \in Rsps
      PROVE  /\ Len(q) \in Nat /\ (q = <<>> <=> Len(q) = 0)
             /\ \A i \in 1 .. Len(q) : q[i] \in FrameIds
             /\ q \in [1 .. Len(q) -> FrameIds]
  BY QueuePlaces, LenProperties DEF Rsps
<1> QED
  BY <1>1, <1>2, <1>3

(* A command that comes after all in a queue goes behind them.               *)
LEMMA PutElements ==
  ASSUME NEW q, NEW e, NEW r, Put(q, e, r)
  PROVE  /\ Elements(r) = Elements(q) \cup {e}
         /\ Ascending(q) /\ (\A x \in Elements(q) : x < e) => Ascending(r)
<1>1. Elements(r) = Elements(q) \cup {e}
  BY DEF Put, Elements
<1>2. ASSUME Ascending(q), \A x \in Elements(q) : x < e, NEW i \in 1 .. Len(r), NEW j \in 1 .. Len(r), i < j
      PROVE  r[i] < r[j]
  <2>1. i \in 1 .. Len(q) /\ r[i] = q[i] /\ q[i] \in Elements(q)
    BY <1>2 DEF Put, Elements
  <2>2. CASE j = Len(q) + 1
    BY <1>2, <2>1, <2>2 DEF Put
  <2>3. CASE j # Len(q) + 1
    <3>1. j \in 1 .. Len(q) /\ r[j] = q[j]
      BY <1>2, <2>3 DEF Put
    <3> QED
      BY <1>2, <2>1, <3>1 DEF Ascending
  <2> QED
    BY <2>2, <2>3
<1> QED
  BY <1>1, <1>2 DEF Ascending

(* The head of an ascending queue comes before the others.                   *)
LEMMA TakeElements ==
  ASSUME NEW q, NEW e, NEW r, Take(q, e, r)
  PROVE  /\ Elements(q) = Elements(r) \cup {e}
         /\ Ascending(q) => Ascending(r) /\ \A x \in Elements(r) : e < x
<1>1. /\ Len(q) \in Nat \ {0} /\ Len(r) = Len(q) - 1 /\ e = q[1] /\ 1 \in 1 .. Len(q)
      /\ \A i \in 1 .. Len(q) - 1 : r[i] = q[i + 1] /\ i + 1 \in 1 .. Len(q)
  BY DEF Take
<1>2. Elements(q) \subseteq Elements(r) \cup {e}
  <2> SUFFICES ASSUME NEW i \in 1 .. Len(q), i # 1 PROVE q[i] \in Elements(r)
    BY <1>1 DEF Elements
  <2>1. i - 1 \in 1 .. Len(r) /\ r[i - 1] = q[(i - 1) + 1] /\ (i - 1) + 1 = i
    BY <1>1
  <2> QED
    BY <2>1 DEF Elements
<1>3. Elements(r) \cup {e} \subseteq Elements(q)
  BY <1>1 DEF Elements
<1>4. ASSUME Ascending(q) PROVE Ascending(r) /\ \A x \in Elements(r) : e < x
  <2>1. \A i, j \in 1 .. Len(r) : i < j => r[i] < r[j]
    BY <1>1, <1>4 DEF Ascending
  <2>2. \A i \in 1 .. Len(r) : e < r[i]
    BY <1>1, <1>4 DEF Ascending
  <2> QED
    BY <2>1, <2>2 DEF Ascending, Elements
<1> QED
  BY <1>2, <1>3, <1>4

(* An ascending queue has as many members as places.                         *)
LEMMA CountElements ==
  ASSUME NEW q \in Rsps, Ascending(q)
  PROVE  Cardinality(Elements(q)) = Len(q)
<1>1. /\ Len(q) \in Nat /\ q \in [1 .. Len(q) -> FrameIds]
      /\ \A i \in 1 .. Len(q) : q[i] \in FrameIds
  BY RspsFacts
<1>2. q \in [1 .. Len(q) -> Elements(q)]
  BY <1>1 DEF Elements
<1>3. \A i, j \in 1 .. Len(q) : q[i] = q[j] => i = j
  <2> SUFFICES ASSUME NEW i \in 1 .. Len(q), NEW j \in 1 .. Len(q), i # j PROVE q[i] # q[j]
    OBVIOUS
  <2>1. (i < j \/ j < i) /\ q[i] \in Nat /\ q[j] \in Nat
    BY <1>1, UsbRxAssumption DEF FrameIds
  <2> QED
    BY <2>1 DEF Ascending
<1>4. \A x \in Elements(q) : \E i \in 1 .. Len(q) : q[i] = x
  BY DEF Elements
<1>5. q \in Bijection(1 .. Len(q), Elements(q))
  BY <1>2, <1>3, <1>4, Fun_IsBij
<1>6. ExistsBijection(1 .. Len(q), Elements(q))
  BY <1>5 DEF ExistsBijection
<1> QED
  BY <1>1, <1>6, FS_CountingElements

-----------------------------------------------------------------------------
(* The inductive invariant of Mux *)

(* The frames that were dispatched. *)
Done == {HeaderOf(g) : g \in 1 .. Len(got)}

(* The commands among them are those with a fate, and they meet it in the    *)
(* order in which they were asked: read, then on EP2, then queued.           *)
FateInv ==
    /\ Ascending(rspq)
    /\ \A f \in OnEp2, h \in Elements(rspq) : f < h
    /\ \A f \in Elements(answers), h \in OnEp2 \cup Elements(rspq) : f < h
    /\ lost \cap (Elements(rspq) \cup OnEp2 \cup Elements(answers)) = {}
    /\ Elements(rspq) \cup OnEp2 \cup Elements(answers) \cup lost
         = {f \in Done : opcode[f] \in Commands}

(* Without a burst or a reset no response is lost, for lack of commands.     *)
WindowInv == ~burst /\ cuts = 0 => lost = {} /\ Cardinality(Unanswered) <= Depth

(* An UART_OPEN comes before what it lets in; before the first n answers are *)
(* read it may only have been lost.                                          *)
Allowed(n) ==
    \E f \in FrameIds : opcode[f] = "OPEN" /\ (f \in lost \/ \E j \in 1 .. n : answers[j] = f)
OpenInv ==
    /\ ~open => rxq = 0 /\ dataq = <<>> /\ ep2.type # "DATA" /\ dataAfter = {}
    /\ open => \E f \in Done : opcode[f] = "OPEN"
    /\ ep2.type = "DATA" => Allowed(Len(answers))
    /\ \A n \in dataAfter : n <= Len(answers) /\ Allowed(n)

MuxInv == RxInv /\ MuxTypeOK /\ FateInv /\ WindowInv /\ OpenInv

-----------------------------------------------------------------------------
(* The types of Mux *)

Datas == Seq(1 .. MaxUart)
Ep2Frames == {Nothing} \cup {Rsp(f) : f \in FrameIds} \cup {Data(n) : n \in 1 .. MaxUart}

TaskTypes == /\ events \subseteq {"IO", "POLL"} /\ timer \in BOOLEAN
             /\ at \in {"idle", "rx"} /\ serving \in {"IO", "POLL"}
PortTypes == open \in BOOLEAN /\ uart \in 0 .. MaxUart /\ rxq \in 0 .. uart
DataTypes == dataq \in Datas /\ Len(dataq) <= Depth
RspTypes  == rspq \in Rsps /\ Len(rspq) <= Depth
Ep2Types  == ep2 \in Ep2Frames /\ configured \in BOOLEAN
HostTypes == answers \in Rsps /\ dataAfter \subseteq Nat
LostTypes == lost \subseteq FrameIds /\ burst \in BOOLEAN
MuxTypes  == /\ opcode \in [FrameIds -> Opcodes] /\ TaskTypes /\ PortTypes /\ DataTypes
             /\ RspTypes /\ Ep2Types /\ HostTypes /\ LostTypes

(* MuxTypeOK is the types of UsbRx and those of what Mux adds. *)
LEMMA MuxTypeParts ==
  /\ MuxTypeOK <=> TypeOK /\ MuxTypes
  /\ MuxTypeOK' <=> TypeOK' /\ MuxTypes'
<1>1. MuxTypeOK <=> TypeOK /\ MuxTypes
  BY Zenon DEF MuxTypeOK, MuxTypes, TaskTypes, PortTypes, DataTypes, RspTypes, Ep2Types, HostTypes,
               LostTypes, Rsps, Datas, Ep2Frames
<1>2. MuxTypeOK' <=> TypeOK' /\ MuxTypes'
  BY Zenon DEF MuxTypeOK, MuxTypes, TaskTypes, PortTypes, DataTypes, RspTypes, Ep2Types, HostTypes,
               LostTypes, Rsps, Datas, Ep2Frames
<1> QED
  BY <1>1, <1>2

(* The queue of data grows and shrinks by one. *)
LEMMA DatasFacts ==
  /\ \A q, e : q \in Datas /\ e \in 1 .. MaxUart =>
        Append(q, e) \in Datas /\ Len(Append(q, e)) = Len(q) + 1 /\ Append(q, e) # <<>>
  /\ \A q : q \in Datas /\ q # <<>> =>
        Head(q) \in 1 .. MaxUart /\ Tail(q) \in Datas /\ Len(Tail(q)) = Len(q) - 1
  /\ \A q : q \in Datas => Len(q) \in Nat
<1>1. ASSUME NEW q \in Datas, NEW e \in 1 .. MaxUart
      PROVE  Append(q, e) \in Datas /\ Len(Append(q, e)) = Len(q) + 1 /\ Append(q, e) # <<>>
  BY AppendPuts DEF Datas, Put
<1>2. ASSUME NEW q \in Datas, q # <<>>
      PROVE  Head(q) \in 1 .. MaxUart /\ Tail(q) \in Datas /\ Len(Tail(q)) = Len(q) - 1
  BY <1>2, TailTakes DEF Datas, Take
<1>3. ASSUME NEW q \in Datas PROVE Len(q) \in Nat
  BY LenProperties DEF Datas
<1> QED
  BY <1>1, <1>2, <1>3

(* A frame on EP2 is a response, data or none. *)
LEMMA Ep2Facts ==
  /\ \A f : Rsp(f).type = "RSP" /\ Rsp(f).ref = f
  /\ \A n : Data(n).type = "DATA"
  /\ Nothing.type = "NONE"
  /\ \A e \in Ep2Frames : /\ e.type = "RSP" => e.ref \in FrameIds
                          /\ e # Nothing /\ e.type # "RSP" => e.type = "DATA"
<1>1. /\ \A f : Rsp(f).type = "RSP" /\ Rsp(f).ref = f
      /\ \A n : Data(n).type = "DATA"
      /\ Nothing.type = "NONE"
  BY DEF Rsp, Data, Nothing
<1> QED
  BY <1>1, Zenon DEF Ep2Frames

(* QueueRsp keeps the types. *)
LEMMA QueueRspTypes ==
  ASSUME NEW f \in FrameIds, RspTypes, lost \subseteq FrameIds, events \subseteq {"IO", "POLL"}, QueueRsp(f)
  PROVE  RspTypes' /\ lost' \subseteq FrameIds /\ events' \subseteq {"IO", "POLL"}
<1>1. CASE Len(rspq) < Depth
  <2>1. /\ rspq' = Append(rspq, f) /\ events' = events \cup {"IO"} /\ lost' = lost
    BY <1>1 DEF QueueRsp, Kick
  <2>2. rspq' \in Rsps /\ Len(rspq') = Len(rspq) + 1 /\ Len(rspq) \in Nat
    BY <2>1, RspsFacts DEF RspTypes, Put
  <2> QED
    BY <1>1, <2>1, <2>2, MuxAssumption DEF RspTypes
<1>2. CASE ~(Len(rspq) < Depth)
  BY <1>2 DEF QueueRsp, RspTypes
<1> QED
  BY <1>1, <1>2

-----------------------------------------------------------------------------
(* The steps of Mux, as the parser and the host of UsbRx see them *)

(* What the parser and the host promise holds in the whole device too.       *)
LEMMA RxMux == RxInv /\ [MuxNext]_allVars => RxInv'
<1> SUFFICES ASSUME RxInv, [MuxNext]_allVars PROVE RxInv'
  OBVIOUS
<1>1. CASE PushBytes \/ BusReset \/ Process \/ UNCHANGED vars
  BY <1>1, RxStep DEF Next
<1>2. CASE ResetBetweenFrames
  <2>1. UNCHANGED <<size, out, raw, state, buf, got, hurt>> /\ cuts' = cuts + 1 /\ cuts < MaxCuts
    BY <1>2 DEF ResetBetweenFrames
  <2>2. cuts \in 0 .. MaxCuts
    BY RxTypeParts DEF RxInv, GotInv, RxTypes
  <2>3. cuts' \in 0 .. MaxCuts
    BY <2>1, <2>2, UsbRxAssumption
  <2> QED
    BY <2>1, <2>3, RxSame
<1> QED
  BY <1>1, <1>2 DEF MuxNext, Host, Task, HostWrites, ResetInFrame, SetConfiguration, HostReads, UartByte,
                    RunIo, PollTimer, ParseByte, RoundEnds, allVars

(* A dispatched frame has been begun. *)
LEMMA DoneBegun ==
  ASSUME RxInv
  PROVE  Done \subseteq Begun /\ Begun \subseteq FrameIds /\ FrameIds \subseteq Nat
<1>1. RxTypes /\ GotInv
  BY RxTypeParts DEF RxInv, GotInv
<1>2. FrameIds \subseteq Nat
  BY MarkNumbers, <1>1
<1>3. ASSUME NEW g \in 1 .. Len(got) PROVE got[g][1].f \in Begun
  <2>1. 1 \in 1 .. Len(got[g]) /\ got[g][1].i = 1
    BY <1>1, GotNumbers DEF GotInv
  <2>2. Earlier(got[g][1], out) /\ got[g][1].f \in FrameIds
    BY <1>1, <2>1, GotNumbers DEF GotInv
  <2> QED
    BY <2>1, <2>2 DEF Earlier, Begun
<1> QED
  BY <1>2, <1>3 DEF Done, HeaderOf, Begun

(* The next byte of the ring passes a frame on, or no frame.                 *)
LEMMA ParsePasses ==
  ASSUME RxInv, Process, RxInv'
  PROVE  /\ out' = out /\ cuts' = cuts /\ hurt' = hurt
         /\ \/ got' = got /\ ~(Len(got') > Len(got))
            \/ /\ Len(got') > Len(got) /\ got'[Len(got')][1].f \in Begun
               /\ Done' = Done \cup {got'[Len(got')][1].f}
               /\ \A f \in Done : f < got'[Len(got')][1].f
<1>1. RxTypes /\ HeldInv /\ BufInv /\ WholeInOrder' /\ RxTypes'
  BY RxTypeParts DEF RxInv, GotInv
<1>2. Pop /\ UNCHANGED <<size, out, hurt, cuts>> /\ (Grows \/ Shifts \/ Passes)
  BY <1>1, ProcessDoes
<1>3. Len(got) \in Nat
  BY <1>1, GotsFacts DEF RxTypes
<1>4. CASE Grows \/ Shifts
  BY <1>2, <1>3, <1>4 DEF Grows, Shifts
<1>5. CASE Passes
  <2>1. /\ Len(got') = Len(got) + 1 /\ got'[Len(got) + 1] = Window
        /\ \A g \in 1 .. Len(got) : got'[g] = got[g]
    BY <1>5 DEF Passes, Put
  <2>2. Window[1].f \in Begun
    <3>1. /\ 1 \in 1 .. Len(Window) /\ Window \in Marks /\ 1 \in 1 .. Held
          /\ Window[1].i = 1 /\ Window[1] = Mark(1)
      BY <1>1, <1>2, <1>5, PassedPast, Popped
    <3>2. Window[1].f \in FrameIds
      BY <3>1, MarksFacts DEF ByteMarks
    <3>3. Earlier(Window[1], out)
      BY <1>1, <3>1 DEF HeldInv
    <3> QED
      BY <3>1, <3>2, <3>3 DEF Earlier, Begun
  <2> DEFINE h == got'[Len(got')][1].f
  <2>3. h = Window[1].f /\ h = got'[Len(got) + 1][1].f
    BY <2>1
  <2> HIDE DEF h
  <2>4. \A g \in 1 .. Len(got) : HeaderOf(g)' = HeaderOf(g)
    BY <2>1 DEF HeaderOf
  <2>5. \A g \in 1 .. Len(got) : HeaderOf(g) < h
    <3> SUFFICES ASSUME NEW g \in 1 .. Len(got) PROVE HeaderOf(g) < h
      OBVIOUS
    <3>1. g \in 1 .. Len(got') /\ Len(got) + 1 \in 1 .. Len(got') /\ g < Len(got) + 1
      BY <1>3, <2>1
    <3>2. \A a, b \in 1 .. Len(got') : a < b => got'[a][1].f < got'[b][1].f
      BY <1>1 DEF WholeInOrder, HeaderOf
    <3> QED
      BY <2>1, <2>3, <3>1, <3>2 DEF HeaderOf
  <2>6. Done' = Done \cup {h}
    <3>1. Done' = {got'[g][1].f : g \in 1 .. Len(got')}
      BY DEF Done, HeaderOf
    <3>2. \A g \in 1 .. Len(got') : g \in 1 .. Len(got) \/ g = Len(got) + 1
      BY <1>3, <2>1
    <3>3. \A g \in 1 .. Len(got) : g \in 1 .. Len(got') /\ got'[g][1].f = HeaderOf(g)
      BY <1>3, <2>1 DEF HeaderOf
    <3>4. Len(got) + 1 \in 1 .. Len(got')
      BY <1>3, <2>1
    <3> QED
      BY <2>3, <3>1, <3>2, <3>3, <3>4 DEF Done
  <2>7. Len(got') > Len(got)
    BY <1>3, <2>1
  <2> QED
    BY <1>2, <2>2, <2>3, <2>5, <2>6, <2>7 DEF Done, h
<1> QED
  BY <1>2, <1>4, <1>5

(* Every step keeps the types of the composition. *)
LEMMA MuxTypesStep ==
  ASSUME RxInv, RxInv', MuxTypes, [MuxNext]_allVars
  PROVE  MuxTypes'
<1> USE DEF MuxTypes
<1>1. CASE HostWrites
  <2>1. /\ events' = events \cup {"IO"}
        /\ UNCHANGED <<opcode, timer, at, serving, portVars, txVars>>
    BY <1>1 DEF HostWrites, Kick
  <2>2. burst' \in BOOLEAN
    BY <1>1 DEF HostWrites
  <2> QED
    BY <2>1, <2>2 DEF portVars, txVars, hostVars, TaskTypes, PortTypes, DataTypes, RspTypes, Ep2Types,
                      HostTypes, LostTypes
<1>2. ASSUME Reset PROVE MuxTypes'
  <2>1. /\ UNCHANGED <<opcode, taskVars, portVars, rspq, dataq, hostVars, burst>>
        /\ configured' = FALSE /\ ep2' = Nothing
        /\ lost' = IF ep2.type = "RSP" THEN lost \cup {ep2.ref} ELSE lost
    BY <1>2 DEF Reset
  <2>2. ep2.type = "RSP" => ep2.ref \in FrameIds
    BY Ep2Facts DEF Ep2Types
  <2>3. LostTypes'
    BY <2>1, <2>2 DEF LostTypes
  <2>4. Ep2Types'
    BY <2>1, Zenon DEF Ep2Types, Ep2Frames
  <2> QED
    BY <2>1, <2>3, <2>4 DEF portVars, taskVars, hostVars, TaskTypes, PortTypes, DataTypes, RspTypes, HostTypes
<1>3. CASE SetConfiguration
  BY <1>3 DEF SetConfiguration, portVars, taskVars, hostVars, TaskTypes, PortTypes, DataTypes, RspTypes,
              Ep2Types, HostTypes, LostTypes
<1>4. CASE HostReads
  <2>1. /\ UNCHANGED <<opcode, timer, at, serving, portVars, rspq, dataq, configured, lost, burst>>
        /\ ep2' = Nothing /\ events' = events \cup {"IO"}
        /\ IF ep2.type = "RSP" THEN answers' = Append(answers, ep2.ref) /\ dataAfter' = dataAfter
           ELSE dataAfter' = dataAfter \cup {Len(answers)} /\ answers' = answers
    BY <1>4 DEF HostReads, Kick
  <2>2. ep2.type = "RSP" => ep2.ref \in FrameIds
    BY Ep2Facts DEF Ep2Types
  <2>3. HostTypes'
    <3>1. answers \in Rsps /\ Len(answers) \in Nat /\ dataAfter \subseteq Nat
      BY RspsFacts DEF HostTypes
    <3>2. CASE ep2.type = "RSP"
      <4>1. answers' \in Rsps
        BY <2>1, <2>2, <3>1, <3>2, RspsFacts
      <4> QED
        BY <2>1, <3>1, <3>2, <4>1 DEF HostTypes
    <3>3. CASE ep2.type # "RSP"
      BY <2>1, <3>1, <3>3 DEF HostTypes
    <3> QED
      BY <3>2, <3>3
  <2>4. Ep2Types'
    BY <2>1, Zenon DEF Ep2Types, Ep2Frames
  <2> QED
    BY <2>1, <2>3, <2>4 DEF portVars, TaskTypes, PortTypes, DataTypes, RspTypes, LostTypes
<1>5. CASE UartByte
  <2>1. /\ UNCHANGED <<opcode, timer, at, serving, open, txVars, burst>>
        /\ uart < MaxUart /\ uart' = uart + 1 /\ (rxq' = rxq \/ rxq' = rxq + 1)
        /\ (events' = events \/ events' = events \cup {"IO"})
    BY <1>5 DEF UartByte, Kick
  <2>2. PortTypes'
    BY <2>1, MuxAssumption DEF PortTypes
  <2> QED
    BY <2>1, <2>2 DEF txVars, hostVars, TaskTypes, DataTypes, RspTypes, Ep2Types, HostTypes, LostTypes
<1>6. CASE RunIo
  BY <1>6 DEF RunIo, portVars, txVars, hostVars, TaskTypes, PortTypes, DataTypes, RspTypes,
              Ep2Types, HostTypes, LostTypes
<1>7. CASE PollTimer
  BY <1>7 DEF PollTimer, Kick, portVars, txVars, hostVars, TaskTypes, PortTypes, DataTypes, RspTypes,
              Ep2Types, HostTypes, LostTypes
<1>8. CASE ParseByte
  <2>1. /\ UNCHANGED <<opcode, timer, at, serving, rxq, uart, dataq, configured, ep2, hostVars, burst>>
        /\ Process
        /\ IF Len(got') > Len(got) THEN Route(got'[Len(got')][1].f)
                                   ELSE UNCHANGED <<open, events, rspq, lost>>
    BY <1>8 DEF ParseByte
  <2>2. ASSUME NEW h \in FrameIds, Route(h)
        PROVE  open' \in BOOLEAN /\ RspTypes' /\ lost' \subseteq FrameIds /\ events' \subseteq {"IO", "POLL"}
    <3>1. lost \subseteq FrameIds /\ events \subseteq {"IO", "POLL"} /\ RspTypes /\ open \in BOOLEAN
      BY DEF LostTypes, TaskTypes, PortTypes
    <3>2. CASE QueueRsp(h) /\ (open' = open \/ open' \in Opens(h))
      BY <3>1, <3>2, QueueRspTypes DEF Opens
    <3>3. CASE (events' = events \/ Kick("IO")) /\ UNCHANGED <<open, rspq, lost>>
      BY <3>1, <3>3 DEF Kick, RspTypes
    <3> QED
      BY <2>2, <3>2, <3>3 DEF Route
  <2>3. open' \in BOOLEAN /\ RspTypes' /\ lost' \subseteq FrameIds /\ events' \subseteq {"IO", "POLL"}
    <3>1. CASE Len(got') > Len(got)
      BY <2>1, <2>2, <3>1, ParsePasses, DoneBegun
    <3>2. CASE ~(Len(got') > Len(got))
      BY <2>1, <3>2 DEF LostTypes, TaskTypes, PortTypes, RspTypes
    <3> QED
      BY <3>1, <3>2
  <2> QED
    BY <2>1, <2>3 DEF hostVars, TaskTypes, PortTypes, DataTypes, Ep2Types, HostTypes, LostTypes
<1>9. CASE RoundEnds
  <2>1. /\ UNCHANGED <<opcode, serving, open, uart, configured, hostVars, lost, burst>>
        /\ at' = "idle" /\ rxq' = 0 /\ timer' = (timer \/ serving = "POLL")
        /\ IF Chunk THEN Kick("IO") ELSE UNCHANGED events
        /\ IF configured /\ ep2 = Nothing THEN NextFrame(rspq, AfterUart)
           ELSE dataq' = AfterUart /\ UNCHANGED <<ep2, rspq>>
    BY <1>9 DEF RoundEnds
  <2>2. TaskTypes'
    BY <2>1 DEF TaskTypes, Kick
  <2>3. PortTypes'
    BY <2>1, MuxAssumption DEF PortTypes
  <2>4. AfterUart \in Datas /\ Len(AfterUart) <= Depth /\ Len(AfterUart) \in Nat
    <3>1. CASE Chunk
      <4>1. rxq \in 1 .. MaxUart /\ Len(dataq) < Depth /\ dataq \in Datas /\ AfterUart = Append(dataq, rxq)
        BY <3>1, MuxAssumption DEF Chunk, PortTypes, DataTypes, AfterUart
      <4> QED
        BY <4>1, DatasFacts, MuxAssumption
    <3>2. CASE ~Chunk
      BY <3>2, DatasFacts DEF DataTypes, AfterUart
    <3> QED
      BY <3>1, <3>2
  <2>5. CASE configured /\ ep2 = Nothing /\ rspq # <<>>
    <3>1. ep2' = Rsp(Head(rspq)) /\ rspq' = Tail(rspq) /\ dataq' = AfterUart
      BY <2>1, <2>5 DEF NextFrame
    <3>2. /\ Head(rspq) \in FrameIds /\ Tail(rspq) \in Rsps /\ Len(rspq) \in Nat
          /\ Len(Tail(rspq)) = Len(rspq) - 1
      BY <2>5, RspsFacts DEF RspTypes, Take
    <3>3. RspTypes'
      BY <3>1, <3>2, MuxAssumption DEF RspTypes
    <3>4. Ep2Types'
      BY <2>1, <3>1, <3>2 DEF Ep2Types, Ep2Frames
    <3> QED
      BY <2>1, <2>2, <2>3, <2>4, <3>1, <3>3, <3>4 DEF hostVars, DataTypes, HostTypes, LostTypes
  <2>6. CASE configured /\ ep2 = Nothing /\ rspq = <<>> /\ AfterUart # <<>>
    <3>1. ep2' = Data(Head(AfterUart)) /\ dataq' = Tail(AfterUart) /\ rspq' = rspq
      BY <2>1, <2>6 DEF NextFrame
    <3>2. /\ Head(AfterUart) \in 1 .. MaxUart /\ Tail(AfterUart) \in Datas
          /\ Len(Tail(AfterUart)) = Len(AfterUart) - 1
      BY <2>4, <2>6, DatasFacts
    <3>3. DataTypes'
      BY <2>4, <3>1, <3>2, MuxAssumption DEF DataTypes
    <3>4. Ep2Types'
      BY <2>1, <3>1, <3>2 DEF Ep2Types, Ep2Frames
    <3> QED
      BY <2>1, <2>2, <2>3, <3>1, <3>3, <3>4 DEF hostVars, RspTypes, HostTypes, LostTypes
  <2>7. CASE ~(configured /\ ep2 = Nothing) \/ (rspq = <<>> /\ AfterUart = <<>>)
    <3>1. ep2' = ep2 /\ dataq' = AfterUart /\ rspq' = rspq
      BY <2>1, <2>7 DEF NextFrame
    <3> QED
      BY <2>1, <2>2, <2>3, <2>4, <3>1 DEF hostVars, RspTypes, DataTypes, HostTypes, LostTypes, Ep2Types
  <2> QED
    BY <2>5, <2>6, <2>7
<1>10. CASE UNCHANGED allVars
  BY <1>10 DEF allVars, muxVars, taskVars, portVars, txVars, hostVars, TaskTypes, PortTypes, DataTypes,
               RspTypes, Ep2Types, HostTypes, LostTypes
<1> QED
  BY <1>1, <1>2, <1>3, <1>4, <1>5, <1>6, <1>7, <1>8, <1>9, <1>10
     DEF MuxNext, Host, Task, ResetInFrame, ResetBetweenFrames

-----------------------------------------------------------------------------
(* The steps of Mux, as the commands see them *)

(* Neither the commands the host has begun nor their fates change.           *)
Quiet == /\ Done' = Done /\ Begun' = Begun
         /\ UNCHANGED <<opcode, rspq, answers, lost, burst, cuts>> /\ OnEp2' = OnEp2

(* The host goes on with a frame.                                            *)
Writes == /\ Done' = Done /\ Begun' = Begun \cup {out.f} /\ out.f \in FrameIds
          /\ (out.i = 1 <=> out.f \notin Begun)
          /\ burst' = (burst \/ (out.i = 1 /\ opcode[out.f] \in Commands /\ Cardinality(Unanswered) >= Depth))
          /\ UNCHANGED <<opcode, rspq, answers, lost, cuts>> /\ OnEp2' = OnEp2

(* The response on EP2 is cut off by a bus reset. *)
Resets == /\ Done' = Done /\ Begun' = Begun /\ OnEp2' = {} /\ lost' = lost \cup OnEp2
          /\ cuts' \in Nat \ {0}
          /\ UNCHANGED <<opcode, rspq, answers, burst>>

(* The host reads a response.                                                *)
Reads == /\ Done' = Done /\ Begun' = Begun /\ OnEp2 = {ep2.ref} /\ OnEp2' = {}
         /\ ep2.ref \in FrameIds /\ answers' = Append(answers, ep2.ref)
         /\ UNCHANGED <<opcode, rspq, lost, burst, cuts>>

(* Frame h is dispatched. *)
Routes(h) ==
    /\ Begun' = Begun /\ Done' = Done \cup {h} /\ h \in FrameIds \cap Begun
    /\ \A f \in Done : f < h
    /\ \/ opcode[h] \in Commands /\ Len(rspq) < Depth /\ rspq' = Append(rspq, h) /\ lost' = lost
       \/ opcode[h] \in Commands /\ ~(Len(rspq) < Depth) /\ rspq' = rspq /\ lost' = lost \cup {h}
       \/ opcode[h] \notin Commands /\ rspq' = rspq /\ lost' = lost
    /\ UNCHANGED <<opcode, answers, burst, cuts>> /\ OnEp2' = OnEp2

(* The first response in rsp_q goes to EP2. *)
Sends == /\ Done' = Done /\ Begun' = Begun /\ rspq # <<>> /\ OnEp2 = {} /\ OnEp2' = {Head(rspq)}
         /\ rspq' = Tail(rspq)
         /\ UNCHANGED <<opcode, answers, lost, burst, cuts>>

MuxSteps == Quiet \/ Writes \/ Resets \/ Reads \/ (\E h : Routes(h)) \/ Sends

(* A packet begins its frame or goes on with it. *)
LEMMA BegunGrows ==
  ASSUME RxInv, PushBytes
  PROVE  /\ out.f \in FrameIds /\ (out.i = 1 <=> out.f \notin Begun)
         /\ Begun' = Begun \cup {out.f} /\ got' = got /\ cuts' = cuts
<1>1. RxTypes /\ HeldInv
  BY RxTypeParts DEF RxInv, GotInv
<1>2. PICK l \in Nat, m \in Nat : Pushes(l, m)
  BY <1>1, PushDoes
<1>3. /\ out.f \in FrameIds /\ got' = got /\ cuts' = cuts /\ l \in Nat \ {0}
      /\ out.i + l - 1 <= size[out.f] /\ out' = NextOut(l) /\ size' = size
  BY <1>2 DEF Pushes
<1>4. IF out.i + l - 1 = size[out.f] THEN out'.f = out.f + 1 /\ out'.i = 1
                                     ELSE out'.f = out.f /\ out'.i = out.i + l
  BY <1>1, <1>3, NextLater
<1>5. out.f \in Nat /\ out.i \in Nat \ {0} /\ FrameIds \subseteq Nat
  BY <1>1, MarkNumbers
<1>6. out.i = 1 <=> out.f \notin Begun
  BY <1>3, <1>5 DEF Begun
<1>7. \A f \in FrameIds : f \in Begun' <=> f \in Begun \/ f = out.f
  <2> SUFFICES ASSUME NEW f \in FrameIds
               PROVE  (f < out'.f \/ (f = out'.f /\ out'.i > 1))
                         <=> (f < out.f \/ (f = out.f /\ out.i > 1)) \/ f = out.f
    BY DEF Begun
  <2> QED
    BY <1>3, <1>4, <1>5
<1>8. Begun' = Begun \cup {out.f}
  BY <1>3, <1>7 DEF Begun
<1> QED
  BY <1>3, <1>6, <1>8

(* Nothing else begins a frame. *)
LEMMA BegunStays ==
  ASSUME RxInv, out' = out \/ BusReset
  PROVE  Begun' = Begun
<1>1. RxTypes
  BY RxTypeParts DEF RxInv, GotInv
<1>2. CASE out' = out
  BY <1>2 DEF Begun
<1>3. CASE BusReset
  <2>1. out' = [f |-> out.f + 1, i |-> 1] /\ out.i > 1 /\ out.f \in Nat /\ FrameIds \subseteq Nat
    BY <1>1, <1>3, MarkNumbers DEF BusReset
  <2>2. out'.f = out.f + 1 /\ out'.i = 1
    BY <2>1
  <2>3. \A f \in FrameIds : f < out'.f \/ (f = out'.f /\ out'.i > 1)
                              <=> f < out.f \/ (f = out.f /\ out.i > 1)
    BY <2>1, <2>2
  <2> QED
    BY <2>3 DEF Begun
<1> QED
  BY <1>2, <1>3

(* Frames are dispatched only where got changes. *)
LEMMA DoneStays == got' = got => Done' = Done
  BY DEF Done, HeaderOf

(* The responses on EP2: at most one. *)
LEMMA OnEp2Facts ==
  /\ ep2' = ep2 => OnEp2' = OnEp2
  /\ ep2' = Nothing => OnEp2' = {}
  /\ ep2 = Nothing => OnEp2 = {}
  /\ \A f : ep2' = Rsp(f) => OnEp2' = {f}
  /\ \A n : ep2' = Data(n) => OnEp2' = {}
  BY Ep2Facts DEF OnEp2

(* What a bus reset does to the commands' way. *)
LEMMA ResetDoes ==
  ASSUME RxInv, MuxTypes, ResetInFrame \/ ResetBetweenFrames
  PROVE  Resets
<1>1. /\ cuts' = cuts + 1 /\ got' = got /\ (out' = out \/ BusReset)
  BY DEF ResetInFrame, ResetBetweenFrames, BusReset
<1>2. cuts \in 0 .. MaxCuts
  BY RxTypeParts DEF RxInv, GotInv, RxTypes
<1>3. /\ UNCHANGED <<opcode, rspq, hostVars, burst>> /\ ep2' = Nothing
      /\ lost' = IF ep2.type = "RSP" THEN lost \cup {ep2.ref} ELSE lost
  BY DEF ResetInFrame, ResetBetweenFrames, Reset
<1>4. lost' = lost \cup OnEp2
  BY <1>3 DEF OnEp2
<1>5. cuts' \in Nat \ {0}
  BY <1>1, <1>2, UsbRxAssumption
<1> QED
  BY <1>1, <1>3, <1>4, <1>5, BegunStays, DoneStays, OnEp2Facts DEF Resets, hostVars

(* What a byte parsed does to it: nothing, or a frame is routed. *)
LEMMA ParseDoes ==
  ASSUME RxInv, RxInv', MuxTypes, ParseByte
  PROVE  Quiet \/ \E h : Routes(h)
<1>1. /\ UNCHANGED <<opcode, ep2, hostVars, burst>> /\ Process
      /\ IF Len(got') > Len(got) THEN Route(got'[Len(got')][1].f)
                                 ELSE UNCHANGED <<open, events, rspq, lost>>
  BY DEF ParseByte
<1>2. /\ out' = out /\ cuts' = cuts
      /\ \/ got' = got /\ ~(Len(got') > Len(got))
         \/ /\ Len(got') > Len(got) /\ got'[Len(got')][1].f \in FrameIds \cap Begun
            /\ Done' = Done \cup {got'[Len(got')][1].f}
            /\ \A f \in Done : f < got'[Len(got')][1].f
  <2>1. Begun \subseteq FrameIds
    BY DoneBegun
  <2> QED
    BY <1>1, <2>1, ParsePasses
<1>3. Begun' = Begun /\ OnEp2' = OnEp2
  BY <1>1, <1>2, BegunStays, OnEp2Facts
<1>4. CASE got' = got /\ ~(Len(got') > Len(got))
  BY <1>1, <1>2, <1>3, <1>4, DoneStays DEF Quiet, hostVars
<1>5. CASE Len(got') > Len(got)
  <2> DEFINE h == got'[Len(got')][1].f
  <2>1. h \in FrameIds \cap Begun /\ Done' = Done \cup {h} /\ (\A f \in Done : f < h) /\ Route(h)
    BY <1>1, <1>2, <1>5
  <2> HIDE DEF h
  <2>2. \/ opcode[h] \in Commands /\ QueueRsp(h)
        \/ opcode[h] \notin Commands /\ rspq' = rspq /\ lost' = lost
    BY <2>1 DEF Route, Commands
  <2>3. \/ opcode[h] \in Commands /\ Len(rspq) < Depth /\ rspq' = Append(rspq, h) /\ lost' = lost
        \/ opcode[h] \in Commands /\ ~(Len(rspq) < Depth) /\ rspq' = rspq /\ lost' = lost \cup {h}
        \/ opcode[h] \notin Commands /\ rspq' = rspq /\ lost' = lost
    BY <2>2 DEF QueueRsp
  <2>4. Routes(h)
    BY <1>1, <1>2, <1>3, <2>1, <2>3 DEF Routes, hostVars
  <2> QED
    BY <2>4
<1> QED
  BY <1>2, <1>4, <1>5

(* What the rest of the round does to it: nothing, or EP2 is loaded. *)
LEMMA RoundDoes ==
  ASSUME RxInv, RoundEnds
  PROVE  Quiet \/ Sends
<1>1. /\ UNCHANGED <<vars, opcode, hostVars, lost, burst>>
      /\ IF configured /\ ep2 = Nothing THEN NextFrame(rspq, AfterUart)
         ELSE dataq' = AfterUart /\ UNCHANGED <<ep2, rspq>>
  BY DEF RoundEnds
<1>2. Begun' = Begun /\ Done' = Done /\ UNCHANGED <<opcode, answers, lost, burst, cuts>>
  BY <1>1, BegunStays, DoneStays DEF vars, hostVars
<1>3. CASE ep2 = Nothing /\ rspq # <<>> /\ ep2' = Rsp(Head(rspq)) /\ rspq' = Tail(rspq)
  BY <1>2, <1>3, OnEp2Facts DEF Sends
<1>4. CASE ep2 = Nothing /\ ep2' = Data(Head(AfterUart)) /\ rspq' = rspq
  BY <1>2, <1>4, OnEp2Facts DEF Quiet
<1>5. CASE ep2' = ep2 /\ rspq' = rspq
  BY <1>2, <1>5, OnEp2Facts DEF Quiet
<1> QED
  BY <1>1, <1>3, <1>4, <1>5 DEF NextFrame

(* Every step is of one of these kinds. *)
LEMMA MuxStepKinds ==
  ASSUME RxInv, RxInv', MuxTypes, [MuxNext]_allVars
  PROVE  MuxSteps
<1> USE DEF MuxSteps
<1>1. CASE HostWrites
  BY <1>1, BegunGrows, DoneStays, OnEp2Facts DEF HostWrites, txVars, hostVars, Writes
<1>2. CASE ResetInFrame \/ ResetBetweenFrames
  BY <1>2, ResetDoes
<1>3. CASE HostReads
  <2>1. /\ UNCHANGED <<vars, opcode, rspq, lost, burst>> /\ ep2 # Nothing /\ ep2' = Nothing
        /\ IF ep2.type = "RSP" THEN answers' = Append(answers, ep2.ref) ELSE answers' = answers
    BY <1>3 DEF HostReads
  <2>2. /\ Begun' = Begun /\ Done' = Done /\ OnEp2' = {}
        /\ UNCHANGED <<opcode, rspq, lost, burst, cuts>>
    BY <2>1, BegunStays, DoneStays, OnEp2Facts DEF vars
  <2>3. CASE ep2.type = "RSP"
    <3>1. ep2.ref \in FrameIds /\ OnEp2 = {ep2.ref} /\ answers' = Append(answers, ep2.ref)
      BY <2>1, <2>3, Ep2Facts DEF MuxTypes, Ep2Types, OnEp2
    <3> QED
      BY <2>2, <3>1 DEF Reads
  <2>4. CASE ep2.type # "RSP"
    <3>1. OnEp2 = {} /\ answers' = answers
      BY <2>1, <2>4 DEF OnEp2
    <3> QED
      BY <2>2, <3>1 DEF Quiet
  <2> QED
    BY <2>3, <2>4
<1>4. CASE UNCHANGED <<vars, opcode, txVars, burst>>
  BY <1>4, BegunStays, DoneStays, OnEp2Facts DEF vars, txVars, hostVars, Quiet
<1>5. CASE SetConfiguration
  BY <1>5, BegunStays, DoneStays, OnEp2Facts DEF SetConfiguration, vars, hostVars, Quiet
<1>6. CASE ParseByte
  BY <1>6, ParseDoes
<1>7. CASE RoundEnds
  BY <1>7, RoundDoes
<1> QED
  BY <1>1, <1>2, <1>3, <1>4, <1>5, <1>6, <1>7
     DEF MuxNext, Host, Task, UartByte, RunIo, PollTimer, allVars, muxVars

-----------------------------------------------------------------------------
(* Every invariant over these steps *)

(* The commands with a fate were asked for.                                  *)
LEMMA FateBegun ==
  ASSUME RxInv, FateInv
  PROVE  Elements(rspq) \cup OnEp2 \cup Elements(answers) \cup lost \subseteq {f \in Begun : opcode[f] \in Commands}
  BY DoneBegun DEF FateInv

(* Every step keeps the fates of the commands. *)
LEMMA FateStep ==
  ASSUME RxInv, MuxTypes, FateInv, MuxSteps
  PROVE  FateInv'
<1> DEFINE Q == Elements(rspq)
           A == Elements(answers)
<1>1. /\ Ascending(rspq)
      /\ \A f \in OnEp2, h \in Q : f < h
      /\ \A f \in A, h \in OnEp2 \cup Q : f < h
      /\ lost \cap (Q \cup OnEp2 \cup A) = {}
      /\ Q \cup OnEp2 \cup A \cup lost = {f \in Done : opcode[f] \in Commands}
  BY DEF FateInv
<1>2. rspq \in Rsps /\ answers \in Rsps
  BY DEF MuxTypes, RspTypes, HostTypes
<1>3. Q \subseteq Nat /\ A \subseteq Nat /\ OnEp2 \subseteq Nat /\ Done \subseteq Nat
  BY <1>1, DoneBegun
<1> HIDE DEF Q, A
<1>4. ASSUME Ascending(rspq'),
             \A f \in OnEp2', h \in Elements(rspq') : f < h,
             \A f \in Elements(answers'), h \in OnEp2' \cup Elements(rspq') : f < h,
             lost' \cap (Elements(rspq') \cup OnEp2' \cup Elements(answers')) = {},
             Elements(rspq') \cup OnEp2' \cup Elements(answers') \cup lost'
               = {f \in Done' : opcode'[f] \in Commands}
      PROVE  FateInv'
  <2>1. \A q : Ascending(q) <=> \A i, j \in 1 .. Len(q) : i < j => q[i] < q[j]
    BY DEF Ascending
  <2> QED
    BY <1>4, <2>1 DEF FateInv, Ascending, Elements
<1>5. CASE Quiet \/ Writes
  <2>1. Done' = Done /\ UNCHANGED <<opcode, rspq, answers, lost>> /\ OnEp2' = OnEp2
    BY <1>5 DEF Quiet, Writes
  <2> QED
    BY <1>1, <1>4, <2>1 DEF Q, A
<1>6. CASE Resets
  <2>1. Done' = Done /\ UNCHANGED <<opcode, rspq, answers>> /\ OnEp2' = {} /\ lost' = lost \cup OnEp2
    BY <1>6 DEF Resets
  <2>2. lost' \cap (Q \cup A) = {}
    <3>1. OnEp2 \cap Q = {}
      BY <1>1, <1>3
    <3>2. OnEp2 \cap A = {}
      BY <1>1, <1>3
    <3> QED
      BY <1>1, <2>1, <3>1, <3>2
  <2> QED
    BY <1>1, <1>4, <2>1, <2>2 DEF Q, A
<1>7. CASE Reads
  <2>1. /\ Done' = Done /\ UNCHANGED <<opcode, rspq, lost>> /\ OnEp2' = {} /\ OnEp2 = {ep2.ref}
        /\ ep2.ref \in FrameIds /\ answers' = Append(answers, ep2.ref)
    BY <1>7 DEF Reads
  <2>2. Elements(answers') = A \cup OnEp2
    BY <1>2, <2>1, RspsFacts, PutElements DEF A
  <2> QED
    BY <1>1, <1>4, <2>1, <2>2 DEF Q
<1>8. CASE Sends
  <2>1. /\ Done' = Done /\ UNCHANGED <<opcode, answers, lost>> /\ rspq # <<>> /\ OnEp2 = {}
        /\ OnEp2' = {Head(rspq)} /\ rspq' = Tail(rspq)
    BY <1>8 DEF Sends
  <2>2. Take(rspq, Head(rspq), rspq')
    BY <1>2, <2>1, RspsFacts
  <2>3. /\ Q = Elements(rspq') \cup OnEp2' /\ Ascending(rspq')
        /\ \A f \in OnEp2', h \in Elements(rspq') : f < h
    BY <1>1, <2>1, <2>2, TakeElements DEF Q
  <2> QED
    BY <1>1, <1>4, <2>1, <2>3 DEF A
<1>9. ASSUME NEW h, Routes(h) PROVE FateInv'
  <2>1. /\ Done' = Done \cup {h} /\ h \in FrameIds /\ UNCHANGED <<opcode, answers>> /\ OnEp2' = OnEp2
        /\ \A f \in Done : f < h
        /\ \/ opcode[h] \in Commands /\ Len(rspq) < Depth /\ rspq' = Append(rspq, h) /\ lost' = lost
           \/ opcode[h] \in Commands /\ rspq' = rspq /\ lost' = lost \cup {h}
           \/ opcode[h] \notin Commands /\ rspq' = rspq /\ lost' = lost
    BY <1>9 DEF Routes
  <2>2. /\ \A f \in Q \cup OnEp2 \cup A \cup lost : f < h
        /\ h \notin Q \cup OnEp2 \cup A \cup lost
    <3>1. h \in Nat
      BY <2>1, DoneBegun
    <3>2. h \notin Done
      BY <1>3, <2>1, <3>1
    <3> QED
      BY <1>1, <2>1, <3>2
  <2>3. CASE opcode[h] \in Commands /\ rspq' = Append(rspq, h) /\ lost' = lost
    <3>1. Elements(rspq') = Q \cup {h} /\ Ascending(rspq')
      BY <1>1, <1>2, <2>1, <2>2, <2>3, RspsFacts, PutElements DEF Q
    <3> QED
      BY <1>1, <1>4, <2>1, <2>2, <2>3, <3>1 DEF A
  <2>4. CASE opcode[h] \in Commands /\ rspq' = rspq /\ lost' = lost \cup {h}
    BY <1>1, <1>4, <2>1, <2>2, <2>4 DEF Q, A
  <2>5. CASE opcode[h] \notin Commands /\ rspq' = rspq /\ lost' = lost
    BY <1>1, <1>4, <2>1, <2>5 DEF Q, A
  <2> QED
    BY <2>1, <2>3, <2>4, <2>5
<1> QED
  BY <1>5, <1>6, <1>7, <1>8, <1>9 DEF MuxSteps

(* Sets of frames are finite. *)
LEMMA UnansweredFinite ==
  ASSUME NEW S \in SUBSET FrameIds
  PROVE  IsFiniteSet(S) /\ Cardinality(S) \in Nat
<1>1. IsFiniteSet(FrameIds)
  BY FS_Interval, UsbRxAssumption DEF FrameIds
<1> QED
  BY <1>1, FS_Subset, FS_CardinalityType

(* A host that waits leaves room in rsp_q for what it asks.                  *)
LEMMA WindowStep ==
  ASSUME RxInv, MuxTypes, FateInv, WindowInv, MuxSteps
  PROVE  WindowInv'
<1>1. /\ Unanswered \subseteq Begun /\ Begun \subseteq FrameIds /\ Done \subseteq Begun
      /\ FrameIds \subseteq Nat
      /\ Unanswered = {f \in Begun : opcode[f] \in Commands} \ Elements(answers)
  BY DoneBegun DEF Unanswered
<1>2. Depth \in Nat
  BY MuxAssumption
<1>3. IsFiniteSet(Unanswered) /\ Cardinality(Unanswered) \in Nat
  BY <1>1, UnansweredFinite
<1>4. rspq \in Rsps /\ answers \in Rsps /\ burst \in BOOLEAN
  BY DEF MuxTypes, RspTypes, HostTypes, LostTypes
<1>5. Unanswered' = {f \in Begun' : opcode'[f] \in Commands} \ Elements(answers')
  BY DEF Unanswered, Elements
<1> SUFFICES ASSUME ~burst', cuts' = 0
             PROVE  lost' = {} /\ Cardinality(Unanswered') <= Depth
  BY DEF WindowInv, Unanswered, Begun
<1>6. CASE (Quiet \/ Reads \/ Sends) /\ ~burst /\ cuts = 0
  <2>1. Begun' = Begun /\ UNCHANGED <<opcode, lost>> /\ Elements(answers) \subseteq Elements(answers')
    <3>1. CASE Quiet \/ Sends
      BY <3>1 DEF Quiet, Sends
    <3>2. CASE Reads
      <4>1. /\ Begun' = Begun /\ UNCHANGED <<opcode, lost>> /\ ep2.ref \in FrameIds
            /\ answers' = Append(answers, ep2.ref)
        BY <3>2 DEF Reads
      <4>2. Elements(answers') = Elements(answers) \cup {ep2.ref}
        BY <1>4, <4>1, RspsFacts, PutElements
      <4> QED
        BY <4>1, <4>2
    <3> QED
      BY <1>6, <3>1, <3>2
  <2>2. Unanswered' \in SUBSET Unanswered
    BY <1>1, <1>5, <2>1
  <2>3. Cardinality(Unanswered') <= Cardinality(Unanswered) /\ Cardinality(Unanswered') \in Nat
    BY <1>1, <1>3, <2>2, FS_Subset, UnansweredFinite
  <2> QED
    BY <1>2, <1>3, <1>6, <2>1, <2>3 DEF WindowInv
<1>7. CASE Writes
  <2>1. /\ Begun' = Begun \cup {out.f} /\ (out.i = 1 <=> out.f \notin Begun)
        /\ ~burst /\ cuts = 0 /\ UNCHANGED <<opcode, lost, answers>> /\ out.f \in FrameIds
        /\ out.i = 1 /\ opcode[out.f] \in Commands => ~(Cardinality(Unanswered) >= Depth)
    BY <1>7 DEF Writes
  <2>2. lost' = {} /\ Cardinality(Unanswered) <= Depth
    BY <2>1 DEF WindowInv
  <2>3. CASE out.i = 1 /\ opcode[out.f] \in Commands
    <3>1. Unanswered' \in SUBSET (Unanswered \cup {out.f})
      BY <1>1, <1>5, <2>1
    <3>2. /\ IsFiniteSet(Unanswered \cup {out.f})
          /\ Cardinality(Unanswered \cup {out.f}) <= Cardinality(Unanswered) + 1
          /\ Cardinality(Unanswered \cup {out.f}) \in Nat
      BY <1>1, <1>3, <2>1, FS_AddElement, UnansweredFinite
    <3>3. /\ Cardinality(Unanswered') <= Cardinality(Unanswered \cup {out.f})
          /\ Cardinality(Unanswered') \in Nat
      BY <1>1, <2>1, <3>1, <3>2, FS_Subset, UnansweredFinite
    <3> QED
      BY <1>2, <1>3, <2>1, <2>2, <2>3, <3>2, <3>3
  <2>4. CASE ~(out.i = 1 /\ opcode[out.f] \in Commands)
    <3>1. Unanswered' = Unanswered
      BY <1>1, <1>5, <2>1, <2>4
    <3> QED
      BY <2>2, <3>1
  <2> QED
    BY <2>3, <2>4
<1>8. CASE Resets
  BY <1>8 DEF Resets
<1>9. ASSUME NEW h, Routes(h) PROVE lost' = {} /\ Cardinality(Unanswered') <= Depth
  <2>1. /\ Begun' = Begun /\ UNCHANGED <<opcode, answers>> /\ ~burst /\ cuts = 0
        /\ h \in Begun /\ Done' = Done \cup {h} /\ \A f \in Done : f < h
    BY <1>9 DEF Routes
  <2>2. lost = {} /\ Cardinality(Unanswered) <= Depth /\ Unanswered' = Unanswered
    BY <1>1, <1>5, <2>1 DEF WindowInv
  <2>3. CASE lost' = lost
    BY <2>2, <2>3
  <2>4. ASSUME opcode[h] \in Commands, ~(Len(rspq) < Depth) PROVE FALSE
    <3>1. Cardinality(Elements(rspq)) = Len(rspq) /\ Len(rspq) \in Nat
      BY <1>4, RspsFacts, CountElements DEF FateInv
    <3>2. h \notin Elements(rspq) /\ h \notin Elements(answers)
      <4>1. h \notin Done
        BY <1>1, <2>1
      <4> QED
        BY <4>1 DEF FateInv
    <3>3. Elements(rspq) \cap Elements(answers) = {}
      <4> SUFFICES ASSUME NEW f \in Elements(rspq), f \in Elements(answers) PROVE FALSE
        OBVIOUS
      <4>1. f < f /\ f \in Nat
        BY <1>1, FateBegun DEF FateInv
      <4> QED
        BY <4>1
    <3>4. Elements(rspq) \cup {h} \in SUBSET Unanswered
      BY <1>1, <2>1, <2>4, <3>2, <3>3, FateBegun
    <3>5. Cardinality(Elements(rspq) \cup {h}) = Len(rspq) + 1
      <4>1. IsFiniteSet(Elements(rspq))
        BY <1>1, <3>4, UnansweredFinite
      <4> QED
        BY <3>1, <3>2, <4>1, FS_AddElement
    <3>6. Cardinality(Elements(rspq) \cup {h}) <= Cardinality(Unanswered)
      BY <1>3, <3>4, FS_Subset
    <3> QED
      BY <1>2, <1>3, <2>2, <2>4, <3>1, <3>5, <3>6
  <2> QED
    BY <1>9, <2>3, <2>4 DEF Routes
<1> QED
  BY <1>6, <1>7, <1>8, <1>9 DEF MuxSteps, Quiet, Reads, Sends

(* An answer that was read, and a loss, stay. *)
LEMMA AllowedStays ==
  ASSUME NEW n \in Nat, Allowed(n), answers \in Rsps, n <= Len(answers),
         opcode' = opcode, lost \subseteq lost',
         answers' = answers \/ \E f \in FrameIds : answers' = Append(answers, f)
  PROVE  Allowed(n)' /\ n <= Len(answers')
<1>1. Len(answers) \in Nat
  BY RspsFacts
<1>2. Len(answers) <= Len(answers') /\ \A j \in 1 .. Len(answers) : answers'[j] = answers[j]
  BY <1>1, RspsFacts DEF Put
<1>3. Len(answers') \in Nat
  BY <1>1, RspsFacts
<1>4. \A j \in 1 .. n : answers'[j] = answers[j]
  BY <1>1, <1>2
<1> QED
  BY <1>1, <1>2, <1>3, <1>4 DEF Allowed

(* While the port is closed no data is on its way; and data gets to EP2 only *)
(* when rsp_q is empty.                                                      *)
LEMMA OpenStep ==
  ASSUME RxInv, RxInv', MuxTypes, FateInv, OpenInv, [MuxNext]_allVars, MuxSteps
  PROVE  OpenInv'
<1> DEFINE Opened == \E f \in Done : opcode[f] = "OPEN"
<1>1. /\ ~open => rxq = 0 /\ dataq = <<>> /\ ep2.type # "DATA" /\ dataAfter = {}
      /\ open => Opened
      /\ ep2.type = "DATA" => Allowed(Len(answers))
      /\ \A n \in dataAfter : n <= Len(answers) /\ Allowed(n)
  BY DEF OpenInv
<1>2. answers \in Rsps /\ rspq \in Rsps /\ Len(answers) \in Nat /\ dataAfter \subseteq Nat
  BY RspsFacts DEF MuxTypes, HostTypes, RspTypes
<1>3. /\ opcode' = opcode /\ lost \subseteq lost' /\ Done \subseteq Done'
      /\ answers' = answers \/ \E f \in FrameIds : answers' = Append(answers, f)
  BY DEF MuxSteps, Quiet, Writes, Resets, Reads, Routes, Sends
<1>4. Opened => Opened'
  BY <1>3
<1>5. \A n \in dataAfter : n <= Len(answers') /\ Allowed(n)'
  <2> SUFFICES ASSUME NEW n \in dataAfter PROVE n <= Len(answers') /\ Allowed(n)'
    OBVIOUS
  <2> QED
    BY <1>1, <1>2, <1>3, AllowedStays
<1>6. \A m : m = Len(answers) => (Allowed(m) => Allowed(m)')
  BY <1>2, <1>3, AllowedStays
<1>7. ASSUME ~open' => rxq' = 0 /\ dataq' = <<>> /\ ep2'.type # "DATA" /\ dataAfter' = {},
             open' => Opened',
             ep2'.type = "DATA" => Len(answers') = Len(answers) /\ Allowed(Len(answers)),
             \A n \in dataAfter' \ dataAfter : n = Len(answers') /\ n = Len(answers) /\ Allowed(n)
      PROVE  OpenInv'
  <2>1. ep2'.type = "DATA" => \A m : m = Len(answers') => Allowed(m)'
    BY <1>6, <1>7
  <2>2. \A n \in dataAfter' : n <= Len(answers') /\ Allowed(n)'
    <3> SUFFICES ASSUME NEW n \in dataAfter' PROVE n <= Len(answers') /\ Allowed(n)'
      OBVIOUS
    <3>1. CASE n \in dataAfter
      BY <1>5, <3>1
    <3>2. CASE n \notin dataAfter
      BY <1>2, <1>6, <1>7, <3>2
    <3> QED
      BY <3>1, <3>2
  <2> QED
    BY <1>7, <2>1, <2>2 DEF OpenInv, Allowed
<1> HIDE DEF Opened
<1>8. CASE UNCHANGED <<open, rxq, dataq, ep2, answers, dataAfter>>
  BY <1>1, <1>4, <1>7, <1>8
<1>9. CASE Reset
  <2>1. UNCHANGED <<open, rxq, dataq, answers, dataAfter>> /\ ep2'.type = "NONE"
    BY <1>9, Ep2Facts DEF Reset, portVars, hostVars
  <2> QED
    BY <1>1, <1>4, <1>7, <2>1
<1>10. CASE HostReads
  <2>1. UNCHANGED <<open, rxq, dataq>> /\ ep2'.type = "NONE" /\ ep2 # Nothing
    BY <1>10, Ep2Facts DEF HostReads, portVars
  <2>2. CASE ep2.type = "RSP"
    <3>1. dataAfter' = dataAfter
      BY <1>10, <2>2 DEF HostReads
    <3> QED
      BY <1>1, <1>4, <1>7, <2>1, <3>1
  <2>3. CASE ep2.type # "RSP"
    <3>1. dataAfter' = dataAfter \cup {Len(answers)} /\ answers' = answers
      BY <1>10, <2>3 DEF HostReads
    <3>2. ep2.type = "DATA"
      BY <2>1, <2>3, Ep2Facts DEF MuxTypes, Ep2Types
    <3> QED
      BY <1>1, <1>4, <1>7, <2>1, <3>1, <3>2
  <2> QED
    BY <2>2, <2>3
<1>11. CASE UartByte
  <2>1. /\ UNCHANGED <<open, dataq, ep2, answers, dataAfter>>
        /\ ~open => rxq' = rxq
    BY <1>11 DEF UartByte, txVars, hostVars
  <2> QED
    BY <1>1, <1>4, <1>7, <2>1
<1>12. CASE ParseByte
  <2>1. UNCHANGED <<opcode, rxq, dataq, ep2, answers, dataAfter>>
    BY <1>12 DEF ParseByte, hostVars
  <2>2. CASE open' = open
    BY <1>8, <2>1, <2>2
  <2>3. CASE open' # open
    <3> DEFINE h == got'[Len(got')][1].f
    <3>1. Len(got') > Len(got) /\ Route(h)
      BY <1>12, <2>3 DEF ParseByte
    <3>2. h \in Done'
      BY <1>12, <3>1, ParsePasses DEF ParseByte
    <3> HIDE DEF h
    <3>3. opcode[h] = "OPEN" /\ open' \in {open, TRUE}
      BY <2>3, <3>1 DEF Route, Opens
    <3>4. open' = TRUE /\ ~open
      <4>1. open \in BOOLEAN
        BY DEF MuxTypes, PortTypes
      <4> QED
        BY <2>3, <3>3, <4>1
    <3>5. Opened'
      BY <2>1, <3>2, <3>3 DEF Opened
    <3> QED
      BY <1>1, <1>7, <2>1, <3>4, <3>5
  <2> QED
    BY <2>2, <2>3
<1>13. CASE RoundEnds
  <2>1. /\ UNCHANGED <<open, answers, dataAfter>> /\ rxq' = 0
        /\ IF configured /\ ep2 = Nothing THEN NextFrame(rspq, AfterUart)
           ELSE dataq' = AfterUart /\ UNCHANGED <<ep2, rspq>>
    BY <1>13 DEF RoundEnds, hostVars
  <2>2. ~open => AfterUart = <<>>
    BY <1>1 DEF AfterUart, Chunk
  <2>3. ep2 = Nothing => ep2.type = "NONE"
    BY Ep2Facts
  <2>4. CASE dataq' = AfterUart /\ (ep2' = ep2 \/ \E f : ep2' = Rsp(f))
    <3>1. ep2'.type = "DATA" => ep2' = ep2
      BY <2>4, Ep2Facts
    <3> QED
      BY <1>1, <1>4, <1>7, <2>1, <2>2, <2>4, <3>1
  <2>5. CASE ep2 = Nothing /\ rspq = <<>> /\ AfterUart # <<>>
    <3>1. open /\ Opened
      BY <1>1, <2>2, <2>5
    <3>2. PICK f \in Done : opcode[f] = "OPEN"
      BY <3>1 DEF Opened
    <3>3. Elements(rspq) = {} /\ OnEp2 = {}
      BY <1>2, <2>5, RspsFacts, OnEp2Facts DEF Elements
    <3>4. f \in Elements(answers) \cup lost /\ f \in FrameIds
      BY <3>2, <3>3, DoneBegun DEF FateInv, Commands
    <3>5. Allowed(Len(answers))
      BY <3>2, <3>4 DEF Allowed, Elements
    <3> QED
      BY <1>4, <1>7, <2>1, <3>1, <3>5
  <2> QED
    BY <2>1, <2>4, <2>5 DEF NextFrame
<1>14. CASE HostWrites \/ SetConfiguration \/ RunIo \/ PollTimer \/ UNCHANGED allVars
  BY <1>8, <1>14 DEF HostWrites, SetConfiguration, RunIo, PollTimer, portVars, txVars, hostVars, allVars,
                     muxVars
<1> QED
  BY <1>9, <1>10, <1>11, <1>12, <1>13, <1>14 DEF MuxNext, Host, Task, ResetInFrame, ResetBetweenFrames

-----------------------------------------------------------------------------
(* Mux *)

LEMMA MuxInvInit == MuxInit => MuxInv
<1> SUFFICES ASSUME MuxInit PROVE MuxInv
  OBVIOUS
<1>1. RxInv
  BY RxInit DEF MuxInit
<1>2. /\ opcode \in Plans /\ events = {"IO", "POLL"} /\ timer = FALSE /\ at = "idle" /\ serving = "IO"
      /\ open = FALSE /\ rxq = 0 /\ uart = 0 /\ rspq = <<>> /\ dataq = <<>> /\ configured = FALSE
      /\ ep2 = Nothing /\ answers = <<>> /\ dataAfter = {} /\ lost = {} /\ burst = FALSE
      /\ got = <<>> /\ out = [f |-> 1, i |-> 1]
  BY DEF MuxInit, Init
<1>3. <<>> \in Rsps /\ <<>> \in Datas /\ Len(<<>>) = 0
  BY DEF Rsps, Datas
<1>4. MuxTypes
  <2>1. opcode \in [FrameIds -> Opcodes] /\ TaskTypes /\ HostTypes /\ LostTypes
    BY <1>2, <1>3 DEF Plans, TaskTypes, HostTypes, LostTypes
  <2>2. PortTypes
    <3>1. 0 \in 0 .. MaxUart /\ 0 \in 0 .. 0
      BY MuxAssumption
    <3> QED
      BY <1>2, <3>1 DEF PortTypes
  <2>3. DataTypes /\ RspTypes
    <3>1. 0 <= Depth
      BY MuxAssumption
    <3> QED
      BY <1>2, <1>3, <3>1, Zenon DEF DataTypes, RspTypes
  <2>4. Ep2Types
    BY <1>2 DEF Ep2Types, Ep2Frames
  <2> QED
    BY <2>1, <2>2, <2>3, <2>4 DEF MuxTypes
<1>5. Done = {} /\ Elements(rspq) = {} /\ Elements(answers) = {} /\ OnEp2 = {}
  BY <1>2, <1>3, OnEp2Facts DEF Done, Elements
<1>6. FateInv
  <2>1. Ascending(rspq)
    BY <1>2, <1>3 DEF Ascending
  <2> QED
    BY <1>2, <1>5, <2>1 DEF FateInv
<1>7. WindowInv
  <2>1. Begun = {}
    <3>1. out.f = 1 /\ out.i = 1
      BY <1>2
    <3> QED
      BY <3>1, UsbRxAssumption DEF Begun, FrameIds
  <2>2. Unanswered = {}
    BY <2>1 DEF Unanswered
  <2> QED
    BY <1>2, <2>2, FS_EmptySet, MuxAssumption DEF WindowInv
<1>8. OpenInv
  BY <1>2, Ep2Facts DEF OpenInv
<1>9. MuxTypeOK
  BY <1>1, <1>4, MuxTypeParts DEF RxInv
<1> QED
  BY <1>1, <1>6, <1>7, <1>8, <1>9 DEF MuxInv

(* The parts of MuxInv. *)
LEMMA MuxInvParts == MuxInv => RxInv /\ MuxTypes /\ FateInv /\ WindowInv /\ OpenInv
  BY MuxTypeParts DEF MuxInv

(* Every step of the composition keeps its inductive invariant. *)
LEMMA MuxInvStep == MuxInv /\ [MuxNext]_allVars => MuxInv'
<1> SUFFICES ASSUME MuxInv, [MuxNext]_allVars PROVE MuxInv'
  OBVIOUS
<1>1. RxInv /\ MuxTypes /\ FateInv /\ WindowInv /\ OpenInv
  BY MuxInvParts
<1>2. RxInv'
  BY <1>1, RxMux
<1>3. MuxTypes' /\ MuxSteps
  BY <1>1, <1>2, MuxTypesStep, MuxStepKinds
<1>4. FateInv' /\ WindowInv' /\ OpenInv'
  BY <1>1, <1>2, <1>3, FateStep, WindowStep, OpenStep
<1>5. MuxTypeOK'
  BY <1>2, <1>3, MuxTypeParts DEF RxInv
<1> QED
  BY <1>2, <1>4, <1>5 DEF MuxInv

(* The inductive invariant holds of the device and its host.                 *)
THEOREM MuxInvariance == MuxSpec => []MuxInv
  BY MuxInvInit, MuxInvStep, PTL DEF MuxSpec

(* The queues of the task and of the USB device keep to their sizes.         *)
THEOREM MuxTypeCorrect == MuxSpec => []MuxTypeOK
<1>1. MuxInv => MuxTypeOK
  BY DEF MuxInv
<1> QED
  BY <1>1, MuxInvariance, PTL

(* What UsbRx promises of the frames holds while the router, the ports and   *)
(* the bus resets do their part: frames are dispatched in order and whole,   *)
(* and none is lost but to one that lost bytes.                              *)
THEOREM FramesInDevice == MuxSpec => [](WholeInOrder /\ Resync)
<1>1. MuxInv => WholeInOrder /\ Resync
  BY RxInvResync DEF MuxInv, RxInv
<1> QED
  BY <1>1, MuxInvariance, PTL

(* With the fates in order each dispatched command has just one. *)
LEMMA FateInvOne == FateInv /\ RxInv => OneFate
<1> SUFFICES ASSUME FateInv, RxInv, NEW g \in 1 .. Len(got), opcode[HeaderOf(g)] \in Commands
             PROVE  Cardinality({k \in 1 .. 4 : HeaderOf(g) \in Fates[k]}) = 1
  BY DEF OneFate
<1> DEFINE f == HeaderOf(g)
<1>1. /\ Fates[1] = Elements(rspq) /\ Fates[2] = OnEp2 /\ Fates[3] = Elements(answers)
      /\ Fates[4] = lost
  BY DEF Fates
<1>2. f \in Fates[1] \cup Fates[2] \cup Fates[3] \cup Fates[4] /\ f \in Nat
  BY <1>1, DoneBegun DEF Done, FateInv
<1>3. /\ ~(f \in Fates[1] /\ f \in Fates[2]) /\ ~(f \in Fates[1] /\ f \in Fates[3])
      /\ ~(f \in Fates[2] /\ f \in Fates[3])
      /\ ~(f \in Fates[4] /\ f \in Fates[1] \cup Fates[2] \cup Fates[3])
  <2>1. ~(f < f)
    BY <1>2
  <2> QED
    BY <1>1, <2>1 DEF FateInv
<1> HIDE DEF f
<1>4. \E k \in 1 .. 4 : {j \in 1 .. 4 : f \in Fates[j]} = {k}
  <2>1. 1 .. 4 = {1, 2, 3, 4}
    OBVIOUS
  <2>2. CASE f \in Fates[1]
    BY <1>3, <2>1, <2>2
  <2>3. CASE f \in Fates[2]
    BY <1>3, <2>1, <2>3
  <2>4. CASE f \in Fates[3]
    BY <1>3, <2>1, <2>4
  <2>5. CASE f \in Fates[4]
    BY <1>3, <2>1, <2>5
  <2> QED
    BY <1>2, <2>2, <2>3, <2>4, <2>5
<1> QED
  BY <1>4, FS_Singleton DEF f

(* Every command that is dispatched has exactly one fate: its response is    *)
(* queued, on EP2, with the host, or lost.                                   *)
THEOREM OneFateEach == MuxSpec => []OneFate
<1>1. MuxInv => OneFate
  BY FateInvOne DEF MuxInv
<1> QED
  BY <1>1, MuxInvariance, PTL

(* Whatever the depth of rsp_q: a host that keeps to it loses no response    *)
(* but to a bus reset.                                                       *)
THEOREM NoLossInWindow == MuxSpec => []WindowSafe
<1>1. MuxInv => WindowSafe
  <2> SUFFICES ASSUME MuxInv, lost # {}, ~burst PROVE cuts > 0
    BY DEF WindowSafe
  <2>1. cuts # 0 /\ cuts \in 0 .. MaxCuts
    BY RxTypeParts DEF MuxInv, WindowInv, RxInv, GotInv, RxTypes
  <2> QED
    BY <2>1, UsbRxAssumption
<1> QED
  BY <1>1, MuxInvariance, PTL

(* No data reaches the host before the response to the UART_OPEN that        *)
(* allows it, unless that response was lost.                                 *)
THEOREM OpenAnsweredFirst == MuxSpec => []OpenFirst
<1>1. MuxInv => OpenFirst
  BY DEF MuxInv, OpenInv, OpenFirst, Allowed
<1> QED
  BY <1>1, MuxInvariance, PTL

-----------------------------------------------------------------------------
(* Mux implements Server *)

LEMMA ServerInit == MuxInit => AsServer!Init
<1> SUFFICES ASSUME MuxInit PROVE AsServer!Init
  OBVIOUS
<1>1. out = [f |-> 1, i |-> 1] /\ answers = <<>> /\ lost = {}
  BY DEF MuxInit, Init
<1>2. out.f = 1 /\ out.i = 1
  BY <1>1
<1>3. Begun = {}
  BY <1>2, UsbRxAssumption DEF Begun, FrameIds
<1> QED
  BY <1>1, <1>3 DEF AsServer!Init, Unanswered

(* A write asks, a read replies, a reset and a full rsp_q lose; every other  *)
(* step changes nothing the client sees.                                     *)
LEMMA ServerStep == MuxInv /\ [MuxNext]_allVars => [AsServer!Next]_(AsServer!vars)
<1> SUFFICES ASSUME MuxInv, [MuxNext]_allVars PROVE [AsServer!Next]_(AsServer!vars)
  OBVIOUS
<1>1. RxInv /\ MuxTypes /\ FateInv
  BY MuxInvParts
<1>2. MuxSteps
  BY <1>1, RxMux, MuxStepKinds
<1> DEFINE asked == Unanswered \ lost
           A     == Elements(answers)
<1>3. /\ Unanswered = {f \in Begun : opcode[f] \in Commands} \ A
      /\ A \cup OnEp2 \cup lost \subseteq {f \in Begun : opcode[f] \in Commands}
      /\ lost \cap (A \cup OnEp2) = {} /\ \A f \in A, h \in OnEp2 : f < h
      /\ \A f \in A \cup lost : f \in Done
      /\ A = AsServer!Answered
  BY <1>1, FateBegun DEF Unanswered, FateInv, AsServer!Answered, Elements
<1>4. /\ Unanswered' = {f \in Begun' : opcode'[f] \in Commands} \ Elements(answers')
      /\ asked' = Unanswered' \ lost'
  BY DEF Unanswered, Elements
<1>5. answers \in Rsps /\ FrameIds \subseteq Nat /\ Done \subseteq Begun /\ Begun \subseteq FrameIds
  BY <1>1, DoneBegun DEF MuxTypes, HostTypes
<1>6. ASSUME asked' = asked, answers' = answers, lost' = lost
      PROVE  UNCHANGED AsServer!vars
  BY <1>6 DEF AsServer!vars
<1> HIDE DEF A
<1>7. CASE Quiet \/ Sends
  <2>1. Begun' = Begun /\ UNCHANGED <<opcode, answers, lost>>
    BY <1>7 DEF Quiet, Sends
  <2>2. asked' = asked
    BY <1>3, <1>4, <2>1 DEF A
  <2> QED
    BY <1>6, <2>1, <2>2
<1>8. CASE Writes
  <2>1. /\ Begun' = Begun \cup {out.f} /\ (out.i = 1 <=> out.f \notin Begun) /\ out.f \in FrameIds
        /\ UNCHANGED <<opcode, answers, lost>>
    BY <1>8 DEF Writes
  <2>2. CASE out.f \notin Begun /\ opcode[out.f] \in Commands
    <3>1. out.f \notin asked \cup A \cup lost
      BY <1>3, <2>2
    <3>2. asked' = asked \cup {out.f}
      BY <1>3, <1>4, <2>1, <2>2, <3>1 DEF A
    <3>3. AsServer!Ask(out.f)
      BY <1>3, <2>1, <3>1, <3>2 DEF AsServer!Ask
    <3> QED
      BY <2>1, <3>3 DEF AsServer!Next
  <2>3. CASE ~(out.f \notin Begun /\ opcode[out.f] \in Commands)
    <3>1. asked' = asked
      BY <1>3, <1>4, <2>1, <2>3 DEF A
    <3> QED
      BY <1>6, <2>1, <3>1
  <2> QED
    BY <2>2, <2>3
<1>9. CASE Resets
  <2>1. Begun' = Begun /\ UNCHANGED <<opcode, answers>> /\ lost' = lost \cup OnEp2
    BY <1>9 DEF Resets
  <2>2. asked' = asked \ OnEp2
    BY <1>3, <1>4, <2>1 DEF A
  <2>3. CASE ep2.type = "RSP"
    <3>1. OnEp2 = {ep2.ref}
      BY <2>3 DEF OnEp2
    <3>2. ep2.ref \in asked
      <4>1. ep2.ref \in Nat /\ \A a \in A : a < ep2.ref
        BY <1>3, <1>5, <3>1
      <4>2. ep2.ref \notin A
        BY <4>1
      <4> QED
        BY <1>3, <3>1, <4>2
    <3>3. AsServer!Lose(ep2.ref) /\ ep2.ref \in FrameIds
      BY <1>3, <1>5, <2>1, <2>2, <3>1, <3>2 DEF AsServer!Lose
    <3> QED
      BY <3>3 DEF AsServer!Next
  <2>4. CASE ep2.type # "RSP"
    <3>1. OnEp2 = {}
      BY <2>4 DEF OnEp2
    <3> QED
      BY <1>6, <2>1, <2>2, <3>1
  <2> QED
    BY <2>3, <2>4
<1>10. CASE Reads
  <2>1. /\ Begun' = Begun /\ UNCHANGED <<opcode, lost>> /\ OnEp2 = {ep2.ref}
        /\ ep2.ref \in FrameIds /\ answers' = Append(answers, ep2.ref)
    BY <1>10 DEF Reads
  <2>2. Elements(answers') = A \cup {ep2.ref}
    BY <1>5, <2>1, RspsFacts, PutElements DEF A
  <2>3. ep2.ref \in asked /\ \A a \in A : a < ep2.ref
    <3>1. ep2.ref \in Nat /\ \A a \in A : a < ep2.ref
      BY <1>3, <1>5, <2>1
    <3>2. ep2.ref \notin A
      BY <3>1
    <3> QED
      BY <1>3, <2>1, <3>1, <3>2
  <2>4. asked' = asked \ {ep2.ref}
    BY <1>3, <1>4, <2>1, <2>2
  <2>5. AsServer!Reply(ep2.ref)
    BY <1>3, <2>1, <2>3, <2>4 DEF AsServer!Reply
  <2> QED
    BY <2>1, <2>5 DEF AsServer!Next
<1>11. ASSUME NEW h, Routes(h) PROVE [AsServer!Next]_(AsServer!vars)
  <2>1. /\ Begun' = Begun /\ UNCHANGED <<opcode, answers>> /\ h \in FrameIds /\ h \in Begun
        /\ \A f \in Done : f < h
        /\ \/ lost' = lost
           \/ opcode[h] \in Commands /\ lost' = lost \cup {h}
    BY <1>11 DEF Routes
  <2>2. CASE lost' = lost
    <3>1. asked' = asked
      BY <1>3, <1>4, <2>1, <2>2 DEF A
    <3> QED
      BY <1>6, <2>1, <2>2, <3>1
  <2>3. CASE opcode[h] \in Commands /\ lost' = lost \cup {h}
    <3>1. h \notin A \cup lost
      BY <1>3, <1>5, <2>1
    <3>2. h \in asked /\ asked' = asked \ {h}
      BY <1>3, <1>4, <2>1, <2>3, <3>1 DEF A
    <3>3. AsServer!Lose(h)
      BY <2>1, <2>3, <3>2 DEF AsServer!Lose
    <3> QED
      BY <2>1, <3>3 DEF AsServer!Next
  <2> QED
    BY <2>1, <2>2, <2>3
<1> QED
  BY <1>2, <1>7, <1>8, <1>9, <1>10, <1>11 DEF MuxSteps

(* The device is a server of its commands: every behaviour of it is one of   *)
(* Server's, no response twice, out of order or without a command.           *)
THEOREM DeviceServes == MuxSpec => ServerSpec
<1>1. MuxInit /\ [][MuxNext]_allVars /\ []MuxInv => AsServer!Init /\ [][AsServer!Next]_(AsServer!vars)
  BY ServerInit, ServerStep, PTL
<1>2. MuxSpec => MuxInit /\ [][MuxNext]_allVars
  BY PTL DEF MuxSpec
<1> QED
  BY <1>1, <1>2, MuxInvariance, PTL DEF ServerSpec, AsServer!Spec
=============================================================================
