-------------------------- MODULE UartPort_proofs --------------------------
(***************************************************************************)
(* Proofs about UartPort for all ring sizes, chunk sizes and lengths of    *)
(* traffic: queued bytes keep their order in both directions, the counters *)
(* add up, a closed port is quiet, and bytes to send never wait with the   *)
(* transmitter off; with the handler free to run between the two stores of *)
(* a live FLUSH.                                                           *)
(***************************************************************************)
EXTENDS UartPort, QueueLemmas

-----------------------------------------------------------------------------
(* A stream of ascending bytes cut into three pieces                       *)

Bytes(s)       == Len(s) \in Nat /\ \A i \in 1 .. Len(s) : s[i] \in Nat
Precedes(s, t) == \A i \in 1 .. Len(s), j \in 1 .. Len(t) : s[i] < t[j]
UpTo(s, n)     == \A i \in 1 .. Len(s) : s[i] <= n

(* The bytes of a, b and c, one after the other, ascend and end with n.      *)
Flow(a, b, c, n) ==
    /\ Ascending(a) /\ Ascending(b) /\ Ascending(c)
    /\ Precedes(a, b) /\ Precedes(a, c) /\ Precedes(b, c)
    /\ UpTo(a, n) /\ UpTo(b, n) /\ UpTo(c, n)

(* A byte put behind ascending ones that are all smaller. *)
LEMMA AscendPut ==
  ASSUME NEW s, NEW e \in Nat, NEW r, Bytes(s), Put(s, e, r),
         Ascending(s), \A i \in 1 .. Len(s) : s[i] < e
  PROVE  Ascending(r)
<1> SUFFICES ASSUME NEW i \in 1 .. Len(r), NEW j \in 1 .. Len(r), i < j
             PROVE  r[i] < r[j]
  BY DEF Ascending
<1>1. CASE j = Len(s) + 1
  <2>1. i \in 1 .. Len(s) /\ r[j] = e
    BY <1>1 DEF Put, Bytes
  <2> QED
    BY <2>1 DEF Put
<1>2. CASE j # Len(s) + 1
  <2>1. i \in 1 .. Len(s) /\ j \in 1 .. Len(s)
    BY <1>2 DEF Put, Bytes
  <2> QED
    BY <2>1 DEF Put, Ascending
<1> QED
  BY <1>1, <1>2

(* Ascending bytes without the first one, which is smaller than the rest.    *)
LEMMA AscendTake ==
  ASSUME NEW s, NEW e, NEW r, Bytes(s), Take(s, e, r), Ascending(s)
  PROVE  Ascending(r) /\ \A i \in 1 .. Len(r) : e < r[i]
<1>1. \A i \in 1 .. Len(r) : i + 1 \in 1 .. Len(s) /\ r[i] = s[i + 1] /\ 1 < i + 1 /\ 1 \in 1 .. Len(s)
  BY DEF Take, Bytes
<1>2. \A i, j \in 1 .. Len(r) : i < j => i + 1 < j + 1
  BY DEF Take, Bytes
<1>3. \A i \in 1 .. Len(r) : e < r[i]
  BY <1>1 DEF Take, Ascending
<1>4. Ascending(r)
  BY <1>1, <1>2 DEF Ascending
<1> QED
  BY <1>3, <1>4

(* What holds of every byte of s and of e holds of every byte of r. *)
LEMMA PrecedesPut ==
  ASSUME NEW s, NEW e, NEW r, NEW t, Put(s, e, r)
  PROVE  /\ Precedes(s, t) /\ (\A j \in 1 .. Len(t) : e < t[j]) => Precedes(r, t)
         /\ Precedes(t, s) /\ (\A i \in 1 .. Len(t) : t[i] < e) => Precedes(t, r)
<1>1. \A i \in 1 .. Len(r) : r[i] = e \/ \E k \in 1 .. Len(s) : r[i] = s[k]
  BY DEF Put
<1> QED
  BY <1>1 DEF Precedes

(* A byte that moves from the head of one queue to the end of the next       *)
(* leaves the order between them.                                            *)
LEMMA PrecedesTake ==
  ASSUME NEW s, NEW e, NEW r, NEW t, Take(s, e, r)
  PROVE  /\ Precedes(s, t) => Precedes(r, t) /\ \A j \in 1 .. Len(t) : e < t[j]
         /\ Precedes(t, s) => Precedes(t, r) /\ \A i \in 1 .. Len(t) : t[i] < e
<1>1. /\ \A i \in 1 .. Len(r) : \E k \in 1 .. Len(s) : r[i] = s[k]
      /\ 1 \in 1 .. Len(s) /\ e = s[1]
  BY DEF Take
<1> QED
  BY <1>1 DEF Precedes

(* A bound on the bytes of a queue holds of what is put in below it and of   *)
(* what is left.                                                             *)
LEMMA UpToPutTake ==
  ASSUME NEW s, NEW e \in Nat, NEW r, NEW n
  PROVE  /\ Put(s, e, r) /\ UpTo(s, n) /\ e <= n => UpTo(r, n)
         /\ Take(s, e, r) /\ UpTo(s, n) => UpTo(r, n) /\ e <= n
<1>1. Put(s, e, r) => \A i \in 1 .. Len(r) : r[i] = e \/ \E k \in 1 .. Len(s) : r[i] = s[k]
  BY DEF Put
<1>2. Take(s, e, r) => /\ \A i \in 1 .. Len(r) : \E k \in 1 .. Len(s) : r[i] = s[k]
                       /\ 1 \in 1 .. Len(s) /\ e = s[1]
  BY DEF Take
<1> QED
  BY <1>1, <1>2 DEF UpTo

(* A byte younger than all may follow the last one. *)
LEMMA FlowGrow ==
  ASSUME NEW a, NEW b, NEW c, NEW n \in Nat, NEW e \in Nat, NEW r,
         Bytes(a), Bytes(b), Bytes(c), Flow(a, b, c, n), n < e, Put(c, e, r)
  PROVE  Flow(a, b, r, e)
<1>1. /\ \A i \in 1 .. Len(a) : a[i] < e
      /\ \A i \in 1 .. Len(b) : b[i] < e
      /\ \A i \in 1 .. Len(c) : c[i] < e
  BY DEF Flow, UpTo, Bytes
<1>2. Ascending(r)
  BY <1>1, AscendPut DEF Flow
<1>3. Precedes(a, r) /\ Precedes(b, r)
  BY <1>1, PrecedesPut DEF Flow
<1>4. UpTo(a, e) /\ UpTo(b, e) /\ UpTo(c, e)
  BY <1>1 DEF UpTo, Bytes
<1>5. UpTo(r, e)
  BY <1>4, UpToPutTake
<1> QED
  BY <1>2, <1>3, <1>4, <1>5 DEF Flow

(* The first byte of the last piece may move to the end of the middle one.   *)
LEMMA FlowLast ==
  ASSUME NEW a, NEW b, NEW c, NEW n \in Nat, NEW e \in Nat, NEW b2, NEW c2,
         Bytes(a), Bytes(b), Bytes(c), Flow(a, b, c, n), Put(b, e, b2), Take(c, e, c2)
  PROVE  Flow(a, b2, c2, n)
<1>1. /\ Ascending(c2) /\ Precedes(a, c2) /\ Precedes(b, c2) /\ UpTo(c2, n) /\ e <= n
      /\ \A i \in 1 .. Len(a) : a[i] < e
      /\ \A i \in 1 .. Len(b) : b[i] < e
      /\ \A i \in 1 .. Len(c2) : e < c2[i]
  BY AscendTake, PrecedesTake, UpToPutTake DEF Flow
<1>2. Ascending(b2)
  BY <1>1, AscendPut DEF Flow
<1>3. Precedes(a, b2) /\ Precedes(b2, c2)
  BY <1>1, PrecedesPut DEF Flow
<1>4. UpTo(b2, n)
  BY <1>1, UpToPutTake DEF Flow
<1> QED
  BY <1>1, <1>2, <1>3, <1>4 DEF Flow

(* The first byte of the middle piece may move to the end of the first one.  *)
LEMMA FlowFirst ==
  ASSUME NEW a, NEW b, NEW c, NEW n \in Nat, NEW e \in Nat, NEW a2, NEW b2,
         Bytes(a), Bytes(b), Bytes(c), Flow(a, b, c, n), Put(a, e, a2), Take(b, e, b2)
  PROVE  Flow(a2, b2, c, n)
<1>1. /\ Ascending(b2) /\ Precedes(a, b2) /\ Precedes(b2, c) /\ UpTo(b2, n) /\ e <= n
      /\ \A i \in 1 .. Len(a) : a[i] < e
      /\ \A i \in 1 .. Len(b2) : e < b2[i]
      /\ \A i \in 1 .. Len(c) : e < c[i]
  BY AscendTake, PrecedesTake, UpToPutTake DEF Flow
<1>2. Ascending(a2)
  BY <1>1, AscendPut DEF Flow
<1>3. Precedes(a2, b2) /\ Precedes(a2, c)
  BY <1>1, PrecedesPut DEF Flow
<1>4. UpTo(a2, n)
  BY <1>1, UpToPutTake DEF Flow
<1> QED
  BY <1>1, <1>2, <1>3, <1>4 DEF Flow

(* Any piece may be dropped, and the whole be measured by a later byte.      *)
LEMMA FlowLess ==
  ASSUME NEW a, NEW b, NEW c, NEW n \in Nat, NEW m \in Nat, NEW e,
         Bytes(a), Bytes(b), Bytes(c), Flow(a, b, c, n), Len(e) = 0, n <= m
  PROVE  Flow(a, b, c, m) /\ Flow(a, e, c, m) /\ Flow(a, b, e, m)
<1>1. UpTo(a, m) /\ UpTo(b, m) /\ UpTo(c, m)
  BY DEF Flow, UpTo, Bytes
<1>2. Ascending(e) /\ UpTo(e, m) /\ Precedes(a, e) /\ Precedes(b, e) /\ Precedes(e, c)
  BY DEF Ascending, UpTo, Precedes
<1> QED
  BY <1>1, <1>2 DEF Flow

(* r is s with t behind it. *)
Joined(s, t, r) ==
    /\ Len(r) = Len(s) + Len(t)
    /\ \A i \in 1 .. Len(s) : r[i] = s[i]
    /\ \A i \in 1 .. Len(t) : r[Len(s) + i] = t[i]

(* \o joins two queues. *)
LEMMA ConcatJoins ==
  ASSUME NEW s \in Seq(Nat), NEW t \in Seq(Nat)
  PROVE  s \o t \in Seq(Nat) /\ Joined(s, t, s \o t)
<1>1. /\ s \o t \in Seq(Nat) /\ Len(s \o t) = Len(s) + Len(t)
      /\ \A i \in 1 .. Len(s) + Len(t) :
             (s \o t)[i] = IF i <= Len(s) THEN s[i] ELSE t[i - Len(s)]
  BY ConcatProperties
<1>2. Len(s) \in Nat /\ Len(t) \in Nat
  BY LenProperties
<1> DEFINE r == s \o t
<1> HIDE DEF r
<1>3. \A i \in 1 .. Len(s) : r[i] = s[i]
  BY <1>1, <1>2 DEF r
<1>4. \A i \in 1 .. Len(t) : r[Len(s) + i] = t[i]
  <2> SUFFICES ASSUME NEW i \in 1 .. Len(t)
               PROVE  r[Len(s) + i] = t[i]
    OBVIOUS
  <2>1. /\ Len(s) + i \in 1 .. Len(s) + Len(t)
        /\ ~(Len(s) + i <= Len(s)) /\ (Len(s) + i) - Len(s) = i
    BY <1>2
  <2> QED
    BY <1>1, <2>1 DEF r
<1> QED
  BY <1>1, <1>3, <1>4 DEF r, Joined

(* A place of a joined sequence is one of its parts'. *)
LEMMA JoinedPlace ==
  ASSUME NEW s, NEW t, NEW r, Bytes(s), Bytes(t), Joined(s, t, r), NEW i \in 1 .. Len(r)
  PROVE  \/ i \in 1 .. Len(s) /\ r[i] = s[i]
         \/ i - Len(s) \in 1 .. Len(t) /\ r[i] = t[i - Len(s)]
<1>1. CASE i <= Len(s)
  BY <1>1 DEF Joined, Bytes
<1>2. CASE ~(i <= Len(s))
  <2>1. i - Len(s) \in 1 .. Len(t) /\ Len(s) + (i - Len(s)) = i
    BY <1>2 DEF Joined, Bytes
  <2> QED
    BY <2>1 DEF Joined
<1> QED
  BY <1>1, <1>2

(* Two ascending queues, one before the other, join to an ascending one. *)
LEMMA JoinedAscends ==
  ASSUME NEW s, NEW t, NEW r, Bytes(s), Bytes(t), Joined(s, t, r),
         Ascending(s), Ascending(t), Precedes(s, t)
  PROVE  Ascending(r)
<1> SUFFICES ASSUME NEW i \in 1 .. Len(r), NEW j \in 1 .. Len(r), i < j
             PROVE  r[i] < r[j]
  BY DEF Ascending
<1>1. CASE i \in 1 .. Len(s) /\ j \in 1 .. Len(s)
  BY <1>1 DEF Ascending, Joined
<1>2. CASE i \in 1 .. Len(s) /\ j \notin 1 .. Len(s)
  BY <1>2, JoinedPlace DEF Precedes
<1>3. CASE i \notin 1 .. Len(s)
  <2>1. j \notin 1 .. Len(s)
    BY <1>3 DEF Bytes, Joined
  <2>2. i - Len(s) < j - Len(s)
    BY DEF Bytes, Joined
  <2>3. i - Len(s) \in 1 .. Len(t) /\ r[i] = t[i - Len(s)]
    BY <1>3, JoinedPlace
  <2>4. j - Len(s) \in 1 .. Len(t) /\ r[j] = t[j - Len(s)]
    BY <2>1, JoinedPlace
  <2> QED
    BY <2>2, <2>3, <2>4 DEF Ascending
<1> QED
  BY <1>1, <1>2, <1>3

(* The middle piece may join the first one. *)
LEMMA FlowJoin ==
  ASSUME NEW a, NEW b, NEW c, NEW n \in Nat, NEW r, NEW e,
         Bytes(a), Bytes(b), Bytes(c), Flow(a, b, c, n), Joined(a, b, r), Len(e) = 0
  PROVE  Flow(r, e, c, n)
<1>1. \A i \in 1 .. Len(r) : \/ \E k \in 1 .. Len(a) : r[i] = a[k]
                            \/ \E k \in 1 .. Len(b) : r[i] = b[k]
  BY JoinedPlace
<1>2. Ascending(r)
  BY JoinedAscends DEF Flow
<1>3. Precedes(r, c) /\ UpTo(r, n)
  BY <1>1 DEF Flow, Precedes, UpTo
<1>4. Ascending(e) /\ UpTo(e, n) /\ Precedes(r, e) /\ Precedes(e, c)
  BY DEF Ascending, UpTo, Precedes
<1> QED
  BY <1>2, <1>3, <1>4 DEF Flow

(* The three pieces make an ascending sequence. *)
LEMMA FlowAscends ==
  ASSUME NEW a \in Seq(Nat), NEW b \in Seq(Nat), NEW c \in Seq(Nat), NEW n \in Nat,
         Flow(a, b, c, n)
  PROVE  Ascending(a \o b \o c)
<1>1. Bytes(a) /\ Bytes(b) /\ Bytes(c)
  BY QueuePlaces DEF Bytes
<1>2. a \o b \in Seq(Nat) /\ Joined(a, b, a \o b)
  BY ConcatJoins
<1>3. Bytes(a \o b)
  BY <1>2, QueuePlaces DEF Bytes
<1>4. Joined(a \o b, c, a \o b \o c)
  BY <1>2, ConcatJoins
<1>5. Flow(a \o b, <<>>, c, n)
  BY <1>1, <1>2, FlowJoin, EmptySeq
<1> QED
  BY <1>1, <1>3, <1>4, <1>5, JoinedAscends DEF Flow

-----------------------------------------------------------------------------
(* The inductive invariant *)

Configuring == at \in {"cfgOff", "cfgRx", "cfgTx", "cfgOn", "cfgDone"}

(* Which statements the task can be at in which state of the port: it opens  *)
(* a closed port, and writes to and reads from an open one.                  *)
Session ==
    /\ Configuring => state # "CLOSED"
    /\ state = "OPENING" => Configuring
    /\ Reading \/ Writing \/ at = "kick" => state = "OPEN"

(* The task has bytes in its hands only while it writes or reads. *)
EmptyHands == ~Reading /\ ~Writing => todo = <<>>

(* What CLOSE has achieved at each of its statements: the handler can add    *)
(* nothing to a ring that has been reset.                                    *)
Closing ==
    /\ at \in {"clsTxie", "clsOff", "clsRxq", "clsTxq", "clsDone"} => ~rxie
    /\ at \in {"clsOff", "clsRxq", "clsTxq", "clsDone"} => ~txie
    /\ at \in {"clsTxq", "clsDone"} => rxq = <<>>
    /\ at = "clsDone" => txq = <<>>

(* TxArmed at every statement: the transmitter is on, or will be, or the     *)
(* ring is about to be reset.                                                *)
Armed == txq # <<>> => \/ txie \/ recoded \/ Writing
                       \/ at \in {"kick", "clsOff", "clsRxq", "clsTxq"}

Control == TypeOK /\ Session /\ EmptyHands /\ Closing /\ ClosedQuiet /\ Armed

(* The drop counter the task holds is one it has read. *)
SavedFair == at = "store" => saved <= gone.full + gone.refused

Counted == Accounted /\ SavedFair

(* The peer's bytes: passed on, in hand, in the ring, and then the one in    *)
(* the data register, which is rdr.  The host's: on the wire, in the ring,   *)
(* in hand.                                                                  *)
LastIn == IF rdr = 0 THEN seen.peer ELSE rdr - 1
RxOrdered == Flow(up, Held(Reading), rxq, LastIn) /\ rdr <= seen.peer
TxOrdered == Flow(wire, txq, Held(Writing), seen.host)
Ordered   == RxOrdered /\ TxOrdered

IInv == Control /\ Counted /\ Ordered

-----------------------------------------------------------------------------
(* Every step keeps the types *)

(* The parts of TypeOK: what is a queue, what is a register or a counter,    *)
(* and what is a record.                                                     *)
Streams == Seq(Nat)
Queues ==
    /\ rxq \in Streams /\ Len(rxq) <= RxCap
    /\ txq \in Streams /\ Len(txq) <= TxCap
    /\ todo \in Streams /\ up \in Streams /\ wire \in Streams
Registers ==
    /\ state \in States /\ at \in Points
    /\ rxBytes \in Nat /\ dropRx \in Nat /\ dropTx \in Nat /\ saved \in Nat
    /\ usart \in BOOLEAN /\ rxie \in BOOLEAN /\ txie \in BOOLEAN /\ tdrBusy \in BOOLEAN
    /\ rdr \in 0 .. MaxRx /\ recoded \in BOOLEAN
    /\ rxTail \in 0 .. RxCap /\ txTail \in 0 .. TxCap /\ slips \in Nat
Ghosts ==
    /\ seen \in [peer : 0 .. MaxRx, host : 0 .. MaxTx]
    /\ gone \in [Causes -> Nat]

(* TypeOK is the types of the queues, of the registers and of the ghosts. *)
LEMMA TypeParts == TypeOK <=> Queues /\ Registers /\ Ghosts
  BY DEF TypeOK, Queues, Streams, Registers, Ghosts

(* What the queues and the ghosts are, place by place. *)
LEMMA TypeFacts ==
  ASSUME TypeOK
  PROVE  /\ seen.peer \in 0 .. MaxRx /\ seen.host \in 0 .. MaxTx
         /\ gone.full \in Nat /\ gone.refused \in Nat /\ gone.rx \in Nat
         /\ gone.tx \in Nat /\ gone.unopened \in Nat
         /\ Len(rxq) \in Nat /\ Len(txq) \in Nat /\ Len(todo) \in Nat
         /\ Len(up) \in Nat /\ Len(wire) \in Nat
<1>1. /\ Len(rxq) \in Nat /\ Len(txq) \in Nat /\ Len(todo) \in Nat
      /\ Len(up) \in Nat /\ Len(wire) \in Nat
  BY TypeParts, QueuePlaces DEF Queues, Streams
<1>2. Ghosts
  BY TypeParts
<1> QED
  BY <1>1, <1>2 DEF Ghosts, Causes

(* What a step of the handler or of the task does to the queues. *)
LEMMA IrqReceives ==
  ASSUME TypeOK, UsartIrq
  PROVE  \/ rxq' = rxq
         \/ Len(rxq) < RxCap /\ rxq' = Append(rxq, rdr)
<1>1. RxRoom => Len(rxq) < RxCap
  <2>1. Len(rxq) \in Nat /\ RxCap \in Nat /\ rxTail \in 0 .. RxCap
    BY TypeFacts, TypeParts, UartAssumption DEF Registers
  <2> QED
    BY <2>1 DEF RxRoom
<1> QED
  BY <1>1 DEF UsartIrq, IrqReceive, IrqRxByte

(* The handler sends the head of the transmit ring, or nothing that was      *)
(* queued: under a live reset it may send an old slot.                       *)
LEMMA IrqTransmits ==
  ASSUME UsartIrq
  PROVE  \/ txq' = txq /\ wire' = wire
         \/ txq # <<>> /\ wire' = Append(wire, Head(txq)) /\ txq' = Tail(txq)
  BY DEF UsartIrq, IrqTransmit, IrqSend, IrqSlip

(* A push of a write moves a byte from the task's hands into the ring, or    *)
(* none.                                                                     *)
LEMMA PushMoves ==
  ASSUME WritePush
  PROVE  \/ txq' = txq /\ todo' = todo
         \/ /\ todo # <<>> /\ Len(txq) < TxCap
            /\ txq' = Append(txq, Head(todo)) /\ todo' = Tail(todo)
  BY DEF WritePush

(* A read of the poll moves a byte from the ring into the task's hands, or   *)
(* none.                                                                     *)
LEMMA ReadMoves ==
  ASSUME ProcessRead
  PROVE  \/ rxq' = rxq /\ todo' = todo
         \/ rxq # <<>> /\ todo' = Append(todo, Head(rxq)) /\ rxq' = Tail(rxq)
  BY DEF ProcessRead

(* Appending to a ring with room and moving the head of one queue to the end *)
(* of another keep both within their types.                                  *)
LEMMA AppendFits ==
  ASSUME NEW q, NEW e \in Nat, NEW cap \in Nat, q \in Streams, Len(q) < cap
  PROVE  Append(q, e) \in Streams /\ Len(Append(q, e)) <= cap
<1>1. Append(q, e) \in Streams /\ Put(q, e, Append(q, e))
  BY AppendPuts DEF Streams
<1> QED
  BY <1>1 DEF Put

(* A ring fits without its head. *)
LEMMA TailFits ==
  ASSUME NEW q, NEW cap \in Nat, q \in Streams, q # <<>>, Len(q) <= cap
  PROVE  Head(q) \in Nat /\ Tail(q) \in Streams /\ Len(Tail(q)) <= cap
<1>1. Head(q) \in Nat /\ Tail(q) \in Streams /\ Take(q, Head(q), Tail(q))
  BY TailTakes DEF Streams
<1> QED
  BY <1>1 DEF Take

(* Every step keeps the queues in their bounds. *)
LEMMA QueuesStep == TypeOK /\ [Next]_vars => Queues'
<1> SUFFICES ASSUME TypeOK, Queues, [Next]_vars PROVE Queues'
  BY TypeParts
<1>1. /\ RxCap \in Nat /\ TxCap \in Nat /\ rdr \in Nat
      /\ <<>> \in Streams /\ Len(<<>>) <= RxCap /\ Len(<<>>) <= TxCap
  BY UartAssumption, EmptySeq DEF TypeOK, Streams
<1>2. CASE RxArrive \/ TxShifted
  BY <1>2 DEF RxArrive, TxShifted, Queues, portVars, taskVars, outVars
<1>3. CASE UsartIrq
  <2>1. rxq' \in Streams /\ Len(rxq') <= RxCap
    BY <1>1, <1>3, IrqReceives, AppendFits DEF Queues
  <2>2. txq' \in Streams /\ Len(txq') <= TxCap
    BY <1>1, <1>3, IrqTransmits, TailFits DEF Queues
  <2>3. wire' \in Streams
    <3>1. CASE txq # <<>> /\ wire' = Append(wire, Head(txq))
      <4>1. Head(txq) \in Nat
        BY <1>1, <3>1, TailFits DEF Queues
      <4> QED
        BY <3>1, <4>1, AppendPuts DEF Queues, Streams
    <3> QED
      BY <1>3, <3>1, IrqTransmits DEF Queues
  <2> QED
    BY <1>3, <2>1, <2>2, <2>3 DEF UsartIrq, Queues, taskVars
<1>4. CASE Command
  BY <1>1, <1>4 DEF Command, CtrlOpen, CtrlSetLineCoding, CtrlClose, FlushRx, FlushTx,
                    ResetRxHead, ResetRxTail, ResetTxHead, ResetTxTail, Queues, portVars, taskVars, outVars
<1>5. CASE Configure
  BY <1>5 DEF Configure, ConfigOff, ConfigRx, ConfigTx, ConfigOn, ConfigDone,
              ConfigUnchanged, Queues, outVars
<1>6. CASE Close
  BY <1>1, <1>6 DEF Close, CloseRxie, CloseTxie, CloseOff, CloseRxq, CloseTxq, CloseDone,
                    CloseUnchanged, ResetRxHead, ResetRxTail, ResetTxHead, ResetTxTail, Queues, portVars, outVars
<1>7. CASE Write
  <2>1. PICK k \in 1 .. MaxFrame : WriteStart(k) \/ WriteRejected(k)
    BY <1>7 DEF Write
  <2>2. HostBytes(k) \in Streams
    <3>1. k \in Nat /\ \A i \in 1 .. k : seen.host + i \in Nat
      BY TypeFacts, SMTT(30)
    <3> QED
      BY <3>1, SeqDef DEF HostBytes, Streams
  <2> QED
    BY <2>1, <2>2 DEF WriteStart, WriteRejected, Queues, portVars, taskVars, outVars
<1>8. CASE WritePush
  <2>1. Len(todo) \in Nat
    BY TypeFacts
  <2>2. CASE /\ todo # <<>> /\ Len(txq) < TxCap
             /\ txq' = Append(txq, Head(todo)) /\ todo' = Tail(todo)
    <3>1. Head(todo) \in Nat /\ Tail(todo) \in Streams
      BY <2>1, <2>2, TailFits DEF Queues
    <3>2. Append(txq, Head(todo)) \in Streams /\ Len(Append(txq, Head(todo))) <= TxCap
      BY <1>1, <2>2, <3>1, AppendFits DEF Queues
    <3> QED
      BY <1>8, <2>2, <3>1, <3>2 DEF WritePush, Queues, outVars
  <2>3. CASE txq' = txq /\ todo' = todo
    BY <1>8, <2>3 DEF WritePush, Queues, outVars
  <2> QED
    BY <1>8, <2>2, <2>3, PushMoves
<1>9. CASE ProcessRead
  <2>1. CASE rxq # <<>> /\ todo' = Append(todo, Head(rxq)) /\ rxq' = Tail(rxq)
    <3>1. Head(rxq) \in Nat /\ Tail(rxq) \in Streams /\ Len(Tail(rxq)) <= RxCap
      BY <1>1, <2>1, TailFits DEF Queues
    <3>2. Append(todo, Head(rxq)) \in Streams
      BY <3>1, AppendPuts DEF Queues, Streams
    <3> QED
      BY <1>9, <2>1, <3>1, <3>2 DEF ProcessRead, Queues, outVars
  <2>2. CASE rxq' = rxq /\ todo' = todo
    BY <1>9, <2>2 DEF ProcessRead, Queues, outVars
  <2> QED
    BY <1>9, <2>1, <2>2, ReadMoves
<1>10. CASE ProcessQueued
  <2>1. up \o todo \in Streams
    BY ConcatProperties DEF Queues, Streams
  <2> QED
    BY <1>1, <1>10, <2>1 DEF ProcessQueued, Queues, portVars
<1>11. CASE Process \/ WriteKick \/ ProcessRefused \/ FlushRxTail \/ FlushTxTail \/ UNCHANGED vars
  BY <1>11 DEF FlushRxTail, FlushTxTail, ResetRxTail, ResetTxTail, Process, WriteKick, ProcessRefused, vars, Queues, portVars, taskVars, outVars
<1>12. CASE WriteCount \/ ProcessStore
  BY <1>1, <1>12 DEF WriteCount, ProcessStore, Queues, outVars
<1> QED
  BY <1>2, <1>3, <1>4, <1>5, <1>6, <1>7, <1>8, <1>9, <1>10, <1>11, <1>12
     DEF Next, Hardware, TaskStep

(* Every step keeps the types of registers and statement positions. *)
LEMMA RegistersStep == TypeOK /\ [Next]_vars => Registers'
<1> SUFFICES ASSUME TypeOK, Registers, [Next]_vars PROVE Registers'
  BY TypeParts
<1>1. /\ seen.peer \in 0 .. MaxRx /\ Len(todo) \in Nat /\ MaxRx \in Nat
  BY UartAssumption, TypeFacts
<1>tails. /\ 0 \in 0 .. RxCap /\ 0 \in 0 .. TxCap
          /\ \A i \in 0 .. RxCap : NextSlot(i, RxCap) \in 0 .. RxCap
          /\ \A i \in 0 .. TxCap : NextSlot(i, TxCap) \in 0 .. TxCap
  BY UartAssumption DEF NextSlot
<1> USE DEF Registers, States, Points, tailVars
<1>2. CASE RxArrive
  BY <1>1, <1>2 DEF RxArrive, portVars, outVars, taskVars
<1>3. CASE TxShifted
  BY <1>3 DEF TxShifted, portVars, outVars, taskVars, ghostVars
<1>4. CASE UsartIrq
  <2>1. rxBytes' \in Nat /\ dropRx' \in Nat /\ rdr' \in 0 .. MaxRx
    BY <1>1, <1>4 DEF UsartIrq, IrqReceive, IrqRxByte
  <2>2. tdrBusy' \in BOOLEAN /\ txie' \in BOOLEAN
    BY <1>4 DEF UsartIrq, IrqTransmit, IrqSend, IrqSlip
  <2>3. txTail' \in 0 .. TxCap /\ slips' \in Nat
    <3>1. txTail' = txTail \/ txTail' = NextSlot(txTail, TxCap)
      BY <1>4 DEF UsartIrq, IrqTransmit
    <3>2. slips' = slips \/ slips' = slips + 1
      BY <1>4 DEF UsartIrq, IrqTransmit, IrqSend, IrqSlip
    <3> QED
      BY <1>tails, <3>1, <3>2
  <2> QED
    BY <1>4, <2>1, <2>2, <2>3 DEF UsartIrq, taskVars
<1>5. CASE Command
  BY <1>5 DEF outVars, Command, CtrlOpen, CtrlSetLineCoding, CtrlClose, FlushRx, FlushTx, portVars, outVars, taskVars, hwVars, outVars, ghostVars
<1>6. CASE Configure
  BY <1>6 DEF Configure, ConfigOff, ConfigRx, ConfigTx, ConfigOn, ConfigDone, ConfigUnchanged, outVars
<1>7. CASE Close
  BY <1>7, <1>tails DEF Close, CloseRxie, CloseTxie, CloseOff, CloseRxq, CloseTxq, CloseDone, CloseUnchanged, ResetRxTail, ResetTxTail, portVars, outVars, hwVars, outVars, ghostVars
<1>8. CASE Write
  BY <1>8 DEF Write, WriteStart, WriteRejected, portVars, outVars, taskVars, hwVars
<1>9. CASE WritePush
  BY <1>9 DEF WritePush, hwVars, outVars, ghostVars
<1>10. CASE WriteCount
  BY <1>1, <1>10 DEF WriteCount, hwVars, outVars, ghostVars
<1>11. CASE WriteKick
  BY <1>11 DEF WriteKick, portVars, outVars
<1>12. CASE Process
  BY <1>12 DEF Process, portVars, outVars, hwVars, outVars, ghostVars
<1>13. CASE ProcessRead
  BY <1>13, <1>tails DEF ProcessRead, hwVars, outVars, ghostVars
<1>14. CASE ProcessQueued
  BY <1>14 DEF ProcessQueued, portVars, outVars, hwVars, outVars, ghostVars
<1>15. CASE ProcessRefused
  BY <1>15 DEF ProcessRefused, portVars, outVars, hwVars, outVars, ghostVars
<1>16. CASE ProcessStore
  BY <1>1, <1>16 DEF ProcessStore, hwVars, outVars
<1>18. CASE FlushRxTail \/ FlushTxTail
  BY <1>18, <1>tails DEF FlushRxTail, FlushTxTail, ResetRxTail, ResetTxTail, hwVars, outVars, ghostVars
<1>17. CASE UNCHANGED vars
  BY <1>17 DEF vars, portVars, outVars, taskVars, hwVars, outVars, ghostVars
<1> QED
  BY <1>2, <1>3, <1>4, <1>5, <1>6, <1>7, <1>8, <1>9, <1>10, <1>11, <1>12, <1>13, <1>14, <1>15, <1>16, <1>17, <1>18 DEF Next, Hardware, TaskStep

(* Every step keeps the types of the ghosts. *)
LEMMA GhostsStep == TypeOK /\ [Next]_vars => Ghosts'
<1> SUFFICES ASSUME TypeOK, Ghosts, [Next]_vars PROVE Ghosts'
  BY TypeParts
<1>1. /\ Len(rxq) \in Nat /\ Len(txq) \in Nat /\ Len(todo) \in Nat
      /\ MaxRx \in Nat /\ MaxTx \in Nat
  BY UartAssumption, TypeFacts
<1>2. \A c \in Causes, k \in Nat : [gone EXCEPT ![c] = gone[c] + k] \in [Causes -> Nat]
  BY DEF Ghosts
<1>3. \A c \in Causes : gone[c] \in Nat
  BY DEF Ghosts
<1>4. CASE RxArrive
  BY <1>1, <1>4 DEF RxArrive, Ghosts
<1>5. CASE TxShifted
  BY <1>5 DEF TxShifted, Ghosts, ghostVars
<1>6. CASE UsartIrq
  BY <1>1, <1>6 DEF UsartIrq, IrqReceive, IrqRxByte, Ghosts, Causes
<1>7. CASE Command
  BY <1>1, <1>7, SMTT(30) DEF Command, CtrlOpen, CtrlSetLineCoding, CtrlClose, FlushRx, FlushTx, ResetRxHead, ResetRxTail, ResetTxHead, ResetTxTail, Ghosts, Causes, ghostVars
<1>8. CASE Configure
  BY <1>8 DEF Configure, ConfigOff, ConfigRx, ConfigTx, ConfigOn, ConfigDone, ConfigUnchanged, Ghosts
<1>9. CASE Close
  BY <1>1, <1>9, SMTT(30) DEF Close, CloseRxie, CloseTxie, CloseOff, CloseRxq, CloseTxq, CloseDone, CloseUnchanged, ResetRxHead, ResetRxTail, ResetTxHead, ResetTxTail, Ghosts, Causes, ghostVars
<1>10. CASE Write
  <2>1. PICK k \in 1 .. MaxFrame : WriteStart(k) \/ WriteRejected(k)
    BY <1>10 DEF Write
  <2>2. seen.host + k <= MaxTx /\ seen' = [seen EXCEPT !.host = @ + k] /\ k \in Nat
    BY <2>1 DEF WriteStart, WriteRejected
  <2>3. seen' \in [peer : 0 .. MaxRx, host : 0 .. MaxTx]
    BY <1>1, <2>2 DEF Ghosts
  <2>4. gone' \in [Causes -> Nat]
    BY <2>1 DEF WriteStart, WriteRejected, Ghosts, Causes
  <2> QED
    BY <2>3, <2>4 DEF Ghosts
<1>11. CASE WritePush
  BY <1>11 DEF WritePush, Ghosts, ghostVars
<1>12. CASE WriteCount
  BY <1>12 DEF WriteCount, Ghosts, ghostVars
<1>13. CASE WriteKick
  BY <1>13 DEF WriteKick, Ghosts
<1>14. CASE Process \/ FlushRxTail \/ FlushTxTail
  BY <1>14 DEF Process, FlushRxTail, FlushTxTail, Ghosts, ghostVars
<1>15. CASE ProcessRead
  BY <1>15 DEF ProcessRead, Ghosts, ghostVars
<1>16. CASE ProcessQueued
  BY <1>16 DEF ProcessQueued, Ghosts, ghostVars
<1>17. CASE ProcessRefused
  BY <1>17 DEF ProcessRefused, Ghosts, ghostVars
<1>18. CASE ProcessStore
  BY <1>1, <1>18, SMTT(30) DEF ProcessStore, Ghosts, Causes
<1>19. CASE UNCHANGED vars
  BY <1>19 DEF vars, Ghosts, ghostVars
<1> QED
  BY <1>4, <1>5, <1>6, <1>7, <1>8, <1>9, <1>10, <1>11, <1>12, <1>13, <1>14, <1>15, <1>16, <1>17, <1>18, <1>19 DEF Next, Hardware, TaskStep

(* Every step keeps the types. *)
LEMMA TypeStep == TypeOK /\ [Next]_vars => TypeOK'
<1>1. TypeOK' <=> Queues' /\ Registers' /\ Ghosts'
  BY DEF TypeOK, Queues, Streams, Registers, Ghosts
<1> QED
  BY <1>1, QueuesStep, RegistersStep, GhostsStep

-----------------------------------------------------------------------------
(* A closed port is quiet, and bytes to send are never left behind *)

LEMMA ControlStep == Control /\ [Next]_vars => Control'
<1> SUFFICES ASSUME Control, TypeOK, [Next]_vars
             PROVE  (Session /\ EmptyHands /\ Closing /\ ClosedQuiet /\ Armed)'
  BY TypeStep DEF Control
<1>1. Session /\ EmptyHands /\ Closing /\ ClosedQuiet /\ Armed
  BY DEF Control
<1> USE DEF Session, EmptyHands, Closing, ClosedQuiet, Armed, Configuring, Reading, Writing,
            TaskAt, portVars, taskVars, hwVars, ghostVars
<1>2. CASE RxArrive \/ TxShifted
  BY <1>1, <1>2 DEF RxArrive, TxShifted
<1>3. CASE UsartIrq
  <2>1. state # "OPEN" \/ ~rxie => rxq' = rxq
    BY <1>3 DEF UsartIrq, IrqReceive
  <2>2. /\ ~txie => ~txie' /\ txq' = txq
        /\ state # "OPEN" => txq' = txq
        /\ txie /\ ~txie' => txq' = txq /\ (txq = <<>> \/ state # "OPEN")
        /\ txq = <<>> => txq' = <<>>
    BY <1>3 DEF UsartIrq, IrqTransmit, IrqSend, IrqSlip
  <2> QED
    BY <1>1, <1>3, <2>1, <2>2 DEF UsartIrq
<1>4. CASE Command
  BY <1>1, <1>4 DEF Command, CtrlOpen, CtrlSetLineCoding, CtrlClose, FlushRx, FlushTx, ResetRxHead, ResetRxTail, ResetTxHead, ResetTxTail
<1>5. CASE Configure
  <2>1. CASE ConfigTx
    <3>1. ~txie' /\ txq' = txq /\ state' = state /\ at' = "cfgOn" /\ (state = "OPEN" => recoded')
      BY <2>1, Zenon DEF ConfigTx, ConfigUnchanged
    <3> QED
      BY <1>1, <2>1, <3>1 DEF ConfigTx, ConfigUnchanged
  <2>2. CASE ConfigOff \/ ConfigRx \/ ConfigOn \/ ConfigDone
    BY <1>1, <2>2 DEF ConfigOff, ConfigRx, ConfigOn, ConfigDone, ConfigUnchanged
  <2> QED
    BY <1>5, <2>1, <2>2 DEF Configure
<1>6. CASE Close
  BY <1>1, <1>6 DEF Close, CloseRxie, CloseTxie, CloseOff, CloseRxq, CloseTxq, CloseDone,
              CloseUnchanged, ResetRxHead, ResetRxTail, ResetTxHead, ResetTxTail
<1>7. CASE Write
  BY <1>1, <1>7 DEF Write, WriteStart, WriteRejected
<1>8. CASE WritePush \/ WriteCount \/ WriteKick
  BY <1>1, <1>8 DEF WritePush, WriteCount, WriteKick
<1>9. CASE Process \/ ProcessRead \/ ProcessQueued \/ ProcessRefused \/ ProcessStore
  BY <1>1, <1>9 DEF Process, ProcessRead, ProcessQueued, ProcessRefused, ProcessStore
<1>11. CASE FlushRxTail \/ FlushTxTail
  BY <1>1, <1>11 DEF FlushRxTail, FlushTxTail
<1>10. CASE UNCHANGED vars
  BY <1>1, <1>10 DEF vars
<1> QED
  BY <1>2, <1>3, <1>4, <1>5, <1>6, <1>7, <1>8, <1>9, <1>10, <1>11 DEF Next, Hardware, TaskStep

-----------------------------------------------------------------------------
(* The counters of the port *)

(* The lengths after a move. *)
LEMMA MoveLengths ==
  /\ \A q, e : q \in Streams /\ e \in Nat => Len(Append(q, e)) = Len(q) + 1
  /\ \A q : q \in Streams /\ q # <<>> => /\ Head(q) \in Nat
                                          /\ Len(Tail(q)) = Len(q) - 1 /\ Len(q) # 0
  /\ \A q, r : q \in Streams /\ r \in Streams => Len(q \o r) = Len(q) + Len(r)
  /\ Len(<<>>) = 0
  /\ \A q : q \in Streams => Len(q) \in Nat
<1>1. ASSUME NEW q \in Streams, NEW e \in Nat PROVE Len(Append(q, e)) = Len(q) + 1
  BY AppendProperties DEF Streams
<1>2. ASSUME NEW q \in Streams, q # <<>> PROVE /\ Head(q) \in Nat
                                                      /\ Len(Tail(q)) = Len(q) - 1 /\ Len(q) # 0
  BY <1>2, HeadTailProperties, EmptySeq DEF Streams
<1>3. ASSUME NEW q \in Streams, NEW r \in Streams PROVE Len(q \o r) = Len(q) + Len(r)
  BY ConcatProperties DEF Streams
<1> QED
  BY <1>1, <1>2, <1>3, EmptySeq, LenProperties DEF Streams

(* The ghost of the discarded bytes is raised in one place at a time. *)
LEMMA GoneRaised ==
  ASSUME TypeOK, NEW k
  PROVE  /\ LET g == [gone EXCEPT !.full = @ + k] IN
            /\ g.full = gone.full + k /\ g.refused = gone.refused /\ g.rx = gone.rx
            /\ g.tx = gone.tx /\ g.unopened = gone.unopened
         /\ LET g == [gone EXCEPT !.refused = @ + k] IN
            /\ g.full = gone.full /\ g.refused = gone.refused + k /\ g.rx = gone.rx
            /\ g.tx = gone.tx /\ g.unopened = gone.unopened
         /\ LET g == [gone EXCEPT !.rx = @ + k] IN
            /\ g.full = gone.full /\ g.refused = gone.refused /\ g.rx = gone.rx + k
            /\ g.tx = gone.tx /\ g.unopened = gone.unopened
         /\ LET g == [gone EXCEPT !.tx = @ + k] IN
            /\ g.full = gone.full /\ g.refused = gone.refused /\ g.rx = gone.rx
            /\ g.tx = gone.tx + k /\ g.unopened = gone.unopened
         /\ LET g == [gone EXCEPT !.unopened = @ + k] IN
            /\ g.full = gone.full /\ g.refused = gone.refused /\ g.rx = gone.rx
            /\ g.tx = gone.tx /\ g.unopened = gone.unopened + k
<1>1. Ghosts
  BY TypeParts
<1> QED
  BY <1>1 DEF Ghosts, Causes

(* What a step must keep of the sums: HeldRx and HeldTx are the bytes in the *)
(* task's hands, going up and going out.                                     *)
HeldRx == Len(Held(Reading))
HeldTx == Len(Held(Writing))

(* Every step keeps the sums of the counters. *)
LEMMA CountedStep == Control /\ Counted /\ [Next]_vars => Counted'
<1> SUFFICES ASSUME TypeOK, Control, Counted, [Next]_vars PROVE Counted'
  BY DEF Control
<1>1. /\ rxq \in Streams /\ txq \in Streams /\ todo \in Streams /\ up \in Streams
      /\ wire \in Streams /\ rdr \in Nat
  BY TypeParts DEF Queues, TypeOK
<1>2. /\ HeldRx = IF Reading THEN Len(todo) ELSE 0
      /\ HeldTx = IF Writing THEN Len(todo) ELSE 0
      /\ HeldRx' = IF Reading' THEN Len(todo)' ELSE 0
      /\ HeldTx' = IF Writing' THEN Len(todo)' ELSE 0
  BY EmptySeq DEF HeldRx, HeldTx, Held
<1>3. /\ rxBytes \in Nat /\ dropRx \in Nat /\ dropTx \in Nat /\ saved \in Nat
      /\ gone.full \in Nat /\ gone.refused \in Nat /\ gone.rx \in Nat
      /\ gone.tx \in Nat /\ gone.unopened \in Nat /\ seen.host \in Nat
      /\ Len(rxq) \in Nat /\ Len(txq) \in Nat /\ Len(todo) \in Nat
      /\ Len(up) \in Nat /\ Len(wire) \in Nat
  <2>1. rxBytes \in Nat /\ dropRx \in Nat /\ dropTx \in Nat /\ saved \in Nat
    BY TypeParts DEF Registers
  <2>2. seen.host \in Nat
    BY TypeFacts, UartAssumption
  <2> QED
    BY <2>1, <2>2, TypeFacts
<1>nrx. /\ Len(up) \in Nat /\ Len(rxq) \in Nat /\ gone.refused \in Nat /\ gone.rx \in Nat
        /\ HeldRx \in Nat /\ Len(todo) \in Nat /\ rxBytes \in Nat
  BY <1>2, <1>3
<1>ntx. /\ Len(wire) \in Nat /\ Len(txq) \in Nat /\ gone.tx \in Nat /\ gone.unopened \in Nat
        /\ dropTx \in Nat /\ HeldTx \in Nat /\ Len(todo) \in Nat
  BY <1>2, <1>3
<1>rx. rxBytes = Len(up) + HeldRx + Len(rxq) + gone.refused + gone.rx
  BY DEF Counted, Accounted, HeldRx
<1>tx. seen.host = Len(wire) + Len(txq) + HeldTx + gone.tx + gone.unopened + dropTx
  BY DEF Counted, Accounted, HeldTx
<1>drop. /\ dropRx <= gone.full + gone.refused
         /\ at = "store" => saved <= gone.full + gone.refused
  BY DEF Counted, Accounted, SavedFair
<1>5. SUFFICES
      /\ rxBytes' = Len(up)' + HeldRx' + Len(rxq)' + gone'.refused + gone'.rx
      /\ seen'.host = Len(wire)' + Len(txq)' + HeldTx' + gone'.tx + gone'.unopened + dropTx'
      /\ dropRx' <= gone'.full + gone'.refused
      /\ at' = "store" => saved' <= gone'.full + gone'.refused
  BY DEF Counted, Accounted, SavedFair, HeldRx, HeldTx
<1>6. Len(<<>>) = 0
  BY EmptySeq
<1> USE DEF TaskAt, Reading, Writing
<1>7. CASE RxArrive \/ TxShifted
  <2>1. seen'.host = seen.host
    BY <1>7, TypeParts DEF RxArrive, TxShifted, ghostVars, Ghosts
  <2>2. UNCHANGED <<portVars, taskVars, outVars, gone>>
    BY <1>7 DEF RxArrive, TxShifted, ghostVars
  <2> QED
    BY <1>2, <1>rx, <1>tx, <1>drop, <2>1, <2>2 DEF portVars, taskVars, outVars
<1>8. CASE UsartIrq
  <2>1. \/ rxq' = rxq /\ rxBytes' = rxBytes /\ dropRx' = dropRx /\ gone' = gone
        \/ rxq' = rxq /\ rxBytes' = rxBytes /\ dropRx' = dropRx + 1
           /\ gone' = [gone EXCEPT !.full = @ + 1]
        \/ rxq' = Append(rxq, rdr) /\ rxBytes' = rxBytes + 1 /\ dropRx' = dropRx /\ gone' = gone
    BY <1>8 DEF UsartIrq, IrqReceive, IrqRxByte
  <2>2. /\ gone'.refused = gone.refused /\ gone'.rx = gone.rx
        /\ gone'.tx = gone.tx /\ gone'.unopened = gone.unopened
    <3>1. CASE gone' = gone
      BY <3>1
    <3>2. CASE gone' = [gone EXCEPT !.full = @ + 1]
      BY <3>2, GoneRaised
    <3> QED
      BY <2>1, <3>1, <3>2
  <2>full. \/ dropRx' = dropRx /\ gone'.full = gone.full
           \/ dropRx' = dropRx + 1 /\ gone'.full = gone.full + 1
    <3>1. CASE gone' = gone /\ dropRx' = dropRx
      BY <3>1
    <3>2. CASE gone' = [gone EXCEPT !.full = @ + 1] /\ dropRx' = dropRx + 1
      BY <3>2, GoneRaised
    <3> QED
      BY <2>1, <3>1, <3>2
  <2>3. rxBytes' + Len(rxq) = rxBytes + Len(rxq') /\ rxBytes' \in Nat /\ Len(rxq') \in Nat
    <3>1. CASE rxq' = rxq /\ rxBytes' = rxBytes
      BY <1>3, <3>1
    <3>2. CASE rxq' = Append(rxq, rdr) /\ rxBytes' = rxBytes + 1
      <4>1. Len(rxq') = Len(rxq) + 1
        BY <1>1, <3>2, MoveLengths
      <4> QED
        BY <1>3, <3>2, <4>1
    <3> QED
      BY <2>1, <3>1, <3>2
  <2>4. Len(wire') + Len(txq') = Len(wire) + Len(txq) /\ Len(wire') \in Nat /\ Len(txq') \in Nat
    <3>1. CASE txq # <<>> /\ wire' = Append(wire, Head(txq)) /\ txq' = Tail(txq)
      <4>1. Len(wire') = Len(wire) + 1 /\ Len(txq') = Len(txq) - 1 /\ Len(txq) # 0
        BY <1>1, <3>1, MoveLengths
      <4> QED
        BY <1>3, <4>1
    <3>2. CASE wire' = wire /\ txq' = txq
      BY <1>3, <3>2
    <3> QED
      BY <1>8, <3>1, <3>2, IrqTransmits
  <2>5. UNCHANGED <<up, at, todo, saved, seen, dropTx>>
    BY <1>8 DEF UsartIrq, taskVars
  <2>up. up' = up
    BY <2>5
  <2>6. HeldRx' = HeldRx /\ HeldTx' = HeldTx /\ HeldRx \in Nat /\ HeldTx \in Nat
    BY <1>2, <1>3, <2>5
  <2>7. rxBytes' = Len(up)' + HeldRx' + Len(rxq)' + gone'.refused + gone'.rx
    <3>1. rxBytes' + Len(rxq) = Len(up) + HeldRx + Len(rxq) + gone.refused + gone.rx + Len(rxq')
      BY <1>nrx, <1>rx, <2>3
    <3>2. rxBytes' = Len(up) + HeldRx + Len(rxq') + gone.refused + gone.rx
      BY <1>nrx, <2>3, <3>1, SMTT(30)
    <3> QED
      BY <2>2, <2>up, <2>6, <3>2
  <2>8. seen'.host = Len(wire)' + Len(txq)' + HeldTx' + gone'.tx + gone'.unopened + dropTx'
    BY <1>ntx, <1>tx, <2>2, <2>4, <2>5, <2>6
  <2>9. dropRx' <= gone'.full + gone'.refused
    BY <1>3, <1>drop, <2>2, <2>full, <2>5
  <2>10. at' = "store" => saved' <= gone'.full + gone'.refused
    BY <1>3, <1>drop, <2>2, <2>full, <2>5, SMTT(30)
  <2> QED
    BY <2>7, <2>8, <2>9, <2>10
<1>9. CASE CtrlOpen \/ CtrlSetLineCoding \/ CtrlClose \/ Configure \/ Process \/ WriteKick
           \/ CloseRxie \/ CloseTxie \/ CloseOff \/ CloseDone \/ FlushRxTail \/ FlushTxTail
  <2>1. UNCHANGED <<rxq, txq, rxBytes, dropRx, dropTx, todo, saved, up, wire, seen, gone>>
    BY <1>9 DEF CtrlOpen, CtrlSetLineCoding, CtrlClose, Configure, ConfigOff, ConfigRx, ConfigTx,
                ConfigOn, ConfigDone, ConfigUnchanged, Process, WriteKick, CloseRxie, CloseTxie,
                CloseOff, CloseDone, FlushRxTail, FlushTxTail, CloseUnchanged, portVars, outVars, ghostVars
  <2>2. ~Reading /\ ~Writing /\ at' # "store" /\ ~Writing'
    BY <1>9 DEF CtrlOpen, CtrlSetLineCoding, CtrlClose, Configure, ConfigOff, ConfigRx, ConfigTx,
                ConfigOn, ConfigDone, Process, WriteKick, CloseRxie, CloseTxie, CloseOff, CloseDone,
                FlushRxTail, FlushTxTail
  <2>3. todo = <<>>
    BY <2>2 DEF Control, EmptyHands
  <2>4. HeldRx = 0 /\ HeldRx' = 0 /\ HeldTx = 0 /\ HeldTx' = 0
    BY <1>2, <1>6, <2>1, <2>2, <2>3
  <2> QED
    BY <1>rx, <1>tx, <1>drop, <2>1, <2>2, <2>4
<1>10. CASE FlushRx \/ CloseRxq
  <2>1. /\ rxq' = <<>> /\ gone' = [gone EXCEPT !.rx = @ + Len(rxq)]
        /\ UNCHANGED <<txq, rxBytes, dropRx, dropTx, todo, saved, up, wire, seen>>
        /\ at \in {"idle", "clsRxq"} /\ at' \in {"flushRx", "clsTxq"}
    BY <1>10 DEF FlushRx, CloseRxq, ResetRxHead, ResetRxTail, taskVars, outVars
  <2>2. /\ gone'.full = gone.full /\ gone'.refused = gone.refused /\ gone'.rx = gone.rx + Len(rxq)
        /\ gone'.tx = gone.tx /\ gone'.unopened = gone.unopened
    BY <2>1, GoneRaised
  <2>3. HeldRx = 0 /\ HeldTx = 0 /\ HeldRx' = 0 /\ HeldTx' = 0
    BY <1>2, <2>1
  <2>4. rxBytes' = Len(up)' + HeldRx' + Len(rxq)' + gone'.refused + gone'.rx
    BY <1>nrx, <1>rx, <1>6, <2>1, <2>2, <2>3
  <2>5. seen'.host = Len(wire)' + Len(txq)' + HeldTx' + gone'.tx + gone'.unopened + dropTx'
    BY <1>ntx, <1>tx, <1>6, <2>1, <2>2, <2>3
  <2>6. dropRx' <= gone'.full + gone'.refused
    BY <1>3, <1>drop, <1>6, <2>1, <2>2, <2>3
  <2>7. at' = "store" => saved' <= gone'.full + gone'.refused
    BY <1>3, <1>drop, <1>6, <2>1, <2>2, <2>3
  <2> QED
    BY <2>4, <2>5, <2>6, <2>7
<1>11. CASE FlushTx \/ CloseTxq
  <2>1. /\ txq' = <<>> /\ gone' = [gone EXCEPT !.tx = @ + Len(txq)]
        /\ UNCHANGED <<rxq, rxBytes, dropRx, dropTx, todo, saved, up, wire, seen>>
        /\ at \in {"idle", "clsTxq"} /\ at' \in {"flushTx", "clsDone"}
    BY <1>11 DEF FlushTx, CloseTxq, ResetTxHead, ResetTxTail, taskVars, outVars
  <2>2. /\ gone'.full = gone.full /\ gone'.refused = gone.refused /\ gone'.rx = gone.rx
        /\ gone'.tx = gone.tx + Len(txq) /\ gone'.unopened = gone.unopened
    BY <2>1, GoneRaised
  <2>3. HeldRx = 0 /\ HeldTx = 0 /\ HeldRx' = 0 /\ HeldTx' = 0
    BY <1>2, <2>1
  <2>4. rxBytes' = Len(up)' + HeldRx' + Len(rxq)' + gone'.refused + gone'.rx
    BY <1>nrx, <1>rx, <1>6, <2>1, <2>2, <2>3
  <2>5. seen'.host = Len(wire)' + Len(txq)' + HeldTx' + gone'.tx + gone'.unopened + dropTx'
    BY <1>ntx, <1>tx, <1>6, <2>1, <2>2, <2>3
  <2>6. dropRx' <= gone'.full + gone'.refused
    BY <1>3, <1>drop, <1>6, <2>1, <2>2, <2>3
  <2>7. at' = "store" => saved' <= gone'.full + gone'.refused
    BY <1>3, <1>drop, <1>6, <2>1, <2>2, <2>3
  <2> QED
    BY <2>4, <2>5, <2>6, <2>7
<1>12. CASE Write
  <2>1. PICK k \in 1 .. MaxFrame : WriteStart(k) \/ WriteRejected(k)
    BY <1>12 DEF Write
  <2>2. seen'.host = seen.host + k
    BY <2>1, TypeParts DEF WriteStart, WriteRejected, Ghosts
  <2>3. CASE WriteStart(k)
    <3>1. Len(HostBytes(k)) = k
      BY DEF HostBytes
    <3>2. /\ todo' = HostBytes(k) /\ at = "idle" /\ at' = "push"
          /\ UNCHANGED <<rxq, txq, rxBytes, dropRx, dropTx, saved, up, wire, gone>>
      BY <2>3 DEF WriteStart, portVars, outVars
    <3>3. HeldRx = 0 /\ HeldTx = 0 /\ HeldRx' = 0 /\ HeldTx' = k
      BY <1>2, <3>1, <3>2
    <3>4. rxBytes' = Len(up)' + HeldRx' + Len(rxq)' + gone'.refused + gone'.rx
      BY <1>nrx, <1>rx, <2>2, <3>1, <3>2, <3>3
    <3>5. seen'.host = Len(wire)' + Len(txq)' + HeldTx' + gone'.tx + gone'.unopened + dropTx'
      BY <1>ntx, <1>tx, <2>2, <3>1, <3>2, <3>3
    <3>6. dropRx' <= gone'.full + gone'.refused
      BY <1>3, <1>drop, <2>2, <3>1, <3>2, <3>3
    <3>7. at' = "store" => saved' <= gone'.full + gone'.refused
      BY <1>3, <1>drop, <2>2, <3>1, <3>2, <3>3
    <3> QED
      BY <3>4, <3>5, <3>6, <3>7
  <2>4. CASE WriteRejected(k)
    <3>1. UNCHANGED <<rxq, txq, rxBytes, dropRx, dropTx, at, todo, saved, up, wire>>
      BY <2>4 DEF WriteRejected, portVars, taskVars, outVars
    <3>2. /\ gone'.full = gone.full /\ gone'.refused = gone.refused /\ gone'.rx = gone.rx
          /\ gone'.tx = gone.tx /\ gone'.unopened = gone.unopened + k
      BY <2>4, GoneRaised DEF WriteRejected
    <3>3. HeldRx = 0 /\ HeldTx = 0 /\ HeldRx' = 0 /\ HeldTx' = 0
      BY <1>2, <2>4, <3>1 DEF WriteRejected
    <3>4. rxBytes' = Len(up)' + HeldRx' + Len(rxq)' + gone'.refused + gone'.rx
      BY <1>nrx, <1>rx, <2>2, <3>1, <3>2, <3>3
    <3>5. seen'.host = Len(wire)' + Len(txq)' + HeldTx' + gone'.tx + gone'.unopened + dropTx'
      BY <1>ntx, <1>tx, <2>2, <3>1, <3>2, <3>3
    <3>6. dropRx' <= gone'.full + gone'.refused
      BY <1>3, <1>drop, <2>2, <3>1, <3>2, <3>3
    <3>7. at' = "store" => saved' <= gone'.full + gone'.refused
      BY <1>3, <1>drop, <2>2, <3>1, <3>2, <3>3
    <3> QED
      BY <3>4, <3>5, <3>6, <3>7
  <2> QED
    BY <2>1, <2>3, <2>4
<1>13. CASE WritePush
  <2>1. Writing /\ Writing' /\ ~Reading /\ ~Reading' /\ at' # "store"
    BY <1>13 DEF WritePush
  <2>frame. UNCHANGED <<rxq, rxBytes, dropRx, dropTx, saved, up, wire, seen, gone>>
    BY <1>13 DEF WritePush, outVars, ghostVars
  <2>2. Len(txq') + Len(todo') = Len(txq) + Len(todo) /\ Len(txq') \in Nat /\ Len(todo') \in Nat
    <3>1. CASE todo # <<>> /\ txq' = Append(txq, Head(todo)) /\ todo' = Tail(todo)
      <4>1. Len(txq') = Len(txq) + 1 /\ Len(todo') = Len(todo) - 1 /\ Len(todo) # 0
        BY <1>1, <3>1, MoveLengths
      <4> QED
        BY <1>3, <4>1
    <3>2. CASE txq' = txq /\ todo' = todo
      BY <1>3, <3>2
    <3> QED
      BY <1>13, <3>1, <3>2, PushMoves
  <2>3. HeldRx = 0 /\ HeldTx = Len(todo) /\ HeldRx' = 0 /\ HeldTx' = Len(todo')
    BY <1>2, <2>1
  <2>4. rxBytes' = Len(up)' + HeldRx' + Len(rxq)' + gone'.refused + gone'.rx
    BY <1>nrx, <1>rx, <2>frame, <2>3
  <2>5. seen'.host = Len(wire)' + Len(txq)' + HeldTx' + gone'.tx + gone'.unopened + dropTx'
    BY <1>ntx, <1>tx, <2>frame, <2>2, <2>3, SMTT(30)
  <2>6. dropRx' <= gone'.full + gone'.refused
    BY <1>3, <1>drop, <2>frame, <2>1
  <2>7. at' = "store" => saved' <= gone'.full + gone'.refused
    BY <1>3, <1>drop, <2>frame, <2>1
  <2> QED
    BY <2>4, <2>5, <2>6, <2>7
<1>14. CASE WriteCount
  <2>1. /\ at = "count" /\ at' = "kick" /\ todo' = <<>> /\ dropTx' = dropTx + Len(todo)
        /\ UNCHANGED <<rxq, txq, rxBytes, dropRx, saved, up, wire, seen, gone>>
    BY <1>14 DEF WriteCount, outVars, ghostVars
  <2>2. HeldRx = 0 /\ HeldTx = Len(todo) /\ HeldRx' = 0 /\ HeldTx' = 0
    BY <1>2, <2>1
  <2>3. rxBytes' = Len(up)' + HeldRx' + Len(rxq)' + gone'.refused + gone'.rx
    BY <1>nrx, <1>rx, <1>6, <2>1, <2>2
  <2>4. seen'.host = Len(wire)' + Len(txq)' + HeldTx' + gone'.tx + gone'.unopened + dropTx'
    BY <1>ntx, <1>tx, <1>6, <2>1, <2>2
  <2>5. dropRx' <= gone'.full + gone'.refused
    BY <1>3, <1>drop, <1>6, <2>1, <2>2
  <2>6. at' = "store" => saved' <= gone'.full + gone'.refused
    BY <1>3, <1>drop, <1>6, <2>1, <2>2
  <2> QED
    BY <2>3, <2>4, <2>5, <2>6
<1>15. CASE ProcessRead
  <2>1. Reading /\ Reading' /\ ~Writing /\ ~Writing' /\ at' # "store"
    BY <1>15 DEF ProcessRead
  <2>frame. UNCHANGED <<txq, rxBytes, dropRx, dropTx, saved, up, wire, seen, gone>>
    BY <1>15 DEF ProcessRead, outVars, ghostVars
  <2>2. Len(todo') + Len(rxq') = Len(todo) + Len(rxq) /\ Len(todo') \in Nat /\ Len(rxq') \in Nat
    <3>1. CASE rxq # <<>> /\ todo' = Append(todo, Head(rxq)) /\ rxq' = Tail(rxq)
      <4>1. Len(todo') = Len(todo) + 1 /\ Len(rxq') = Len(rxq) - 1 /\ Len(rxq) # 0
        BY <1>1, <3>1, MoveLengths
      <4> QED
        BY <1>3, <4>1
    <3>2. CASE todo' = todo /\ rxq' = rxq
      BY <1>3, <3>2
    <3> QED
      BY <1>15, <3>1, <3>2, ReadMoves
  <2>3. HeldRx = Len(todo) /\ HeldTx = 0 /\ HeldRx' = Len(todo') /\ HeldTx' = 0
    BY <1>2, <2>1
  <2>4. rxBytes' = Len(up)' + HeldRx' + Len(rxq)' + gone'.refused + gone'.rx
    BY <1>nrx, <1>rx, <2>frame, <2>2, <2>3, SMTT(30)
  <2>5. seen'.host = Len(wire)' + Len(txq)' + HeldTx' + gone'.tx + gone'.unopened + dropTx'
    BY <1>ntx, <1>tx, <2>frame, <2>3
  <2>6. dropRx' <= gone'.full + gone'.refused
    BY <1>3, <1>drop, <2>frame, <2>1
  <2>7. at' = "store" => saved' <= gone'.full + gone'.refused
    BY <1>3, <1>drop, <2>frame, <2>1
  <2> QED
    BY <2>4, <2>5, <2>6, <2>7
<1>16. CASE ProcessQueued
  <2>1. /\ at = "queue" /\ at' = "idle" /\ todo' = <<>> /\ up' = up \o todo
        /\ UNCHANGED <<rxq, txq, rxBytes, dropRx, dropTx, saved, wire, seen, gone>>
    BY <1>16 DEF ProcessQueued, portVars, ghostVars
  <2>2. Len(up') = Len(up) + Len(todo)
    BY <1>1, <2>1, MoveLengths
  <2>3. HeldRx = Len(todo) /\ HeldTx = 0 /\ HeldRx' = 0 /\ HeldTx' = 0
    BY <1>2, <2>1
  <2>4. rxBytes' = Len(up)' + HeldRx' + Len(rxq)' + gone'.refused + gone'.rx
    BY <1>nrx, <1>rx, <1>6, <2>1, <2>2, <2>3
  <2>5. seen'.host = Len(wire)' + Len(txq)' + HeldTx' + gone'.tx + gone'.unopened + dropTx'
    BY <1>ntx, <1>tx, <1>6, <2>1, <2>2, <2>3
  <2>6. dropRx' <= gone'.full + gone'.refused
    BY <1>3, <1>drop, <1>6, <2>1, <2>2, <2>3
  <2>7. at' = "store" => saved' <= gone'.full + gone'.refused
    BY <1>3, <1>drop, <1>6, <2>1, <2>2, <2>3
  <2> QED
    BY <2>4, <2>5, <2>6, <2>7
<1>17. CASE ProcessRefused
  <2>1. /\ at = "queue" /\ at' = "store" /\ saved' = dropRx
        /\ UNCHANGED <<rxq, txq, rxBytes, dropRx, dropTx, todo, up, wire, seen, gone>>
    BY <1>17 DEF ProcessRefused, portVars, outVars, ghostVars
  <2> QED
    BY <1>2, <1>rx, <1>tx, <1>drop, <2>1
<1>18. CASE ProcessStore
  <2>1. at = "store" /\ at' = "idle" /\ todo' = <<>> /\ dropRx' = saved + Len(todo)
    BY <1>18 DEF ProcessStore
  <2>frame. UNCHANGED <<rxq, txq, rxBytes, dropTx, up, wire, seen>>
    BY <1>18 DEF ProcessStore, outVars
  <2>2. /\ gone'.full = gone.full /\ gone'.refused = gone.refused + Len(todo)
        /\ gone'.rx = gone.rx /\ gone'.tx = gone.tx /\ gone'.unopened = gone.unopened
    BY <1>18, GoneRaised DEF ProcessStore
  <2>3. HeldRx = Len(todo) /\ HeldTx = 0 /\ HeldRx' = 0 /\ HeldTx' = 0
    BY <1>2, <1>6, <2>1
  <2>4. rxBytes' = Len(up)' + HeldRx' + Len(rxq)' + gone'.refused + gone'.rx
    BY <1>nrx, <1>rx, <2>frame, <2>2, <2>3
  <2>5. seen'.host = Len(wire)' + Len(txq)' + HeldTx' + gone'.tx + gone'.unopened + dropTx'
    BY <1>ntx, <1>tx, <2>frame, <2>2, <2>3
  <2>6. dropRx' <= gone'.full + gone'.refused
    BY <1>3, <1>drop, <2>1, <2>2, SMTT(30)
  <2>7. at' = "store" => saved' <= gone'.full + gone'.refused
    BY <1>3, <1>drop, <2>1, <2>2
  <2> QED
    BY <2>4, <2>5, <2>6, <2>7
<1>19. CASE UNCHANGED vars
  BY <1>2, <1>rx, <1>tx, <1>drop, <1>19 DEF vars, portVars, taskVars, outVars, ghostVars
<1> QED
  BY <1>7, <1>8, <1>9, <1>10, <1>11, <1>12, <1>13, <1>14, <1>15, <1>16, <1>17, <1>18, <1>19
     DEF Next, Hardware, Command, Close, TaskStep

-----------------------------------------------------------------------------
(* Bytes keep their order *)

LEMMA TypeBytes ==
  ASSUME TypeOK
  PROVE  /\ Bytes(rxq) /\ Bytes(txq) /\ Bytes(todo) /\ Bytes(up) /\ Bytes(wire)
         /\ Bytes(<<>>) /\ Len(<<>>) = 0
<1>1. Queues
  BY TypeParts
<1>2. \A q : q \in Streams => Bytes(q)
  BY QueuePlaces DEF Streams, Bytes
<1>3. <<>> \in Streams /\ Len(<<>>) = 0
  BY EmptySeq DEF Streams
<1> QED
  BY <1>1, <1>2, <1>3 DEF Queues

(* A byte moved between queues, as Put and Take see it. *)
LEMMA MovePlaces ==
  /\ \A q, e : q \in Streams /\ e \in Nat => Put(q, e, Append(q, e))
  /\ \A q : q \in Streams /\ q # <<>> => Head(q) \in Nat /\ Take(q, Head(q), Tail(q))
  /\ \A q, r : q \in Streams /\ r \in Streams => Joined(q, r, q \o r)
<1>1. ASSUME NEW q \in Streams, NEW e \in Nat PROVE Put(q, e, Append(q, e))
  BY AppendPuts DEF Streams
<1>2. ASSUME NEW q \in Streams, q # <<>> PROVE Head(q) \in Nat /\ Take(q, Head(q), Tail(q))
  BY <1>2, TailTakes DEF Streams
<1>3. ASSUME NEW q \in Streams, NEW r \in Streams PROVE Joined(q, r, q \o r)
  BY ConcatJoins DEF Streams
<1> QED
  BY <1>1, <1>2, <1>3

(* Every step keeps the order of the received bytes. *)
LEMMA RxOrderedStep == Control /\ RxOrdered /\ [Next]_vars => RxOrdered'
<1> SUFFICES ASSUME TypeOK, Control, RxOrdered, [Next]_vars PROVE RxOrdered'
  BY DEF Control
<1>1. /\ rxq \in Streams /\ todo \in Streams /\ up \in Streams
      /\ rdr \in Nat /\ seen.peer \in Nat
  <2>1. Queues /\ Registers /\ MaxRx \in Nat
    BY TypeParts, UartAssumption
  <2>2. seen.peer \in 0 .. MaxRx
    BY TypeFacts
  <2>3. rdr \in Nat /\ seen.peer \in Nat
    BY <2>1, <2>2 DEF Registers
  <2> QED
    BY <2>1, <2>3 DEF Queues
<1>2. /\ Bytes(rxq) /\ Bytes(todo) /\ Bytes(up) /\ Bytes(<<>>) /\ Len(<<>>) = 0
  BY TypeBytes
<1>3. Flow(up, Held(Reading), rxq, LastIn) /\ rdr <= seen.peer
  BY DEF RxOrdered
<1>4. LastIn \in Nat /\ LastIn <= seen.peer
  BY <1>1, <1>3 DEF LastIn
<1>5. /\ Reading => Held(Reading) = todo
      /\ ~Reading => Held(Reading) = <<>>
      /\ Reading' => Held(Reading)' = todo'
      /\ ~Reading' => Held(Reading)' = <<>>
      /\ Bytes(Held(Reading))
  BY <1>2 DEF Held
<1>6. SUFFICES Flow(up', Held(Reading)', rxq', LastIn') /\ rdr' <= seen'.peer
  BY DEF RxOrdered
<1>7. CASE RxArrive
  <2>1. seen'.peer = seen.peer + 1
    BY <1>7, TypeParts DEF RxArrive, Ghosts
  <2>2. rdr' = (IF rdr = 0 THEN seen.peer + 1 ELSE rdr) /\ UNCHANGED <<up, at, todo, rxq>>
    BY <1>7 DEF RxArrive, portVars, taskVars, outVars
  <2>3. LastIn' = LastIn /\ rdr' <= seen'.peer
    BY <1>1, <1>3, <2>1, <2>2 DEF LastIn
  <2> QED
    BY <1>3, <2>2, <2>3 DEF Held, Reading
<1>8. CASE UsartIrq
  <2>1. UNCHANGED <<up, at, todo, seen>> /\ Held(Reading)' = Held(Reading)
    BY <1>8 DEF UsartIrq, taskVars, Held, Reading
  <2>2. CASE rdr' = rdr /\ rxq' = rxq
    BY <1>3, <2>1, <2>2 DEF LastIn
  <2>3. CASE rdr # 0 /\ rdr' = 0 /\ rxq' = rxq
    <3>1. LastIn' = seen.peer
      BY <2>1, <2>3 DEF LastIn
    <3>2. Flow(up, Held(Reading), rxq, seen.peer)
      BY <1>1, <1>2, <1>3, <1>4, <1>5, FlowLess
    <3> QED
      BY <1>1, <2>1, <2>3, <3>1, <3>2
  <2>4. CASE rdr # 0 /\ rdr' = 0 /\ rxq' = Append(rxq, rdr)
    <3>1. LastIn' = seen.peer /\ LastIn < rdr
      BY <1>1, <2>1, <2>4 DEF LastIn
    <3>2. Put(rxq, rdr, rxq') /\ Bytes(rxq')
      <4>1. Put(rxq, rdr, rxq')
        BY <1>1, <2>4, MovePlaces
      <4>2. Append(rxq, rdr) \in Streams
        BY <1>1, AppendPuts DEF Streams
      <4>3. Bytes(rxq')
        BY <2>4, <4>2, QueuePlaces DEF Streams, Bytes
      <4> QED
        BY <4>1, <4>3
    <3>3. Flow(up, Held(Reading), rxq', rdr)
      BY <1>1, <1>2, <1>3, <1>4, <1>5, <3>1, <3>2, FlowGrow
    <3>4. Flow(up, Held(Reading), rxq', seen.peer)
      BY <1>1, <1>2, <1>3, <1>5, <3>2, <3>3, FlowLess
    <3> QED
      BY <1>1, <2>1, <2>4, <3>1, <3>4
  <2> QED
    BY <1>8, <2>2, <2>3, <2>4 DEF UsartIrq, IrqReceive, IrqRxByte
<1>9. CASE FlushRx \/ CloseRxq
  <2>1. /\ rxq' = <<>> /\ UNCHANGED <<todo, up, rdr, seen>> /\ ~Reading /\ ~Reading'
    BY <1>9 DEF FlushRx, CloseRxq, ResetRxHead, ResetRxTail, taskVars, hwVars, outVars, TaskAt, Reading
  <2>2. Flow(up, <<>>, <<>>, LastIn) /\ LastIn' = LastIn
    BY <1>2, <1>3, <1>4, <1>5, <2>1, FlowLess DEF LastIn
  <2> QED
    BY <1>3, <1>5, <2>1, <2>2
<1>10. CASE \/ TxShifted \/ CtrlOpen \/ CtrlSetLineCoding \/ CtrlClose \/ FlushTx \/ Configure \/ FlushRxTail \/ FlushTxTail
            \/ CloseRxie \/ CloseTxie \/ CloseOff \/ CloseTxq \/ CloseDone
            \/ WritePush \/ WriteCount \/ WriteKick \/ ProcessRefused \/ UNCHANGED vars
  <2>1. UNCHANGED <<up, rxq, rdr, seen>> /\ Held(Reading)' = Held(Reading)
    BY <1>10 DEF TxShifted, CtrlOpen, CtrlSetLineCoding, CtrlClose, FlushTx, ResetTxHead, ResetTxTail, Configure,
                 ConfigOff, ConfigRx, ConfigTx, ConfigOn, ConfigDone, ConfigUnchanged, FlushRxTail, FlushTxTail,
                 CloseRxie, CloseTxie, CloseOff, CloseTxq, CloseDone, CloseUnchanged, WritePush,
                 WriteCount, WriteKick, ProcessRefused, vars, portVars, taskVars, hwVars, outVars,
                 ghostVars, TaskAt, Held, Reading
  <2> QED
    BY <1>3, <2>1 DEF LastIn
<1>11. CASE Write
  <2>1. PICK k \in 1 .. MaxFrame : WriteStart(k) \/ WriteRejected(k)
    BY <1>11 DEF Write
  <2>2. seen'.peer = seen.peer
    BY <2>1, TypeParts DEF WriteStart, WriteRejected, Ghosts
  <2>3. UNCHANGED <<up, rxq, rdr>> /\ ~Reading /\ ~Reading'
    BY <2>1 DEF WriteStart, WriteRejected, portVars, taskVars, hwVars, outVars, TaskAt, Reading
  <2> QED
    BY <1>3, <1>5, <2>2, <2>3 DEF LastIn
<1>12. CASE Process
  <2>1. UNCHANGED <<up, rxq, rdr, seen, todo>> /\ ~Reading /\ ~Writing /\ Reading'
    BY <1>12 DEF Process, portVars, hwVars, outVars, ghostVars, TaskAt, Reading, Writing
  <2>2. todo = <<>>
    BY <2>1 DEF Control, EmptyHands
  <2> QED
    BY <1>3, <1>5, <2>1, <2>2 DEF LastIn
<1>13. CASE ProcessRead
  <2>1. UNCHANGED <<up, rdr, seen>> /\ Reading /\ Reading'
    BY <1>13 DEF ProcessRead, hwVars, outVars, ghostVars, TaskAt, Reading
  <2>2. LastIn' = LastIn
    BY <2>1 DEF LastIn
  <2>3. CASE rxq # <<>> /\ todo' = Append(todo, Head(rxq)) /\ rxq' = Tail(rxq)
    <3>1. Head(rxq) \in Nat /\ Take(rxq, Head(rxq), rxq')
      BY <1>1, <2>3, MovePlaces
    <3>2. Put(todo, Head(rxq), todo')
      BY <1>1, <2>3, <3>1, MovePlaces
    <3>3. Flow(up, todo', rxq', LastIn)
      BY <1>2, <1>3, <1>4, <1>5, <2>1, <3>1, <3>2, FlowLast
    <3> QED
      BY <1>3, <1>5, <2>1, <2>2, <3>3
  <2>4. CASE rxq' = rxq /\ todo' = todo
    BY <1>3, <1>5, <2>1, <2>2, <2>4
  <2> QED
    BY <1>13, <2>3, <2>4, ReadMoves
<1>14. CASE ProcessQueued
  <2>1. UNCHANGED <<rxq, rdr, seen>> /\ up' = up \o todo /\ Reading /\ ~Reading'
    BY <1>14 DEF ProcessQueued, portVars, hwVars, ghostVars, TaskAt, Reading
  <2>2. Joined(up, todo, up')
    BY <1>1, <2>1, MovePlaces
  <2>3. Flow(up', <<>>, rxq, LastIn)
    BY <1>2, <1>3, <1>4, <1>5, <2>1, <2>2, FlowJoin
  <2> QED
    BY <1>3, <1>5, <2>1, <2>3 DEF LastIn
<1>15. CASE ProcessStore
  <2>1. UNCHANGED <<up, rxq, rdr, seen>> /\ Reading /\ ~Reading'
    BY <1>15 DEF ProcessStore, hwVars, outVars, TaskAt, Reading
  <2>2. Flow(up, <<>>, rxq, LastIn)
    BY <1>2, <1>3, <1>4, <1>5, FlowLess
  <2> QED
    BY <1>3, <1>5, <2>1, <2>2 DEF LastIn
<1> QED
  BY <1>7, <1>8, <1>9, <1>10, <1>11, <1>12, <1>13, <1>14, <1>15
     DEF Next, Hardware, Command, Close, TaskStep

(* The host's bytes numbered after the n-th ascend behind those up to n.     *)
LEMMA FlowHost ==
  ASSUME NEW a, NEW b, NEW e, NEW n \in Nat, NEW k \in Nat, NEW h,
         Bytes(a), Bytes(b), Flow(a, b, e, n),
         Len(h) = k, \A i \in 1 .. k : h[i] = n + i
  PROVE  Flow(a, b, h, n + k)
<1>1. Ascending(h) /\ UpTo(h, n + k)
  BY DEF Ascending, UpTo
<1>2. Precedes(a, h) /\ Precedes(b, h)
  <2>1. \A j \in 1 .. Len(h) : h[j] \in Nat /\ n < h[j]
    OBVIOUS
  <2>2. /\ \A i \in 1 .. Len(a) : a[i] \in Nat /\ a[i] <= n
        /\ \A i \in 1 .. Len(b) : b[i] \in Nat /\ b[i] <= n
    BY DEF Flow, UpTo, Bytes
  <2> QED
    BY <2>1, <2>2 DEF Precedes
<1>3. UpTo(a, n + k) /\ UpTo(b, n + k)
  BY DEF Flow, UpTo, Bytes
<1> QED
  BY <1>1, <1>2, <1>3 DEF Flow

(* Every step keeps the order of the bytes to send. *)
LEMMA TxOrderedStep == Control /\ TxOrdered /\ [Next]_vars => TxOrdered'
<1> SUFFICES ASSUME TypeOK, Control, TxOrdered, [Next]_vars PROVE TxOrdered'
  BY DEF Control
<1>1. txq \in Streams /\ todo \in Streams /\ wire \in Streams /\ seen.host \in Nat
  BY TypeParts, TypeFacts, UartAssumption DEF Queues
<1>2. /\ Bytes(txq) /\ Bytes(todo) /\ Bytes(wire) /\ Bytes(<<>>) /\ Len(<<>>) = 0
  BY TypeBytes
<1>3. Flow(wire, txq, Held(Writing), seen.host)
  BY DEF TxOrdered
<1>4. /\ Writing => Held(Writing) = todo
      /\ ~Writing => Held(Writing) = <<>>
      /\ Writing' => Held(Writing)' = todo'
      /\ ~Writing' => Held(Writing)' = <<>>
      /\ Bytes(Held(Writing))
  BY <1>2 DEF Held
<1>5. SUFFICES Flow(wire', txq', Held(Writing)', seen'.host)
  BY DEF TxOrdered
<1>6. CASE RxArrive
  <2>1. seen'.host = seen.host
    BY <1>6, TypeParts DEF RxArrive, Ghosts
  <2>2. UNCHANGED <<wire, txq, at, todo>>
    BY <1>6 DEF RxArrive, portVars, taskVars, outVars
  <2> QED
    BY <1>3, <2>1, <2>2 DEF Held, Writing
<1>7. CASE UsartIrq
  <2>1. UNCHANGED <<at, todo, seen>> /\ Held(Writing)' = Held(Writing)
    BY <1>7 DEF UsartIrq, taskVars, Held, Writing
  <2>2. CASE txq' = txq /\ wire' = wire
    BY <1>3, <2>1, <2>2
  <2>3. CASE txq # <<>> /\ wire' = Append(wire, Head(txq)) /\ txq' = Tail(txq)
    <3>1. Head(txq) \in Nat /\ Take(txq, Head(txq), txq')
      BY <1>1, <2>3, MovePlaces
    <3>2. Put(wire, Head(txq), wire')
      BY <1>1, <2>3, <3>1, MovePlaces
    <3>3. Flow(wire', txq', Held(Writing), seen.host)
      BY <1>1, <1>2, <1>3, <1>4, <3>1, <3>2, FlowFirst
    <3> QED
      BY <2>1, <3>3
  <2> QED
    BY <1>7, <2>2, <2>3, IrqTransmits
<1>8. CASE FlushTx \/ CloseTxq
  <2>1. /\ txq' = <<>> /\ UNCHANGED <<todo, wire, seen>> /\ ~Writing /\ ~Writing'
    BY <1>8 DEF FlushTx, CloseTxq, ResetTxHead, ResetTxTail, taskVars, hwVars, outVars, TaskAt, Writing
  <2>2. Flow(wire, <<>>, <<>>, seen.host)
    BY <1>1, <1>2, <1>3, <1>4, <2>1, FlowLess
  <2> QED
    BY <1>4, <2>1, <2>2
<1>9. CASE \/ TxShifted \/ CtrlOpen \/ CtrlSetLineCoding \/ CtrlClose \/ FlushRx \/ Configure \/ FlushRxTail \/ FlushTxTail
           \/ CloseRxie \/ CloseTxie \/ CloseOff \/ CloseRxq \/ CloseDone \/ WriteKick \/ Process
           \/ ProcessRead \/ ProcessQueued \/ ProcessRefused \/ ProcessStore \/ UNCHANGED vars
  <2>1. UNCHANGED <<wire, txq, seen>> /\ Held(Writing)' = Held(Writing)
    BY <1>9 DEF TxShifted, CtrlOpen, CtrlSetLineCoding, CtrlClose, FlushRx, ResetRxHead, ResetRxTail, Configure,
                ConfigOff, ConfigRx, ConfigTx, ConfigOn, ConfigDone, ConfigUnchanged, FlushRxTail, FlushTxTail, CloseRxie,
                CloseTxie, CloseOff, CloseRxq, CloseDone, CloseUnchanged, WriteKick, Process,
                ProcessRead, ProcessQueued, ProcessRefused, ProcessStore, vars, portVars,
                taskVars, hwVars, outVars, ghostVars, TaskAt, Held, Writing
  <2> QED
    BY <1>3, <2>1
<1>10. CASE Write
  <2>1. PICK k \in 1 .. MaxFrame : WriteStart(k) \/ WriteRejected(k)
    BY <1>10 DEF Write
  <2>2. seen'.host = seen.host + k /\ k \in Nat /\ seen.host <= seen.host + k
    BY <1>1, <2>1, TypeParts DEF WriteStart, WriteRejected, Ghosts
  <2>3. CASE WriteRejected(k)
    <3>1. UNCHANGED <<wire, txq, todo>> /\ Held(Writing)' = Held(Writing)
      BY <2>3 DEF WriteRejected, portVars, taskVars, outVars, Held, Writing
    <3>2. Flow(wire, txq, Held(Writing), seen.host + k)
      BY <1>1, <1>2, <1>3, <1>4, <2>2, FlowLess
    <3> QED
      BY <2>2, <3>1, <3>2
  <2>4. CASE WriteStart(k)
    <3>1. UNCHANGED <<wire, txq>> /\ todo' = HostBytes(k) /\ Writing' /\ ~Writing
      BY <2>4 DEF WriteStart, portVars, outVars, TaskAt, Writing
    <3>2. Len(HostBytes(k)) = k /\ \A i \in 1 .. k : HostBytes(k)[i] = seen.host + i
      BY <2>2 DEF HostBytes
    <3>3. Flow(wire, txq, HostBytes(k), seen.host + k)
      BY <1>1, <1>2, <1>3, <2>2, <3>2, FlowHost
    <3> QED
      BY <1>4, <2>2, <3>1, <3>3
  <2> QED
    BY <2>1, <2>3, <2>4
<1>11. CASE WritePush
  <2>1. UNCHANGED <<wire, seen>> /\ Writing /\ Writing'
    BY <1>11 DEF WritePush, outVars, ghostVars, TaskAt, Writing
  <2>2. CASE todo # <<>> /\ txq' = Append(txq, Head(todo)) /\ todo' = Tail(todo)
    <3>1. Head(todo) \in Nat /\ Take(todo, Head(todo), todo')
      BY <1>1, <2>2, MovePlaces
    <3>2. Put(txq, Head(todo), txq')
      BY <1>1, <2>2, <3>1, MovePlaces
    <3>3. Flow(wire, txq', todo', seen.host)
      BY <1>1, <1>2, <1>3, <1>4, <2>1, <3>1, <3>2, FlowLast
    <3> QED
      BY <1>4, <2>1, <3>3
  <2>3. CASE txq' = txq /\ todo' = todo
    BY <1>3, <1>4, <2>1, <2>3
  <2> QED
    BY <1>11, <2>2, <2>3, PushMoves
<1>12. CASE WriteCount
  <2>1. UNCHANGED <<wire, txq, seen>> /\ ~Writing'
    BY <1>12 DEF WriteCount, outVars, ghostVars, TaskAt, Writing
  <2>2. Flow(wire, txq, <<>>, seen.host)
    BY <1>1, <1>2, <1>3, <1>4, FlowLess
  <2> QED
    BY <1>4, <2>1, <2>2
<1> QED
  BY <1>6, <1>7, <1>8, <1>9, <1>10, <1>11, <1>12
     DEF Next, Hardware, Command, Close, TaskStep

-----------------------------------------------------------------------------
(* The theorems *)

LEMMA InitInv == Init => IInv
<1> SUFFICES ASSUME Init PROVE IInv
  OBVIOUS
<1>1. TypeOK
  <2>1. Queues
    BY UartAssumption, EmptySeq DEF Init, Queues, Streams
  <2>2. Registers
    <3>1. 0 \in Nat /\ 0 \in 0 .. MaxRx /\ 0 \in 0 .. RxCap /\ 0 \in 0 .. TxCap
      BY UartAssumption
    <3> QED
      BY <3>1, Zenon DEF Init, Registers, States, Points
  <2>3. Ghosts
    BY UartAssumption DEF Init, Ghosts, Causes
  <2> QED
    BY <2>1, <2>2, <2>3, TypeParts
<1>2. Control
  BY <1>1 DEF Init, Control, Session, EmptyHands, Closing, ClosedQuiet, Armed, Configuring,
              Reading, Writing
<1>3. Counted
  BY EmptySeq DEF Init, Counted, Accounted, SavedFair, Held
<1>4. Ordered
  <2>1. Held(Reading) = <<>> /\ Held(Writing) = <<>> /\ LastIn = 0 /\ Len(<<>>) = 0
    BY EmptySeq DEF Init, Held, LastIn
  <2>2. Flow(<<>>, <<>>, <<>>, 0)
    BY EmptySeq DEF Flow, Ascending, Precedes, UpTo
  <2> QED
    BY <2>1, <2>2 DEF Init, Ordered, RxOrdered, TxOrdered
<1> QED
  BY <1>2, <1>3, <1>4 DEF IInv

(* Every step keeps the inductive invariant. *)
LEMMA StepInv == IInv /\ [Next]_vars => IInv'
  BY ControlStep, CountedStep, RxOrderedStep, TxOrderedStep DEF IInv, Ordered

(* Which statements the task can be at with which registers, where each byte *)
(* is accounted for, and the order of the bytes: IInv holds of a port for    *)
(* every size of its rings.                                                  *)
THEOREM Invariance == Spec => []IInv
  BY InitInv, StepInv, PTL DEF Spec

(* Every variable stays within its type: the rings never hold more than      *)
(* their capacity, whoever fills them.                                       *)
THEOREM TypeCorrect == Spec => []TypeOK
<1>1. IInv => TypeOK
  BY DEF IInv, Control
<1> QED
  BY <1>1, Invariance, PTL

(* UART_CLOSE resets the rings and switches the interrupts off in an order   *)
(* that leaves nothing for the next session (VP_UART_CLOSE of                *)
(* UartMgr_HandleCtrl, UARTPort_Close).                                      *)
THEOREM ClosedPortQuiet == Spec => []ClosedQuiet
<1>1. IInv => ClosedQuiet
  BY DEF IInv, Control
<1> QED
  BY <1>1, Invariance, PTL

(* The kick of the task and the switching off of the handler cannot cross    *)
(* (UARTPort_TryKickTx, UARTPort_CommonIrq).                                 *)
THEOREM TransmitterArmed == Spec => []TxArmed
<1>1. IInv => TxArmed
  BY DEF IInv, Control, Armed, TxArmed, Writing
<1> QED
  BY <1>1, Invariance, PTL

(* rx_bytes, drop_tx_bytes and the bytes sent from the ring add up with what *)
(* is queued, in hand and discarded, and drop_rx_bytes never claims too      *)
(* much.  The old slots a live FLUSH_TX lets out (slips) are counted on top. *)
THEOREM BytesAccounted == Spec => []Accounted
<1>1. IInv => Accounted
  BY DEF IInv, Counted
<1> QED
  BY <1>1, Invariance, PTL

(* No queued byte overtakes another or is delivered twice, in either         *)
(* direction, whatever the interleaving of the task and the handler; what    *)
(* the handler slips out between the stores of a live FLUSH_TX is not a      *)
(* queued byte and is exempt, as in ByteOrder.                               *)
THEOREM BytesInOrder == Spec => []ByteOrder
<1>1. IInv => ByteOrder
  <2> SUFFICES ASSUME IInv PROVE ByteOrder
    OBVIOUS
  <2>1. TypeOK /\ Flow(up, Held(Reading), rxq, LastIn) /\ rdr <= seen.peer
        /\ Flow(wire, txq, Held(Writing), seen.host)
    BY DEF IInv, Control, Ordered, RxOrdered, TxOrdered
  <2>2. LastIn \in Nat /\ seen.host \in Nat
    <3>1. rdr \in Nat /\ seen.peer \in Nat /\ seen.host \in Nat
      <4>1. Registers /\ MaxRx \in Nat /\ MaxTx \in Nat
        BY <2>1, TypeParts, UartAssumption
      <4>2. seen.peer \in 0 .. MaxRx /\ seen.host \in 0 .. MaxTx
        BY <2>1, TypeFacts
      <4> QED
        BY <4>1, <4>2 DEF Registers
    <3> QED
      BY <3>1 DEF LastIn
  <2>3. /\ up \in Seq(Nat) /\ rxq \in Seq(Nat) /\ wire \in Seq(Nat) /\ txq \in Seq(Nat)
        /\ Held(Reading) \in Seq(Nat) /\ Held(Writing) \in Seq(Nat)
    BY <2>1, TypeParts, EmptySeq DEF Queues, Streams, Held
  <2>4. Ascending(up \o Held(Reading) \o rxq)
    BY <2>1, <2>2, <2>3, FlowAscends
  <2>5. Ascending(wire \o txq \o Held(Writing))
    BY <2>1, <2>2, <2>3, FlowAscends
  <2> QED
    BY <2>4, <2>5 DEF ByteOrder
<1> QED
  BY <1>1, Invariance, PTL
=============================================================================
