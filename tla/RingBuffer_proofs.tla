------------------------- MODULE RingBuffer_proofs -------------------------
(***************************************************************************)
(* Proofs about RingBuffer for every ring size, byte set and assignment of *)
(* the two sides: its indices stay inside the storage array, neither side  *)
(* disturbs the slot the other one works on, and a ring whose Reset runs   *)
(* with the handler masked implements the atomic ByteFifo.                 *)
(***************************************************************************)
EXTENDS RingBuffer, SequenceTheorems, TLAPS

-----------------------------------------------------------------------------
(* Arithmetic of the indices *)

(* The successor of a slot is a slot. *)
LEMMA NextIndexSlot == \A i \in Slots : NextIndex(i) \in Slots
  BY RingAssumption DEF Slots, NextIndex

(* The count of queued bytes stays below the size of the ring, is 0 exactly *)
(* when the indices agree, and is Size - 1 exactly when the ring is full.    *)
LEMMA CountBounds ==
  ASSUME NEW h \in Slots, NEW t \in Slots
  PROVE  /\ Count(h, t) \in 0 .. Size - 1
         /\ Count(h, t) = 0 <=> h = t
         /\ Count(h, t) = Size - 1 <=> NextIndex(h) = t
  BY RingAssumption DEF Slots, NextIndex, Count

(* Publishing a head that has room adds one byte; releasing a tail removes   *)
(* one.                                                                      *)
LEMMA CountStep ==
  ASSUME NEW h \in Slots, NEW t \in Slots
  PROVE  /\ NextIndex(h) # t => Count(NextIndex(h), t) = Count(h, t) + 1
         /\ h # t => Count(h, NextIndex(t)) = Count(h, t) - 1
  BY RingAssumption DEF Slots, NextIndex, Count

(* The slots of the queued bytes are slots, differ from head, and are those  *)
(* of the next tail shifted by one; the one after the youngest is head.      *)
LEMMA SlotOfProperties ==
  ASSUME NEW h \in Slots, NEW t \in Slots
  PROVE  /\ \A i \in 1 .. Count(h, t) : SlotOf(t, i) \in Slots \ {h}
         /\ SlotOf(t, Count(h, t) + 1) = h
         /\ SlotOf(t, 1) = t
         /\ \A i \in 1 .. Count(h, t) - 1 : SlotOf(NextIndex(t), i) = SlotOf(t, i + 1)
  BY RingAssumption DEF Slots, NextIndex, Count, SlotOf

-----------------------------------------------------------------------------
(* The window of queued bytes as a sequence *)

LEMMA WindowSeq ==
  ASSUME NEW s \in [Slots -> Bytes], NEW h \in Slots, NEW t \in Slots
  PROVE  /\ Window(s, h, t) \in Seq(Bytes)
         /\ Len(Window(s, h, t)) = Count(h, t)
         /\ \A i \in 1 .. Count(h, t) : Window(s, h, t)[i] = s[SlotOf(t, i)]
<1> DEFINE n == Count(h, t)
<1>1. n \in Nat
  BY CountBounds
<1>2. \A i \in 1 .. n : s[SlotOf(t, i)] \in Bytes
  BY SlotOfProperties
<1>3. Window(s, h, t) \in [1 .. n -> Bytes]
  BY <1>2 DEF Window
<1>4. Window(s, h, t) \in Seq(Bytes)
  BY <1>1, <1>3, SeqDef
<1>5. Len(Window(s, h, t)) = n
  BY <1>1, <1>3, <1>4, LenProperties
<1> QED
  BY <1>4, <1>5 DEF Window

(* Storing into the free slot at head changes no queued byte. *)
LEMMA StoreOutside ==
  ASSUME NEW s \in [Slots -> Bytes], NEW h \in Slots, NEW t \in Slots, NEW b \in Bytes
  PROVE  Window([s EXCEPT ![h] = b], h, t) = Window(s, h, t)
  BY SlotOfProperties, CountBounds DEF Window

(* Publishing the head appends the byte stored there. *)
LEMMA PublishAppends ==
  ASSUME NEW s \in [Slots -> Bytes], NEW h \in Slots, NEW t \in Slots,
         NextIndex(h) # t
  PROVE  Window(s, NextIndex(h), t) = Append(Window(s, h, t), s[h])
<1> DEFINE w == Window(s, h, t)
           x == Window(s, NextIndex(h), t)
           n == Count(h, t)
<1>1. n \in Nat /\ Count(NextIndex(h), t) = n + 1
  BY CountBounds, CountStep
<1>2. NextIndex(h) \in Slots
  BY NextIndexSlot
<1>3. /\ w \in Seq(Bytes) /\ Len(w) = n
      /\ \A i \in 1 .. n : w[i] = s[SlotOf(t, i)]
  BY WindowSeq
<1>4. /\ x \in Seq(Bytes) /\ Len(x) = n + 1
      /\ \A i \in 1 .. n + 1 : x[i] = s[SlotOf(t, i)]
  BY <1>1, <1>2, WindowSeq, SMTT(30)
<1>5. SlotOf(t, n + 1) = h
  BY SlotOfProperties
<1>6. /\ Append(w, s[h]) \in Seq(Bytes) /\ Len(Append(w, s[h])) = n + 1
      /\ \A i \in 1 .. n : Append(w, s[h])[i] = w[i]
      /\ Append(w, s[h])[n + 1] = s[h]
  BY <1>3, AppendProperties
<1>7. \A i \in 1 .. n + 1 : x[i] = Append(w, s[h])[i]
  BY <1>1, <1>3, <1>4, <1>5, <1>6
<1> QED
  BY <1>4, <1>6, <1>7, SeqEqual

(* Releasing the tail of a non-empty ring removes its oldest byte. *)
LEMMA ReleaseTails ==
  ASSUME NEW s \in [Slots -> Bytes], NEW h \in Slots, NEW t \in Slots, h # t
  PROVE  /\ Window(s, h, t) # <<>>
         /\ Head(Window(s, h, t)) = s[t]
         /\ Window(s, h, NextIndex(t)) = Tail(Window(s, h, t))
<1> DEFINE w == Window(s, h, t)
           x == Window(s, h, NextIndex(t))
           n == Count(h, t)
<1>1. n \in Nat \ {0} /\ Count(h, NextIndex(t)) = n - 1
  BY CountBounds, CountStep
<1>2. NextIndex(t) \in Slots
  BY NextIndexSlot
<1>3. /\ w \in Seq(Bytes) /\ Len(w) = n
      /\ \A i \in 1 .. n : w[i] = s[SlotOf(t, i)]
  BY WindowSeq
<1>4. /\ x \in Seq(Bytes) /\ Len(x) = n - 1
      /\ \A i \in 1 .. n - 1 : x[i] = s[SlotOf(NextIndex(t), i)]
  BY <1>1, <1>2, WindowSeq, SMTT(30)
<1>5. w # <<>>
  BY <1>1, <1>3, EmptySeq
<1>6. w[1] = s[t]
  BY <1>1, <1>3, SlotOfProperties
<1>7. Head(w) = w[1]
  BY <1>5, <1>3
<1>8. \A i \in 1 .. n - 1 : x[i] = w[i + 1]
  BY <1>1, <1>3, <1>4, SlotOfProperties
<1>9. /\ Tail(w) \in Seq(Bytes) /\ Len(Tail(w)) = n - 1
      /\ \A i \in 1 .. n - 1 : Tail(w)[i] = w[i + 1]
  BY <1>3, <1>5, HeadTailProperties
<1>10. x = Tail(w)
  BY <1>4, <1>8, <1>9, SeqEqual
<1> QED
  BY <1>5, <1>6, <1>7, <1>10

(* Equal indices queue nothing. *)
LEMMA EqualIndicesEmpty ==
  ASSUME NEW s \in [Slots -> Bytes], NEW h \in Slots
  PROVE  Window(s, h, h) = <<>>
<1>1. Count(h, h) = 0
  BY CountBounds
<1> QED
  BY <1>1, WindowSeq, EmptySeq

-----------------------------------------------------------------------------
(* The inductive invariant *)

(* What the two sides rely on, one conjunct per thing a step of the other    *)
(* could spoil.                                                              *)
RingInv == TypeOK /\ ResetAlone /\ RoomKept /\ StoredKept /\ OldestKept

(* The inductive invariant holds at the start. *)
LEMMA InitRingInv == Init => RingInv
  BY RingAssumption
     DEF Init, RingInv, TypeOK, ResetAlone, RoomKept, StoredKept, OldestKept, Slots

(* Every statement keeps the types. *)
LEMMA TypeStep == TypeOK /\ [Next]_vars => TypeOK'
<1> SUFFICES ASSUME TypeOK, [Next]_vars PROVE TypeOK'
  OBVIOUS
<1> USE DEF TypeOK
<1>0. head \in Slots /\ tail \in Slots /\ 0 \in Slots
  BY RingAssumption DEF Slots
<1>1. NextIndex(head) \in Slots /\ NextIndex(tail) \in Slots
  BY <1>0, NextIndexSlot
<1>2. ASSUME NEW b \in Bytes, PushTest(b) PROVE TypeOK'
  BY <1>2 DEF PushTest
<1>3. CASE PushRefuse
  BY <1>3 DEF PushRefuse
<1>4. CASE PushStore
  BY <1>4 DEF PushStore
<1>5. CASE PushPublish
  BY <1>1, <1>5 DEF PushPublish
<1>6. CASE PopTest
  BY <1>6 DEF PopTest
<1>7. CASE PopMiss
  BY <1>7 DEF PopMiss
<1>8. CASE PopLoad
  BY <1>0, <1>8 DEF PopLoad
<1>9. CASE PopRelease
  BY <1>1, <1>9 DEF PopRelease
<1>10. CASE ResetHead
  BY <1>0, <1>10 DEF ResetHead
<1>11. CASE ResetTail
  BY <1>0, <1>11 DEF ResetTail
<1>12. CASE UNCHANGED vars
  BY <1>12 DEF vars
<1> QED
  BY <1>2, <1>3, <1>4, <1>5, <1>6, <1>7, <1>8, <1>9, <1>10, <1>11, <1>12
     DEF Next, Producer, Consumer

(* Every statement keeps the inductive invariant. *)
LEMMA RingInvStep == RingInv /\ [Next]_vars => RingInv'
<1> SUFFICES ASSUME RingInv, [Next]_vars PROVE RingInv'
  OBVIOUS
<1> USE DEF ResetAlone, RoomKept, StoredKept, OldestKept, TaskSideIdle, IsrSideIdle
<1>0. TypeOK /\ TypeOK'
  BY TypeStep DEF RingInv
<1>1. /\ ResetAlone /\ RoomKept /\ StoredKept /\ OldestKept
      /\ isr \in Sides /\ buf \in [Slots -> Bytes]
      /\ head \in Slots /\ tail \in Slots
      /\ prod \in [at : {"idle", "store", "publish"}, byte : Bytes]
      /\ cons \in [at : {"idle", "load", "release"}, byte : Bytes \cup {NoByte}]
      /\ reset \in {"idle", "tail"}
  BY DEF RingInv, TypeOK
<1>2. /\ Count(head, tail) \in 0 .. Size - 1
      /\ Count(head, tail) = 0 <=> head = tail
      /\ Count(head, tail) = Size - 1 <=> NextIndex(head) = tail
      /\ head # tail => Count(head, NextIndex(tail)) = Count(head, tail) - 1
  BY <1>1, CountBounds, CountStep
<1>3. ResetAlone'
  <2>1. ASSUME NEW b \in Bytes, PushTest(b) PROVE ResetAlone'
    BY <1>1, <2>1 DEF PushTest, Starts, Runs, Sides
  <2>2. CASE PopTest
    BY <1>1, <2>2 DEF PopTest, Starts, Runs, Sides
  <2>3. CASE PushStore
    BY <1>1, <2>3 DEF PushStore, Sides
  <2>4. CASE PushPublish
    BY <1>1, <2>4 DEF PushPublish, Sides
  <2>5. CASE PopLoad
    BY <1>1, <2>5 DEF PopLoad, Sides
  <2>6. CASE PopRelease
    BY <1>1, <2>6 DEF PopRelease, Sides
  <2>7. CASE ResetHead
    BY <1>1, <2>7 DEF ResetHead, Sides
  <2>8. CASE PushRefuse \/ PopMiss \/ ResetTail \/ UNCHANGED vars
    BY <1>1, <2>8 DEF PushRefuse, PopMiss, ResetTail, vars
  <2> QED
    BY <2>1, <2>2, <2>3, <2>4, <2>5, <2>6, <2>7, <2>8 DEF Next, Producer, Consumer
<1>4. RoomKept'
  <2>1. ASSUME NEW b \in Bytes, PushTest(b) PROVE RoomKept'
    BY <1>1, <1>2, <2>1, RingAssumption DEF PushTest
  <2>2. CASE PopRelease
    BY <1>1, <1>2, <2>2, RingAssumption DEF PopRelease
  <2>3. CASE ResetHead \/ ResetTail
    BY <1>1, <2>3 DEF ResetHead, ResetTail, Sides
  <2>4. CASE PushRefuse \/ PushStore \/ PushPublish
    BY <1>1, <2>4 DEF PushRefuse, PushStore, PushPublish
  <2>5. CASE PopTest \/ PopMiss \/ PopLoad \/ UNCHANGED vars
    BY <1>1, <2>5 DEF PopTest, PopMiss, PopLoad, vars
  <2> QED
    BY <2>1, <2>2, <2>3, <2>4, <2>5 DEF Next, Producer, Consumer
<1>5. StoredKept'
  <2>1. ASSUME NEW b \in Bytes, PushTest(b) PROVE StoredKept'
    BY <1>1, <2>1 DEF PushTest
  <2>2. CASE PushStore
    BY <1>1, <2>2 DEF PushStore
  <2>3. CASE ResetHead \/ ResetTail
    BY <1>1, <2>3 DEF ResetHead, ResetTail, Sides
  <2>4. CASE PushRefuse \/ PushPublish
    BY <1>1, <2>4 DEF PushRefuse, PushPublish
  <2>5. CASE Consumer \/ UNCHANGED vars
    BY <1>1, <2>5 DEF Consumer, PopTest, PopMiss, PopLoad, PopRelease, vars
  <2> QED
    BY <2>1, <2>2, <2>3, <2>4, <2>5 DEF Next, Producer
<1>6. OldestKept'
  <2>1. ASSUME NEW b \in Bytes, PushTest(b) PROVE OldestKept'
    BY <1>1, <2>1 DEF PushTest
  <2>2. CASE PushStore
    BY <1>1, <2>2 DEF PushStore
  <2>3. CASE PushPublish
    BY <1>1, <1>2, <2>3, RingAssumption DEF PushPublish
  <2>4. CASE PopTest \/ PopMiss \/ PopLoad \/ PopRelease
    BY <1>1, <2>4 DEF PopTest, PopMiss, PopLoad, PopRelease
  <2>5. CASE ResetHead \/ ResetTail
    BY <1>1, <2>5 DEF ResetHead, ResetTail, Sides
  <2>6. CASE PushRefuse \/ UNCHANGED vars
    BY <1>1, <2>6 DEF PushRefuse, vars
  <2> QED
    BY <2>1, <2>2, <2>3, <2>4, <2>5, <2>6 DEF Next, Producer, Consumer
<1> QED
  BY <1>0, <1>3, <1>4, <1>5, <1>6 DEF RingInv

(* The inductive invariant always holds. *)
LEMMA RingInvAlways == Spec => []RingInv
  BY InitRingInv, RingInvStep, PTL DEF Spec

-----------------------------------------------------------------------------
(* Theorems *)

(* Every index stays inside the storage array (RingBuffer_PushByte and       *)
(* RingBuffer_PopByte never leave rb->buf), whatever the interleaving.       *)
THEOREM TypeCorrect == Spec => []TypeOK
<1>1. RingInv => TypeOK
  BY DEF RingInv
<1> QED
  BY <1>1, RingInvAlways, PTL

(* The room RingBuffer_PushByte saw is still there when it publishes.        *)
THEOREM RoomIsKept == Spec => []RoomKept
<1>1. RingInv => RoomKept
  BY DEF RingInv
<1> QED
  BY <1>1, RingInvAlways, PTL

(* The byte RingBuffer_PopByte reads is not overwritten before its slot is   *)
(* released.                                                                 *)
THEOREM OldestIsKept == Spec => []OldestKept
<1>1. RingInv => OldestKept
  BY DEF RingInv
<1> QED
  BY <1>1, RingInvAlways, PTL

-----------------------------------------------------------------------------
(* The ring implements the atomic queue *)

(* With the handler masked during Reset the ring is in no operation then. *)
LEMMA MaskedQuiet ==
  ASSUME ResetMasked, RingInv
  PROVE  /\ prod.at # "idle" => reset = "idle"
         /\ cons.at # "idle" => reset = "idle"
         /\ Starts("producer") \/ Starts("consumer") => reset = "idle"
  BY DEF RingInv, TypeOK, ResetAlone, Starts

(* An empty ring is an empty queue. *)
LEMMA RefinementInit == Init => Fifo!Init
<1> SUFFICES ASSUME Init PROVE Contents = <<>>
  BY DEF Init, Fifo!Init
<1>1. /\ buf \in [Slots -> Bytes] /\ 0 \in Slots
      /\ head = 0 /\ Base = 0
  BY RingAssumption DEF Init, Base, Slots
<1> QED
  BY <1>1, EqualIndicesEmpty DEF Contents

(* Every statement is a step of the queue or leaves its contents alone. *)
LEMMA RefinementStep ==
  ASSUME ResetMasked, RingInv, RingInv', [Next]_vars
  PROVE  [Fifo!Next]_(Fifo!fifoVars)
<1> USE DEF Fifo!fifoVars
<1>1. /\ RoomKept /\ StoredKept /\ OldestKept /\ ResetAlone
      /\ buf \in [Slots -> Bytes] /\ head \in Slots /\ tail \in Slots
      /\ prod \in [at : {"idle", "store", "publish"}, byte : Bytes]
      /\ cons \in [at : {"idle", "load", "release"}, byte : Bytes \cup {NoByte}]
      /\ reset \in {"idle", "tail"}
  BY DEF RingInv, TypeOK
<1>2. reset = "idle" => Contents = Window(buf, head, tail)
  BY DEF Contents, Base
<1>3. /\ Contents \in Seq(Bytes)
      /\ reset = "idle" => Len(Contents) = Count(head, tail)
  <2>1. Base \in Slots
    BY <1>1, RingAssumption DEF Base, Slots
  <2> QED
    BY <1>1, <2>1, <1>2, WindowSeq DEF Contents
<1>4. ASSUME NEW b \in Bytes, PushTest(b) PROVE UNCHANGED Fifo!fifoVars
  BY <1>4 DEF PushTest, Contents, Base
<1>5. CASE PushRefuse
  <2>1. reset = "idle" /\ NextIndex(head) = tail
    BY <1>5, MaskedQuiet DEF PushRefuse
  <2>2. Len(Contents) = Size - 1
    BY <1>1, <1>3, <2>1, CountBounds
  <2>3. UNCHANGED <<Contents, got>> /\ put' = "full"
    BY <1>5 DEF PushRefuse, Contents, Base
  <2> QED
    BY <2>2, <2>3 DEF Fifo!Next, Fifo!Refuse
<1>6. CASE PushStore
  <2>1. reset = "idle" /\ reset' = "idle"
    BY <1>1, <1>6, MaskedQuiet DEF PushStore
  <2>2. buf' = [buf EXCEPT ![head] = prod.byte] /\ prod.byte \in Bytes
    BY <1>1, <1>6 DEF PushStore
  <2>3. Contents' = Window(buf', head, tail)
    BY <1>6, <2>1 DEF PushStore, Contents, Base
  <2>4. Contents' = Contents
    BY <1>1, <1>2, <2>1, <2>2, <2>3, StoreOutside
  <2> QED
    BY <2>4, <1>6 DEF PushStore
<1>7. CASE PushPublish
  <2>1. reset = "idle" /\ reset' = "idle"
    BY <1>1, <1>7, MaskedQuiet DEF PushPublish
  <2>2. NextIndex(head) # tail /\ Len(Contents) < Size - 1
    BY <1>1, <1>3, <1>7, <2>1, CountBounds DEF PushPublish, RoomKept
  <2>3. Contents' = Window(buf, NextIndex(head), tail)
    BY <1>7, <2>1 DEF PushPublish, Contents, Base
  <2>4. buf[head] = prod.byte /\ prod.byte \in Bytes
    BY <1>1, <1>7 DEF PushPublish, StoredKept
  <2>5. Contents' = Append(Contents, prod.byte)
    BY <1>1, <1>2, <2>1, <2>2, <2>3, <2>4, PublishAppends
  <2>6. Fifo!Put(prod.byte)
    BY <1>7, <2>2, <2>5 DEF PushPublish, Fifo!Put
  <2> QED
    BY <2>4, <2>6 DEF Fifo!Next
<1>8. CASE PopTest \/ PopLoad
  BY <1>8 DEF PopTest, PopLoad, Contents, Base
<1>9. CASE PopMiss
  <2>1. reset = "idle" /\ head = tail
    BY <1>9, MaskedQuiet DEF PopMiss
  <2>2. Contents = <<>>
    BY <1>1, <1>2, <2>1, EqualIndicesEmpty
  <2>3. UNCHANGED <<Contents, put>> /\ got' = NoByte
    BY <1>9 DEF PopMiss, Contents, Base
  <2> QED
    BY <2>2, <2>3 DEF Fifo!Next, Fifo!Miss
<1>10. CASE PopRelease
  <2>1. reset = "idle" /\ reset' = "idle"
    BY <1>1, <1>10, MaskedQuiet DEF PopRelease
  <2>2. head # tail /\ cons.byte = buf[tail]
    BY <1>1, <1>10 DEF PopRelease, OldestKept
  <2>3. Contents' = Window(buf, head, NextIndex(tail))
    BY <1>10, <2>1 DEF PopRelease, Contents, Base
  <2>4. /\ Contents # <<>>
        /\ cons.byte = Head(Contents)
        /\ Contents' = Tail(Contents)
    BY <1>1, <1>2, <2>1, <2>2, <2>3, ReleaseTails
  <2> QED
    BY <1>10, <2>4 DEF PopRelease, Fifo!Next, Fifo!Get
<1>11. CASE ResetHead
  <2>1. /\ Contents' = Window(buf, 0, 0) /\ 0 \in Slots
        /\ UNCHANGED <<put, got>>
    BY <1>11, RingAssumption DEF ResetHead, Contents, Base, Slots
  <2>2. Contents' = <<>>
    BY <1>1, <2>1, EqualIndicesEmpty
  <2> QED
    BY <2>1, <2>2 DEF Fifo!Next, Fifo!Clear
<1>12. CASE ResetTail
  BY <1>1, <1>12 DEF ResetTail, Contents, Base
<1>13. CASE UNCHANGED vars
  BY <1>13 DEF vars, Contents, Base
<1> QED
  BY <1>4, <1>5, <1>6, <1>7, <1>8, <1>9, <1>10, <1>11, <1>12, <1>13
     DEF Next, Producer, Consumer

(* A ring whose Reset is called with the other side's interrupt disabled     *)
(* (UART CLOSE) is a bounded FIFO of Size - 1 bytes to both its users.       *)
THEOREM RingIsFifo ==
  ASSUME ResetMasked
  PROVE  Spec => FifoSpec
<1>1. RingInv /\ RingInv' /\ [Next]_vars => [Fifo!Next]_(Fifo!fifoVars)
  BY RefinementStep
<1> QED
  BY <1>1, RefinementInit, RingInvAlways, PTL DEF Spec, FifoSpec, Fifo!Spec
=============================================================================
