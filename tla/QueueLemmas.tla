---------------------------- MODULE QueueLemmas ----------------------------
(***************************************************************************)
(* What Append, Head, Tail and \o do to the places of a queue.  The        *)
(* message queues of the TMOS loop, the rings and the USB queues are       *)
(* sequences, and the invariants speak of the places in them; these lemmas *)
(* turn an operation into facts about lengths and places that need nothing *)
(* else about sequences.                                                   *)
(***************************************************************************)
EXTENDS Naturals, Sequences, SequenceTheorems, TLAPS

(* r is q with e put behind it. *)
Put(q, e, r) ==
    /\ Len(q) \in Nat
    /\ Len(r) = Len(q) + 1
    /\ r[Len(q) + 1] = e
    /\ \A i \in 1 .. Len(q) : r[i] = q[i]

(* r is q without its head e. *)
Take(q, e, r) ==
    /\ Len(q) \in Nat \ {0}
    /\ Len(r) = Len(q) - 1
    /\ e = q[1]
    /\ \A i \in 1 .. Len(q) - 1 : r[i] = q[i + 1]

(* Appending puts the element last and moves nothing. *)
LEMMA AppendPuts ==
  ASSUME NEW S, NEW q \in Seq(S), NEW e \in S
  PROVE  Append(q, e) \in Seq(S) /\ Put(q, e, Append(q, e)) /\ Append(q, e) # <<>>
  BY AppendProperties, LenProperties DEF Put

(* Taking the head moves every other place forward by one. *)
LEMMA TailTakes ==
  ASSUME NEW S, NEW q \in Seq(S), q # <<>>
  PROVE  /\ Head(q) \in S /\ Tail(q) \in Seq(S)
         /\ Take(q, Head(q), Tail(q))
<1>1. /\ Head(q) \in S /\ Tail(q) \in Seq(S) /\ Len(Tail(q)) = Len(q) - 1
      /\ \A i \in 1 .. Len(Tail(q)) : Tail(q)[i] = q[i + 1]
  BY HeadTailProperties
<1>2. Len(q) \in Nat \ {0}
  BY EmptySeq
<1>3. Head(q) = q[1]
  BY <1>2
<1>4. \A i \in 1 .. Len(q) - 1 : Tail(q)[i] = q[i + 1]
  BY <1>1
<1> QED
  BY <1>1, <1>2, <1>3, <1>4 DEF Take

(* A queue is empty exactly when its length is 0, and its places hold        *)
(* elements of its set.                                                      *)
LEMMA QueuePlaces ==
  ASSUME NEW S, NEW q \in Seq(S)
  PROVE  /\ Len(q) \in Nat
         /\ q = <<>> <=> Len(q) = 0
         /\ \A i \in 1 .. Len(q) : q[i] \in S
<1>1. Len(q) \in Nat
  BY LenProperties
<1>2. q = <<>> <=> Len(q) = 0
  BY EmptySeq
<1>3. \A i \in 1 .. Len(q) : q[i] \in S
  BY ElementOfSeq
<1> QED
  BY <1>1, <1>2, <1>3

(* What is in a queue is in the longer one; what is in the longer one is the *)
(* new element or was there before.                                          *)
LEMMA PutMembers ==
  ASSUME NEW q, NEW e, NEW r, Put(q, e, r)
  PROVE  /\ \A x : (\E i \in 1 .. Len(q) : q[i] = x) => \E i \in 1 .. Len(r) : r[i] = x
         /\ \E i \in 1 .. Len(r) : r[i] = e
  BY DEF Put

(* What is in a queue is its head or in the rest of it. *)
LEMMA TakeMembers ==
  ASSUME NEW q, NEW e, NEW r, Take(q, e, r)
  PROVE  \A x : (\E i \in 1 .. Len(q) : q[i] = x) => x = e \/ \E i \in 1 .. Len(r) : r[i] = x
<1> SUFFICES ASSUME NEW x, NEW i \in 1 .. Len(q), q[i] = x, x # e
             PROVE  \E j \in 1 .. Len(r) : r[j] = x
  OBVIOUS
<1>1. i # 1 /\ i - 1 \in 1 .. Len(q) - 1 /\ (i - 1) + 1 = i
  BY DEF Take
<1>2. r[i - 1] = q[i]
  BY <1>1 DEF Take
<1> QED
  BY <1>1, <1>2 DEF Take
=============================================================================
