----------------------------- MODULE RingBuffer -----------------------------
(***************************************************************************)
(* common/ring_buffer.c, statement by statement: one producer, one         *)
(* consumer, no lock.  One of the two runs in an interrupt handler (the    *)
(* UART and USB receive rings are filled by one, the UART transmit rings   *)
(* are emptied by one), the other in the TMOS task loop, which also resets *)
(* the ring.  On this single core a handler runs to completion between two *)
(* statements of the task, so the task makes no step while the interrupt   *)
(* side is inside an operation.                                            *)
(*                                                                         *)
(* head is written by the producer only and tail by the consumer only,     *)
(* except in RingBuffer_Reset.                                             *)
(***************************************************************************)
EXTENDS Naturals, Sequences

CONSTANTS Size,         \* rb->size, slots of the storage array
          Bytes,        \* what a slot can hold
          NoByte,       \* "nothing popped"
          IsrSides,     \* the sides that may be the one in the interrupt handler
          ResetMasked   \* TRUE: the caller of Reset has disabled that interrupt
                        \* (UART CLOSE); FALSE: it has not (FLUSH_RX, FLUSH_TX)

Sides == {"producer", "consumer"}

ASSUME RingAssumption ==
    /\ Size \in Nat /\ Size >= 2
    /\ NoByte \notin Bytes
    /\ IsrSides \subseteq Sides
    /\ ResetMasked \in BOOLEAN

VARIABLES
    isr,    \* the side that runs in the interrupt handler: never changes
    buf,    \* the storage array
    head,   \* next slot to fill
    tail,   \* next slot to drain
    prod,   \* producer: [at, byte], where it is in RingBuffer_PushByte
    cons,   \* consumer: [at, byte], where it is in RingBuffer_PopByte
    reset,  \* "idle", or "tail": head is reset and tail is not yet
    put,    \* last return of RingBuffer_PushByte
    got     \* last byte returned by RingBuffer_PopByte, NoByte if it returned -1

vars == <<isr, buf, head, tail, prod, cons, reset, put, got>>

Slots == 0 .. Size - 1

-----------------------------------------------------------------------------
(* Arithmetic of indices *)

(* Mutant: the wrap comes one slot late. *)
NextIndexLate(i) == IF i + 1 > Size THEN 0 ELSE i + 1

NextIndex(i) == IF i + 1 >= Size THEN 0 ELSE i + 1

(* RingBuffer_Count on a pair of indices. *)
Count(h, t) == IF h >= t THEN h - t ELSE Size - t + h

(* The slot of the i-th oldest byte, i from 1. *)
SlotOf(t, i) == IF t + i - 1 >= Size THEN t + i - 1 - Size ELSE t + i - 1

(* The bytes that storage s queues between tail t and head h.               *)
Window(s, h, t) == [i \in 1 .. Count(h, t) |-> s[SlotOf(t, i)]]

(* The queued bytes.  Halfway through Reset the ring already counts as      *)
(* emptied: the tail that matters is the one about to be written.           *)
Base == IF reset = "tail" THEN 0 ELSE tail
Contents == Window(buf, head, Base)

-----------------------------------------------------------------------------
(* Who may run *)

TaskSideIdle == IF isr = "producer" THEN cons.at = "idle" ELSE prod.at = "idle"
IsrSideIdle  == IF isr = "producer" THEN prod.at = "idle" ELSE cons.at = "idle"

(* A handler preempts the task anywhere; the task waits for it to return.    *)
Runs(side) == side = isr \/ IsrSideIdle

(* The task is in one call at a time, and a masked handler does not start.   *)
Starts(side) ==
    /\ Runs(side)
    /\ reset # "idle" => side = isr /\ ~ResetMasked

-----------------------------------------------------------------------------
Init == /\ isr \in IsrSides
        /\ buf \in [Slots -> Bytes]
        /\ head = 0 /\ tail = 0
        /\ prod \in [at : {"idle"}, byte : Bytes]
        /\ cons = [at |-> "idle", byte |-> NoByte]
        /\ reset = "idle"
        /\ put = "none" /\ got = NoByte

(* RingBuffer_PushByte: test for room, store the byte, publish the new head. *)

(* Mutant: no test for room. *)
PushTestAlways(b) ==
    /\ prod.at = "idle" /\ Starts("producer")
    /\ prod' = [at |-> "store", byte |-> b]
    /\ UNCHANGED <<isr, buf, head, tail, cons, reset, put, got>>

PushTest(b) ==
    /\ prod.at = "idle" /\ Starts("producer")
    /\ NextIndex(head) # tail
    /\ prod' = [at |-> "store", byte |-> b]
    /\ UNCHANGED <<isr, buf, head, tail, cons, reset, put, got>>

PushRefuse ==
    /\ prod.at = "idle" /\ Starts("producer")
    /\ NextIndex(head) = tail
    /\ put' = "full"
    /\ UNCHANGED <<isr, buf, head, tail, prod, cons, reset, got>>

PushStore ==
    /\ prod.at = "store" /\ Runs("producer")
    /\ buf' = [buf EXCEPT ![head] = prod.byte]
    /\ prod' = [prod EXCEPT !.at = "publish"]
    /\ UNCHANGED <<isr, head, tail, cons, reset, put, got>>

PushPublish ==
    /\ prod.at = "publish" /\ Runs("producer")
    /\ head' = NextIndex(head)
    /\ prod' = [prod EXCEPT !.at = "idle"]
    /\ put' = "ok"
    /\ UNCHANGED <<isr, buf, tail, cons, reset, got>>

(* RingBuffer_PopByte: test for a byte, read it, release its slot.           *)
PopTest ==
    /\ cons.at = "idle" /\ Starts("consumer")
    /\ head # tail
    /\ cons' = [cons EXCEPT !.at = "load"]
    /\ UNCHANGED <<isr, buf, head, tail, prod, reset, put, got>>

PopMiss ==
    /\ cons.at = "idle" /\ Starts("consumer")
    /\ head = tail
    /\ got' = NoByte
    /\ UNCHANGED <<isr, buf, head, tail, prod, cons, reset, put>>

(* Mutant: the slot is released before it has been read, and again after.    *)
PopLoadReleased ==
    /\ cons.at = "load" /\ Runs("consumer")
    /\ tail' = NextIndex(tail)
    /\ cons' = [at |-> "release", byte |-> buf[tail]]
    /\ UNCHANGED <<isr, buf, head, prod, reset, put, got>>

PopLoad ==
    /\ cons.at = "load" /\ Runs("consumer")
    /\ cons' = [at |-> "release", byte |-> buf[tail]]
    /\ UNCHANGED <<isr, buf, head, tail, prod, reset, put, got>>

PopRelease ==
    /\ cons.at = "release" /\ Runs("consumer")
    /\ tail' = NextIndex(tail)
    /\ got' = cons.byte
    /\ cons' = [cons EXCEPT !.at = "idle"]
    /\ UNCHANGED <<isr, buf, head, prod, reset, put>>

(* RingBuffer_Reset, called by the task: head first, then tail.              *)
ResetHead ==
    /\ reset = "idle" /\ TaskSideIdle /\ IsrSideIdle
    /\ head' = 0
    /\ reset' = "tail"
    /\ UNCHANGED <<isr, buf, tail, prod, cons, put, got>>

ResetTail ==
    /\ reset = "tail" /\ IsrSideIdle
    /\ tail' = 0
    /\ reset' = "idle"
    /\ UNCHANGED <<isr, buf, head, prod, cons, put, got>>

Producer == (\E b \in Bytes : PushTest(b)) \/ PushRefuse \/ PushStore \/ PushPublish
Consumer == PopTest \/ PopMiss \/ PopLoad \/ PopRelease
Next == Producer \/ Consumer \/ ResetHead \/ ResetTail

Spec == Init /\ [][Next]_vars

-----------------------------------------------------------------------------
(* Properties *)

TypeOK ==
    /\ isr \in Sides
    /\ buf \in [Slots -> Bytes]
    /\ head \in Slots /\ tail \in Slots
    /\ prod \in [at : {"idle", "store", "publish"}, byte : Bytes]
    /\ cons \in [at : {"idle", "load", "release"}, byte : Bytes \cup {NoByte}]
    /\ reset \in {"idle", "tail"}
    /\ put \in {"none", "ok", "full"}
    /\ got \in Bytes \cup {NoByte}

(* Between the two statements of Reset the task is in no other call, and with *)
(* the handler masked nothing at all happens.                                *)
ResetAlone == reset = "tail" =>
    /\ TaskSideIdle
    /\ ResetMasked => prod.at = "idle" /\ cons.at = "idle" /\ head = 0

(* A byte being stored or published has a slot of its own: the room the      *)
(* producer saw is still there, whatever the consumer has done since.        *)
RoomKept == prod.at # "idle" => Count(head, tail) < Size - 1

(* What the producer is about to publish is the byte it was given.           *)
StoredKept == prod.at = "publish" => buf[head] = prod.byte

(* The consumer's byte is still queued, and the one it has read is still in  *)
(* the oldest slot: no push has overwritten it.                              *)
OldestKept ==
    /\ cons.at # "idle" => head # tail
    /\ cons.at = "release" => cons.byte = buf[tail]

(* No lost, duplicated, reordered or invented byte for either side: what the *)
(* two sides see is a bounded FIFO (the ring is full at Size - 1 bytes).     *)
Fifo == INSTANCE ByteFifo WITH q <- Contents, Capacity <- Size - 1
FifoSpec == Fifo!Spec

(* A pop that succeeds returns the oldest queued byte, not what an earlier   *)
(* lap left in a slot (RingBuffer_PopByte under RingBuffer_Reset).           *)
PopsOldest == [][PopRelease => Contents # <<>> /\ got' = Head(Contents)]_vars
=============================================================================
