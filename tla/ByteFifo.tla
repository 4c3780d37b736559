------------------------------ MODULE ByteFifo ------------------------------
(***************************************************************************)
(* What a byte ring promises its two users: a bounded first-in first-out   *)
(* queue whose operations happen at one instant.  UartPort and UsbRx use   *)
(* their rings as such queues; RingBuffer is the ring the firmware really  *)
(* has, and implements this specification.                                 *)
(***************************************************************************)
EXTENDS Naturals, Sequences

CONSTANTS Bytes,     \* what a slot can hold
          Capacity,  \* bytes the queue holds at most
          NoByte     \* "no byte has been popped yet, or the queue was empty"

VARIABLES q,         \* the queued bytes, oldest first
          put,       \* what the last push returned
          got        \* what the last pop returned

fifoVars == <<q, put, got>>

PutResults == {"none", "ok", "full"}

Init == q = <<>> /\ put = "none" /\ got = NoByte

(* The queue takes a byte only while it has room. *)
Put(b) == /\ Len(q) < Capacity
          /\ q' = Append(q, b)
          /\ put' = "ok"
          /\ UNCHANGED got

(* A push is refused only when the queue is full at that instant. *)
Refuse == /\ Len(q) = Capacity
          /\ put' = "full"
          /\ UNCHANGED <<q, got>>

(* A pop returns the oldest byte, once. *)
Get == /\ q # <<>>
       /\ got' = Head(q)
       /\ q' = Tail(q)
       /\ UNCHANGED put

(* A pop fails only when the queue is empty at that instant. *)
Miss == /\ q = <<>>
        /\ got' = NoByte
        /\ UNCHANGED <<q, put>>

Clear == q' = <<>> /\ UNCHANGED <<put, got>>

Next == (\E b \in Bytes : Put(b)) \/ Refuse \/ Get \/ Miss \/ Clear

Spec == Init /\ [][Next]_fifoVars
=============================================================================
