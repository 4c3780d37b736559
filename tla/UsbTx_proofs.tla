---------------------------- MODULE UsbTx_proofs ----------------------------
(***************************************************************************)
(* Proofs about UsbTx for every queue depth, frame length, number of       *)
(* frames and number of bus resets, one of which may hit the task between  *)
(* any two of its accesses to the endpoints: the types, endpoints that are *)
(* armed when they are busy, a hint that neither lies nor forgets, frames  *)
(* that are not lost, and the host's stream of whole frames in order.      *)
(***************************************************************************)
EXTENDS UsbTx, QueueLemmas

-----------------------------------------------------------------------------
(* The inductive invariant *)

(* The stretches of SendFrame and LoadEp2Chunk in which a variable holds.    *)
Loading   == {"loadLen", "loadCopy", "loadOff", "loadTxLen", "loadArm"}
OffZeroed == {"sendActive", "loadLen", "loadCopy", "loadOff"}
Copied    == {"loadOff", "loadTxLen", "loadArm"}

(* A queue holds frames of its own, numbered in their order; the queue that  *)
(* was chosen still has the frame.                                           *)
Own(q, c, s) == \A i \in 1 .. Len(q) : q[i].id \in 1 .. s - 1 /\ q[i].cls = c /\ q[i].n # 0
Ascending(q) == \A i, j \in 1 .. Len(q) : i < j => q[i].id < q[j].id
QueueInv ==
    /\ \A c \in Classes : Own(queue[c], c, seq) /\ Ascending(queue[c])
    /\ at \in {"sendCopy"} \cup SendPoints => queue[cls] # <<>>

(* No frame but a real one is sent, and ep2_tx_off stays in the buffer, even *)
(* when a bus reset has upset SendFrame.                                     *)
SourceInv ==
    /\ at \in SendPoints \/ ep2.active \/ ep2.len # 0 => ep2.stage.id # 0
    /\ ep2.txlen = 1 \/ (chunk = 1 /\ at \in Copied) => ep2.dma.frame.id # 0
    /\ at \in OffZeroed => ep2.off <= MaxChunks

HintInv ==
    /\ at \in HintPoints => ep1.dma = [pending |-> pending, dropped |-> dropped]
    /\ ~dirty => ep1.dma.pending = pending
    /\ dropped # {} => dirty
    /\ ~torn => /\ ep1.armed => ep1.busy /\ at \notin HintPoints
                /\ at \in {"hintLen", "hintArm"} => ep1.busy
                /\ at = "hintArm" => ep1.len = 1
                /\ untold \subseteq dropped \cup (IF ep1.armed THEN HintOut.dropped ELSE {})

(* The armed endpoint holds chunk off of the staged frame; SendFrame gets    *)
(* there step by step, the frame still being the first of its queue.         *)
InFlight == /\ ep2.active /\ at \notin SendPoints
            /\ ep2.dma = [frame |-> ep2.stage, k |-> ep2.off] /\ ep2.txlen = 1
            /\ ep2.len = ep2.stage.n /\ ep2.off \in 1 .. ep2.len
FlightInv == ~torn =>
    /\ ep2.armed => InFlight
    /\ at \in SendPoints => ep2.stage = queue[cls][1]
    /\ at \in {"sendLen", "sendOff", "sendActive"} => ~ep2.active
    /\ at \in Loading => ep2.active
    /\ at \in SendPoints \ {"sendLen"} => ep2.len = ep2.stage.n
    /\ at \in OffZeroed => ep2.off = 0
    /\ at \in Loading \ {"loadLen"} => chunk = 1
    /\ at \in Copied => ep2.dma = [frame |-> ep2.stage, k |-> 1]
    /\ at \in {"loadTxLen", "loadArm"} => ep2.off = 1
    /\ at = "loadArm" => ep2.txlen = 1

(* The stream stands at a frame's end unless the next chunk follows it; its  *)
(* frames come before the staged one, and both before what is queued.        *)
Packets == [frame : Frames, k : 0 .. MaxChunks + 1]
Below(id, q) == \A i \in 1 .. Len(q) : id < q[i].id
Whole(s) == s = <<>> \/ s[Len(s)].k = s[Len(s)].frame.n
StreamInv == ~torn => LET s == host.stream IN
    /\ \A i \in 1 .. Len(s) : s[i].frame.id < seq
    /\ \A i \in 1 .. Len(s) : Below(s[i].frame.id, queue[s[i].frame.cls])
    /\ ep2.armed =>
         /\ ep2.stage.id < seq /\ Below(ep2.stage.id, queue[ep2.stage.cls])
         /\ \A i \in 1 .. Len(s) : s[i].frame.cls = ep2.stage.cls =>
              s[i].frame.id < ep2.stage.id \/ (s[i].frame = ep2.stage /\ s[i].k < ep2.off)
    /\ ~ep2.armed \/ ep2.off = 1 => Whole(s)
    /\ ep2.armed /\ ep2.off # 1 => s # <<>> /\ s[Len(s)] = [frame |-> ep2.stage, k |-> ep2.off - 1]

IInv ==
    /\ TypeOK /\ host \in [tog : {0, 1}, stream : Seq(Packets)]
    /\ QueueInv /\ SourceInv /\ BusyArmed /\ HintInv /\ FlightInv /\ FrameKept
    /\ StreamInv /\ HostStream

-----------------------------------------------------------------------------
(* Sequences of frames and of packets *)

Queues  == Seq(Frames)
Streams == Seq(Packets)

(* The queues of frames are made by Put and Take. *)
LEMMA QueueFacts ==
  /\ \A q, f : q \in Queues /\ f \in Frames => Append(q, f) \in Queues /\ Put(q, f, Append(q, f))
  /\ \A q : q \in Queues /\ q # <<>> =>
        Head(q) \in Frames /\ Tail(q) \in Queues /\ Take(q, Head(q), Tail(q))
  /\ \A q : q \in Queues => /\ Len(q) \in Nat /\ (q = <<>> <=> Len(q) = 0)
                            /\ \A i \in 1 .. Len(q) : q[i] \in Frames
<1>1. ASSUME NEW q \in Queues, NEW f \in Frames
      PROVE  Append(q, f) \in Queues /\ Put(q, f, Append(q, f))
  BY AppendPuts DEF Queues
<1>2. ASSUME NEW q \in Queues, q # <<>>
      PROVE  Head(q) \in Frames /\ Tail(q) \in Queues /\ Take(q, Head(q), Tail(q))
  BY <1>2, TailTakes DEF Queues
<1>3. ASSUME NEW q \in Queues
      PROVE  /\ Len(q) \in Nat /\ (q = <<>> <=> Len(q) = 0)
             /\ \A i \in 1 .. Len(q) : q[i] \in Frames
  BY QueuePlaces DEF Queues
<1> QED
  BY <1>1, <1>2, <1>3

(* What the host has read is made by Put. *)
LEMMA StreamFacts ==
  /\ \A q, e : q \in Streams /\ e \in Packets =>
        Append(q, e) \in Streams /\ Put(q, e, Append(q, e)) /\ Append(q, e) # <<>>
  /\ \A q : q \in Streams => /\ Len(q) \in Nat /\ (q = <<>> <=> Len(q) = 0)
                             /\ \A i \in 1 .. Len(q) : q[i] \in Packets
<1>1. ASSUME NEW q \in Streams, NEW e \in Packets
      PROVE  Append(q, e) \in Streams /\ Put(q, e, Append(q, e)) /\ Append(q, e) # <<>>
  BY AppendPuts DEF Streams
<1>2. ASSUME NEW q \in Streams
      PROVE  /\ Len(q) \in Nat /\ (q = <<>> <=> Len(q) = 0)
             /\ \A i \in 1 .. Len(q) : q[i] \in Packets
  BY QueuePlaces DEF Streams
<1> QED
  BY <1>1, <1>2

-----------------------------------------------------------------------------
(* Types, part by part *)


Hints  == [pending : SUBSET Classes, dropped : SUBSET Classes]
Ep1Type == [busy : BOOLEAN, dma : Hints, len : {0, 1}, armed : BOOLEAN]
Ep2Type == [active : BOOLEAN, len : 0 .. MaxChunks, off : 0 .. MaxChunks + 1, stage : Frames,
            dma : Packets, txlen : {0, 1}, armed : BOOLEAN]

QueuesOK  == queue \in [Classes -> Queues] /\ \A c \in Classes : Len(queue[c]) <= Depth
BitsOK    == pending \subseteq Classes /\ dropped \subseteq Classes /\ dirty \in BOOLEAN
TaskOK    == at \in Points /\ cls \in Classes /\ chunk \in {0, 1}
HostOK    == host \in [tog : {0, 1}, stream : Streams] /\ done \subseteq 1 .. MaxFrames
ResetOK   == /\ cut \subseteq 1 .. MaxFrames /\ untold \subseteq Classes
             /\ resets \in 0 .. MaxResets /\ torn \in BOOLEAN /\ configured \in BOOLEAN
Types == /\ QueuesOK /\ seq \in 1 .. MaxFrames + 1 /\ BitsOK /\ TaskOK /\ ResetOK
         /\ ep1 \in Ep1Type /\ ep2 \in Ep2Type /\ HostOK

(* Types is TypeOK and the type of the host. *)
LEMMA TypeParts ==
  /\ Types <=> TypeOK /\ host \in [tog : {0, 1}, stream : Seq(Packets)]
  /\ Types' <=> TypeOK' /\ host' \in [tog : {0, 1}, stream : Seq(Packets)]
<1>1. Types => TypeOK /\ host \in [tog : {0, 1}, stream : Seq(Packets)]
  BY DEF Types, TypeOK, Queues, Streams, Packets, Hints, Ep1Type, Ep2Type, QueuesOK, BitsOK,
         TaskOK, HostOK, ResetOK
<1>2. TypeOK /\ host \in [tog : {0, 1}, stream : Seq(Packets)] => Types
  BY DEF Types, TypeOK, Queues, Streams, Packets, Hints, Ep1Type, Ep2Type, QueuesOK, BitsOK,
         TaskOK, HostOK, ResetOK
<1>3. Types' => TypeOK' /\ host' \in [tog : {0, 1}, stream : Seq(Packets)]
  BY DEF Types, TypeOK, Queues, Streams, Packets, Hints, Ep1Type, Ep2Type, QueuesOK, BitsOK,
         TaskOK, HostOK, ResetOK
<1>4. TypeOK' /\ host' \in [tog : {0, 1}, stream : Seq(Packets)] => Types'
  BY DEF Types, TypeOK, Queues, Streams, Packets, Hints, Ep1Type, Ep2Type, QueuesOK, BitsOK,
         TaskOK, HostOK, ResetOK
<1> QED
  BY <1>1, <1>2, <1>3, <1>4

-----------------------------------------------------------------------------
(* What the steps do to the frames' path *)

(* The fields of EP2 after a step. *)
Ep2Becomes(active, len, off, stage, dma, txlen, armed) ==
    /\ ep2'.active = active /\ ep2'.len = len /\ ep2'.off = off /\ ep2'.stage = stage
    /\ ep2'.dma = dma /\ ep2'.txlen = txlen /\ ep2'.armed = armed

(* The rest of the frames' path; LoadArm alone pops a queue.                 *)
PathKept  == UNCHANGED <<queue, seq, cls, host, done, cut, torn>>

(* What each statement of USBDEV_SendFrame does to EP2. *)
LEMMA SendSteps ==
  ASSUME ep2 \in Ep2Type
  PROVE  /\ SendCopy => /\ PathKept /\ chunk' = chunk /\ at = "sendCopy" /\ at' = "sendLen"
                        /\ ~ep2.active
                        /\ Ep2Becomes(ep2.active, ep2.len, ep2.off, Head(queue[cls]), ep2.dma,
                                      ep2.txlen, ep2.armed)
         /\ SendLen => /\ PathKept /\ chunk' = chunk /\ at = "sendLen" /\ at' = "sendOff"
                       /\ Ep2Becomes(ep2.active, ep2.stage.n, ep2.off, ep2.stage, ep2.dma,
                                     ep2.txlen, ep2.armed)
         /\ SendOff => /\ PathKept /\ chunk' = chunk /\ at = "sendOff" /\ at' = "sendActive"
                       /\ Ep2Becomes(ep2.active, ep2.len, 0, ep2.stage, ep2.dma,
                                     ep2.txlen, ep2.armed)
         /\ SendActive => /\ PathKept /\ chunk' = chunk /\ at = "sendActive" /\ at' = "loadLen"
                          /\ Ep2Becomes(TRUE, ep2.len, ep2.off, ep2.stage, ep2.dma,
                                        ep2.txlen, ep2.armed)
  BY DEF SendCopy, SendLen, SendOff, SendActive, Step, CanSendFrame, PathKept, Ep2Becomes, Ep2Type,
         queueVars, ghostVars

(* What each statement of USBDEV_LoadEp2Chunk does to EP2. *)
LEMMA LoadSteps ==
  ASSUME ep2 \in Ep2Type
  PROVE  /\ LoadLen => /\ PathKept /\ chunk' = NextChunk(ep2)
                       /\ at = "loadLen" /\ at' = "loadCopy" /\ ep2' = ep2
         /\ LoadCopy => /\ PathKept /\ chunk' = chunk /\ at = "loadCopy" /\ at' = "loadOff"
                        /\ Ep2Becomes(ep2.active, ep2.len, ep2.off, ep2.stage, ChunkAt(ep2, chunk),
                                      ep2.txlen, ep2.armed)
         /\ LoadOff => /\ PathKept /\ chunk' = chunk /\ at = "loadOff" /\ at' = "loadTxLen"
                       /\ Ep2Becomes(ep2.active, ep2.len, ep2.off + chunk, ep2.stage, ep2.dma,
                                     ep2.txlen, ep2.armed)
         /\ LoadTxLen => /\ PathKept /\ chunk' = chunk /\ at = "loadTxLen" /\ at' = "loadArm"
                         /\ Ep2Becomes(ep2.active, ep2.len, ep2.off, ep2.stage, ep2.dma,
                                       chunk, ep2.armed)
         /\ LoadArm => /\ UNCHANGED <<seq, cls, host, done, cut, torn>> /\ chunk' = chunk
                       /\ at = "loadArm" /\ at' = "idle"
                       /\ queue' = [queue EXCEPT ![cls] = Tail(@)]
                       /\ Ep2Becomes(ep2.active, ep2.len, ep2.off, ep2.stage, ep2.dma,
                                     ep2.txlen, TRUE)
  BY DEF LoadLen, LoadCopy, LoadOff, LoadTxLen, LoadArm, Step, PathKept, Ep2Becomes, Ep2Type,
         devVars, queueVars, ghostVars

(* What a bus reset and an IN on EP2 do to EP2 and to the host. *)
LEMMA UsbSteps ==
  ASSUME ep2 \in Ep2Type
  PROVE  /\ BusReset => /\ UNCHANGED <<queue, seq, at, cls, chunk, done>> /\ host' = HostStart
                        /\ cut' = cut \cup OnItsWay
                        /\ torn' = (torn \/ at \in HintPoints \cup SendPoints)
                        /\ Ep2Becomes(FALSE, 0, 0, ep2.stage, ep2.dma, 0, FALSE)
         /\ Ep2In => /\ UNCHANGED <<queue, seq, at, cls, chunk, cut, torn>> /\ ep2.armed /\ HostTakes
                     /\ IF ep2.off < ep2.len
                        THEN Ep2Becomes(ep2.active, ep2.len, ep2.off + 1, ep2.stage,
                                        [frame |-> ep2.stage, k |-> ep2.off + 1], 1, ep2.armed)
                        ELSE Ep2Becomes(FALSE, ep2.len, ep2.off, ep2.stage, ep2.dma, 0, FALSE)
<1>1. ASSUME BusReset
      PROVE  /\ UNCHANGED <<queue, seq, at, cls, chunk, done>> /\ host' = HostStart
             /\ cut' = cut \cup OnItsWay
             /\ torn' = (torn \/ at \in HintPoints \cup SendPoints)
             /\ Ep2Becomes(FALSE, 0, 0, ep2.stage, ep2.dma, 0, FALSE)
  <2>1. Ep2Becomes(FALSE, 0, 0, ep2.stage, ep2.dma, 0, FALSE)
    BY <1>1 DEF BusReset, Ep2Reset, Ep2Becomes, Ep2Type
  <2> QED
    BY <1>1, <2>1, Zenon DEF BusReset, taskVars, queueVars
<1>2. ASSUME Ep2In
      PROVE  /\ UNCHANGED <<queue, seq, at, cls, chunk, cut, torn>> /\ ep2.armed /\ HostTakes
             /\ IF ep2.off < ep2.len
                THEN Ep2Becomes(ep2.active, ep2.len, ep2.off + 1, ep2.stage,
                                [frame |-> ep2.stage, k |-> ep2.off + 1], 1, ep2.armed)
                ELSE Ep2Becomes(FALSE, ep2.len, ep2.off, ep2.stage, ep2.dma, 0, FALSE)
  <2>1. UNCHANGED <<queue, seq, at, cls, chunk, cut, torn>> /\ ep2.armed /\ HostTakes
    BY <1>2 DEF Ep2In, taskVars, queueVars
  <2>2. CASE ep2.off < ep2.len
    <3> DEFINE c == [frame |-> ep2.stage, k |-> ep2.off + 1]
    <3>1. ep2' = [ep2 EXCEPT !.dma = c, !.off = ep2.off + 1, !.txlen = 1]
      BY <1>2, <2>2 DEF Ep2In, ChunkAt, Ep2Type
    <3>2. Ep2Becomes(ep2.active, ep2.len, ep2.off + 1, ep2.stage, c, 1, ep2.armed)
      <4> HIDE DEF c
      <4> QED
        BY <3>1 DEF Ep2Becomes, Ep2Type
    <3> QED
      BY <2>1, <2>2, <3>2
  <2>3. CASE ~(ep2.off < ep2.len)
    BY <1>2, <2>1, <2>3 DEF Ep2In, Ep2Becomes, Ep2Type
  <2> QED
    BY <2>1, <2>2, <2>3
<1> QED
  BY <1>1, <1>2

(* Every other step leaves the frames' path alone, outside SendFrame.        *)
FrameQuiet ==
    /\ UNCHANGED <<queue, seq, ep2, chunk, done, cut, torn>> /\ host'.stream = host.stream
    /\ \/ at' = at /\ cls' = cls
       \/ /\ at \notin SendPoints /\ at' \notin SendPoints
          /\ at' = "sendCopy" => queue[cls'] # <<>>

(* A step leaves the path of the frames alone or is one of those above. *)
LEMMA FrameSteps ==
  ASSUME HostOK, [Next]_vars
  PROVE  \/ FrameQuiet
         \/ \E c \in Classes, n \in 1 .. MaxChunks : Enqueue(c, n)
         \/ SendCopy \/ SendLen \/ SendOff \/ SendActive
         \/ LoadLen \/ LoadCopy \/ LoadOff \/ LoadTxLen \/ LoadArm
         \/ BusReset \/ Ep2In
<1> USE DEF FrameQuiet, queueVars, taskVars, devVars, ghostVars
<1>1. CASE Queue
  <2>1. ASSUME NEW c \in Traffic, Refuse(c) PROVE FrameQuiet
    BY <2>1 DEF Refuse
  <2> QED
    BY <1>1, <2>1, UsbTxAssumption DEF Queue
<1>2. CASE ProcessStart \/ HintSkip \/ HintBegin \/ HintReject \/ HintCopy \/ HintBusy \/ HintLen
           \/ HintArm
  BY <1>2 DEF ProcessStart, HintSkip, HintBegin, HintReject, HintCopy, HintBusy, HintLen, HintArm,
              Step, SendPoints
<1>3. CASE FrameSkip \/ FrameChoose \/ SendReject
  BY <1>3 DEF FrameSkip, FrameChoose, SendReject, Step, SendPoints
<1>4. CASE SetConfiguration
  BY <1>4 DEF SetConfiguration
<1>5. CASE Ep1In
  BY <1>5 DEF Ep1In, HostOK
<1>6. CASE UNCHANGED vars
  BY <1>6 DEF vars
<1> QED
  BY <1>1, <1>2, <1>3, <1>4, <1>5, <1>6 DEF Next, ProcessStep, Usb

-----------------------------------------------------------------------------
(* Types *)

LEMMA TypeQueues == Types /\ QueueInv /\ [Next]_vars => QueuesOK' /\ seq' \in 1 .. MaxFrames + 1
<1> SUFFICES ASSUME Types, QueueInv, [Next]_vars
             PROVE  QueuesOK' /\ seq' \in 1 .. MaxFrames + 1
  OBVIOUS
<1> USE UsbTxAssumption
<1>1. QueuesOK /\ seq \in 1 .. MaxFrames + 1 /\ HostOK /\ cls \in Classes /\ ep2 \in Ep2Type
  BY DEF Types, TaskOK
<1>2. ASSUME NEW c \in Classes, NEW n \in 1 .. MaxChunks, Enqueue(c, n)
      PROVE  QueuesOK' /\ seq' \in 1 .. MaxFrames + 1
  <2> DEFINE f == [id |-> seq, cls |-> c, n |-> n]
  <2>1. seq <= MaxFrames /\ seq' = seq + 1 /\ Len(queue[c]) < Depth
        /\ queue' = [queue EXCEPT ![c] = Append(queue[c], f)]
    BY <1>2 DEF Enqueue
  <2>2. f \in Frames /\ queue[c] \in Queues
    BY <1>1, <2>1 DEF Frames, QueuesOK
  <2>3. Append(queue[c], f) \in Queues /\ Len(Append(queue[c], f)) <= Depth
    BY <2>1, <2>2, QueueFacts DEF Put
  <2> HIDE DEF f
  <2> QED
    BY <1>1, <2>1, <2>3 DEF QueuesOK
<1>3. CASE LoadArm
  <2>1. queue' = [queue EXCEPT ![cls] = Tail(queue[cls])] /\ seq' = seq /\ queue[cls] # <<>>
    BY <1>1, <1>3, LoadSteps DEF QueueInv, SendPoints
  <2>2. queue[cls] \in Queues
    BY <1>1 DEF QueuesOK
  <2>3. Tail(queue[cls]) \in Queues /\ Len(Tail(queue[cls])) <= Depth
    <3>1. Len(Tail(queue[cls])) = Len(queue[cls]) - 1 /\ Len(queue[cls]) \in Nat
          /\ Len(queue[cls]) <= Depth /\ Tail(queue[cls]) \in Queues
      BY <1>1, <2>1, <2>2, QueueFacts DEF Take, QueuesOK
    <3> QED
      BY <3>1
  <2> QED
    BY <1>1, <2>1, <2>3 DEF QueuesOK
<1>4. ASSUME UNCHANGED <<queue, seq>> PROVE QueuesOK' /\ seq' \in 1 .. MaxFrames + 1
  BY <1>1, <1>4 DEF QueuesOK
<1> QED
  BY <1>1, <1>2, <1>3, <1>4, FrameSteps, SendSteps, LoadSteps, UsbSteps DEF FrameQuiet, PathKept

(* Every step keeps the type of EP2. *)
LEMMA TypeEp2 == Types /\ QueueInv /\ SourceInv /\ [Next]_vars => ep2' \in Ep2Type
<1> SUFFICES ASSUME Types, QueueInv, SourceInv, [Next]_vars PROVE ep2' \in Ep2Type
  OBVIOUS
<1> USE UsbTxAssumption
<1>1. ep2 \in Ep2Type /\ chunk \in {0, 1} /\ queue[cls] \in Queues /\ HostOK
  BY DEF Types, TaskOK, QueuesOK
<1>2. CASE SendCopy
  <2>1. Head(queue[cls]) \in Frames
    BY <1>1, <1>2, QueueFacts, SendSteps DEF QueueInv
  <2> QED
    BY <1>1, <1>2, <2>1 DEF SendCopy, Ep2Type
<1>3. CASE SendLen
  <2>1. ep2.stage.n \in 0 .. MaxChunks
    BY <1>1 DEF Ep2Type, Frames
  <2> QED
    BY <1>1, <1>3, <2>1 DEF SendLen, Ep2Type
<1>4. CASE SendOff
  BY <1>1, <1>4 DEF SendOff, Ep2Type
<1>5. CASE SendActive
  BY <1>1, <1>5 DEF SendActive, Ep2Type
<1>6. CASE LoadCopy
  <2>1. ep2.off + 1 \in 0 .. MaxChunks + 1
    <3>1. at \in OffZeroed
      BY <1>1, <1>6, LoadSteps DEF OffZeroed
    <3>2. ep2.off \in Nat /\ ep2.off <= MaxChunks
      BY <1>1, <3>1 DEF SourceInv, Ep2Type
    <3> QED
      BY <1>1, <3>2
  <2>2. ChunkAt(ep2, chunk) \in Packets
    BY <1>1, <2>1 DEF ChunkAt, Packets, Ep2Type
  <2> QED
    BY <1>1, <1>6, <2>2 DEF LoadCopy, Ep2Type
<1>7. CASE LoadOff
  <2>1. ep2.off + chunk \in 0 .. MaxChunks + 1
    <3>1. at \in OffZeroed
      BY <1>1, <1>7, LoadSteps DEF OffZeroed
    <3>2. ep2.off \in Nat /\ ep2.off <= MaxChunks
      BY <1>1, <3>1 DEF SourceInv, Ep2Type
    <3> QED
      BY <1>1, <3>2
  <2> QED
    BY <1>1, <1>7, <2>1 DEF LoadOff, Ep2Type
<1>8. CASE LoadTxLen
  BY <1>1, <1>8 DEF LoadTxLen, Ep2Type
<1>9. CASE LoadArm
  BY <1>1, <1>9 DEF LoadArm, Ep2Type
<1>10. CASE BusReset
  <2>1. 0 \in 0 .. MaxChunks /\ 0 \in 0 .. MaxChunks + 1
    OBVIOUS
  <2> QED
    BY <1>1, <1>10, <2>1 DEF BusReset, Ep2Reset, Ep2Type
<1>11. CASE Ep2In
  <2>1. CASE ep2.off < ep2.len
    <3> DEFINE c == [frame |-> ep2.stage, k |-> ep2.off + 1]
    <3>1. ep2.off + 1 \in 0 .. MaxChunks + 1
      BY <1>1, <2>1 DEF Ep2Type
    <3>2. c \in Packets
      BY <1>1, <3>1 DEF Packets, Ep2Type
    <3>3. ep2' = [ep2 EXCEPT !.dma = c, !.off = ep2.off + 1, !.txlen = 1]
      BY <1>1, <1>11, <2>1 DEF Ep2In, ChunkAt, Ep2Type
    <3> HIDE DEF c
    <3> QED
      BY <1>1, <3>1, <3>2, <3>3 DEF Ep2Type
  <2>2. CASE ~(ep2.off < ep2.len)
    BY <1>1, <1>11, <2>2 DEF Ep2In, Ep2Type
  <2> QED
    BY <2>1, <2>2
<1>12. CASE ep2' = ep2
  BY <1>1, <1>12
<1> QED
  BY <1>1, <1>2, <1>3, <1>4, <1>5, <1>6, <1>7, <1>8, <1>9, <1>10, <1>11, <1>12, FrameSteps, LoadSteps
     DEF FrameQuiet, Enqueue, devVars

(* Every step keeps the type of EP1 and of the bitmaps. *)
LEMMA TypeEp1 == Types /\ [Next]_vars => ep1' \in Ep1Type /\ BitsOK'
<1> SUFFICES ASSUME Types, [Next]_vars PROVE ep1' \in Ep1Type /\ BitsOK'
  OBVIOUS
<1>1. ep1 \in Ep1Type /\ BitsOK
  BY DEF Types
<1>2. ASSUME UNCHANGED <<ep1, pending, dropped, dirty>> PROVE ep1' \in Ep1Type /\ BitsOK'
  BY <1>1, <1>2 DEF BitsOK
<1>3. ASSUME UNCHANGED <<ep1, dropped>>, UpdatePending(queue') PROVE ep1' \in Ep1Type /\ BitsOK'
  <2>1. dirty' \in BOOLEAN
    BY <1>1, <1>3, Zenon DEF UpdatePending, BitsOK
  <2> QED
    BY <1>1, <1>3, <2>1 DEF UpdatePending, PendingOf, BitsOK
<1>4. ASSUME NEW c \in Traffic, Refuse(c) PROVE ep1' \in Ep1Type /\ BitsOK'
  <2>1. dirty' \in BOOLEAN
    BY <1>4, Zenon DEF Refuse
  <2> QED
    BY <1>1, <1>4, <2>1, UsbTxAssumption DEF Refuse, devVars, BitsOK
<1>5. CASE HintCopy
  BY <1>1, <1>5 DEF HintCopy, queueVars, BitsOK, Ep1Type, Hints
<1>6. CASE HintBusy \/ HintLen
  BY <1>1, <1>6 DEF HintBusy, HintLen, queueVars, BitsOK, Ep1Type
<1>7. CASE HintArm
  <2>1. dirty' \in BOOLEAN
    BY <1>7, Zenon DEF HintArm
  <2> QED
    BY <1>1, <1>7, <2>1 DEF HintArm, BitsOK, Ep1Type
<1>8. CASE Ep1In
  BY <1>1, <1>8 DEF Ep1In, queueVars, BitsOK, Ep1Type
<1>9. CASE BusReset
  BY <1>1, <1>9 DEF BusReset, Ep1Reset, queueVars, BitsOK, Ep1Type
<1>10. CASE Queue
  BY <1>3, <1>4, <1>10 DEF Queue, Enqueue, devVars
<1>11. CASE LoadArm
  BY <1>3, <1>11 DEF LoadArm
<1>12. CASE SendCopy \/ SendLen \/ SendOff \/ SendActive \/ LoadLen \/ LoadCopy \/ LoadOff \/ LoadTxLen
  BY <1>2, <1>12 DEF SendCopy, SendLen, SendOff, SendActive, LoadLen, LoadCopy, LoadOff, LoadTxLen,
                     queueVars, devVars
<1>13. CASE ProcessStart \/ HintSkip \/ HintBegin \/ HintReject \/ FrameSkip \/ FrameChoose \/ SendReject
  BY <1>2, <1>13 DEF ProcessStart, HintSkip, HintBegin, HintReject, FrameSkip, FrameChoose, SendReject,
                     queueVars, devVars
<1>14. CASE SetConfiguration \/ Ep2In \/ UNCHANGED vars
  BY <1>2, <1>14 DEF SetConfiguration, Ep2In, vars, queueVars, devVars
<1> QED
  BY <1>5, <1>6, <1>7, <1>8, <1>9, <1>10, <1>11, <1>12, <1>13, <1>14 DEF Next, ProcessStep, Usb

(* Every step keeps the types of queues, seq and the task. *)
LEMMA TypeTask == Types /\ [Next]_vars => TaskOK' /\ configured' \in BOOLEAN
<1> SUFFICES ASSUME Types, [Next]_vars PROVE TaskOK' /\ configured' \in BOOLEAN
  OBVIOUS
<1>1. TaskOK /\ configured \in BOOLEAN
  BY DEF Types, ResetOK
<1>2. CASE Queue
  BY <1>1, <1>2 DEF Queue, Refuse, Enqueue, taskVars, devVars, TaskOK
<1>3. CASE ProcessStart \/ HintSkip \/ HintBegin \/ HintReject \/ HintCopy \/ HintBusy \/ HintLen
           \/ HintArm
  BY <1>1, <1>3 DEF ProcessStart, HintSkip, HintBegin, HintReject, HintCopy, HintBusy, HintLen,
                    HintArm, Step, TaskOK, Points, HintPoints, devVars
<1>4. CASE FrameSkip \/ FrameChoose \/ SendReject
  BY <1>1, <1>4 DEF FrameSkip, FrameChoose, SendReject, Step, TaskOK, Points, devVars
<1>5. CASE SendCopy \/ SendLen \/ SendOff \/ SendActive
  BY <1>1, <1>5 DEF SendCopy, SendLen, SendOff, SendActive, Step, TaskOK, Points, SendPoints
<1>6. CASE LoadLen \/ LoadCopy \/ LoadOff \/ LoadTxLen \/ LoadArm
  BY <1>1, <1>6 DEF LoadLen, LoadCopy, LoadOff, LoadTxLen, LoadArm, NextChunk, Step, TaskOK, Points,
                    SendPoints, devVars
<1>7. CASE BusReset \/ SetConfiguration
  <2>1. configured' \in BOOLEAN
    BY <1>7, Zenon DEF BusReset, SetConfiguration
  <2> QED
    BY <1>1, <1>7, <2>1 DEF BusReset, SetConfiguration, taskVars, TaskOK
<1>8. CASE Ep1In \/ Ep2In
  BY <1>1, <1>8 DEF Ep1In, Ep2In, taskVars, TaskOK
<1>9. CASE UNCHANGED vars
  BY <1>1, <1>9 DEF vars, taskVars, devVars, TaskOK
<1> QED
  BY <1>2, <1>3, <1>4, <1>5, <1>6, <1>7, <1>8, <1>9 DEF Next, ProcessStep, Usb

(* What the host takes in: nothing, or the packet of the endpoint.           *)
LEMMA HostSteps ==
  ASSUME Types, SourceInv, Ep2In
  PROVE  \/ /\ ep2.txlen = 0 /\ host' = host /\ done' = done
         \/ /\ ep2.txlen = 1 /\ ep2.dma \in Packets /\ ep2.dma.frame.id \in 1 .. MaxFrames
            /\ host' \in [tog : {0, 1}, stream : Streams]
            /\ host'.stream = Append(host.stream, ep2.dma)
            /\ Put(host.stream, ep2.dma, host'.stream) /\ host'.stream # <<>>
            /\ done' = IF ep2.dma.k = ep2.dma.frame.n THEN done \cup {ep2.dma.frame.id} ELSE done
<1>1. ep2 \in Ep2Type /\ host \in [tog : {0, 1}, stream : Streams] /\ HostTakes
  BY UsbSteps DEF Types, HostOK
<1>2. CASE ep2.txlen = 0
  BY <1>1, <1>2 DEF HostTakes
<1>3. CASE ep2.txlen # 0
  <2>1. ep2.txlen = 1 /\ ep2.dma \in Packets /\ host.stream \in Streams
    BY <1>1, <1>3 DEF Ep2Type
  <2>2. ep2.dma.frame.id \in 1 .. MaxFrames
    <3>1. ep2.dma.frame.id \in 0 .. MaxFrames /\ ep2.dma.frame.id # 0
      BY <2>1 DEF Packets, Frames, SourceInv
    <3> QED
      BY <3>1, UsbTxAssumption
  <2>3. host' = [host EXCEPT !.stream = Append(host.stream, ep2.dma)]
    BY <1>1, <1>3 DEF HostTakes, Packet
  <2>4. /\ Append(host.stream, ep2.dma) \in Streams /\ Append(host.stream, ep2.dma) # <<>>
        /\ Put(host.stream, ep2.dma, Append(host.stream, ep2.dma))
    BY <2>1, StreamFacts
  <2>5. host' \in [tog : {0, 1}, stream : Streams] /\ host'.stream = Append(host.stream, ep2.dma)
    BY <1>1, <2>3, <2>4
  <2>6. done' = IF ep2.dma.k = ep2.dma.frame.n THEN done \cup {ep2.dma.frame.id} ELSE done
    BY <1>1, <1>3 DEF HostTakes, Packet
  <2> QED
    BY <2>1, <2>2, <2>4, <2>5, <2>6
<1> QED
  BY <1>2, <1>3

(* Every step keeps the type of the host. *)
LEMMA TypeHost == Types /\ SourceInv /\ [Next]_vars => HostOK'
<1> SUFFICES ASSUME Types, SourceInv, [Next]_vars PROVE HostOK'
  OBVIOUS
<1>1. HostOK /\ ep2 \in Ep2Type
  BY DEF Types
<1>2. CASE Ep2In
  BY <1>1, <1>2, HostSteps DEF HostOK
<1>3. CASE BusReset
  <2>1. <<>> \in Streams
    BY EmptySeq DEF Streams
  <2>2. HostStart \in [tog : {0, 1}, stream : Streams]
    BY <2>1 DEF HostStart
  <2>3. host' = HostStart /\ done' = done
    BY <1>1, <1>3, UsbSteps
  <2> QED
    BY <1>1, <2>2, <2>3 DEF HostOK
<1>4. CASE Ep1In
  BY <1>1, <1>4 DEF Ep1In, HostOK
<1>5. ASSUME UNCHANGED <<host, done>> PROVE HostOK'
  BY <1>1, <1>5 DEF HostOK
<1>6. CASE Queue
  BY <1>5, <1>6 DEF Queue, Refuse, Enqueue, ghostVars
<1>7. CASE ProcessStart \/ HintSkip \/ HintBegin \/ HintReject \/ HintCopy \/ HintBusy \/ HintLen
           \/ HintArm \/ FrameSkip \/ FrameChoose \/ SendReject \/ SetConfiguration
  BY <1>5, <1>7 DEF ProcessStart, HintSkip, HintBegin, HintReject, HintCopy, HintBusy, HintLen,
                    HintArm, FrameSkip, FrameChoose, SendReject, SetConfiguration, ghostVars
<1>8. CASE SendCopy \/ SendLen \/ SendOff \/ SendActive \/ LoadLen \/ LoadCopy \/ LoadOff \/ LoadTxLen
           \/ LoadArm
  BY <1>5, <1>8 DEF SendCopy, SendLen, SendOff, SendActive, LoadLen, LoadCopy, LoadOff, LoadTxLen,
                    LoadArm, ghostVars
<1>9. CASE UNCHANGED vars
  BY <1>5, <1>9 DEF vars, ghostVars
<1> QED
  BY <1>2, <1>3, <1>4, <1>6, <1>7, <1>8, <1>9 DEF Next, ProcessStep, Usb

(* Every step keeps the types of what a reset records. *)
LEMMA TypeReset == Types /\ SourceInv /\ [Next]_vars => ResetOK'
<1> SUFFICES ASSUME Types, SourceInv, [Next]_vars PROVE ResetOK'
  OBVIOUS
<1>1. ResetOK /\ configured' \in BOOLEAN
  BY TypeTask DEF Types
<1>2. ASSUME UNCHANGED <<cut, untold, resets, torn>> PROVE ResetOK'
  BY <1>1, <1>2 DEF ResetOK
<1>3. CASE BusReset
  <2>1. OnItsWay \subseteq 1 .. MaxFrames
    <3>1. ep2.active => ep2.stage.id \in 0 .. MaxFrames /\ ep2.stage.id # 0
      BY DEF Types, Ep2Type, Frames, SourceInv
    <3> QED
      BY <3>1, UsbTxAssumption DEF OnItsWay
  <2>2. torn' \in BOOLEAN
    BY <1>3, Zenon DEF BusReset
  <2>3. /\ cut' = cut \cup OnItsWay /\ untold' = {} /\ resets < MaxResets /\ resets' = resets + 1
    BY <1>3 DEF BusReset
  <2> QED
    BY <1>1, <2>1, <2>2, <2>3, UsbTxAssumption DEF ResetOK
<1>4. CASE Ep1In
  BY <1>1, <1>4 DEF Ep1In, ResetOK
<1>5. ASSUME NEW c \in Traffic, Refuse(c) PROVE ResetOK'
  BY <1>1, <1>5, UsbTxAssumption DEF Refuse, ResetOK
<1>6. CASE Queue
  BY <1>2, <1>5, <1>6 DEF Queue, Enqueue, ghostVars
<1>7. CASE ProcessStart \/ HintSkip \/ HintBegin \/ HintReject \/ HintCopy \/ HintBusy \/ HintLen
           \/ HintArm \/ FrameSkip \/ FrameChoose \/ SendReject \/ SetConfiguration
  BY <1>2, <1>7 DEF ProcessStart, HintSkip, HintBegin, HintReject, HintCopy, HintBusy, HintLen,
                    HintArm, FrameSkip, FrameChoose, SendReject, SetConfiguration, ghostVars
<1>8. CASE SendCopy \/ SendLen \/ SendOff \/ SendActive \/ LoadLen \/ LoadCopy \/ LoadOff \/ LoadTxLen
           \/ LoadArm
  BY <1>2, <1>8 DEF SendCopy, SendLen, SendOff, SendActive, LoadLen, LoadCopy, LoadOff, LoadTxLen,
                    LoadArm, ghostVars
<1>9. CASE Ep2In \/ UNCHANGED vars
  BY <1>2, <1>9 DEF Ep2In, vars, ghostVars
<1> QED
  BY <1>3, <1>4, <1>6, <1>7, <1>8, <1>9 DEF Next, ProcessStep, Usb

(* Every step keeps the types. *)
LEMMA TypeStep == Types /\ QueueInv /\ SourceInv /\ [Next]_vars => Types'
  BY TypeQueues, TypeEp2, TypeEp1, TypeTask, TypeHost, TypeReset DEF Types

-----------------------------------------------------------------------------
(* The queues *)

LEMMA PutOwn ==
  ASSUME NEW q, NEW f, NEW r, NEW c, NEW s, s \in Nat \ {0}, Put(q, f, r),
         Own(q, c, s), Ascending(q), f.id = s, f.cls = c, f.n # 0
  PROVE  Own(r, c, s + 1) /\ Ascending(r)
<1>1. /\ \A i \in 1 .. Len(r) : (i \in 1 .. Len(q) /\ r[i] = q[i]) \/ (i = Len(r) /\ r[i] = f)
      /\ \A i \in 1 .. Len(r) : ~(Len(r) < i)
  BY DEF Put
<1>2. Own(r, c, s + 1)
  BY <1>1 DEF Own
<1>3. ASSUME NEW i \in 1 .. Len(r), NEW j \in 1 .. Len(r), i < j PROVE r[i].id < r[j].id
  <2>1. i \in 1 .. Len(q) /\ r[i] = q[i]
    BY <1>1, <1>3
  <2>2. CASE j \in 1 .. Len(q) /\ r[j] = q[j]
    BY <1>3, <2>1, <2>2 DEF Ascending
  <2>3. CASE r[j] = f
    BY <2>1, <2>3 DEF Own
  <2> QED
    BY <1>1, <2>2, <2>3
<1> QED
  BY <1>2, <1>3 DEF Ascending

(* A queue without its head holds frames of its own class, in the order of   *)
(* seq.                                                                      *)
LEMMA TakeOwn ==
  ASSUME NEW q, NEW f, NEW r, NEW c, NEW s, Take(q, f, r), Own(q, c, s), Ascending(q)
  PROVE  Own(r, c, s) /\ Ascending(r)
<1>1. /\ \A i \in 1 .. Len(r) : i + 1 \in 1 .. Len(q) /\ r[i] = q[i + 1]
      /\ \A i, j \in 1 .. Len(r) : i < j => i + 1 < j + 1
  BY DEF Take
<1>2. Own(r, c, s)
  BY <1>1 DEF Own
<1>3. Ascending(r)
  BY <1>1 DEF Ascending
<1> QED
  BY <1>2, <1>3

(* The frame goes behind its queue; LoadArm takes the head of its own.       *)
LEMMA EnqueueDoes ==
  ASSUME Types, NEW c \in Classes, NEW n \in 1 .. MaxChunks, Enqueue(c, n)
  PROVE  \E f \in Frames :
           /\ f.id = seq /\ f.cls = c /\ f.n = n
           /\ Put(queue[c], f, queue'[c]) /\ \A b \in Classes : b # c => queue'[b] = queue[b]
           /\ queue' = [queue EXCEPT ![c] = Append(queue[c], f)]
           /\ seq' = seq + 1 /\ at = "idle"
           /\ UNCHANGED <<at, cls, chunk, ep2, host, done, cut, torn>>
<1> DEFINE f == [id |-> seq, cls |-> c, n |-> n]
<1>1. seq <= MaxFrames /\ queue \in [Classes -> Queues] /\ seq \in 1 .. MaxFrames + 1
  BY DEF Types, QueuesOK, Enqueue
<1>2. f \in Frames
  BY <1>1, UsbTxAssumption DEF Frames
<1>3. f.id = seq /\ f.cls = c /\ f.n = n
  OBVIOUS
<1>4. /\ queue' = [queue EXCEPT ![c] = Append(queue[c], f)] /\ seq' = seq + 1 /\ at = "idle"
      /\ UNCHANGED <<at, cls, chunk, ep2, host, done, cut, torn>>
  BY DEF Enqueue, taskVars, devVars, ghostVars
<1> HIDE DEF f
<1>5. Put(queue[c], f, queue'[c]) /\ \A b \in Classes : b # c => queue'[b] = queue[b]
  BY <1>1, <1>2, <1>4, QueueFacts
<1> QED
  BY <1>2, <1>3, <1>4, <1>5

(* With the first chunk armed the frame leaves its queue. *)
LEMMA LoadArmDoes ==
  ASSUME Types, QueueInv, LoadArm
  PROVE  /\ Take(queue[cls], queue[cls][1], queue'[cls])
         /\ \A b \in Classes : b # cls => queue'[b] = queue[b]
         /\ cls \in Classes
<1>1. queue \in [Classes -> Queues] /\ cls \in Classes /\ at = "loadArm" /\ ep2 \in Ep2Type
      /\ queue' = [queue EXCEPT ![cls] = Tail(queue[cls])]
  BY DEF Types, QueuesOK, TaskOK, LoadArm, Step
<1>2. Take(queue[cls], Head(queue[cls]), Tail(queue[cls]))
  BY <1>1, QueueFacts DEF QueueInv, SendPoints
<1>3. Take(queue[cls], queue[cls][1], Tail(queue[cls]))
  BY <1>2 DEF Take
<1> QED
  BY <1>1, <1>3

(* Every step keeps the queues in order and the sent frame at the head. *)
LEMMA QueueStep == Types /\ QueueInv /\ [Next]_vars => QueueInv'
<1> SUFFICES ASSUME Types, QueueInv, [Next]_vars PROVE QueueInv'
  OBVIOUS
<1>1. HostOK /\ seq \in Nat \ {0} /\ ep2 \in Ep2Type /\ queue \in [Classes -> Queues]
  BY UsbTxAssumption DEF Types, QueuesOK
<1>2. ASSUME NEW c \in Classes, NEW n \in 1 .. MaxChunks, Enqueue(c, n) PROVE QueueInv'
  <2>1. PICK f \in Frames :
           /\ f.id = seq /\ f.cls = c /\ f.n = n
           /\ Put(queue[c], f, queue'[c]) /\ \A b \in Classes : b # c => queue'[b] = queue[b]
           /\ seq' = seq + 1 /\ at = "idle" /\ at' = at
    BY <1>2, EnqueueDoes
  <2>2. Own(queue'[c], c, seq') /\ Ascending(queue'[c])
    <3>1. Own(queue[c], c, seq) /\ Ascending(queue[c]) /\ f.n # 0
      BY <2>1 DEF QueueInv
    <3> QED
      BY <1>1, <2>1, <3>1, PutOwn
  <2>3. ASSUME NEW b \in Classes, b # c PROVE Own(queue'[b], b, seq') /\ Ascending(queue'[b])
    <3>1. Own(queue[b], b, seq) /\ Ascending(queue[b]) /\ queue'[b] = queue[b]
      BY <2>1, <2>3 DEF QueueInv
    <3> QED
      BY <1>1, <2>1, <3>1 DEF Own
  <2> QED
    BY <2>1, <2>2, <2>3 DEF QueueInv, SendPoints
<1>3. CASE LoadArm
  <2>1. /\ Take(queue[cls], queue[cls][1], queue'[cls]) /\ cls \in Classes
        /\ \A b \in Classes : b # cls => queue'[b] = queue[b]
    BY <1>3, LoadArmDoes
  <2>2. seq' = seq /\ at' = "idle"
    BY <1>1, <1>3, LoadSteps
  <2>3. Own(queue'[cls], cls, seq) /\ Ascending(queue'[cls])
    BY <2>1, TakeOwn DEF QueueInv
  <2> QED
    BY <2>1, <2>2, <2>3 DEF QueueInv, SendPoints
<1>4. ASSUME UNCHANGED <<queue, seq, cls>>, at \in {"sendCopy"} \cup SendPoints
      PROVE  QueueInv'
  BY <1>4 DEF QueueInv
<1>5. CASE FrameQuiet
  BY <1>5 DEF FrameQuiet, QueueInv
<1>6. CASE BusReset \/ Ep2In
  BY <1>1, <1>6, UsbSteps DEF QueueInv
<1>7. CASE SendCopy \/ SendLen \/ SendOff \/ SendActive
  BY <1>1, <1>4, <1>7, SendSteps DEF PathKept, SendPoints
<1>8. CASE LoadLen \/ LoadCopy \/ LoadOff \/ LoadTxLen
  BY <1>1, <1>4, <1>8, LoadSteps DEF PathKept, SendPoints
<1> QED
  BY <1>1, <1>2, <1>3, <1>5, <1>6, <1>7, <1>8, FrameSteps

-----------------------------------------------------------------------------
(* The frame that is sent is a real one *)

LEMMA SourceStep == Types /\ QueueInv /\ SourceInv /\ [Next]_vars => SourceInv'
<1> SUFFICES ASSUME Types, QueueInv, SourceInv, [Next]_vars PROVE SourceInv'
  OBVIOUS
<1>1. HostOK /\ ep2 \in Ep2Type /\ chunk \in {0, 1} /\ cls \in Classes /\ queue[cls] \in Queues
      /\ ep2.len \in Nat /\ ep2.len <= MaxChunks /\ ep2.off \in Nat
  BY UsbTxAssumption DEF Types, TaskOK, QueuesOK, Ep2Type
<1>2. CASE FrameQuiet
  BY <1>2 DEF FrameQuiet, SourceInv, OffZeroed, Copied, SendPoints
<1>3. ASSUME NEW c \in Classes, NEW n \in 1 .. MaxChunks, Enqueue(c, n) PROVE SourceInv'
  <2>1. UNCHANGED <<at, chunk, ep2>>
    BY <1>3 DEF Enqueue, taskVars, devVars
  <2> QED
    BY <2>1 DEF SourceInv
<1>4. CASE SendCopy
  <2>1. queue[cls] # <<>> /\ Head(queue[cls]) = queue[cls][1] /\ 1 \in 1 .. Len(queue[cls])
    BY <1>1, <1>4, SendSteps, QueueFacts DEF QueueInv, Take
  <2>2. Head(queue[cls]).id # 0
    BY <1>1, <2>1 DEF QueueInv, Own
  <2> QED
    BY <1>1, <1>4, <2>2, SendSteps DEF Ep2Becomes, SourceInv, OffZeroed, Copied
<1>5. CASE SendLen
  BY <1>1, <1>5, SendSteps DEF Ep2Becomes, SourceInv, OffZeroed, Copied, SendPoints
<1>6. CASE SendOff
  BY <1>1, <1>6, SendSteps, UsbTxAssumption DEF Ep2Becomes, SourceInv, OffZeroed, Copied, SendPoints
<1>7. CASE SendActive
  BY <1>1, <1>7, SendSteps DEF Ep2Becomes, SourceInv, OffZeroed, Copied, SendPoints
<1>8. CASE LoadLen
  BY <1>1, <1>8, LoadSteps DEF SourceInv, OffZeroed, Copied, SendPoints
<1>9. CASE LoadCopy
  BY <1>1, <1>9, LoadSteps DEF Ep2Becomes, SourceInv, OffZeroed, Copied, SendPoints, ChunkAt
<1>10. CASE LoadOff
  BY <1>1, <1>10, LoadSteps DEF Ep2Becomes, SourceInv, OffZeroed, Copied, SendPoints
<1>11. CASE LoadTxLen
  BY <1>1, <1>11, LoadSteps DEF Ep2Becomes, SourceInv, OffZeroed, Copied, SendPoints
<1>12. CASE LoadArm
  BY <1>1, <1>12, LoadSteps DEF Ep2Becomes, SourceInv, OffZeroed, Copied, SendPoints
<1>13. CASE BusReset
  <2>1. ep2'.off <= MaxChunks
    BY <1>1, <1>13, UsbSteps, UsbTxAssumption DEF Ep2Becomes
  <2>2. /\ UNCHANGED <<at, chunk>> /\ ep2'.stage = ep2.stage /\ ep2'.dma = ep2.dma
        /\ ep2'.active = FALSE /\ ep2'.len = 0 /\ ep2'.txlen = 0
    BY <1>1, <1>13, UsbSteps DEF Ep2Becomes
  <2> QED
    BY <2>1, <2>2 DEF SourceInv
<1>14. CASE Ep2In
  <2>1. UNCHANGED <<at, chunk>>
    BY <1>1, <1>14, UsbSteps
  <2>2. CASE ep2.off < ep2.len
    <3>1. /\ ep2'.stage = ep2.stage /\ ep2'.dma.frame = ep2.stage /\ ep2'.off = ep2.off + 1
      BY <1>1, <1>14, <2>2, UsbSteps DEF Ep2Becomes
    <3>2. ep2.len # 0 /\ ep2.off + 1 <= MaxChunks
      BY <1>1, <2>2, UsbTxAssumption
    <3> QED
      BY <2>1, <3>1, <3>2 DEF SourceInv
  <2>3. CASE ~(ep2.off < ep2.len)
    <3>1. /\ ep2'.stage = ep2.stage /\ ep2'.dma = ep2.dma /\ ep2'.off = ep2.off
          /\ ep2'.active = FALSE /\ ep2'.len = ep2.len /\ ep2'.txlen = 0
      BY <1>1, <1>14, <2>3, UsbSteps DEF Ep2Becomes
    <3> QED
      BY <2>1, <3>1 DEF SourceInv
  <2> QED
    BY <2>2, <2>3
<1> QED
  BY <1>1, <1>2, <1>3, <1>4, <1>5, <1>6, <1>7, <1>8, <1>9, <1>10, <1>11, <1>12, <1>13, <1>14, FrameSteps

-----------------------------------------------------------------------------
(* Busy endpoints are armed *)

LEMMA Armed1Step == (Types /\ [Next]_vars /\ (ep1.busy /\ at \notin HintPoints => ep1.armed))
                      => (ep1'.busy /\ at' \notin HintPoints => ep1'.armed)
<1> SUFFICES ASSUME Types, [Next]_vars, ep1.busy /\ at \notin HintPoints => ep1.armed
             PROVE  ep1'.busy /\ at' \notin HintPoints => ep1'.armed
  OBVIOUS
<1> USE DEF HintPoints
<1>1. ep1 \in Ep1Type
  BY DEF Types
<1>2. CASE Queue
  BY <1>2 DEF Queue, Refuse, Enqueue, taskVars, devVars
<1>3. CASE ProcessStart \/ HintSkip \/ HintBegin \/ HintReject
  BY <1>3 DEF ProcessStart, HintSkip, HintBegin, HintReject, Step, devVars
<1>4. CASE HintCopy \/ HintBusy \/ HintLen \/ HintArm
  BY <1>1, <1>4 DEF HintCopy, HintBusy, HintLen, HintArm, Step, Ep1Type
<1>5. CASE FrameSkip \/ FrameChoose \/ SendReject
  BY <1>5 DEF FrameSkip, FrameChoose, SendReject, Step, devVars
<1>6. CASE SendCopy \/ SendLen \/ SendOff \/ SendActive \/ LoadLen \/ LoadCopy \/ LoadOff \/ LoadTxLen
           \/ LoadArm
  BY <1>6 DEF SendCopy, SendLen, SendOff, SendActive, LoadLen, LoadCopy, LoadOff, LoadTxLen,
              LoadArm, Step, devVars
<1>7. CASE BusReset \/ Ep1In
  BY <1>1, <1>7 DEF BusReset, Ep1In, Ep1Reset, Ep1Type
<1>8. CASE SetConfiguration \/ Ep2In \/ UNCHANGED vars
  BY <1>8 DEF SetConfiguration, Ep2In, vars, taskVars, devVars
<1> QED
  BY <1>2, <1>3, <1>4, <1>5, <1>6, <1>7, <1>8 DEF Next, ProcessStep, Usb

(* Every step keeps EP2 armed while it is active and SendFrame is not at     *)
(* work.                                                                     *)
LEMMA Armed2Step == (Types /\ [Next]_vars /\ (ep2.active /\ at \notin SendPoints => ep2.armed))
                      => (ep2'.active /\ at' \notin SendPoints => ep2'.armed)
<1> SUFFICES ASSUME Types, [Next]_vars, ep2.active /\ at \notin SendPoints => ep2.armed
             PROVE  ep2'.active /\ at' \notin SendPoints => ep2'.armed
  OBVIOUS
<1> USE DEF SendPoints
<1>1. ep2 \in Ep2Type /\ HostOK
  BY DEF Types
<1>2. CASE FrameQuiet
  BY <1>2 DEF FrameQuiet
<1>3. ASSUME NEW c \in Classes, NEW n \in 1 .. MaxChunks, Enqueue(c, n)
      PROVE  ep2'.active /\ at' \notin SendPoints => ep2'.armed
  BY <1>3 DEF Enqueue, taskVars, devVars
<1>4. CASE SendCopy \/ SendLen \/ SendOff \/ SendActive
  BY <1>1, <1>4, SendSteps
<1>5. CASE LoadLen \/ LoadCopy \/ LoadOff \/ LoadTxLen \/ LoadArm
  BY <1>1, <1>5, LoadSteps DEF Ep2Becomes
<1>6. CASE BusReset
  BY <1>1, <1>6, UsbSteps DEF Ep2Becomes
<1>7. CASE Ep2In
  BY <1>1, <1>7, UsbSteps DEF Ep2Becomes
<1> QED
  BY <1>1, <1>2, <1>3, <1>4, <1>5, <1>6, <1>7, FrameSteps

-----------------------------------------------------------------------------
(* The hint *)

(* Steps that change nothing of the hint, outside SendHint. *)
HintQuiet ==
    /\ UNCHANGED <<pending, dropped, dirty, ep1, untold, torn>>
    /\ at' = at \/ (at \notin HintPoints /\ at' \notin HintPoints)

(* A step leaves the hints alone or is one of these. *)
LEMMA HintSteps ==
  ASSUME [Next]_vars
  PROVE  \/ HintQuiet \/ (\E c \in Classes : Refuse(c))
         \/ HintCopy \/ HintBusy \/ HintLen \/ HintArm \/ BusReset \/ Ep1In
         \/ /\ UNCHANGED <<dropped, ep1, untold, torn>> /\ UpdatePending(queue')
            /\ at \notin HintPoints /\ at' \notin HintPoints
<1> USE DEF HintPoints, Step
<1>1. CASE Queue
  <2>1. ASSUME NEW c, NEW n, Enqueue(c, n)
        PROVE  /\ UNCHANGED <<dropped, ep1, untold, torn>> /\ UpdatePending(queue')
               /\ at \notin HintPoints /\ at' \notin HintPoints
    BY <2>1 DEF Enqueue, taskVars, devVars, ghostVars
  <2> QED
    BY <1>1, <2>1, UsbTxAssumption DEF Queue
<1>2. CASE LoadArm
  BY <1>2 DEF LoadArm, ghostVars
<1>3. CASE ProcessStart \/ HintSkip \/ HintBegin \/ HintReject \/ FrameSkip \/ FrameChoose \/ SendReject
  BY <1>3 DEF ProcessStart, HintSkip, HintBegin, HintReject, FrameSkip, FrameChoose, SendReject,
              HintQuiet, queueVars, devVars, ghostVars
<1>4. CASE SendCopy \/ SendLen \/ SendOff \/ SendActive \/ LoadLen \/ LoadCopy \/ LoadOff \/ LoadTxLen
  BY <1>4 DEF SendCopy, SendLen, SendOff, SendActive, LoadLen, LoadCopy, LoadOff, LoadTxLen,
              HintQuiet, queueVars, devVars, ghostVars
<1>5. CASE SetConfiguration \/ Ep2In \/ UNCHANGED vars
  BY <1>5 DEF SetConfiguration, Ep2In, vars, HintQuiet, queueVars, taskVars, devVars, ghostVars
<1> QED
  BY <1>1, <1>2, <1>3, <1>4, <1>5 DEF Next, ProcessStep, Usb

(* Every step keeps what is said of the hints. *)
LEMMA HintStep == Types /\ HintInv /\ [Next]_vars => HintInv'
<1> SUFFICES ASSUME Types, HintInv, [Next]_vars PROVE HintInv'
  OBVIOUS
<1>1. ep1 \in Ep1Type
  BY DEF Types
<1>2. CASE HintQuiet
  BY <1>2 DEF HintQuiet, HintInv, HintPoints, HintOut
<1>3. ASSUME NEW c \in Classes, Refuse(c) PROVE HintInv'
  <2>1. /\ at = "idle" /\ at' = at /\ dropped' = dropped \cup {c} /\ dirty' = TRUE
        /\ untold' = untold \cup {c} /\ UNCHANGED <<pending, ep1, torn>>
    BY <1>3 DEF Refuse, taskVars, devVars
  <2> QED
    BY <2>1 DEF HintInv, HintPoints, HintOut
<1>4. CASE /\ UNCHANGED <<dropped, ep1, untold, torn>> /\ UpdatePending(queue')
           /\ at \notin HintPoints /\ at' \notin HintPoints
  BY <1>4 DEF UpdatePending, HintInv, HintPoints, HintOut
<1>5. CASE HintCopy
  <2>1. /\ at = "hintCopy" /\ at' = "hintBusy" /\ UNCHANGED <<pending, dropped, dirty, untold, torn>>
        /\ ep1'.dma = [pending |-> pending, dropped |-> dropped] /\ ep1'.armed = ep1.armed
        /\ ~ep1.busy
    BY <1>1, <1>5 DEF HintCopy, Step, CanSendHint, queueVars, ghostVars, Ep1Type
  <2> QED
    BY <2>1 DEF HintInv, HintPoints
<1>6. CASE HintBusy
  <2>1. /\ at = "hintBusy" /\ at' = "hintLen" /\ UNCHANGED <<pending, dropped, dirty, untold, torn>>
        /\ ep1'.dma = ep1.dma /\ ep1'.armed = ep1.armed /\ ep1'.busy
    BY <1>1, <1>6 DEF HintBusy, Step, queueVars, ghostVars, Ep1Type
  <2> QED
    BY <2>1 DEF HintInv, HintPoints
<1>7. CASE HintLen
  <2>1. /\ at = "hintLen" /\ at' = "hintArm" /\ UNCHANGED <<pending, dropped, dirty, untold, torn>>
        /\ ep1'.dma = ep1.dma /\ ep1'.armed = ep1.armed /\ ep1'.busy = ep1.busy /\ ep1'.len = 1
    BY <1>1, <1>7 DEF HintLen, Step, queueVars, ghostVars, Ep1Type
  <2> QED
    BY <2>1 DEF HintInv, HintPoints
<1>8. CASE HintArm
  <2>1. /\ at = "hintArm" /\ at' = "frame" /\ UNCHANGED <<pending, untold, torn>>
        /\ dirty' = FALSE /\ dropped' = {}
        /\ ep1'.dma = ep1.dma /\ ep1'.armed /\ ep1'.busy = ep1.busy /\ ep1'.len = ep1.len
    BY <1>1, <1>8 DEF HintArm, Step, ghostVars, Ep1Type
  <2>2. ep1.dma.pending = pending /\ ep1.dma.dropped = dropped
    BY <2>1 DEF HintInv, HintPoints
  <2>3. ~torn => untold \subseteq dropped /\ ep1.len = 1 /\ ep1.busy
    BY <2>1 DEF HintInv, HintPoints
  <2> QED
    BY <2>1, <2>2, <2>3 DEF HintInv, HintPoints, HintOut
<1>9. CASE BusReset
  <2>1. /\ at' = at /\ UNCHANGED <<pending, dropped, dirty>> /\ untold' = {}
        /\ ~torn' => ~torn /\ at \notin HintPoints
        /\ ep1'.dma = ep1.dma /\ ~ep1'.armed
    BY <1>1, <1>9 DEF BusReset, Ep1Reset, taskVars, queueVars, Ep1Type
  <2> QED
    BY <2>1 DEF HintInv, HintPoints
<1>10. CASE Ep1In
  <2>1. /\ at' = at /\ UNCHANGED <<pending, dropped, dirty, torn>> /\ untold' = untold \ HintOut.dropped
        /\ ep1'.dma = ep1.dma /\ ~ep1'.armed /\ ep1.armed
    BY <1>1, <1>10 DEF Ep1In, taskVars, queueVars, Ep1Type
  <2> QED
    BY <2>1 DEF HintInv, HintPoints
<1> QED
  BY <1>2, <1>3, <1>4, <1>5, <1>6, <1>7, <1>8, <1>9, <1>10, HintSteps

-----------------------------------------------------------------------------
(* The staged frame *)

LEMMA FlightStep == Types /\ QueueInv /\ FlightInv /\ [Next]_vars => FlightInv'
<1> SUFFICES ASSUME Types, QueueInv, FlightInv, [Next]_vars, ~torn' PROVE FlightInv'
  BY DEF FlightInv
<1>1. /\ HostOK /\ ep2 \in Ep2Type /\ chunk \in {0, 1} /\ cls \in Classes /\ queue[cls] \in Queues
      /\ ep2.len \in Nat /\ ep2.off \in Nat
  BY UsbTxAssumption DEF Types, TaskOK, QueuesOK, Ep2Type
<1>2. CASE FrameQuiet
  <2>1. CASE at' = at /\ cls' = cls
    BY <1>2, <2>1 DEF FrameQuiet, FlightInv, InFlight
  <2>2. CASE at \notin SendPoints /\ at' \notin SendPoints
    BY <1>2, <2>2 DEF FrameQuiet, FlightInv, InFlight, SendPoints, Loading, OffZeroed, Copied
  <2> QED
    BY <1>2, <2>1, <2>2 DEF FrameQuiet
<1>3. ASSUME NEW c \in Classes, NEW n \in 1 .. MaxChunks, Enqueue(c, n) PROVE FlightInv'
  <2>1. UNCHANGED <<at, cls, chunk, ep2, torn>> /\ at = "idle"
    BY <1>3, EnqueueDoes
  <2> QED
    BY <2>1 DEF FlightInv, InFlight, SendPoints, Loading, OffZeroed, Copied
<1>4. CASE SendCopy
  <2>1. /\ ep2'.armed = ep2.armed /\ ~ep2.active /\ ep2'.active = ep2.active
        /\ ep2'.stage = Head(queue[cls]) /\ UNCHANGED <<queue, cls, torn>> /\ at' = "sendLen"
    BY <1>1, <1>4, SendSteps DEF Ep2Becomes, PathKept
  <2>2. Head(queue[cls]) = queue[cls][1]
    BY <1>1, <1>4, SendSteps, QueueFacts DEF QueueInv, Take
  <2>3. ~ep2.armed
    BY <2>1 DEF FlightInv, InFlight
  <2> QED
    BY <2>1, <2>2, <2>3 DEF FlightInv, Loading, OffZeroed, Copied
<1>5. CASE SendLen
  BY <1>1, <1>5, SendSteps DEF Ep2Becomes, PathKept, FlightInv, InFlight, SendPoints, Loading, OffZeroed,
                               Copied
<1>6. CASE SendOff
  BY <1>1, <1>6, SendSteps DEF Ep2Becomes, PathKept, FlightInv, InFlight, SendPoints, Loading, OffZeroed,
                               Copied
<1>7. CASE SendActive
  BY <1>1, <1>7, SendSteps DEF Ep2Becomes, PathKept, FlightInv, InFlight, SendPoints, Loading, OffZeroed,
                               Copied
<1>8. CASE LoadLen
  <2>1. /\ UNCHANGED <<queue, cls, torn, ep2>> /\ at = "loadLen" /\ at' = "loadCopy"
        /\ chunk' = IF ep2.len > ep2.off THEN 1 ELSE 0
    BY <1>1, <1>8, LoadSteps DEF PathKept, NextChunk
  <2>2. queue[cls] # <<>> /\ 1 \in 1 .. Len(queue[cls])
    BY <1>1, <2>1, QueueFacts DEF QueueInv, SendPoints
  <2>3. queue[cls][1].n # 0
    BY <1>1, <2>2 DEF QueueInv, Own
  <2>4. ep2.off = 0 /\ ep2.len # 0
    BY <2>1, <2>3 DEF FlightInv, SendPoints, OffZeroed
  <2>5. chunk' = 1
    BY <1>1, <2>1, <2>4
  <2> QED
    BY <2>1, <2>5 DEF FlightInv, InFlight, SendPoints, Loading, OffZeroed, Copied
<1>9. CASE LoadCopy
  <2>1. ChunkAt(ep2, chunk) = [frame |-> ep2.stage, k |-> 1]
    BY <1>1, <1>9, LoadSteps DEF PathKept, FlightInv, ChunkAt, Loading, OffZeroed
  <2> QED
    BY <1>1, <1>9, <2>1, LoadSteps DEF Ep2Becomes, PathKept, FlightInv, InFlight, SendPoints, Loading,
                                       OffZeroed, Copied
<1>10. CASE LoadOff
  <2>1. ep2.off + chunk = 1
    BY <1>1, <1>10, LoadSteps DEF PathKept, FlightInv, Loading, OffZeroed
  <2> QED
    BY <1>1, <1>10, <2>1, LoadSteps DEF Ep2Becomes, PathKept, FlightInv, InFlight, SendPoints, Loading,
                                        OffZeroed, Copied
<1>11. CASE LoadTxLen
  BY <1>1, <1>11, LoadSteps DEF Ep2Becomes, PathKept, FlightInv, InFlight, SendPoints, Loading, OffZeroed,
                                Copied
<1>12. CASE LoadArm
  <2>1. /\ torn' = torn /\ at = "loadArm" /\ at' = "idle"
        /\ Ep2Becomes(ep2.active, ep2.len, ep2.off, ep2.stage, ep2.dma, ep2.txlen, TRUE)
    BY <1>1, <1>12, LoadSteps
  <2>2. queue[cls] # <<>> /\ 1 \in 1 .. Len(queue[cls])
    BY <1>1, <2>1, QueueFacts DEF QueueInv, SendPoints
  <2>3. queue[cls][1].n # 0
    BY <1>1, <2>2 DEF QueueInv, Own
  <2>4. /\ ep2.active /\ ep2.dma = [frame |-> ep2.stage, k |-> 1] /\ ep2.off = 1 /\ ep2.txlen = 1
        /\ ep2.len = ep2.stage.n /\ ep2.len # 0
    BY <2>1, <2>3 DEF FlightInv, SendPoints, Loading, Copied
  <2>5. ep2.off \in 1 .. ep2.len
    BY <1>1, <2>4
  <2> QED
    BY <2>1, <2>4, <2>5 DEF Ep2Becomes, FlightInv, InFlight, SendPoints, Loading, OffZeroed, Copied
<1>13. CASE BusReset
  <2>1. at' \notin SendPoints /\ ep2'.armed = FALSE
    BY <1>1, <1>13, UsbSteps DEF Ep2Becomes
  <2> QED
    BY <2>1 DEF FlightInv, SendPoints, Loading, OffZeroed, Copied
<1>14. CASE Ep2In
  <2>1. UNCHANGED <<at, torn>> /\ ep2.armed /\ InFlight
    BY <1>1, <1>14, UsbSteps DEF FlightInv
  <2>2. CASE ep2.off < ep2.len
    <3>1. Ep2Becomes(ep2.active, ep2.len, ep2.off + 1, ep2.stage,
                     [frame |-> ep2.stage, k |-> ep2.off + 1], 1, ep2.armed)
      BY <1>1, <1>14, <2>2, UsbSteps
    <3>2. ep2.off + 1 \in 1 .. ep2.len
      BY <1>1, <2>2
    <3> QED
      BY <2>1, <3>1, <3>2 DEF Ep2Becomes, FlightInv, InFlight, SendPoints, Loading, OffZeroed, Copied
  <2>3. CASE ~(ep2.off < ep2.len)
    <3>1. Ep2Becomes(FALSE, ep2.len, ep2.off, ep2.stage, ep2.dma, 0, FALSE)
      BY <1>1, <1>14, <2>3, UsbSteps
    <3> QED
      BY <2>1, <3>1 DEF Ep2Becomes, FlightInv, InFlight, SendPoints, Loading, OffZeroed, Copied
  <2> QED
    BY <2>2, <2>3
<1> QED
  BY <1>1, <1>2, <1>3, <1>4, <1>5, <1>6, <1>7, <1>8, <1>9, <1>10, <1>11, <1>12, <1>13, <1>14, FrameSteps

-----------------------------------------------------------------------------
(* No frame is lost *)

InQueue(id) == \E c \in Classes : \E i \in 1 .. Len(queue[c]) : queue[c][i].id = id
Kept(id)    == InQueue(id) \/ id \in OnItsWay \/ id \in done \/ id \in cut

(* FrameKept says of each id up to seq that it is kept somewhere. *)
LEMMA KeptMeans ==
  /\ FrameKept <=> (~torn => \A id : id \in 1 .. seq - 1 <=> Kept(id))
  /\ FrameKept' <=> (~torn' => \A id : id \in 1 .. seq' - 1 <=> Kept(id)')
<1>1. \A id : id \in Queued <=> InQueue(id)
  BY DEF Queued, InQueue
<1>2. \A id : id \in Queued' <=> InQueue(id)'
  BY DEF Queued, InQueue
<1>3. FrameKept <=> (~torn => \A id : id \in 1 .. seq - 1 <=> Kept(id))
  BY <1>1 DEF FrameKept, Kept
<1>4. FrameKept' <=> (~torn' => \A id : id \in 1 .. seq' - 1 <=> Kept(id)')
  BY <1>2 DEF FrameKept, Kept
<1> QED
  BY <1>3, <1>4

(* Steps that change nothing of this, and one id that is under way or not.   *)
LEMMA KeptSame ==
  ASSUME FrameKept, UNCHANGED <<queue, seq, done, cut, torn>>, OnItsWay' = OnItsWay
  PROVE  FrameKept'
  BY DEF FrameKept, Queued

(* Every step keeps the accepted frames. *)
LEMMA KeptStep == Types /\ QueueInv /\ FlightInv /\ FrameKept /\ [Next]_vars => FrameKept'
<1> SUFFICES ASSUME Types, QueueInv, FlightInv, FrameKept, [Next]_vars, ~torn' PROVE FrameKept'
  BY DEF FrameKept
<1>1. /\ HostOK /\ ep2 \in Ep2Type /\ cls \in Classes /\ queue[cls] \in Queues /\ seq \in Nat \ {0}
      /\ ep2.len \in Nat /\ ep2.off \in Nat
  BY UsbTxAssumption DEF Types, TaskOK, QueuesOK, Ep2Type
<1>2. CASE FrameQuiet
  BY <1>2, KeptSame DEF FrameQuiet, OnItsWay
<1>3. ASSUME NEW c \in Classes, NEW n \in 1 .. MaxChunks, Enqueue(c, n) PROVE FrameKept'
  <2>1. PICK f \in Frames :
           /\ f.id = seq /\ Put(queue[c], f, queue'[c])
           /\ \A b \in Classes : b # c => queue'[b] = queue[b]
           /\ seq' = seq + 1 /\ UNCHANGED <<ep2, done, cut, torn>>
    BY <1>3, EnqueueDoes
  <2>2. ASSUME NEW id PROVE InQueue(id)' <=> InQueue(id) \/ id = seq
    <3>1. (\E i \in 1 .. Len(queue'[c]) : queue'[c][i].id = id)
            <=> (\E i \in 1 .. Len(queue[c]) : queue[c][i].id = id) \/ id = seq
      <4>1. /\ Len(queue'[c]) \in 1 .. Len(queue'[c]) /\ queue'[c][Len(queue'[c])] = f
            /\ \A i \in 1 .. Len(queue[c]) : i \in 1 .. Len(queue'[c]) /\ queue'[c][i] = queue[c][i]
            /\ \A i \in 1 .. Len(queue'[c]) : i \in 1 .. Len(queue[c]) \/ i = Len(queue'[c])
        BY <2>1 DEF Put
      <4> QED
        BY <2>1, <4>1
    <3> QED
      BY <2>1, <3>1 DEF InQueue
  <2>3. \A id : id \in 1 .. seq' - 1 <=> id \in 1 .. seq - 1 \/ id = seq
    BY <1>1, <2>1
  <2> QED
    BY <2>1, <2>2, <2>3, KeptMeans DEF Kept, OnItsWay
<1>4. CASE SendCopy
  <2>1. UNCHANGED <<queue, seq, done, cut, torn>> /\ ~ep2.active /\ ~ep2'.active
    BY <1>1, <1>4, SendSteps DEF PathKept, Ep2Becomes
  <2> QED
    BY <2>1, KeptSame DEF OnItsWay
<1>5. CASE SendLen \/ SendOff
  <2>1. UNCHANGED <<queue, seq, done, cut, torn>> /\ ep2'.active = ep2.active /\ ep2'.stage = ep2.stage
    BY <1>1, <1>5, SendSteps DEF PathKept, Ep2Becomes
  <2> QED
    BY <2>1, KeptSame DEF OnItsWay
<1>6. CASE SendActive
  <2>1. /\ UNCHANGED <<queue, seq, done, cut, torn>> /\ ep2'.active /\ ep2'.stage = ep2.stage
        /\ at = "sendActive"
    BY <1>1, <1>6, SendSteps DEF PathKept, Ep2Becomes
  <2>2. ~ep2.active /\ ep2.stage = queue[cls][1]
    BY <2>1 DEF FlightInv, SendPoints
  <2>3. 1 \in 1 .. Len(queue[cls])
    BY <1>1, <2>1, QueueFacts DEF QueueInv, SendPoints
  <2>4. InQueue(ep2.stage.id)
    BY <1>1, <2>2, <2>3 DEF InQueue
  <2>5. \A id : InQueue(id)' <=> InQueue(id)
    BY <2>1 DEF InQueue
  <2>6. \A id : id \in OnItsWay' => id = ep2.stage.id
    BY <2>1 DEF OnItsWay
  <2>7. \A id : id \notin OnItsWay
    BY <2>2 DEF OnItsWay
  <2> QED
    BY <2>1, <2>4, <2>5, <2>6, <2>7, KeptMeans DEF Kept
<1>7. CASE LoadLen \/ LoadCopy \/ LoadOff \/ LoadTxLen
  <2>1. UNCHANGED <<queue, seq, done, cut, torn>> /\ ep2'.active = ep2.active /\ ep2'.stage = ep2.stage
    BY <1>1, <1>7, LoadSteps DEF PathKept, Ep2Becomes
  <2> QED
    BY <2>1, KeptSame DEF OnItsWay
<1>8. CASE LoadArm
  <2>1. /\ UNCHANGED <<seq, done, cut, torn>> /\ ep2'.active = ep2.active /\ ep2'.stage = ep2.stage
        /\ at = "loadArm"
    BY <1>1, <1>8, LoadSteps DEF Ep2Becomes
  <2>2. ep2.active /\ ep2.stage = queue[cls][1]
    BY <2>1 DEF FlightInv, SendPoints, Loading
  <2>3. /\ Take(queue[cls], queue[cls][1], queue'[cls])
        /\ \A b \in Classes : b # cls => queue'[b] = queue[b]
    BY <1>8, LoadArmDoes
  <2>4. ASSUME NEW id PROVE InQueue(id) <=> InQueue(id)' \/ id = ep2.stage.id
    <3>1. (\E i \in 1 .. Len(queue[cls]) : queue[cls][i].id = id)
            <=> (\E i \in 1 .. Len(queue'[cls]) : queue'[cls][i].id = id) \/ id = queue[cls][1].id
      <4>1. /\ 1 \in 1 .. Len(queue[cls])
            /\ \A i \in 1 .. Len(queue'[cls]) : i + 1 \in 1 .. Len(queue[cls])
                                                /\ queue[cls][i + 1] = queue'[cls][i]
        BY <2>3 DEF Take
      <4>2. ASSUME NEW i \in 1 .. Len(queue[cls]), i # 1
            PROVE  i - 1 \in 1 .. Len(queue'[cls]) /\ queue'[cls][i - 1] = queue[cls][i]
        <5>1. i - 1 \in 1 .. Len(queue'[cls]) /\ (i - 1) + 1 = i
          BY <2>3, <4>2 DEF Take
        <5> QED
          BY <4>1, <5>1
      <4>3. ASSUME NEW i \in 1 .. Len(queue[cls]), queue[cls][i].id = id, id # queue[cls][1].id
            PROVE  \E k \in 1 .. Len(queue'[cls]) : queue'[cls][k].id = id
        BY <4>2, <4>3
      <4>4. ASSUME NEW i \in 1 .. Len(queue'[cls]), queue'[cls][i].id = id
            PROVE  \E k \in 1 .. Len(queue[cls]) : queue[cls][k].id = id
        BY <4>1, <4>4
      <4> QED
        BY <4>1, <4>3, <4>4
    <3> QED
      BY <1>1, <2>2, <2>3, <3>1 DEF InQueue
  <2>5. OnItsWay' = OnItsWay
    BY <2>1 DEF OnItsWay
  <2>6. ep2.stage.id \in OnItsWay \/ ep2.stage.id \in done
    BY <2>2 DEF OnItsWay
  <2> QED
    BY <2>1, <2>4, <2>5, <2>6, KeptMeans DEF Kept
<1>9. CASE BusReset
  <2>1. /\ UNCHANGED <<queue, seq, done>> /\ cut' = cut \cup OnItsWay /\ ep2'.active = FALSE
        /\ torn' = (torn \/ at \in HintPoints \cup SendPoints)
    BY <1>1, <1>9, UsbSteps DEF Ep2Becomes
  <2>2. OnItsWay' = {} /\ ~torn
    BY <2>1 DEF OnItsWay
  <2>3. \A id : InQueue(id)' <=> InQueue(id)
    BY <2>1 DEF InQueue
  <2> QED
    BY <2>1, <2>2, <2>3, KeptMeans DEF Kept
<1>10. CASE Ep2In
  <2>1. UNCHANGED <<queue, seq, cut, torn>> /\ ep2.armed /\ HostTakes /\ InFlight
    BY <1>1, <1>10, UsbSteps DEF FlightInv
  <2>2. done' = IF ep2.off = ep2.len THEN done \cup {ep2.stage.id} ELSE done
    BY <2>1 DEF InFlight, HostTakes, Packet
  <2>3. \A id : InQueue(id)' <=> InQueue(id)
    BY <2>1 DEF InQueue
  <2>4. ep2'.stage = ep2.stage /\ ep2.active
    BY <1>1, <1>10, <2>1, UsbSteps DEF Ep2Becomes, InFlight
  <2>5. CASE ep2.off < ep2.len
    <3>1. ep2'.active = ep2.active /\ done' = done
      BY <1>1, <1>10, <2>2, <2>5, UsbSteps DEF Ep2Becomes
    <3> QED
      BY <2>1, <2>4, <3>1, KeptSame DEF OnItsWay
  <2>6. CASE ~(ep2.off < ep2.len)
    <3>1. ep2'.active = FALSE
      BY <1>1, <1>10, <2>6, UsbSteps DEF Ep2Becomes
    <3>2. done' = done \cup {ep2.stage.id}
      BY <1>1, <2>1, <2>2, <2>6 DEF InFlight
    <3> QED
      BY <2>1, <2>3, <2>4, <3>1, <3>2, KeptMeans DEF Kept, OnItsWay
  <2> QED
    BY <2>5, <2>6
<1> QED
  BY <1>1, <1>2, <1>3, <1>4, <1>5, <1>6, <1>7, <1>8, <1>9, <1>10, FrameSteps

-----------------------------------------------------------------------------
(* What the host reads *)

LEMMA BelowPut ==
  ASSUME NEW q, NEW f, NEW r, NEW id, Put(q, f, r), Below(id, q), id < f.id
  PROVE  Below(id, r)
<1>1. \A i \in 1 .. Len(r) : (i \in 1 .. Len(q) /\ r[i] = q[i]) \/ r[i] = f
  BY DEF Put
<1> QED
  BY <1>1 DEF Below

(* What is below a queue is below the rest of it, its old head too. *)
LEMMA BelowTake ==
  ASSUME NEW q, NEW e, NEW r, Take(q, e, r)
  PROVE  /\ \A id : Below(id, q) => Below(id, r) /\ id < e.id
         /\ Ascending(q) => Below(e.id, r)
<1>1. /\ 1 \in 1 .. Len(q) /\ q[1] = e
      /\ \A i \in 1 .. Len(r) : i + 1 \in 1 .. Len(q) /\ 1 < i + 1 /\ r[i] = q[i + 1]
  BY DEF Take
<1> QED
  BY <1>1 DEF Below, Ascending

(* The two halves of HostStream. *)
InChunks(s) ==
    \A i \in 1 .. Len(s) : IF s[i].k = 1 THEN i = 1 \/ s[i - 1].k = s[i - 1].frame.n
                           ELSE i > 1 /\ s[i - 1] = [s[i] EXCEPT !.k = @ - 1]
InOrder(s) ==
    \A i, j \in 1 .. Len(s) : i < j /\ s[i].frame.cls = s[j].frame.cls /\ s[i].k >= s[j].k =>
                                s[i].frame.id < s[j].frame.id

(* A first chunk after a whole frame, or the next chunk, keeps the stream in *)
(* whole frames.                                                             *)
LEMMA ChunksPut ==
  ASSUME NEW s, NEW e, NEW r, Put(s, e, r), InChunks(s),
         IF e.k = 1 THEN Len(s) = 0 \/ s[Len(s)].k = s[Len(s)].frame.n
         ELSE Len(s) # 0 /\ s[Len(s)] = [e EXCEPT !.k = @ - 1]
  PROVE  InChunks(r)
<1> SUFFICES ASSUME NEW i \in 1 .. Len(r)
             PROVE  IF r[i].k = 1 THEN i = 1 \/ r[i - 1].k = r[i - 1].frame.n
                    ELSE i > 1 /\ r[i - 1] = [r[i] EXCEPT !.k = @ - 1]
  BY DEF InChunks
<1>1. CASE i \in 1 .. Len(s)
  <2>1. r[i] = s[i] /\ (i = 1 \/ (i - 1 \in 1 .. Len(s) /\ r[i - 1] = s[i - 1]))
    BY <1>1 DEF Put
  <2> QED
    BY <1>1, <2>1 DEF InChunks
<1>2. CASE i \notin 1 .. Len(s)
  <2>1. i = Len(s) + 1 /\ i - 1 = Len(s) /\ Len(s) \in Nat /\ r[i] = e
    BY <1>2 DEF Put
  <2>2. CASE Len(s) = 0
    BY <2>1, <2>2
  <2>3. CASE Len(s) # 0
    <3>1. r[i - 1] = s[Len(s)] /\ i > 1
      BY <2>1, <2>3 DEF Put
    <3> QED
      BY <2>1, <2>3, <3>1
  <2> QED
    BY <2>2, <2>3
<1> QED
  BY <1>1, <1>2

(* A chunk of a frame whose queue has sent only smaller ids keeps the order  *)
(* of seq.                                                                   *)
LEMMA OrderPut ==
  ASSUME NEW s, NEW e, NEW r, Put(s, e, r), InOrder(s),
         \A i \in 1 .. Len(s) : s[i].frame.cls = e.frame.cls /\ s[i].k >= e.k =>
                                  s[i].frame.id < e.frame.id
  PROVE  InOrder(r)
<1>1. /\ \A i \in 1 .. Len(r) : (i \in 1 .. Len(s) /\ r[i] = s[i]) \/ (i = Len(r) /\ r[i] = e)
      /\ \A i \in 1 .. Len(r) : ~(Len(r) < i)
  BY DEF Put
<1> QED
  BY <1>1 DEF InOrder

(* StreamInv, in parts. *)
Told(s)   == \A i \in 1 .. Len(s) : s[i].frame.id < seq /\ Below(s[i].frame.id, queue[s[i].frame.cls])
Staged(s) ==
    /\ ep2.stage.id < seq /\ Below(ep2.stage.id, queue[ep2.stage.cls])
    /\ \A i \in 1 .. Len(s) : s[i].frame.cls = ep2.stage.cls =>
         s[i].frame.id < ep2.stage.id \/ (s[i].frame = ep2.stage /\ s[i].k < ep2.off)
Begun(s)  == s # <<>> /\ s[Len(s)] = [frame |-> ep2.stage, k |-> ep2.off - 1]
Stream(s) == /\ Told(s) /\ InChunks(s) /\ InOrder(s)
             /\ ep2.armed => Staged(s)
             /\ ~ep2.armed \/ ep2.off = 1 => Whole(s)
             /\ ep2.armed /\ ep2.off # 1 => Begun(s)

(* StreamInv and HostStream are one statement about the stream. *)
LEMMA StreamParts ==
  /\ StreamInv /\ HostStream <=> (~torn => Stream(host.stream))
  /\ StreamInv' /\ HostStream' <=> (~torn' => Stream(host.stream)')
  BY DEF StreamInv, HostStream, Stream, Told, Staged, Begun, InChunks, InOrder, Whole

(* Every step keeps the stream in whole frames, none twice and in order. *)
LEMMA StreamStep ==
  Types /\ QueueInv /\ SourceInv /\ FlightInv /\ StreamInv /\ HostStream /\ [Next]_vars
    => StreamInv' /\ HostStream'
<1> SUFFICES ASSUME Types, QueueInv, SourceInv, FlightInv, ~torn => Stream(host.stream), [Next]_vars,
                    ~torn'
             PROVE  Stream(host.stream)'
  BY StreamParts
<1>1. /\ HostOK /\ ep2 \in Ep2Type /\ cls \in Classes /\ queue[cls] \in Queues /\ seq \in Nat \ {0}
      /\ ep2.len \in Nat /\ ep2.off \in Nat /\ ep2.stage.cls \in Classes
      /\ host.stream \in Streams
  BY UsbTxAssumption DEF Types, TaskOK, QueuesOK, HostOK, Ep2Type, Frames
<1>2. ASSUME NEW i \in 1 .. Len(host.stream)
      PROVE  /\ host.stream[i].frame.cls \in Classes /\ host.stream[i].k \in Nat
             /\ host.stream[i].frame.id \in Nat
  BY <1>1, <1>2, StreamFacts DEF Packets, Frames
<1>3. CASE FrameQuiet
  BY <1>3 DEF FrameQuiet, Stream, Told, Staged, Begun, InChunks, InOrder, Whole
<1>4. ASSUME NEW c \in Classes, NEW n \in 1 .. MaxChunks, Enqueue(c, n) PROVE Stream(host.stream)'
  <2>1. PICK f \in Frames :
           /\ f.id = seq /\ Put(queue[c], f, queue'[c])
           /\ \A b \in Classes : b # c => queue'[b] = queue[b]
           /\ seq' = seq + 1 /\ UNCHANGED <<ep2, host, torn>>
    BY <1>4, EnqueueDoes
  <2>2. ASSUME NEW id \in Nat, NEW b \in Classes, id < seq, Below(id, queue[b])
        PROVE  id < seq' /\ Below(id, queue'[b])
    BY <1>1, <2>1, <2>2, BelowPut
  <2>3. ep2.stage.id \in Nat
    BY <1>1 DEF Ep2Type, Frames
  <2>4. Told(host.stream)'
    BY <1>2, <2>1, <2>2 DEF Stream, Told
  <2>5. ep2.armed => Staged(host.stream)'
    BY <1>1, <2>1, <2>2, <2>3 DEF Stream, Staged
  <2> QED
    BY <2>1, <2>4, <2>5 DEF Stream, Begun, InChunks, InOrder, Whole
<1>5. ASSUME UNCHANGED <<queue, seq, host, torn>>, at \in SendPoints \/ ~ep2.active,
             ep2'.armed = ep2.armed
      PROVE  Stream(host.stream)'
  <2>1. ~ep2.armed
    BY <1>5 DEF FlightInv, InFlight
  <2> QED
    BY <1>5, <2>1 DEF Stream, Told, InChunks, InOrder, Whole
<1>6. CASE SendCopy \/ SendLen \/ SendOff \/ SendActive
  BY <1>1, <1>5, <1>6, SendSteps DEF PathKept, Ep2Becomes, SendPoints
<1>7. CASE LoadLen \/ LoadCopy \/ LoadOff \/ LoadTxLen
  BY <1>1, <1>5, <1>7, LoadSteps DEF PathKept, Ep2Becomes, SendPoints
<1>8. CASE LoadArm
  <2>1. /\ UNCHANGED <<seq, host, torn>> /\ at = "loadArm" /\ ep2'.stage = ep2.stage
        /\ ep2'.off = ep2.off /\ ep2'.armed = TRUE
    BY <1>1, <1>8, LoadSteps DEF Ep2Becomes
  <2>2. ep2.stage = queue[cls][1] /\ ep2.off = 1 /\ ~ep2.armed
    BY <2>1 DEF FlightInv, InFlight, SendPoints
  <2>3. /\ Take(queue[cls], queue[cls][1], queue'[cls])
        /\ \A b \in Classes : b # cls => queue'[b] = queue[b]
    BY <1>8, LoadArmDoes
  <2>4. ep2.stage.cls = cls /\ ep2.stage.id < seq /\ Ascending(queue[cls])
    <3>1. 1 \in 1 .. Len(queue[cls]) /\ Own(queue[cls], cls, seq) /\ Ascending(queue[cls])
      BY <1>1, <2>3 DEF QueueInv, Take
    <3> QED
      BY <1>1, <2>2, <3>1 DEF Own
  <2>5. ASSUME NEW id, NEW b \in Classes, Below(id, queue[b]) PROVE Below(id, queue'[b])
    BY <2>3, <2>5, BelowTake
  <2>6. Told(host.stream)'
    BY <1>2, <2>1, <2>5 DEF Stream, Told
  <2>7. ASSUME NEW i \in 1 .. Len(host.stream), host.stream[i].frame.cls = cls
        PROVE  host.stream[i].frame.id < ep2.stage.id
    <3>1. Below(host.stream[i].frame.id, queue[cls])
      BY <2>1, <2>7 DEF Stream, Told
    <3> QED
      BY <2>2, <2>3, <3>1, BelowTake
  <2>8. Staged(host.stream)'
    <3>1. Below(ep2.stage.id, queue'[cls])
      BY <2>2, <2>3, <2>4, BelowTake
    <3> QED
      BY <2>1, <2>4, <2>7, <3>1 DEF Staged
  <2> QED
    BY <2>1, <2>2, <2>6, <2>8 DEF Stream, InChunks, InOrder, Whole
<1>9. CASE BusReset
  <2>1. host'.stream = <<>> /\ ep2'.armed = FALSE
    <3>1. host' = HostStart
      BY <1>1, <1>9, UsbSteps
    <3>2. ep2'.armed = FALSE
      BY <1>1, <1>9, UsbSteps DEF Ep2Becomes
    <3> QED
      BY <3>1, <3>2 DEF HostStart
  <2>2. Len(host'.stream) = 0
    BY <2>1
  <2> QED
    BY <2>1, <2>2 DEF Stream, Told, InChunks, InOrder, Whole
<1>10. CASE Ep2In
  <2> DEFINE s == host.stream
             e == [frame |-> ep2.stage, k |-> ep2.off]
             r == host'.stream
  <2>1. UNCHANGED <<queue, seq, torn>> /\ ep2.armed /\ InFlight /\ Stream(s)
    BY <1>1, <1>10, UsbSteps DEF FlightInv
  <2>2. ep2.dma = e /\ ep2.txlen = 1 /\ ep2.off \in 1 .. ep2.len /\ ep2.len = ep2.stage.n
    BY <2>1 DEF InFlight
  <2>3. Put(s, e, r) /\ r # <<>>
    BY <1>10, <2>2, HostSteps
  <2>4. e.k = ep2.off /\ e.frame = ep2.stage /\ (Len(s) = 0 <=> s = <<>>)
    BY <1>1, StreamFacts
  <2>5. /\ Told(s) /\ InChunks(s) /\ InOrder(s) /\ Staged(s)
        /\ ep2.off = 1 => Whole(s)
        /\ ep2.off # 1 => Begun(s)
    BY <2>1 DEF Stream
  <2>6. [e EXCEPT !.k = @ - 1] = [frame |-> ep2.stage, k |-> ep2.off - 1]
    OBVIOUS
  <2> HIDE DEF s, e, r
  <2>7. InChunks(r)
    BY <2>3, <2>4, <2>5, <2>6, ChunksPut DEF Whole, Begun
  <2>8. InOrder(r)
    <3>1. ASSUME NEW i \in 1 .. Len(s), s[i].frame.cls = e.frame.cls, s[i].k >= e.k
          PROVE  s[i].frame.id < e.frame.id
      <4>1. s[i].k \in Nat
        BY <1>2 DEF s
      <4> QED
        BY <1>1, <2>4, <2>5, <3>1, <4>1 DEF Staged
    <3> QED
      BY <2>3, <2>5, <3>1, OrderPut
  <2>9. \A i \in 1 .. Len(r) : (i \in 1 .. Len(s) /\ r[i] = s[i]) \/ r[i] = e
    BY <2>3 DEF Put
  <2>10. Told(host.stream)'
    <3>1. \A i \in 1 .. Len(r) : r[i].frame.id < seq /\ Below(r[i].frame.id, queue[r[i].frame.cls])
      BY <2>4, <2>5, <2>9 DEF Told, Staged
    <3> QED
      BY <2>1, <3>1 DEF Told, r
  <2>11. Len(r) = Len(s) + 1 /\ r[Len(r)] = e
    BY <2>3 DEF Put
  <2>12. CASE ep2.off < ep2.len
    <3>1. /\ ep2'.off = ep2.off + 1 /\ ep2'.stage = ep2.stage /\ ep2'.armed
      BY <1>1, <1>10, <2>1, <2>12, UsbSteps DEF Ep2Becomes
    <3>2. ep2'.off # 1 /\ ep2'.off - 1 = ep2.off /\ ep2.off < ep2'.off
      BY <1>1, <2>2, <3>1
    <3>3. ASSUME NEW i \in 1 .. Len(r), r[i].frame.cls = ep2.stage.cls
          PROVE  r[i].frame.id < ep2.stage.id \/ (r[i].frame = ep2.stage /\ r[i].k < ep2'.off)
      <4>1. CASE i \in 1 .. Len(s) /\ r[i] = s[i]
        <5>1. s[i].k \in Nat
          BY <1>2, <4>1 DEF s
        <5>2. s[i].frame.id < ep2.stage.id \/ (s[i].frame = ep2.stage /\ s[i].k < ep2.off)
          BY <2>5, <3>3, <4>1 DEF Staged
        <5> QED
          BY <1>1, <3>1, <4>1, <5>1, <5>2
      <4>2. CASE r[i] = e
        BY <2>4, <3>2, <4>2
      <4> QED
        BY <2>9, <4>1, <4>2
    <3>4. Staged(host.stream)'
      BY <2>1, <2>5, <3>1, <3>3 DEF Staged, r
    <3>5. Begun(host.stream)'
      BY <2>3, <2>11, <3>1, <3>2 DEF Begun, e, r
    <3> QED
      BY <2>7, <2>8, <2>10, <3>1, <3>2, <3>4, <3>5 DEF Stream, r
  <2>13. CASE ~(ep2.off < ep2.len)
    <3>1. ep2'.armed = FALSE
      BY <1>1, <1>10, <2>13, UsbSteps DEF Ep2Becomes
    <3>2. ep2.off = ep2.stage.n
      BY <1>1, <2>2, <2>13
    <3>3. Whole(r)
      BY <2>4, <2>11, <3>2 DEF Whole
    <3> QED
      BY <2>7, <2>8, <2>10, <3>1, <3>3 DEF Stream, r
  <2> QED
    BY <2>12, <2>13
<1> QED
  BY <1>1, <1>3, <1>4, <1>6, <1>7, <1>8, <1>9, <1>10, FrameSteps

-----------------------------------------------------------------------------
(* The invariant, and what follows *)

LEMMA InitInv == Init => IInv
<1> SUFFICES ASSUME Init PROVE IInv
  OBVIOUS
<1> USE UsbTxAssumption
<1>1. /\ queue = [c \in Classes |-> <<>>] /\ seq = 1 /\ pending = {} /\ dropped = {} /\ dirty = TRUE
      /\ at = "idle" /\ cls = "RSP" /\ chunk = 0 /\ configured = FALSE
      /\ done = {} /\ cut = {} /\ untold = {} /\ resets = 0 /\ torn = FALSE
      /\ ep1.busy = FALSE /\ ep1.armed = FALSE
      /\ ep2.active = FALSE /\ ep2.len = 0 /\ ep2.txlen = 0 /\ ep2.armed = FALSE
  BY DEF Init
<1>2. Len(<<>>) = 0 /\ \A i : i \notin 1 .. 0
  OBVIOUS
<1>3. host.stream = <<>> /\ host.tog = 0
  BY DEF Init, HostStart
<1>4. TypeOK /\ host \in [tog : {0, 1}, stream : Seq(Packets)]
  <2>1. NoFrame \in Frames /\ NoHint \in Hints
    BY DEF NoFrame, NoHint, Frames, Hints, Classes
  <2>2. ep1 \in Ep1Type
    BY <2>1 DEF Init, Ep1Type
  <2>3. ep2 \in Ep2Type
    <3>1. [frame |-> NoFrame, k |-> 0] \in Packets
      BY <2>1 DEF Packets
    <3> QED
      BY <2>1, <3>1 DEF Init, Ep2Type
  <2>4. HostOK
    <3>1. <<>> \in Streams
      BY DEF Streams
    <3> QED
      BY <1>1, <3>1 DEF Init, HostStart, HostOK
  <2>5. QueuesOK
    <3>1. <<>> \in Queues
      BY DEF Queues
    <3> QED
      BY <1>1, <1>2, <3>1 DEF QueuesOK
  <2>6. BitsOK /\ TaskOK /\ ResetOK /\ seq \in 1 .. MaxFrames + 1
    <3>1. BitsOK /\ TaskOK
      BY <1>1 DEF BitsOK, TaskOK, Points, Classes
    <3>2. 1 \in 1 .. MaxFrames + 1 /\ 0 \in 0 .. MaxResets
      OBVIOUS
    <3>3. ResetOK
      BY <1>1, <3>2, Zenon DEF ResetOK
    <3> QED
      BY <1>1, <3>1, <3>2, <3>3
  <2> QED
    BY <2>2, <2>3, <2>4, <2>5, <2>6, TypeParts DEF Types
<1>5. QueueInv
  BY <1>1, <1>2 DEF QueueInv, Own, Ascending, SendPoints
<1>6. SourceInv
  BY <1>1 DEF SourceInv, SendPoints, OffZeroed
<1>7. BusyArmed
  BY <1>1 DEF BusyArmed
<1>8. HintInv
  BY <1>1 DEF HintInv, HintPoints
<1>9. FlightInv
  BY <1>1 DEF FlightInv, SendPoints, Loading, OffZeroed, Copied
<1>10. FrameKept
  <2>1. Queued = {}
    BY <1>1, <1>2 DEF Queued
  <2>2. OnItsWay = {}
    BY <1>1 DEF OnItsWay
  <2> QED
    BY <1>1, <2>1, <2>2 DEF FrameKept
<1>11. StreamInv /\ HostStream
  BY <1>1, <1>2, <1>3 DEF StreamInv, HostStream, Whole
<1> QED
  BY <1>4, <1>5, <1>6, <1>7, <1>8, <1>9, <1>10, <1>11 DEF IInv

(* Every step keeps the inductive invariant. *)
LEMMA StepInv == IInv /\ [Next]_vars => IInv'
<1> SUFFICES ASSUME IInv, [Next]_vars PROVE IInv'
  OBVIOUS
<1>1. Types
  BY TypeParts DEF IInv
<1>2. TypeOK' /\ (host \in [tog : {0, 1}, stream : Seq(Packets)])'
  BY <1>1, TypeStep, TypeParts DEF IInv
<1>3. QueueInv' /\ SourceInv' /\ HintInv' /\ FlightInv' /\ FrameKept'
  BY <1>1, QueueStep, SourceStep, HintStep, FlightStep, KeptStep DEF IInv
<1>4. BusyArmed'
  BY <1>1, Armed1Step, Armed2Step DEF IInv, BusyArmed
<1>5. StreamInv' /\ HostStream'
  BY <1>1, StreamStep DEF IInv
<1> QED
  BY <1>2, <1>3, <1>4, <1>5 DEF IInv

(* The inductive invariant holds of the transmit path.                       *)
THEOREM Invariance == Spec => []IInv
  BY InitInv, StepInv, PTL DEF Spec

(* No queue grows beyond USBTX_QUEUE_DEPTH; ep2_tx_off stays in the buffer.  *)
THEOREM TypeCorrect == Spec => []TypeOK
<1>1. IInv => TypeOK
  BY DEF IInv
<1> QED
  BY <1>1, Invariance, PTL

(* An endpoint that counts as busy is armed, wherever a bus reset has hit    *)
(* SendHint or SendFrame: the interrupt that clears the mark can come.       *)
THEOREM BusyIsArmed == Spec => []BusyArmed
<1>1. IInv => BusyArmed
  BY DEF IInv
<1> QED
  BY <1>1, Invariance, PTL

(* With no hint due the last one built is of the queues as they are, whether *)
(* or not the host got to see it; and, but for a bus reset inside SendHint   *)
(* or SendFrame, a refusal is remembered, and a hint due for it, until one   *)
(* that tells of it is handed to EP1.                                        *)
THEOREM HintIsTrue == Spec => []HintTruth
<1>1. IInv => HintTruth
  BY DEF IInv, HintInv, HintTruth
<1> QED
  BY <1>1, Invariance, PTL

(* No accepted frame disappears between its queue, EP2 and the host.         *)
THEOREM FramesKept == Spec => []FrameKept
<1>1. IInv => FrameKept
  BY DEF IInv
<1> QED
  BY <1>1, Invariance, PTL

(* The host reads whole frames, back to back, each once and those of a queue *)
(* in order.                                                                 *)
THEOREM StreamOfFrames == Spec => []HostStream
<1>1. IInv => HostStream
  BY DEF IInv
<1> QED
  BY <1>1, Invariance, PTL
=============================================================================
