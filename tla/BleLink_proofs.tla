-------------------------- MODULE BleLink_proofs --------------------------
(***************************************************************************)
(* Proofs about BleLink for every attribute range and number of            *)
(* procedures: the answer to a read, a write, an MTU exchange or a service *)
(* discovery meets the procedure that asked for it, the stack never works  *)
(* for a slot that thinks itself idle on one of these, and a slot stays    *)
(* busy only while something is owed to it, ignored ends apart.            *)
(***************************************************************************)
EXTENDS BleLink, QueueLemmas

-----------------------------------------------------------------------------
(* The inductive invariant *)

(* The message that ends a procedure of the stack. *)
Final(m) == m.kind \in Single \/ m.status = "ERROR_RSP" \/ Finished(m)

(* The stack works on the procedure begun last, for an attached slot, and    *)
(* under the name the slot has for it; for one that is not ranged the slot   *)
(* is busy.                                                                  *)
ClientInv ==
    /\ begun = starts
    /\ busy => attached
    /\ client # NoProc => up /\ attached /\ client.id = starts
    /\ client # NoProc /\ busy => client.kind = proc
    /\ client # NoProc /\ client.kind \notin Ranged => busy

(* No message is older than its connection; one that is not ranged belongs   *)
(* to the procedure in hand, and the one that ends it is the last of all.    *)
MsgsInv ==
    /\ up /\ ~attached => msgs = <<>>
    /\ \A i \in 1 .. Len(msgs) :
         /\ msgs[i].id <= starts
         /\ busy /\ msgs[i].id = begun => msgs[i].kind = proc
         /\ attached /\ msgs[i].kind \notin Ranged =>
              /\ busy /\ proc = msgs[i].kind /\ begun = msgs[i].id
              /\ Final(msgs[i]) => i = Len(msgs) /\ client = NoProc

(* The end of the procedure in hand is under way once the stack is done with *)
(* it.                                                                       *)
Owed == busy /\ up /\ ~mute /\ client = NoProc =>
            \E i \in 1 .. Len(msgs) : msgs[i].id = begun /\ Final(msgs[i])

IInv == TypeOK /\ ClientInv /\ MsgsInv /\ Owed

-----------------------------------------------------------------------------
(* What the steps do *)

LEMMA NamesDiffer ==
  /\ "NONE" \notin Kinds /\ Single \subseteq Kinds /\ Ranged \subseteq Kinds
  /\ Single \cap Ranged = {}
  /\ "DISC_SERVICE" \in Kinds /\ "DISC_SERVICE" \notin Single /\ "DISC_SERVICE" \notin Ranged
  BY DEF Kinds, Single, Ranged

(* The stack's procedure is none, or one of a kind with an id and a range. *)
LEMMA ClientFacts ==
  ASSUME client \in Procs
  PROVE  \/ client = NoProc /\ client.kind = "NONE" /\ client.from = 0 /\ client.to = 0
         \/ /\ client # NoProc /\ client.kind \in Kinds /\ client.id \in 1 .. MaxStarts
            /\ client.from \in 1 .. LastHandle + 1 /\ client.to \in Handles
  BY NamesDiffer DEF Procs, NoProc

(* The stack answers, or its link comes and goes. *)
Answer(status, last) ==
    /\ client # NoProc /\ status \in Statuses /\ last \in 0 .. LastHandle
    /\ Send(status, last)
    /\ UNCHANGED <<linkVars, up, starts, begun, mute>>
    /\ \/ /\ client' = NoProc
          /\ client.kind \in Single \/ status \in {"bleProcedureComplete", "bleTimeout", "ERROR_RSP"}
       \/ /\ client.kind \notin Single /\ status = "SUCCESS" /\ last \in Handles
          /\ client' = [client EXCEPT !.from = last + 1]

(* What the stack does: a link up, a link down, or an answer. *)
LEMMA StackCases ==
  ASSUME TypeOK, Stack
  PROVE  StackUp \/ StackDown \/ \E status, last : Answer(status, last)
<1> USE BleLinkAssumption
<1>1. client \in Procs
  BY DEF TypeOK
<1>2. CASE \E h \in Handles : StackFinds(h)
  <2>1. PICK h \in Handles : StackFinds(h)
    BY <1>2
  <2>2. client # NoProc
    BY <1>1, <2>1, ClientFacts DEF StackFinds, Handles
  <2>3. Answer("SUCCESS", h)
    BY <2>1, <2>2 DEF StackFinds, Answer, Statuses, Handles
  <2> QED
    BY <2>3
<1>3. CASE \E h \in Handles \cup {0} : StackCompletes(h)
  <2>1. PICK h \in Handles \cup {0} : StackCompletes(h)
    BY <1>3
  <2>2. Answer("bleProcedureComplete", h)
    BY <2>1 DEF StackCompletes, Answer, Statuses, Handles
  <2> QED
    BY <2>2
<1>4. CASE StackAnswers
  <2>1. client # NoProc
    BY <1>4, NamesDiffer DEF StackAnswers, NoProc
  <2>2. Answer("SUCCESS", 0)
    BY <1>4, <2>1 DEF StackAnswers, Answer, Statuses
  <2> QED
    BY <2>2
<1>5. CASE \E status \in {"bleTimeout", "ERROR_RSP"} : StackGivesUp(status)
  <2>1. PICK status \in {"bleTimeout", "ERROR_RSP"} : StackGivesUp(status)
    BY <1>5
  <2>2. Answer(status, 0)
    BY <2>1 DEF StackGivesUp, Answer, Statuses
  <2> QED
    BY <2>2
<1> QED
  BY <1>2, <1>3, <1>4, <1>5 DEF Stack

(* A command begins a procedure the stack has accepted, or changes nothing.  *)
Begin(kind, from, to, end) ==
    /\ kind \in Kinds /\ from \in Handles /\ to \in Handles /\ end \in 0 .. LastHandle
    /\ Ready /\ Accept(kind, from, to) /\ BeginProc(kind, end)
    /\ UNCHANGED <<attached, up, msgs>>

(* What a command does: it is refused, or it begins a procedure. *)
LEMMA CommandCases ==
  ASSUME Command
  PROVE  StartRefused \/ \E kind, from, to, end : Begin(kind, from, to, end)
<1> USE BleLinkAssumption
<1>1. CASE \E kind \in Kinds : Start(kind)
  <2>1. PICK kind \in Kinds : Start(kind)
    BY <1>1
  <2>2. Begin(kind, 1, LastHandle, 0)
    BY <2>1 DEF Start, Begin, Handles
  <2> QED
    BY <2>2
<1>2. CASE \E kind \in Kinds, from, to \in Handles : StartRanged(kind, from, to)
  <2>1. PICK kind \in Kinds, from \in Handles, to \in Handles : StartRanged(kind, from, to)
    BY <1>2
  <2>2. Begin(kind, from, to, to)
    BY <2>1 DEF StartRanged, Begin, Handles
  <2> QED
    BY <2>2
<1> QED
  BY <1>1, <1>2 DEF Command

(* A message is passed over, ends the procedure in hand, or makes the slot   *)
(* search the rest of the range.                                             *)
LEMMA HandleCases ==
  ASSUME HandleGattMsg, NEW m, m = Head(msgs)
  PROVE  \/ Keep /\ Quiet /\ (attached /\ busy /\ m.kind = proc => ~Final(m))
         \/ Ignore(m) /\ Quiet /\ attached /\ busy /\ m.kind = proc /\ proc \notin Single
                     /\ m.status # "ERROR_RSP"
         \/ EndProc /\ Quiet /\ attached /\ busy /\ m.kind = proc /\ (proc \in Ranged \/ Final(m))
         \/ /\ Accept(proc, m.last + 1, rangeEnd) /\ Keep
            /\ attached /\ busy /\ m.kind = proc /\ proc \in Ranged
            /\ m.status = "SUCCESS" /\ m.last # 0 /\ m.last < rangeEnd
<1>1. CASE ~(attached /\ busy)
  BY <1>1 DEF HandleGattMsg
<1>2. CASE attached /\ busy /\ m.kind # proc
  BY <1>2, NamesDiffer DEF HandleGattMsg, HandleProc
<1>3. CASE attached /\ busy /\ m.kind = proc /\ proc = "DISC_SERVICE"
  <2>1. HandleDiscoverServices(m)
    BY <1>3, NamesDiffer DEF HandleGattMsg, HandleProc
  <2>2. CASE m.status = "ERROR_RSP"
    BY <1>3, <2>1, <2>2 DEF HandleDiscoverServices, Final
  <2>3. CASE m.status # "ERROR_RSP" /\ m.last # 0 /\ Finished(m)
    BY <1>3, <2>1, <2>3 DEF HandleDiscoverServices, Final
  <2>4. CASE m.status # "ERROR_RSP" /\ m.last # 0 /\ ~Finished(m)
    BY <1>3, <2>1, <2>4, NamesDiffer DEF HandleDiscoverServices, Final
  <2>5. CASE m.status # "ERROR_RSP" /\ m.last = 0
    BY <1>3, <2>1, <2>5, NamesDiffer DEF HandleDiscoverServices
  <2> QED
    BY <2>2, <2>3, <2>4, <2>5
<1>4. CASE attached /\ busy /\ m.kind = proc /\ proc \in Ranged
  <2>1. HandleDiscoverRange(m)
    BY <1>4, NamesDiffer DEF HandleGattMsg, HandleProc
  <2>2. proc \notin Single
    BY <1>4, NamesDiffer
  <2> QED
    BY <1>4, <2>1, <2>2 DEF HandleDiscoverRange, SearchOn
<1>5. CASE attached /\ busy /\ m.kind = proc /\ proc \in Single
  <2>1. HandleSingle(m)
    BY <1>5, NamesDiffer DEF HandleGattMsg, HandleProc
  <2> QED
    BY <1>5, <2>1 DEF HandleSingle, Final
<1>6. CASE attached /\ busy /\ m.kind = proc /\ proc # "DISC_SERVICE" /\ proc \notin Ranged
           /\ proc \notin Single
  BY <1>6 DEF HandleGattMsg, HandleProc
<1> QED
  BY <1>1, <1>2, <1>3, <1>4, <1>5, <1>6

-----------------------------------------------------------------------------
(* Types *)

Queue == Seq(Messages)

(* The message queue before and after a step, place by place. *)
LEMMA QueueFacts ==
  /\ \A q, e : q \in Queue /\ e \in Messages => Append(q, e) \in Queue /\ Put(q, e, Append(q, e))
  /\ \A q : q \in Queue /\ q # <<>> =>
        Head(q) \in Messages /\ Tail(q) \in Queue /\ Take(q, Head(q), Tail(q))
  /\ \A q : q \in Queue => /\ Len(q) \in Nat /\ (q = <<>> <=> Len(q) = 0)
                           /\ \A i \in 1 .. Len(q) : q[i] \in Messages
<1>1. ASSUME NEW q \in Queue, NEW e \in Messages
      PROVE  Append(q, e) \in Queue /\ Put(q, e, Append(q, e))
  BY AppendPuts DEF Queue
<1>2. ASSUME NEW q \in Queue, q # <<>>
      PROVE  Head(q) \in Messages /\ Tail(q) \in Queue /\ Take(q, Head(q), Tail(q))
  BY <1>2, TailTakes DEF Queue
<1>3. ASSUME NEW q \in Queue
      PROVE  /\ Len(q) \in Nat /\ (q = <<>> <=> Len(q) = 0)
             /\ \A i \in 1 .. Len(q) : q[i] \in Messages
  BY QueuePlaces DEF Queue
<1> QED
  BY <1>1, <1>2, <1>3

Scalars ==
    /\ attached \in BOOLEAN /\ busy \in BOOLEAN /\ up \in BOOLEAN /\ mute \in BOOLEAN
    /\ proc \in Kinds \cup {"NONE"} /\ (busy <=> proc # "NONE")
    /\ rangeEnd \in 0 .. LastHandle
    /\ starts \in 0 .. MaxStarts /\ begun \in 0 .. starts

(* TypeOK is the types of what is not a queue, of the procedure and of the   *)
(* queue.                                                                    *)
LEMMA TypeParts == TypeOK <=> Scalars /\ client \in Procs /\ msgs \in Queue
  BY DEF TypeOK, Scalars, Queue

(* What the stack sends is a message about the procedure it runs. *)
LEMMA AnswerSends ==
  ASSUME TypeOK, NEW status, NEW last, Answer(status, last)
  PROVE  \E e \in Messages :
            /\ e.kind = client.kind /\ e.id = client.id /\ e.status = status /\ e.last = last
            /\ msgs' = Append(msgs, e) /\ msgs' \in Queue /\ Put(msgs, e, msgs')
<1> DEFINE e == [kind |-> client.kind, id |-> client.id, status |-> status, last |-> last]
<1>1. client \in Procs /\ msgs \in Queue
  BY TypeParts
<1>2. e \in Messages
  BY <1>1, ClientFacts DEF Answer, Messages
<1>3. msgs' = Append(msgs, e)
  BY DEF Answer, Send
<1>4. msgs' \in Queue /\ Put(msgs, e, msgs')
  BY <1>1, <1>2, <1>3, QueueFacts
<1> QED
  BY <1>2, <1>3, <1>4

(* Every step keeps the types. *)
LEMMA TypeStep == TypeOK /\ [Next]_vars => TypeOK'
<1> SUFFICES ASSUME TypeOK, [Next]_vars
             PROVE  Scalars' /\ (client \in Procs)' /\ (msgs \in Queue)'
  <2>1. TypeOK' <=> Scalars' /\ (client \in Procs)' /\ (msgs \in Queue)'
    BY DEF TypeOK, Scalars, Queue
  <2> QED
    BY <2>1
<1> USE BleLinkAssumption
<1>1. Scalars /\ client \in Procs /\ msgs \in Queue /\ NoProc \in Procs
  BY TypeParts DEF Procs
<1>2. \A kind \in Kinds, from \in 1 .. LastHandle + 1, to \in Handles : Accept(kind, from, to) =>
         client' \in Procs /\ starts' \in 0 .. MaxStarts /\ begun' \in 0 .. starts'
  BY <1>1 DEF Accept, Free, Procs, Scalars
<1>3. CASE StackUp \/ StackDown
  <2>1. up' \in BOOLEAN
    BY <1>3, Zenon DEF StackUp, StackDown
  <2> QED
    BY <1>1, <1>3, <2>1 DEF StackUp, StackDown, linkVars, Scalars
<1>4. ASSUME NEW status, NEW last, Answer(status, last)
      PROVE  Scalars' /\ (client \in Procs)' /\ (msgs \in Queue)'
  <2>1. Scalars'
    BY <1>1, <1>4 DEF Answer, linkVars, Scalars
  <2>2. client' \in Procs
    <3>1. CASE client' = NoProc
      BY <1>1, <3>1
    <3>2. CASE client' = [client EXCEPT !.from = last + 1] /\ last \in Handles
      <4>1. client \in [kind : Kinds, id : 1 .. MaxStarts, from : 1 .. LastHandle + 1, to : Handles]
        BY <1>1, <1>4 DEF Answer, Procs
      <4>2. last + 1 \in 1 .. LastHandle + 1
        BY <3>2 DEF Handles
      <4> QED
        BY <3>2, <4>1, <4>2 DEF Procs
    <3> QED
      BY <1>4, <3>1, <3>2 DEF Answer
  <2>3. msgs' \in Queue
    BY <1>4, AnswerSends
  <2> QED
    BY <2>1, <2>2, <2>3
<1>5. CASE Attach \/ Reset
  <2>1. attached' \in BOOLEAN /\ NoneBusy
    BY <1>5, Zenon DEF Attach, Reset
  <2>2. /\ busy' \in BOOLEAN /\ mute' \in BOOLEAN /\ ~busy' /\ proc' = "NONE" /\ rangeEnd' = 0
    BY <2>1, Zenon DEF NoneBusy
  <2> QED
    BY <1>1, <1>5, <2>1, <2>2 DEF Attach, Reset, Scalars
<1>6. CASE StartRefused
  BY <1>1, <1>6 DEF StartRefused, Ready, Scalars
<1>7. ASSUME NEW kind, NEW from, NEW to, NEW end, Begin(kind, from, to, end)
      PROVE  Scalars' /\ (client \in Procs)' /\ (msgs \in Queue)'
  <2>1. from \in 1 .. LastHandle + 1
    BY <1>7 DEF Begin, Handles
  <2>2. client' \in Procs /\ starts' \in 0 .. MaxStarts /\ begun' \in 0 .. starts'
    BY <1>2, <1>7, <2>1 DEF Begin
  <2> QED
    BY <1>1, <1>7, <2>2, NamesDiffer DEF Begin, BeginProc, Scalars
<1>8. CASE HandleGattMsg
  <2> DEFINE m == Head(msgs)
  <2>1. m \in Messages /\ msgs' \in Queue
    BY <1>1, <1>8, QueueFacts DEF HandleGattMsg
  <2>2. attached' = attached /\ up' = up
    BY <1>8 DEF HandleGattMsg
  <2>3. m.last \in 0 .. LastHandle
    BY <2>1 DEF Messages
  <2> HIDE DEF m
  <2>4. CASE Keep /\ Quiet
    BY <1>1, <2>1, <2>2, <2>4 DEF Keep, Quiet, Scalars
  <2>5. CASE Ignore(m) /\ Quiet
    BY <1>1, <2>1, <2>2, <2>5 DEF Ignore, Quiet, Scalars
  <2>6. CASE EndProc /\ Quiet
    <3>1. busy' \in BOOLEAN /\ mute' \in BOOLEAN /\ ~busy' /\ proc' = "NONE" /\ rangeEnd' = 0
      BY <2>6, Zenon DEF EndProc, NoneBusy
    <3> QED
      BY <1>1, <2>1, <2>2, <2>6, <3>1 DEF Quiet, Scalars
  <2>7. CASE Accept(proc, m.last + 1, rangeEnd) /\ Keep /\ proc \in Ranged /\ m.last < rangeEnd
    <3>1. proc \in Kinds /\ m.last + 1 \in 1 .. LastHandle + 1 /\ rangeEnd \in Handles
      BY <1>1, <2>3, <2>7, NamesDiffer DEF Scalars, Handles
    <3>2. client' \in Procs /\ starts' \in 0 .. MaxStarts /\ begun' \in 0 .. starts'
      BY <1>2, <2>7, <3>1
    <3> QED
      BY <1>1, <2>1, <2>2, <2>7, <3>2 DEF Keep, Scalars
  <2> QED
    BY <1>8, <2>4, <2>5, <2>6, <2>7, HandleCases DEF m
<1>9. CASE UNCHANGED vars
  BY <1>1, <1>9 DEF vars, linkVars, Scalars
<1> QED
  BY <1>3, <1>4, <1>5, <1>6, <1>7, <1>8, <1>9, StackCases, CommandCases DEF Next

-----------------------------------------------------------------------------
(* The stack and the slot agree *)

LEMMA ClientStep == TypeOK /\ ClientInv /\ MsgsInv /\ [Next]_vars => ClientInv'
<1> SUFFICES ASSUME TypeOK, ClientInv, MsgsInv, [Next]_vars PROVE ClientInv'
  OBVIOUS
<1> USE BleLinkAssumption
<1>1. Scalars /\ client \in Procs /\ msgs \in Queue
  BY TypeParts
<1>2. CASE StackUp \/ StackDown
  BY <1>2 DEF StackUp, StackDown, linkVars, ClientInv
<1>3. ASSUME NEW status, NEW last, Answer(status, last) PROVE ClientInv'
  <2>1. \/ client' = NoProc
        \/ client # NoProc /\ client'.kind = client.kind /\ client'.id = client.id
    <3>1. CASE client' = [client EXCEPT !.from = last + 1]
      <4>1. client \in [kind : Kinds, id : 1 .. MaxStarts, from : 1 .. LastHandle + 1, to : Handles]
        BY <1>1, <1>3 DEF Answer, Procs
      <4> QED
        BY <1>3, <3>1, <4>1 DEF Answer
    <3> QED
      BY <1>3, <3>1 DEF Answer
  <2> QED
    BY <1>3, <2>1 DEF Answer, linkVars, ClientInv
<1>4. CASE Attach \/ Reset
  BY <1>4 DEF Attach, Reset, NoneBusy, ClientInv
<1>5. CASE StartRefused
  BY <1>5 DEF StartRefused, Ready, ClientInv
<1>6. ASSUME NEW kind, NEW from, NEW to, NEW end, Begin(kind, from, to, end) PROVE ClientInv'
  BY <1>6 DEF Begin, Ready, Accept, Free, BeginProc, ClientInv
<1>7. CASE HandleGattMsg
  <2> DEFINE m == Head(msgs)
  <2>1. attached' = attached /\ up' = up
    BY <1>7 DEF HandleGattMsg
  <2>2. m \in Messages /\ Len(msgs) \in Nat \ {0} /\ m = msgs[1]
    BY <1>1, <1>7, QueueFacts DEF HandleGattMsg, Take
  <2> HIDE DEF m
  <2>3. CASE (Keep \/ Ignore(m)) /\ Quiet
    BY <2>1, <2>3 DEF Keep, Ignore, Quiet, ClientInv
  <2>4. CASE EndProc /\ Quiet /\ attached /\ busy /\ m.kind = proc /\ (proc \in Ranged \/ Final(m))
    <3>1. client # NoProc => client.kind \in Ranged
      <4>1. CASE proc \in Ranged
        BY <2>4, <4>1 DEF ClientInv
      <4>2. CASE proc \notin Ranged
        <5>1. client = NoProc
          BY <2>2, <2>4, <4>2 DEF MsgsInv
        <5> QED
          BY <5>1
      <4> QED
        BY <4>1, <4>2
    <3> QED
      BY <2>1, <2>4, <3>1 DEF EndProc, NoneBusy, Quiet, ClientInv
  <2>5. CASE Accept(proc, m.last + 1, rangeEnd) /\ Keep /\ attached /\ busy
    BY <2>1, <2>5 DEF Accept, Free, Keep, ClientInv
  <2> QED
    BY <1>7, <2>3, <2>4, <2>5, HandleCases DEF m
<1>8. CASE UNCHANGED vars
  BY <1>8 DEF vars, linkVars, ClientInv
<1> QED
  BY <1>2, <1>3, <1>4, <1>5, <1>6, <1>7, <1>8, StackCases, CommandCases DEF Next

-----------------------------------------------------------------------------
(* Messages and the procedure they belong to *)

(* MsgsInv for one place of the queue. *)
Placed(q, i) ==
    /\ q[i].id <= starts
    /\ busy /\ q[i].id = begun => q[i].kind = proc
    /\ attached /\ q[i].kind \notin Ranged =>
         /\ busy /\ proc = q[i].kind /\ begun = q[i].id
         /\ Final(q[i]) => i = Len(q) /\ client = NoProc

(* MsgsInv says something of each place of the queue. *)
LEMMA MsgsPlaced ==
  /\ MsgsInv <=> (up /\ ~attached => msgs = <<>>) /\ \A i \in 1 .. Len(msgs) : Placed(msgs, i)
  /\ MsgsInv' <=> (up' /\ ~attached' => msgs' = <<>>) /\ \A i \in 1 .. Len(msgs') : Placed(msgs, i)'
  BY DEF MsgsInv, Placed

(* Every step keeps what is said of the queued messages. *)
LEMMA MsgsStep == TypeOK /\ ClientInv /\ MsgsInv /\ [Next]_vars => MsgsInv'
<1> SUFFICES ASSUME TypeOK, ClientInv, MsgsInv, [Next]_vars
             PROVE  /\ up' /\ ~attached' => msgs' = <<>>
                    /\ \A i \in 1 .. Len(msgs') : Placed(msgs, i)'
  BY MsgsPlaced
<1>1. Scalars /\ client \in Procs /\ msgs \in Queue /\ starts \in Nat
  BY TypeParts, BleLinkAssumption DEF Scalars
<1>2. /\ Len(msgs) \in Nat /\ (msgs = <<>> <=> Len(msgs) = 0)
      /\ \A i \in 1 .. Len(msgs) : msgs[i].id \in Nat
  BY <1>1, QueueFacts DEF Messages
<1>3. /\ up /\ ~attached => msgs = <<>>
      /\ \A i \in 1 .. Len(msgs) : Placed(msgs, i)
  BY MsgsPlaced
<1>4. CASE StackUp \/ StackDown
  BY <1>2, <1>3, <1>4 DEF StackUp, StackDown, linkVars, Placed
<1>5. ASSUME NEW status, NEW last, Answer(status, last)
      PROVE  /\ up' /\ ~attached' => msgs' = <<>>
             /\ \A i \in 1 .. Len(msgs') : Placed(msgs, i)'
  <2>1. PICK e \in Messages : /\ e.kind = client.kind /\ e.id = client.id /\ e.status = status
                              /\ Put(msgs, e, msgs')
    BY <1>5, AnswerSends
  <2>2. /\ client # NoProc /\ up /\ attached /\ client.id = starts /\ begun = starts
        /\ busy => client.kind = proc
        /\ client.kind \notin Ranged => busy
    BY <1>5 DEF Answer, ClientInv
  <2>3. UNCHANGED <<attached, busy, proc, up, starts, begun>>
    BY <1>5 DEF Answer, linkVars
  <2>4. ASSUME NEW i \in 1 .. Len(msgs) PROVE Placed(msgs, i)'
    <3>1. msgs'[i] = msgs[i] /\ Placed(msgs, i)
      BY <1>3, <2>1 DEF Put
    <3> QED
      BY <2>2, <2>3, <3>1 DEF Placed, Final, Finished
  <2>5. ASSUME NEW i \in 1 .. Len(msgs'), i \notin 1 .. Len(msgs) PROVE Placed(msgs, i)'
    <3>1. i = Len(msgs') /\ msgs'[i] = e
      BY <1>2, <2>1, <2>5 DEF Put
    <3>2. Final(e) => client' = NoProc
      BY <1>5, <2>1 DEF Answer, Final, Finished
    <3>3. msgs'[i].id <= starts'
      BY <1>1, <2>1, <2>2, <2>3, <3>1
    <3>4. busy' /\ msgs'[i].id = begun' => msgs'[i].kind = proc'
      BY <2>1, <2>2, <2>3, <3>1
    <3>5. /\ msgs'[i].kind \notin Ranged => busy' /\ proc' = msgs'[i].kind /\ begun' = msgs'[i].id
          /\ Final(msgs'[i]) => client' = NoProc
      BY <2>1, <2>2, <2>3, <3>1, <3>2
    <3> QED
      BY <3>1, <3>3, <3>4, <3>5 DEF Placed, Final, Finished
  <2>6. ASSUME NEW i \in 1 .. Len(msgs') PROVE Placed(msgs, i)'
    <3>1. CASE i \in 1 .. Len(msgs)
      BY <2>4, <3>1
    <3>2. CASE i \notin 1 .. Len(msgs)
      BY <2>5, <3>2
    <3> QED
      BY <3>1, <3>2
  <2> QED
    BY <2>2, <2>3, <2>6
<1>6. CASE Attach \/ Reset
  BY <1>2, <1>3, <1>6 DEF Attach, Reset, NoneBusy, Placed
<1>7. CASE StartRefused
  BY <1>3, <1>7 DEF StartRefused, Ready, Placed
<1>8. ASSUME NEW kind, NEW from, NEW to, NEW end, Begin(kind, from, to, end)
      PROVE  /\ up' /\ ~attached' => msgs' = <<>>
             /\ \A i \in 1 .. Len(msgs') : Placed(msgs, i)'
  <2>1. /\ attached /\ ~busy /\ UNCHANGED <<attached, up, msgs>>
        /\ begun' = starts + 1 /\ starts' = starts + 1
    BY <1>8 DEF Begin, Ready, Accept
  <2>2. \A i \in 1 .. Len(msgs) : msgs[i].id \in Nat /\ msgs[i].id <= starts /\ msgs[i].kind \in Ranged
    BY <1>2, <1>3, <2>1 DEF Placed
  <2> QED
    BY <1>1, <2>1, <2>2 DEF Placed
<1>9. CASE HandleGattMsg
  <2> DEFINE m == Head(msgs)
  <2>1. Take(msgs, m, msgs') /\ m \in Messages /\ msgs # <<>>
    BY <1>1, <1>9, QueueFacts DEF HandleGattMsg
  <2>2. attached' = attached /\ up' = up
    BY <1>9 DEF HandleGattMsg
  <2> HIDE DEF m
  <2>3. Placed(msgs, 1) /\ msgs[1] = m
    BY <1>3, <2>1 DEF Take
  <2>4. ~(up' /\ ~attached')
    BY <1>3, <2>1, <2>2
  <2>5. ASSUME NEW i \in 1 .. Len(msgs') PROVE Placed(msgs, i)'
    <3>1. /\ msgs'[i] = msgs[i + 1] /\ i + 1 \in 1 .. Len(msgs) /\ Len(msgs) # 1
          /\ (i + 1 = Len(msgs) => i = Len(msgs'))
      BY <2>1 DEF Take
    <3>2. Placed(msgs, i + 1) /\ msgs[i + 1].id \in Nat
      BY <1>2, <1>3, <3>1
    <3>3. CASE (Keep \/ Ignore(m)) /\ Quiet
      BY <2>2, <3>1, <3>2, <3>3 DEF Keep, Ignore, Quiet, Placed, Final, Finished
    <3>4. CASE EndProc /\ Quiet /\ attached /\ busy /\ m.kind = proc /\ (proc \in Ranged \/ Final(m))
      <4>1. ~(m.kind \notin Ranged /\ Final(m))
        BY <2>3, <3>1, <3>4 DEF Placed
      <4>2. msgs[i + 1].kind \in Ranged
        BY <3>2, <3>4, <4>1 DEF Placed
      <4> QED
        BY <2>2, <3>1, <3>2, <3>4, <4>2 DEF EndProc, NoneBusy, Quiet, Placed
    <3>5. CASE Accept(proc, m.last + 1, rangeEnd) /\ Keep /\ attached /\ busy /\ proc \in Ranged
      <4>1. msgs[i + 1].kind \in Ranged
        BY <3>2, <3>5 DEF Placed
      <4>2. msgs[i + 1].id <= starts
        BY <3>2 DEF Placed
      <4>3. starts' = starts + 1 /\ begun' = starts + 1
        BY <3>5 DEF Accept
      <4> QED
        BY <1>1, <3>1, <3>2, <4>1, <4>2, <4>3 DEF Placed
    <3> QED
      BY <1>9, <3>3, <3>4, <3>5, HandleCases DEF m
  <2> QED
    BY <2>4, <2>5
<1>10. CASE UNCHANGED vars
  BY <1>3, <1>10 DEF vars, linkVars, Placed, Final, Finished
<1> QED
  BY <1>4, <1>5, <1>6, <1>7, <1>8, <1>9, <1>10, StackCases, CommandCases DEF Next

-----------------------------------------------------------------------------
(* A busy slot is owed an end *)

LEMMA OwedStep == IInv /\ [Next]_vars => Owed'
<1> SUFFICES ASSUME TypeOK, ClientInv, MsgsInv, Owed, [Next]_vars,
                    busy', up', ~mute', client' = NoProc
             PROVE  \E i \in 1 .. Len(msgs') : msgs'[i].id = begun' /\ Final(msgs'[i])
  BY DEF IInv, Owed, Final, Finished
<1>1. Scalars /\ client \in Procs /\ msgs \in Queue
  BY TypeParts
<1>2. ~(StackUp \/ StackDown)
  BY DEF StackUp, StackDown, linkVars, ClientInv
<1>3. ASSUME NEW status, NEW last, Answer(status, last)
      PROVE  \E i \in 1 .. Len(msgs') : msgs'[i].id = begun' /\ Final(msgs'[i])
  <2>1. PICK e \in Messages : /\ e.kind = client.kind /\ e.id = client.id /\ e.status = status
                              /\ Put(msgs, e, msgs')
    BY <1>3, AnswerSends
  <2>2. e.id = begun /\ begun' = begun
    BY <1>3, <2>1 DEF Answer, ClientInv
  <2>3. Final(e)
    <3>1. CASE client' = [client EXCEPT !.from = last + 1]
      <4>1. client \in [kind : Kinds, id : 1 .. MaxStarts, from : 1 .. LastHandle + 1, to : Handles]
        BY <1>1, <1>3 DEF Answer, Procs
      <4>2. client'.kind \in Kinds
        BY <3>1, <4>1
      <4> QED
        BY <4>2, NamesDiffer DEF NoProc
    <3> QED
      BY <1>3, <2>1, <3>1 DEF Answer, Final, Finished
  <2>4. Len(msgs') \in 1 .. Len(msgs') /\ msgs'[Len(msgs')] = e
    BY <2>1 DEF Put
  <2> QED
    BY <2>2, <2>3, <2>4
<1>4. ~(Attach \/ Reset \/ StartRefused)
  BY DEF Attach, Reset, NoneBusy, StartRefused
<1>5. \A kind \in Kinds : \A from, to : ~Accept(kind, from, to)
  BY NamesDiffer DEF Accept, NoProc
<1>6. CASE HandleGattMsg
  <2> DEFINE m == Head(msgs)
  <2>1. Take(msgs, m, msgs') /\ m \in Messages
    BY <1>1, <1>6, QueueFacts DEF HandleGattMsg
  <2>2. attached' = attached /\ up' = up
    BY <1>6 DEF HandleGattMsg
  <2> HIDE DEF m
  <2>3. Quiet /\ busy /\ proc' = proc /\ attached /\ ~mute /\ ~(m.id = begun /\ Final(m))
    <3>1. busy => attached /\ (m.id = begun => m.kind = proc)
      <4>1. 1 \in 1 .. Len(msgs) /\ m = msgs[1]
        BY <2>1 DEF Take
      <4> QED
        BY <4>1 DEF MsgsInv, ClientInv
    <3>2. CASE Keep /\ Quiet /\ (attached /\ busy /\ m.kind = proc => ~Final(m))
      BY <3>1, <3>2 DEF Keep
    <3>3. CASE Ignore(m) /\ Quiet /\ attached /\ busy /\ m.kind = proc /\ proc \notin Single
                         /\ m.status # "ERROR_RSP"
      BY <3>3 DEF Ignore, Final
    <3>4. ~EndProc
      BY DEF EndProc, NoneBusy
    <3>5. proc \in Ranged => ~Accept(proc, m.last + 1, rangeEnd)
      BY <1>5, NamesDiffer
    <3> QED
      BY <1>6, <3>2, <3>3, <3>4, <3>5, HandleCases DEF m
  <2>4. PICK i \in 1 .. Len(msgs) : msgs[i].id = begun /\ Final(msgs[i])
    BY <2>2, <2>3 DEF Owed, Quiet
  <2>5. i # 1 /\ i - 1 \in 1 .. Len(msgs') /\ msgs'[i - 1] = msgs[i]
    <3>1. i # 1
      BY <2>1, <2>3, <2>4 DEF Take
    <3>2. i - 1 \in 1 .. Len(msgs) - 1 /\ (i - 1) + 1 = i
      BY <2>1, <3>1 DEF Take
    <3> QED
      BY <2>1, <3>1, <3>2 DEF Take
  <2> QED
    BY <2>3, <2>4, <2>5 DEF Quiet
<1>7. CASE UNCHANGED vars
  BY <1>7 DEF vars, linkVars, Owed, Final, Finished
<1> QED
  BY <1>2, <1>3, <1>4, <1>5, <1>6, <1>7, StackCases, CommandCases DEF Next, Begin

-----------------------------------------------------------------------------
(* The theorems *)

LEMMA InitInv == Init => IInv
<1> SUFFICES ASSUME Init PROVE IInv
  OBVIOUS
<1>1. Len(msgs) = 0 /\ msgs \in Queue
  BY EmptySeq DEF Init, Queue
<1>2. Scalars
  <2>1. 0 \in 0 .. LastHandle /\ 0 \in 0 .. MaxStarts /\ 0 \in 0 .. 0
    BY BleLinkAssumption
  <2> QED
    BY <2>1, Zenon DEF Init, Scalars
<1>3. TypeOK
  BY <1>1, <1>2, TypeParts DEF Init, Procs
<1> QED
  BY <1>1, <1>3 DEF Init, IInv, ClientInv, MsgsInv, Owed

(* Every step keeps the inductive invariant. *)
LEMMA StepInv == IInv /\ [Next]_vars => IInv'
  BY TypeStep, ClientStep, MsgsStep, OwedStep DEF IInv

(* What is queued belongs to procedures begun, in order, and a busy slot is  *)
(* owed a final message: IInv holds of a slot for every number of handles    *)
(* and procedures.                                                           *)
THEOREM Invariance == Spec => []IInv
  BY InitInv, StepInv, PTL DEF Spec

(* Messages and the procedures of the stack keep to their types. *)
THEOREM TypeCorrect == Spec => []TypeOK
<1>1. IInv => TypeOK
  BY DEF IInv
<1> QED
  BY <1>1, Invariance, PTL

(* BleLink_HandleGattMsg never reports the answer to a read, a write, an MTU *)
(* exchange or a service discovery under another command, nor drops it.      *)
THEOREM AnswersMeetTheirProcedure == Spec => []Answered
<1>1. IInv => Answered
  <2> SUFFICES ASSUME IInv, NEW m \in Messages, Heard(m), m.kind \notin Ranged
               PROVE  Taken(m)
    BY DEF Answered
  <2>1. msgs \in Queue
    BY TypeParts DEF IInv
  <2>2. 1 \in 1 .. Len(msgs) /\ m = msgs[1]
    BY <2>1, QueueFacts DEF Heard, Take
  <2> QED
    BY <2>2 DEF IInv, MsgsInv, Heard, Taken
<1> QED
  BY <1>1, Invariance, PTL

(* proc_busy is not left set with nothing under way, ignored ends apart.     *)
THEOREM BusyIsOwed == Spec => []NotStuck
<1>1. IInv => NotStuck
  <2>1. ASSUME IInv PROVE msgs = <<>> => Len(msgs) = 0
    BY <2>1, QueueFacts, TypeParts DEF IInv
  <2> QED
    BY <2>1 DEF IInv, Owed, NotStuck
<1> QED
  BY <1>1, Invariance, PTL

(* proc_busy covers the whole of a procedure that is not a ranged discovery. *)
THEOREM OneAtATime == Spec => []OneProcedure
<1>1. IInv => OneProcedure
  BY DEF IInv, ClientInv, OneProcedure
<1> QED
  BY <1>1, Invariance, PTL
=============================================================================
