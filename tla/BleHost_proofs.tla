--------------------------- MODULE BleHost_proofs ---------------------------
(***************************************************************************)
(* Proofs about BleHost for every number of slots, connection handles and  *)
(* events under way: no link of the stack is orphaned, one connect at a    *)
(* time with one outcome owed to it, and active_scan is no stale flag.     *)
(*                                                                         *)
(* The host manager learns of a link from two messages that may be long    *)
(* under way.  What makes it right is that, for each handle, they          *)
(* alternate: read in order, the queue leads from what the slots have to   *)
(* what the stack has.                                                     *)
(***************************************************************************)
EXTENDS BleHost, QueueLemmas, FiniteSetTheorems

-----------------------------------------------------------------------------
(* The inductive invariant *)

(* In q: every a has a b before it; some a has no b behind it; there is no   *)
(* a; between two a there is a b.                                            *)
After(q, a, b)   == \A j \in 1 .. Len(q) : q[j] = a => \E i \in 1 .. Len(q) : i < j /\ q[i] = b
EndsWith(q, a, b) == \E i \in 1 .. Len(q) : q[i] = a /\ \A j \in 1 .. Len(q) : i < j => q[j] # b
Without(q, a)    == \A i \in 1 .. Len(q) : q[i] # a
Apart(q, a, b)   == \A i, j \in 1 .. Len(q) : i < j /\ q[i] = a /\ q[j] = a =>
                        \E k \in 1 .. Len(q) : i < k /\ k < j /\ q[k] = b

(* Read in order, the events u (up) and d (down) in q lead from has to in,   *)
(* in turns.                                                                 *)
Story(q, u, d, has, in) ==
    /\ Apart(q, d, u)
    /\ has  => After(q, u, d)
    /\ ~has => After(q, d, u)
    /\ in   => (has /\ Without(q, d)) \/ EndsWith(q, u, d)
    /\ ~in  => (~has /\ Without(q, u)) \/ EndsWith(q, d, u)

Has(h) == \E s \in Slots : slots[s].handle = h

LinksInv == \A h \in Handles : Story(events, Established(h), Terminated(h), Has(h), h \in up)

(* The slots agree with the links of ble_link_fsm.c and with the pending     *)
(* connect, and share no handle.                                             *)
SlotsInv ==
    /\ \A s, t \in Slots : s # t /\ slots[s].handle = slots[t].handle => slots[s].handle = NoHandle
    /\ \A s \in Slots : /\ link[s] = slots[s].handle
                        /\ link[s] # NoHandle <=> slots[s].state = "CONNECTED"
                        /\ slots[s].state = "CONNECTING" <=> pending = s

(* One outcome for a pending connect, to come or under way, and no other.    *)
IsOutcome(e) == e.kind \in {"FAILED", "ESTABLISHED"}
OutcomeInv ==
    /\ linking => pending # NoSlot /\ \A i \in 1 .. Len(events) : ~IsOutcome(events[i])
    /\ pending = NoSlot => \A i \in 1 .. Len(events) : ~IsOutcome(events[i])
    /\ pending # NoSlot /\ ~linking => \E i \in 1 .. Len(events) : IsOutcome(events[i])
    /\ \A i, j \in 1 .. Len(events) : IsOutcome(events[i]) /\ IsOutcome(events[j]) => i = j

IInv == TypeOK /\ SlotsInv /\ OutcomeInv /\ LinksInv /\ ScanKnown

-----------------------------------------------------------------------------
(* Stories *)

(* What an element put behind a queue leaves as it is. *)
LEMMA PutKeeps ==
  ASSUME NEW q, NEW e, NEW r, Put(q, e, r), NEW a, NEW b
  PROVE  /\ e # a /\ After(q, a, b) => After(r, a, b)
         /\ e # b /\ EndsWith(q, a, b) => EndsWith(r, a, b)
         /\ e # a /\ Without(q, a) => Without(r, a)
         /\ e # a /\ Apart(q, a, b) => Apart(r, a, b)
<1>1. /\ \A i \in 1 .. Len(q) : i \in 1 .. Len(r) /\ r[i] = q[i]
      /\ \A i \in 1 .. Len(r) : r[i] # e => i \in 1 .. Len(q) /\ r[i] = q[i]
  BY DEF Put
<1>2. e # a /\ After(q, a, b) => After(r, a, b)
  BY <1>1 DEF After
<1>3. e # b /\ EndsWith(q, a, b) => EndsWith(r, a, b)
  BY <1>1 DEF EndsWith
<1>4. e # a /\ Without(q, a) => Without(r, a)
  BY <1>1 DEF Without
<1>5. e # a /\ Apart(q, a, b) => Apart(r, a, b)
  BY <1>1, SMTT(30) DEF Apart
<1> QED
  BY <1>2, <1>3, <1>4, <1>5

(* The places of what is left are those of the queue, one further. *)
LEMMA Shifted ==
  ASSUME NEW q, NEW e, NEW r, Take(q, e, r)
  PROVE  /\ q[1] = e /\ 1 \in 1 .. Len(q)
         /\ \A i \in 1 .. Len(r) : i + 1 \in 1 .. Len(q) /\ q[i + 1] = r[i] /\ 1 < i + 1
         /\ \A i \in 1 .. Len(q) : i = 1 \/ \E k \in 1 .. Len(r) : i = k + 1 /\ r[k] = q[i]
<1>1. ASSUME NEW i \in 1 .. Len(q), i # 1
      PROVE  \E k \in 1 .. Len(r) : i = k + 1 /\ r[k] = q[i]
  <2>1. i - 1 \in 1 .. Len(r) /\ (i - 1) + 1 = i /\ i - 1 \in 1 .. Len(q) - 1
    BY <1>1 DEF Take
  <2>2. r[i - 1] = q[i]
    BY <2>1 DEF Take
  <2> QED
    BY <2>1, <2>2
<1> QED
  BY <1>1 DEF Take

(* What the head taken from a queue leaves as it is. *)
LEMMA TakeKeeps ==
  ASSUME NEW q, NEW e, NEW r, Take(q, e, r), NEW a, NEW b
  PROVE  /\ e # b /\ After(q, a, b) => After(r, a, b)
         /\ e # a /\ EndsWith(q, a, b) => EndsWith(r, a, b)
         /\ Without(q, a) => Without(r, a)
         /\ Apart(q, a, b) => Apart(r, a, b)
<1>1. /\ q[1] = e
      /\ \A i \in 1 .. Len(r) : i + 1 \in 1 .. Len(q) /\ q[i + 1] = r[i]
      /\ \A i \in 1 .. Len(q) : i = 1 \/ \E k \in 1 .. Len(r) : i = k + 1 /\ r[k] = q[i]
  <2>1. q[1] = e /\ \A i \in 1 .. Len(r) : i + 1 \in 1 .. Len(q) /\ q[i + 1] = r[i]
    BY Shifted
  <2>2. \A i \in 1 .. Len(q) : i = 1 \/ \E k \in 1 .. Len(r) : i = k + 1 /\ r[k] = q[i]
    BY Shifted
  <2> QED
    BY <2>1, <2>2
<1>2. ASSUME e # b, After(q, a, b), NEW j \in 1 .. Len(r), r[j] = a
      PROVE  \E i \in 1 .. Len(r) : i < j /\ r[i] = b
  <2>1. PICK l \in 1 .. Len(q) : l < j + 1 /\ q[l] = b
    <3>1. j + 1 \in 1 .. Len(q) /\ q[j + 1] = a
      BY <1>1, <1>2
    <3> QED
      BY <1>2, <3>1 DEF After
  <2>2. PICK k \in 1 .. Len(r) : l = k + 1 /\ r[k] = q[l]
    BY <1>1, <1>2, <2>1
  <2> QED
    BY <2>1, <2>2
<1>3. ASSUME e # a, EndsWith(q, a, b)
      PROVE  \E i \in 1 .. Len(r) : r[i] = a /\ \A j \in 1 .. Len(r) : i < j => r[j] # b
  <2>1. PICK l \in 1 .. Len(q) : q[l] = a /\ \A j \in 1 .. Len(q) : l < j => q[j] # b
    BY <1>3 DEF EndsWith
  <2>2. PICK k \in 1 .. Len(r) : l = k + 1 /\ r[k] = q[l]
    BY <1>1, <1>3, <2>1
  <2>3. ASSUME NEW j \in 1 .. Len(r), k < j PROVE r[j] # b
    <3>1. j + 1 \in 1 .. Len(q) /\ q[j + 1] = r[j] /\ l < j + 1
      BY <1>1, <2>2, <2>3
    <3> QED
      BY <2>1, <3>1
  <2> QED
    BY <2>1, <2>2, <2>3
<1>4. Without(q, a) => Without(r, a)
  BY <1>1 DEF Without
<1>5. ASSUME Apart(q, a, b), NEW i \in 1 .. Len(r), NEW j \in 1 .. Len(r), i < j, r[i] = a, r[j] = a
      PROVE  \E k \in 1 .. Len(r) : i < k /\ k < j /\ r[k] = b
  <2>1. PICK l \in 1 .. Len(q) : i + 1 < l /\ l < j + 1 /\ q[l] = b
    <3>1. /\ i + 1 \in 1 .. Len(q) /\ q[i + 1] = a /\ j + 1 \in 1 .. Len(q) /\ q[j + 1] = a
          /\ i + 1 < j + 1
      BY <1>1, <1>5
    <3> QED
      BY <1>5, <3>1 DEF Apart
  <2>2. l # 1
    BY <2>1
  <2>3. PICK k \in 1 .. Len(r) : l = k + 1 /\ r[k] = q[l]
    BY <1>1, <2>2
  <2> QED
    BY <2>1, <2>3
<1> QED
  BY <1>2, <1>3, <1>4, <1>5 DEF After, EndsWith, Apart

(* An event about something else leaves a story as it is. *)
LEMMA StoryOther ==
  ASSUME NEW q, NEW e, NEW r, NEW u, NEW d, NEW has \in BOOLEAN, NEW in \in BOOLEAN,
         e # u, e # d, Put(q, e, r) \/ Take(q, e, r), Story(q, u, d, has, in)
  PROVE  Story(r, u, d, has, in)
<1>1. CASE Put(q, e, r)
  BY <1>1, PutKeeps DEF Story
<1>2. CASE Take(q, e, r)
  BY <1>2, TakeKeeps DEF Story
<1> QED
  BY <1>1, <1>2

(* The send that adds the link, at the end of a story that leads to none.    *)
LEMMA StorySendUp ==
  ASSUME NEW q, NEW r, NEW u, NEW d, NEW has \in BOOLEAN,
         u # d, Put(q, u, r), Story(q, u, d, has, FALSE)
  PROVE  Story(r, u, d, has, TRUE)
<1>1. /\ Len(r) \in 1 .. Len(r) /\ r[Len(r)] = u /\ \A j \in 1 .. Len(r) : ~(Len(r) < j)
      /\ \A i \in 1 .. Len(q) : i \in 1 .. Len(r) /\ r[i] = q[i] /\ i < Len(r)
      /\ \A i \in 1 .. Len(r) : i \in 1 .. Len(q) \/ i = Len(r)
  BY DEF Put
<1>2. has => After(r, u, d)
  <2> SUFFICES ASSUME has, NEW j \in 1 .. Len(r), r[j] = u
               PROVE  \E i \in 1 .. Len(r) : i < j /\ r[i] = d
    BY DEF After
  <2>1. CASE j \in 1 .. Len(q)
    <3>1. After(q, u, d) /\ q[j] = u
      BY <1>1, <2>1 DEF Story
    <3> QED
      BY <1>1, <2>1, <3>1 DEF After
  <2>2. CASE j = Len(r)
    <3>1. EndsWith(q, d, u)
      BY DEF Story
    <3> QED
      BY <1>1, <2>2, <3>1 DEF EndsWith
  <2> QED
    BY <1>1, <2>1, <2>2
<1>3. EndsWith(r, u, d)
  BY <1>1 DEF EndsWith
<1> QED
  BY <1>2, <1>3, PutKeeps DEF Story

(* The send that takes the link away, at the end of a story that leads to it. *)
LEMMA StorySendDown ==
  ASSUME NEW q, NEW r, NEW u, NEW d, NEW has \in BOOLEAN,
         u # d, Put(q, d, r), Story(q, u, d, has, TRUE)
  PROVE  Story(r, u, d, has, FALSE)
<1>1. /\ Len(r) \in 1 .. Len(r) /\ r[Len(r)] = d /\ \A j \in 1 .. Len(r) : ~(Len(r) < j)
      /\ \A i \in 1 .. Len(q) : i \in 1 .. Len(r) /\ r[i] = q[i] /\ i < Len(r)
      /\ \A i \in 1 .. Len(r) : i \in 1 .. Len(q) \/ i = Len(r)
  BY DEF Put
<1>2. (has /\ Without(q, d)) \/ EndsWith(q, u, d)
  BY DEF Story
<1>3. Apart(r, d, u)
  <2> SUFFICES ASSUME NEW i \in 1 .. Len(r), NEW j \in 1 .. Len(r), i < j, r[i] = d, r[j] = d
               PROVE  \E k \in 1 .. Len(r) : i < k /\ k < j /\ r[k] = u
    BY DEF Apart
  <2>1. i \in 1 .. Len(q) /\ q[i] = d
    BY <1>1
  <2>2. CASE j \in 1 .. Len(q)
    <3>1. q[j] = d /\ Apart(q, d, u)
      BY <1>1, <2>2 DEF Story
    <3> QED
      BY <1>1, <2>1, <2>2, <3>1 DEF Apart
  <2>3. CASE j = Len(r)
    <3>1. PICK k \in 1 .. Len(q) : q[k] = u /\ \A l \in 1 .. Len(q) : k < l => q[l] # d
      BY <1>2, <2>1 DEF Without, EndsWith
    <3>2. i # k /\ ~(k < i)
      BY <2>1, <3>1
    <3> QED
      BY <1>1, <2>1, <2>3, <3>1, <3>2
  <2> QED
    BY <1>1, <2>2, <2>3
<1>4. ~has => After(r, d, u)
  <2> SUFFICES ASSUME ~has, NEW j \in 1 .. Len(r), r[j] = d
               PROVE  \E i \in 1 .. Len(r) : i < j /\ r[i] = u
    BY DEF After
  <2>1. CASE j \in 1 .. Len(q)
    <3>1. After(q, d, u) /\ q[j] = d
      BY <1>1, <2>1 DEF Story
    <3> QED
      BY <1>1, <2>1, <3>1 DEF After
  <2>2. CASE j = Len(r)
    BY <1>1, <1>2, <2>2 DEF EndsWith
  <2> QED
    BY <1>1, <2>1, <2>2
<1>5. EndsWith(r, d, u)
  BY <1>1 DEF EndsWith
<1> QED
  BY <1>3, <1>4, <1>5, PutKeeps DEF Story

(* Hearing of the link, for the only time: the story starts with it now. *)
LEMMA StoryTakeUp ==
  ASSUME NEW q, NEW r, NEW u, NEW d, NEW has \in BOOLEAN, NEW in \in BOOLEAN,
         u # d, Take(q, u, r), Without(r, u), Story(q, u, d, has, in)
  PROVE  Story(r, u, d, TRUE, in)
<1>1. q[1] = u /\ 1 \in 1 .. Len(q) /\ \A i \in 1 .. Len(q) : ~(i < 1)
  BY Shifted
<1>2. ~has
  BY <1>1 DEF Story, After
<1>3. After(r, u, d)
  BY DEF After, Without
<1>4. ASSUME in PROVE Without(r, d)
  <2>1. PICK l \in 1 .. Len(q) : q[l] = u /\ \A j \in 1 .. Len(q) : l < j => q[j] # d
    BY <1>2, <1>4 DEF Story, EndsWith
  <2>2. l = 1
    BY <2>1, Shifted DEF Without
  <2>3. \A i \in 1 .. Len(r) : i + 1 \in 1 .. Len(q) /\ q[i + 1] = r[i] /\ 1 < i + 1
    BY Shifted
  <2> QED
    BY <2>1, <2>2, <2>3 DEF Without
<1>5. ~in => EndsWith(r, d, u)
  BY <1>1, <1>2, TakeKeeps DEF Story, Without
<1> QED
  BY <1>2, <1>3, <1>4, <1>5, TakeKeeps DEF Story

(* Hearing of its end: it was there before. *)
LEMMA StoryTakeDown ==
  ASSUME NEW q, NEW r, NEW u, NEW d, NEW has \in BOOLEAN, NEW in \in BOOLEAN,
         u # d, Take(q, d, r), Story(q, u, d, has, in)
  PROVE  has /\ Story(r, u, d, FALSE, in)
<1>1. /\ q[1] = d /\ 1 \in 1 .. Len(q) /\ \A i \in 1 .. Len(q) : ~(i < 1)
      /\ \A i \in 1 .. Len(r) : i + 1 \in 1 .. Len(q) /\ q[i + 1] = r[i] /\ 1 < i + 1
  BY Shifted
<1>2. has
  BY <1>1 DEF Story, After
<1>3. After(r, d, u)
  <2> SUFFICES ASSUME NEW j \in 1 .. Len(r), r[j] = d
               PROVE  \E i \in 1 .. Len(r) : i < j /\ r[i] = u
    BY DEF After
  <2>1. PICK l \in 1 .. Len(q) : 1 < l /\ l < j + 1 /\ q[l] = u
    BY <1>1 DEF Story, Apart
  <2>2. l # 1
    BY <2>1
  <2>3. PICK k \in 1 .. Len(r) : l = k + 1 /\ r[k] = q[l]
    BY <2>2, Shifted
  <2> QED
    BY <2>1, <2>3
<1>4. in => EndsWith(r, u, d)
  BY <1>1, TakeKeeps DEF Story, Without
<1>5. ASSUME ~in PROVE Without(r, u) \/ EndsWith(r, d, u)
  <2>1. PICK l \in 1 .. Len(q) : q[l] = d /\ \A j \in 1 .. Len(q) : l < j => q[j] # u
    BY <1>2, <1>5 DEF Story, EndsWith
  <2>2. CASE l = 1
    BY <1>1, <2>1, <2>2 DEF Without
  <2>3. CASE l # 1
    <3>1. PICK k \in 1 .. Len(r) : l = k + 1 /\ r[k] = q[l]
      BY <2>3, Shifted
    <3>2. ASSUME NEW j \in 1 .. Len(r), k < j PROVE r[j] # u
      <4>1. j + 1 \in 1 .. Len(q) /\ q[j + 1] = r[j] /\ l < j + 1
        BY <1>1, <3>1, <3>2
      <4> QED
        BY <2>1, <4>1
    <3> QED
      BY <2>1, <3>1, <3>2 DEF EndsWith
  <2> QED
    BY <2>2, <2>3
<1> QED
  BY <1>2, <1>3, <1>4, <1>5, TakeKeeps DEF Story

-----------------------------------------------------------------------------
(* The steps, as the queue and the slots see them *)

Queue == Seq(Events)

(* The four kinds of event differ, and those of different handles do. *)
LEMMA EventFacts ==
  /\ Discovery \in Events /\ Failed \in Events /\ Discovery # Failed
  /\ ~IsOutcome(Discovery) /\ IsOutcome(Failed)
  /\ \A h \in Handles : /\ Established(h) \in Events /\ Terminated(h) \in Events
                        /\ IsOutcome(Established(h)) /\ ~IsOutcome(Terminated(h))
                        /\ Established(h) # Discovery /\ Established(h) # Failed
                        /\ Terminated(h) # Discovery /\ Terminated(h) # Failed
  /\ \A g, h \in Handles : /\ Established(g) # Terminated(h)
                           /\ Established(g) = Established(h) => g = h
                           /\ Terminated(g) = Terminated(h) => g = h
  BY DEF Events, Discovery, Failed, Established, Terminated, IsOutcome

(* The queue of events is made by Put and Take. *)
LEMMA QueueFacts ==
  /\ \A q, e : q \in Queue /\ e \in Events => Append(q, e) \in Queue /\ Put(q, e, Append(q, e))
  /\ \A q : q \in Queue /\ q # <<>> =>
        Head(q) \in Events /\ Tail(q) \in Queue /\ Take(q, Head(q), Tail(q))
  /\ \A q : q \in Queue => Len(q) \in Nat
<1>1. ASSUME NEW q \in Queue, NEW e \in Events
      PROVE  Append(q, e) \in Queue /\ Put(q, e, Append(q, e))
  BY AppendPuts DEF Queue
<1>2. ASSUME NEW q \in Queue, q # <<>>
      PROVE  Head(q) \in Events /\ Tail(q) \in Queue /\ Take(q, Head(q), Tail(q))
  BY <1>2, TailTakes DEF Queue
<1>3. ASSUME NEW q \in Queue PROVE Len(q) \in Nat
  BY QueuePlaces DEF Queue
<1> QED
  BY <1>1, <1>2, <1>3

(* The stack puts its event behind the others. *)
LEMMA SendPuts ==
  ASSUME events \in Queue, NEW e \in Events, Send(e)
  PROVE  Put(events, e, events') /\ events' \in Queue
  BY QueueFacts DEF Send

(* A handler runs on the event at the head. *)
LEMMA ReceiveTakes ==
  ASSUME events \in Queue, NEW e, Receive(e)
  PROVE  Take(events, e, events') /\ events' \in Queue
  BY QueueFacts DEF Receive

SlotType == [state : {"IDLE", "CONNECTING", "CONNECTED"}, handle : Handles \cup {NoHandle}]

Scalars ==
    /\ activeScan \in BOOLEAN /\ pending \in Slots \cup {NoSlot}
    /\ slots \in [Slots -> SlotType] /\ link \in [Slots -> Handles \cup {NoHandle}]
    /\ scan \in {"off", "on", "ending"} /\ linking \in BOOLEAN /\ up \subseteq Handles

(* TypeOK is the types of what is not a queue, and that of the queue. *)
LEMMA TypeParts ==
  /\ TypeOK  <=> Scalars /\ events \in Queue
  /\ TypeOK' <=> Scalars' /\ events' \in Queue
  BY DEF TypeOK, Scalars, SlotType, Queue

(* Slots are numbers, and NoSlot is not one of them. *)
LEMMA SlotNumbers == NoSlot \notin Slots /\ \A s, t \in Slots : s <= t /\ t <= s => s = t
  BY BleHostAssumption DEF Slots, NoSlot

(* FindSlot finds a slot with the handle, the only one. *)
LEMMA FindSlotFinds ==
  ASSUME SlotsInv, NEW h \in Handles, Having(h) # {}
  PROVE  /\ FindSlot(h) \in Slots /\ slots[FindSlot(h)].handle = h
         /\ \A s \in Slots : slots[s].handle = h => s = FindSlot(h)
<1>1. h # NoHandle
  BY BleHostAssumption
<1>2. PICK s \in Slots : slots[s].handle = h
  BY DEF Having
<1>3. \A t \in Having(h) : t = s
  BY <1>1, <1>2 DEF SlotsInv, Having
<1>4. s \in Having(h) /\ \A t \in Having(h) : s <= t
  BY <1>2, <1>3, BleHostAssumption DEF Having, Slots
<1>5. FindSlot(h) \in Having(h)
  BY <1>4 DEF FindSlot
<1> QED
  BY <1>3, <1>5 DEF Having

(* What a step does to the slots: nothing that the handles show, or the      *)
(* pending slot gets a handle, or the slot with the handle loses it.         *)
SameHandles == \A s \in Slots : slots'[s].handle = slots[s].handle
Gains(p, h) ==
    /\ p \in Slots /\ slots[p].handle = NoHandle /\ slots'[p].handle = h
    /\ \A s \in Slots : s # p => slots'[s].handle = slots[s].handle
Loses(h) == \A s \in Slots : slots'[s].handle = IF slots[s].handle = h THEN NoHandle
                                                ELSE slots[s].handle

(* What each step does to "some slot has handle h". *)
LEMMA HasAfter ==
  /\ SameHandles => \A g \in Handles : Has(g)' = Has(g)
  /\ \A p \in Slots, h \in Handles : Gains(p, h) =>
        \A g \in Handles : Has(g)' = (Has(g) \/ g = h)
  /\ \A h \in Handles : Loses(h) => \A g \in Handles : Has(g)' = (Has(g) /\ g # h)
<1> USE BleHostAssumption
<1>1. ASSUME SameHandles, NEW g \in Handles PROVE Has(g)' = Has(g)
  BY <1>1 DEF SameHandles, Has
<1>2. ASSUME NEW p \in Slots, NEW h \in Handles, Gains(p, h), NEW g \in Handles
      PROVE  Has(g)' = (Has(g) \/ g = h)
  BY <1>2 DEF Gains, Has
<1>3. ASSUME NEW h \in Handles, Loses(h), NEW g \in Handles
      PROVE  Has(g)' = (Has(g) /\ g # h)
  BY <1>3 DEF Loses, Has
<1> QED
  BY <1>1, <1>2, <1>3

(* CONNECT, accepted or refused, touches no handle. *)
LEMMA ConnectSlots ==
  ASSUME Scalars, SlotsInv, NEW s \in Slots, Connect(s) \/ ConnectRefused(s)
  PROVE  SameHandles /\ SlotsInv' /\ Scalars' /\ up' = up
<1> USE SlotNumbers
<1>1. /\ slots[s] \in SlotType /\ slots[s].state = "IDLE" /\ pending = NoSlot
      /\ link[s] = NoHandle /\ slots[s].handle = NoHandle
  BY DEF Connect, ConnectRefused, CanConnect, SlotsInv, Scalars
<1>2. CASE Connect(s)
  <2>1. /\ slots' = [slots EXCEPT ![s].state = "CONNECTING"] /\ link' = link /\ pending' = s
        /\ UNCHANGED <<activeScan, scan, up>> /\ linking' = TRUE
    BY <1>1, <1>2 DEF Connect, Scalars
  <2>2. /\ slots'[s] = [state |-> "CONNECTING", handle |-> NoHandle]
        /\ \A t \in Slots : t # s => slots'[t] = slots[t]
        /\ slots' \in [Slots -> SlotType]
    BY <1>1, <2>1 DEF Scalars, SlotType
  <2>3. SlotsInv'
    BY <1>1, <2>1, <2>2 DEF SlotsInv
  <2>4. linking' \in BOOLEAN
    BY <2>1, Zenon
  <2> QED
    BY <1>1, <2>1, <2>2, <2>3, <2>4, ZenonT(30) DEF SameHandles, Scalars
<1>3. CASE ConnectRefused(s)
  <2>1. link' = link
    BY <1>1, <1>3 DEF ConnectRefused, Scalars
  <2> QED
    BY <1>3, <2>1 DEF ConnectRefused, stackVars, SlotsInv, SameHandles, Scalars
<1> QED
  BY <1>2, <1>3

(* A failed connect frees the pending slot, which had no handle. *)
LEMMA FailedSlots ==
  ASSUME Scalars, SlotsInv, pending # NoSlot, LinkFailed
  PROVE  SameHandles /\ SlotsInv' /\ Scalars'
<1> USE SlotNumbers
<1>1. /\ pending \in Slots /\ slots[pending] \in SlotType /\ slots[pending].state = "CONNECTING"
      /\ link[pending] = NoHandle /\ slots[pending].handle = NoHandle
  BY DEF SlotsInv, Scalars
<1>2. /\ slots' = [slots EXCEPT ![pending].state = "IDLE"] /\ link' = link /\ pending' = NoSlot
      /\ UNCHANGED <<activeScan, scan, linking, up>>
  BY <1>1 DEF LinkFailed, Scalars
<1>3. /\ slots'[pending] = [state |-> "IDLE", handle |-> NoHandle]
      /\ \A t \in Slots : t # pending => slots'[t] = slots[t]
      /\ slots' \in [Slots -> SlotType]
  BY <1>1, <1>2 DEF Scalars, SlotType
<1>4. SlotsInv'
  BY <1>1, <1>2, <1>3 DEF SlotsInv
<1> QED
  BY <1>1, <1>2, <1>3, <1>4, ZenonT(30) DEF SameHandles, Scalars

(* An established link gives its handle to the pending slot only. *)
LEMMA EstablishedSlots ==
  ASSUME Scalars, SlotsInv, NEW h \in Handles, ~Has(h), pending # NoSlot, LinkEstablished(h)
  PROVE  Gains(pending, h) /\ SlotsInv' /\ Scalars'
<1> USE SlotNumbers
<1>1. /\ pending \in Slots /\ slots[pending] \in SlotType /\ slots[pending].state = "CONNECTING"
      /\ link[pending] = NoHandle /\ slots[pending].handle = NoHandle
  BY DEF SlotsInv, Scalars
<1>2. /\ slots' = [slots EXCEPT ![pending] = [state |-> "CONNECTED", handle |-> h]]
      /\ link' = [link EXCEPT ![pending] = h] /\ pending' = NoSlot
      /\ UNCHANGED <<activeScan, scan, linking, up>>
  BY <1>1 DEF LinkEstablished
<1>3. /\ slots'[pending] = [state |-> "CONNECTED", handle |-> h] /\ link'[pending] = h
      /\ \A t \in Slots : t # pending => slots'[t] = slots[t] /\ link'[t] = link[t]
      /\ slots' \in [Slots -> SlotType] /\ link' \in [Slots -> Handles \cup {NoHandle}]
  BY <1>1, <1>2 DEF Scalars, SlotType
<1>4. h # NoHandle /\ \A t \in Slots : slots[t].handle # h
  BY BleHostAssumption DEF Has
<1>5. SlotsInv'
  BY <1>1, <1>2, <1>3, <1>4 DEF SlotsInv
<1> QED
  BY <1>1, <1>2, <1>3, <1>5 DEF Gains, Scalars

(* A terminated link takes its handle from the slot that has it. *)
LEMMA TerminatedSlots ==
  ASSUME Scalars, SlotsInv, NEW h \in Handles, Has(h), LinkTerminated(h)
  PROVE  Loses(h) /\ SlotsInv' /\ Scalars'
<1> USE SlotNumbers
<1> DEFINE f == FindSlot(h)
<1>1. Having(h) # {}
  BY DEF Has, Having
<1>2. /\ f \in Slots /\ slots[f].handle = h /\ \A s \in Slots : slots[s].handle = h => s = f
      /\ h # NoHandle
  BY <1>1, FindSlotFinds, BleHostAssumption
<1>3. /\ slots' = [slots EXCEPT ![f] = NoOne] /\ link' = [link EXCEPT ![f] = NoHandle]
      /\ UNCHANGED <<activeScan, pending, scan, linking, up>>
  BY <1>1 DEF LinkTerminated
<1> HIDE DEF f
<1>4. /\ slots'[f] = [state |-> "IDLE", handle |-> NoHandle] /\ link'[f] = NoHandle
      /\ \A t \in Slots : t # f => slots'[t] = slots[t] /\ link'[t] = link[t]
      /\ slots' \in [Slots -> SlotType] /\ link' \in [Slots -> Handles \cup {NoHandle}]
  BY <1>2, <1>3 DEF Scalars, SlotType, NoOne
<1>5. slots[f].state = "CONNECTED" /\ pending # f
  BY <1>2 DEF SlotsInv
<1>6. SlotsInv'
  BY <1>2, <1>3, <1>4, <1>5 DEF SlotsInv
<1> QED
  BY <1>2, <1>3, <1>4, <1>6 DEF Loses, Scalars

-----------------------------------------------------------------------------
(* One outcome for a pending connect *)

(* None, or only one, of the elements of q is an outcome. *)
NoOutcome(q)   == \A i \in 1 .. Len(q) : ~IsOutcome(q[i])
SomeOutcome(q) == \E i \in 1 .. Len(q) : IsOutcome(q[i])
FewOutcomes(q) == \A i, j \in 1 .. Len(q) : IsOutcome(q[i]) /\ IsOutcome(q[j]) => i = j

(* OutcomeInv says none, some and at most one of the queue's outcomes. *)
LEMMA OutcomeParts ==
  /\ OutcomeInv <=> /\ linking => pending # NoSlot /\ NoOutcome(events)
                    /\ pending = NoSlot => NoOutcome(events)
                    /\ pending # NoSlot /\ ~linking => SomeOutcome(events)
                    /\ FewOutcomes(events)
  /\ OutcomeInv' <=> /\ linking' => pending' # NoSlot /\ NoOutcome(events')
                     /\ pending' = NoSlot => NoOutcome(events')
                     /\ pending' # NoSlot /\ ~linking' => SomeOutcome(events')
                     /\ FewOutcomes(events')
  BY DEF OutcomeInv, NoOutcome, SomeOutcome, FewOutcomes, IsOutcome

(* What a new event does to none, some and at most one. *)
LEMMA PutOutcome ==
  ASSUME NEW q, NEW e, NEW r, Put(q, e, r)
  PROVE  /\ ~IsOutcome(e) => /\ NoOutcome(r) <=> NoOutcome(q)
                             /\ SomeOutcome(r) <=> SomeOutcome(q)
                             /\ FewOutcomes(r) <=> FewOutcomes(q)
         /\ IsOutcome(e) /\ NoOutcome(q) => SomeOutcome(r) /\ FewOutcomes(r)
<1>1. /\ Len(r) \in 1 .. Len(r) /\ r[Len(r)] = e
      /\ \A i \in 1 .. Len(q) : i \in 1 .. Len(r) /\ r[i] = q[i]
      /\ \A i \in 1 .. Len(r) : i \in 1 .. Len(q) \/ i = Len(r)
  BY DEF Put
<1> QED
  BY <1>1 DEF NoOutcome, SomeOutcome, FewOutcomes

(* What handling the head does to none, some and at most one. *)
LEMMA TakeOutcome ==
  ASSUME NEW q, NEW e, NEW r, Take(q, e, r)
  PROVE  /\ ~IsOutcome(e) => /\ NoOutcome(r) <=> NoOutcome(q)
                             /\ SomeOutcome(r) <=> SomeOutcome(q)
         /\ FewOutcomes(q) => FewOutcomes(r)
         /\ IsOutcome(e) => SomeOutcome(q) /\ (FewOutcomes(q) => NoOutcome(r))
<1>1. /\ q[1] = e /\ 1 \in 1 .. Len(q)
      /\ \A i \in 1 .. Len(r) : i + 1 \in 1 .. Len(q) /\ q[i + 1] = r[i]
      /\ \A i \in 1 .. Len(q) : i = 1 \/ \E k \in 1 .. Len(r) : i = k + 1 /\ r[k] = q[i]
  BY Shifted
<1>2. FewOutcomes(q) => FewOutcomes(r)
  <2> SUFFICES ASSUME FewOutcomes(q), NEW i \in 1 .. Len(r), NEW j \in 1 .. Len(r),
                      IsOutcome(r[i]), IsOutcome(r[j])
               PROVE  i = j
    BY DEF FewOutcomes
  <2>1. i + 1 = j + 1
    BY <1>1 DEF FewOutcomes
  <2> QED
    BY <2>1
<1>3. ~IsOutcome(e) => (NoOutcome(r) <=> NoOutcome(q)) /\ (SomeOutcome(r) <=> SomeOutcome(q))
  BY <1>1 DEF NoOutcome, SomeOutcome
<1>4. ASSUME IsOutcome(e) PROVE SomeOutcome(q) /\ (FewOutcomes(q) => NoOutcome(r))
  <2>1. SomeOutcome(q)
    BY <1>1, <1>4 DEF SomeOutcome
  <2>2. ASSUME FewOutcomes(q), NEW i \in 1 .. Len(r), IsOutcome(r[i]) PROVE FALSE
    <3>1. i + 1 = 1
      BY <1>1, <1>4, <2>2 DEF FewOutcomes
    <3> QED
      BY <3>1
  <2> QED
    BY <2>1, <2>2 DEF NoOutcome
<1> QED
  BY <1>2, <1>3, <1>4

-----------------------------------------------------------------------------
(* Every step keeps the stories *)

Tale(g) == Story(events, Established(g), Terminated(g), Has(g), g \in up)

(* LinksInv is the story of each handle. *)
LEMMA Tales ==
  /\ LinksInv <=> \A g \in Handles : Tale(g)
  /\ LinksInv' <=> \A g \in Handles : Tale(g)'
  BY DEF LinksInv, Tale

(* A tale is not told twice, nor changed by what happens to others. *)
LEMMA TaleKept ==
  ASSUME NEW g \in Handles, Tale(g), Has(g)' <=> Has(g), g \in up' <=> g \in up,
         NEW e, e # Established(g), e # Terminated(g),
         Put(events, e, events') \/ Take(events, e, events')
  PROVE  Tale(g)'
<1> DEFINE in == g \in up
<1>1. Has(g) \in BOOLEAN /\ in \in BOOLEAN
  <2>1. Has(g) \in BOOLEAN
    BY Zenon DEF Has
  <2>2. in \in BOOLEAN
    OBVIOUS
  <2> QED
    BY <2>1, <2>2
<1>2. Story(events, Established(g), Terminated(g), Has(g), in)
  BY DEF Tale
<1>3. Tale(g)' <=> Story(events', Established(g), Terminated(g), Has(g)', g \in up')
  BY DEF Tale
<1>4. in <=> g \in up'
  OBVIOUS
<1> HIDE DEF in
<1>5. Story(events', Established(g), Terminated(g), Has(g), in)
  BY <1>1, <1>2, StoryOther
<1> QED
  BY <1>3, <1>4, <1>5 DEF Story

Core == Scalars /\ events \in Queue /\ SlotsInv /\ OutcomeInv /\ LinksInv

(* Events that are about no link at all, or steps that send none. *)
LEMMA CoreOther ==
  ASSUME Core, Scalars', SlotsInv', SameHandles, up' = up, NEW e \in {Discovery, Failed},
         events' \in Queue, Put(events, e, events') \/ Take(events, e, events')
  PROVE  LinksInv'
<1>1. ASSUME NEW g \in Handles PROVE Tale(g)'
  <2>1. Has(g)' <=> Has(g)
    BY HasAfter
  <2>2. Tale(g)
    BY Tales DEF Core
  <2>3. e # Established(g) /\ e # Terminated(g)
    BY EventFacts
  <2> QED
    BY <2>1, <2>2, <2>3, TaleKept
<1> QED
  BY <1>1, Tales

(* Slots that do not change keep what is said of them. *)
LEMMA StillSlots ==
  ASSUME SlotsInv, UNCHANGED <<pending, slots, link>>
  PROVE  SlotsInv' /\ SameHandles
  BY DEF SlotsInv, SameHandles

(* The end of a scan is no link's story and no connect's outcome. *)
LEMMA CoreScanEnds == Core /\ StackScanEnds => Core'
<1> SUFFICES ASSUME Core, StackScanEnds PROVE Core'
  OBVIOUS
<1>1. Put(events, Discovery, events') /\ events' \in Queue
  BY SendPuts, EventFacts DEF Core, StackScanEnds
<1>2. UNCHANGED <<activeScan, pending, slots, link, linking, up>> /\ scan' = "off"
  BY DEF StackScanEnds, hostVars
<1>3. Scalars' /\ SlotsInv' /\ SameHandles
  BY <1>2, StillSlots DEF Core, Scalars
<1>4. OutcomeInv'
  BY <1>1, <1>2, PutOutcome, EventFacts, OutcomeParts DEF Core
<1>5. LinksInv'
  BY <1>1, <1>2, <1>3, CoreOther
<1> QED
  BY <1>1, <1>3, <1>4, <1>5 DEF Core

(* A connect that fails puts its one outcome in the queue. *)
LEMMA CoreLinkFails == Core /\ StackLinkFails => Core'
<1> SUFFICES ASSUME Core, StackLinkFails PROVE Core'
  OBVIOUS
<1>1. Put(events, Failed, events') /\ events' \in Queue
  BY SendPuts, EventFacts DEF Core, StackLinkFails
<1>2. UNCHANGED <<activeScan, pending, slots, link, scan, up>> /\ linking /\ linking' = FALSE
  BY DEF StackLinkFails, hostVars
<1>3. SlotsInv' /\ SameHandles
  BY <1>2, StillSlots DEF Core
<1>4. linking' \in BOOLEAN
  BY <1>2, Zenon
<1>5. Scalars'
  BY <1>2, <1>4 DEF Core, Scalars
<1>6. OutcomeInv'
  BY <1>1, <1>2, PutOutcome, EventFacts, OutcomeParts DEF Core
<1>7. LinksInv'
  BY <1>1, <1>2, <1>3, <1>5, CoreOther
<1> QED
  BY <1>1, <1>3, <1>5, <1>6, <1>7 DEF Core

(* A connect that works puts its one outcome in the queue and begins the     *)
(* story of a handle no slot has.                                            *)
LEMMA CoreLinkUp == ASSUME NEW h \in Handles, Core, StackLinkUp(h) PROVE Core'
<1>1. Put(events, Established(h), events') /\ events' \in Queue
  BY SendPuts, EventFacts DEF Core, StackLinkUp
<1>2. /\ UNCHANGED <<activeScan, pending, slots, link, scan>> /\ linking /\ linking' = FALSE
      /\ h \notin up /\ up' = up \cup {h}
  BY DEF StackLinkUp, hostVars
<1>3. SlotsInv' /\ SameHandles
  BY <1>2, StillSlots DEF Core
<1>4. linking' \in BOOLEAN
  BY <1>2, Zenon
<1>5. Scalars'
  BY <1>2, <1>4 DEF Core, Scalars
<1>6. OutcomeInv'
  BY <1>1, <1>2, PutOutcome, EventFacts, OutcomeParts DEF Core
<1>7. ASSUME NEW g \in Handles, g # h PROVE Tale(g)'
  <2>1. Has(g)' <=> Has(g)
    BY <1>3, HasAfter
  <2>2. Tale(g)
    BY Tales DEF Core
  <2>3. Established(h) # Established(g) /\ Established(h) # Terminated(g)
    BY <1>7, EventFacts
  <2>4. g \in up' <=> g \in up
    BY <1>2, <1>7
  <2> QED
    BY <1>1, <2>1, <2>2, <2>3, <2>4, TaleKept
<1>8. Tale(h)'
  <2>1. Has(h)' <=> Has(h)
    BY <1>3, HasAfter
  <2>2. Has(h) \in BOOLEAN
    BY Zenon DEF Has
  <2>3. Story(events, Established(h), Terminated(h), Has(h), FALSE)
    BY <1>2, Tales DEF Core, Tale, Story
  <2>4. Established(h) # Terminated(h)
    BY EventFacts
  <2>5. Story(events', Established(h), Terminated(h), Has(h), TRUE)
    BY <1>1, <2>2, <2>3, <2>4, StorySendUp
  <2>6. h \in up'
    BY <1>2
  <2>7. Tale(h)' <=> Story(events', Established(h), Terminated(h), Has(h)', h \in up')
    BY DEF Tale
  <2> QED
    BY <2>1, <2>5, <2>6, <2>7 DEF Story
<1> QED
  BY <1>1, <1>3, <1>5, <1>6, <1>7, <1>8, Tales DEF Core

(* A link that ends adds Terminated to the story of its handle. *)
LEMMA CoreLinkDown == ASSUME NEW h \in Handles, Core, StackLinkDown(h) PROVE Core'
<1>1. Put(events, Terminated(h), events') /\ events' \in Queue
  BY SendPuts, EventFacts DEF Core, StackLinkDown
<1>2. /\ UNCHANGED <<activeScan, pending, slots, link, scan, linking>>
      /\ h \in up /\ up' = up \ {h}
  BY DEF StackLinkDown, hostVars
<1>3. SlotsInv' /\ SameHandles
  BY <1>2, StillSlots DEF Core
<1>4. Scalars'
  BY <1>2 DEF Core, Scalars
<1>5. OutcomeInv'
  BY <1>1, <1>2, PutOutcome, EventFacts, OutcomeParts DEF Core
<1>6. ASSUME NEW g \in Handles, g # h PROVE Tale(g)'
  <2>1. Has(g)' <=> Has(g)
    BY <1>3, HasAfter
  <2>2. Tale(g)
    BY Tales DEF Core
  <2>3. Terminated(h) # Established(g) /\ Terminated(h) # Terminated(g)
    BY <1>6, EventFacts
  <2>4. g \in up' <=> g \in up
    BY <1>2, <1>6
  <2> QED
    BY <1>1, <2>1, <2>2, <2>3, <2>4, TaleKept
<1>7. Tale(h)'
  <2>1. Has(h)' <=> Has(h)
    BY <1>3, HasAfter
  <2>2. Has(h) \in BOOLEAN
    BY Zenon DEF Has
  <2>3. Story(events, Established(h), Terminated(h), Has(h), TRUE)
    BY <1>2, Tales DEF Core, Tale, Story
  <2>4. Established(h) # Terminated(h)
    BY EventFacts
  <2>5. Story(events', Established(h), Terminated(h), Has(h), FALSE)
    BY <1>1, <2>2, <2>3, <2>4, StorySendDown
  <2>6. h \notin up'
    BY <1>2
  <2>7. Tale(h)' <=> Story(events', Established(h), Terminated(h), Has(h)', h \in up')
    BY DEF Tale
  <2> QED
    BY <2>1, <2>5, <2>6, <2>7 DEF Story
<1> QED
  BY <1>1, <1>3, <1>4, <1>5, <1>6, <1>7, Tales DEF Core

(* A command of the host touches no link and begins at most one connect. *)
LEMMA CoreCommand == Core /\ HandleMgmt => Core'
<1> SUFFICES ASSUME Core, HandleMgmt PROVE Core'
  OBVIOUS
<1>1. events' = events
  BY DEF HandleMgmt, ScanStart, ScanStop, Connect, ConnectRefused, stackVars
<1>2. SlotsInv' /\ SameHandles /\ Scalars' /\ up' = up
  <2>1. CASE ScanStart \/ ScanStop
    <3>1. activeScan' \in BOOLEAN
      BY <2>1, Zenon DEF ScanStart, ScanStop
    <3>2. UNCHANGED <<pending, slots, link, linking, up>> /\ scan' \in {"on", "ending"}
      BY <2>1 DEF ScanStart, ScanStop
    <3> QED
      BY <3>1, <3>2, StillSlots DEF Core, Scalars
  <2>2. CASE \E s \in Slots : Connect(s) \/ ConnectRefused(s)
    BY <2>2, ConnectSlots DEF Core
  <2> QED
    BY <2>1, <2>2 DEF HandleMgmt
<1>3. OutcomeInv'
  <2>1. CASE ScanStart \/ ScanStop
    BY <1>1, <2>1, OutcomeParts DEF Core, ScanStart, ScanStop
  <2>2. ASSUME NEW s \in Slots, Connect(s) PROVE OutcomeInv'
    BY <1>1, <2>2, OutcomeParts, SlotNumbers DEF Core, Connect, CanConnect
  <2>3. ASSUME NEW s \in Slots, ConnectRefused(s) PROVE OutcomeInv'
    BY <1>1, <2>3, OutcomeParts DEF Core, ConnectRefused, stackVars
  <2> QED
    BY <2>1, <2>2, <2>3 DEF HandleMgmt
<1>4. LinksInv'
  <2>1. ASSUME NEW g \in Handles PROVE Tale(g)'
    <3>1. Tale(g) /\ (Has(g)' <=> Has(g))
      BY <1>2, HasAfter, Tales DEF Core
    <3>2. Tale(g)' <=> Story(events, Established(g), Terminated(g), Has(g)', g \in up)
      BY <1>1, <1>2 DEF Tale
    <3> QED
      BY <3>1, <3>2 DEF Tale, Story
  <2> QED
    BY <2>1, Tales
<1> QED
  BY <1>1, <1>2, <1>3, <1>4 DEF Core

(* The end of a scan is handled without touching a slot. *)
LEMMA CoreScanComplete == Core /\ ScanComplete => Core'
<1> SUFFICES ASSUME Core, ScanComplete PROVE Core'
  OBVIOUS
<1>1. Take(events, Discovery, events') /\ events' \in Queue
  BY ReceiveTakes DEF Core, ScanComplete
<1>2. UNCHANGED <<pending, slots, link, scan, linking, up>> /\ activeScan' = FALSE
  BY DEF ScanComplete
<1>3. activeScan' \in BOOLEAN
  BY <1>2, Zenon
<1>4. Scalars' /\ SlotsInv' /\ SameHandles
  BY <1>2, <1>3, StillSlots DEF Core, Scalars
<1>5. OutcomeInv'
  BY <1>1, <1>2, TakeOutcome, EventFacts, OutcomeParts DEF Core
<1>6. LinksInv'
  BY <1>1, <1>2, <1>4, CoreOther
<1> QED
  BY <1>1, <1>4, <1>5, <1>6 DEF Core

(* An outcome that is heard of is the one owed to the pending slot.          *)
LEMMA OutcomeHeard ==
  ASSUME Core, NEW e, IsOutcome(e), Take(events, e, events'), linking' = linking,
         pending' = NoSlot
  PROVE  pending # NoSlot /\ NoOutcome(events') /\ OutcomeInv'
<1>1. SomeOutcome(events) /\ NoOutcome(events') /\ FewOutcomes(events')
  BY TakeOutcome, OutcomeParts DEF Core
<1>2. ~NoOutcome(events)
  BY <1>1 DEF SomeOutcome, NoOutcome
<1>3. pending # NoSlot /\ ~linking
  BY <1>2, OutcomeParts DEF Core
<1> QED
  BY <1>1, <1>3, OutcomeParts

(* The failure is handled: no outcome is owed any more. *)
LEMMA CoreFailed == Core /\ LinkFailed => Core'
<1> SUFFICES ASSUME Core, LinkFailed PROVE Core'
  OBVIOUS
<1>1. Take(events, Failed, events') /\ events' \in Queue
  BY ReceiveTakes DEF Core, LinkFailed
<1>2. pending # NoSlot /\ OutcomeInv'
  BY <1>1, OutcomeHeard, EventFacts DEF LinkFailed
<1>3. SameHandles /\ SlotsInv' /\ Scalars' /\ up' = up
  BY <1>2, FailedSlots DEF Core, LinkFailed
<1>4. LinksInv'
  BY <1>1, <1>3, CoreOther
<1> QED
  BY <1>1, <1>2, <1>3, <1>4 DEF Core

(* The link is handled: the pending slot gets the handle, and no outcome is  *)
(* owed any more.                                                            *)
LEMMA CoreEstablished == ASSUME NEW h \in Handles, Core, LinkEstablished(h) PROVE Core'
<1>1. Take(events, Established(h), events') /\ events' \in Queue
  BY ReceiveTakes DEF Core, LinkEstablished
<1>2. pending # NoSlot /\ OutcomeInv' /\ NoOutcome(events')
  BY <1>1, OutcomeHeard, EventFacts DEF LinkEstablished
<1>3. Without(events', Established(h))
  BY <1>2, EventFacts DEF NoOutcome, Without
<1> DEFINE in == h \in up
<1>4. Established(h) # Terminated(h) /\ in \in BOOLEAN
  BY EventFacts
<1>5. Has(h) \in BOOLEAN
  BY Zenon DEF Has
<1>6. Story(events, Established(h), Terminated(h), Has(h), in)
  BY Tales DEF Core, Tale
<1> HIDE DEF in
<1>7. ~Has(h) /\ Story(events', Established(h), Terminated(h), TRUE, in)
  <2>1. ~Has(h)
    <3>1. events[1] = Established(h) /\ 1 \in 1 .. Len(events) /\ \A i \in 1 .. Len(events) : ~(i < 1)
      BY <1>1, Shifted
    <3> QED
      BY <1>6, <3>1 DEF Story, After
  <2>2. Story(events', Established(h), Terminated(h), TRUE, in)
    BY <1>1, <1>3, <1>4, <1>5, <1>6, StoryTakeUp
  <2> QED
    BY <2>1, <2>2
<1>8. Gains(pending, h) /\ SlotsInv' /\ Scalars' /\ up' = up
  BY <1>2, <1>7, EstablishedSlots DEF Core, LinkEstablished
<1>9. \A g \in Handles : Has(g)' = (Has(g) \/ g = h)
  BY <1>8, HasAfter DEF Gains
<1>10. ASSUME NEW g \in Handles, g # h PROVE Tale(g)'
  <2>1. Has(g)' <=> Has(g)
    BY <1>9, <1>10
  <2>2. Established(h) # Established(g) /\ Established(h) # Terminated(g)
    BY <1>10, EventFacts
  <2> QED
    BY <1>1, <1>8, <2>1, <2>2, Tales, TaleKept DEF Core
<1>11. Tale(h)'
  <2>1. Tale(h)' <=> Story(events', Established(h), Terminated(h), Has(h)', h \in up)
    BY <1>8 DEF Tale
  <2> QED
    BY <1>7, <1>9, <2>1 DEF Story, in
<1> QED
  BY <1>1, <1>2, <1>8, <1>10, <1>11, Tales DEF Core

(* The end of a link is handled: its slot loses the handle. *)
LEMMA CoreTerminated == ASSUME NEW h \in Handles, Core, LinkTerminated(h) PROVE Core'
<1>1. Take(events, Terminated(h), events') /\ events' \in Queue
  BY ReceiveTakes DEF Core, LinkTerminated
<1> DEFINE in == h \in up
<1>2. Established(h) # Terminated(h) /\ in \in BOOLEAN
  BY EventFacts
<1>3. Has(h) \in BOOLEAN
  BY Zenon DEF Has
<1>4. Story(events, Established(h), Terminated(h), Has(h), in)
  BY Tales DEF Core, Tale
<1> HIDE DEF in
<1>5. Has(h) /\ Story(events', Established(h), Terminated(h), FALSE, in)
  <2>1. Has(h)
    BY <1>1, <1>2, <1>3, <1>4, StoryTakeDown
  <2>2. Story(events', Established(h), Terminated(h), FALSE, in)
    BY <1>1, <1>2, <1>3, <1>4, StoryTakeDown
  <2> QED
    BY <2>1, <2>2
<1>6. Loses(h) /\ SlotsInv' /\ Scalars' /\ UNCHANGED <<up, pending, linking>>
  BY <1>5, TerminatedSlots DEF Core, LinkTerminated
<1>7. \A g \in Handles : Has(g)' = (Has(g) /\ g # h)
  BY <1>6, HasAfter
<1>8. OutcomeInv'
  BY <1>1, <1>6, TakeOutcome, EventFacts, OutcomeParts DEF Core
<1>9. ASSUME NEW g \in Handles, g # h PROVE Tale(g)'
  <2>1. Has(g)' <=> Has(g)
    BY <1>7, <1>9
  <2>2. Terminated(h) # Established(g) /\ Terminated(h) # Terminated(g)
    BY <1>9, EventFacts
  <2> QED
    BY <1>1, <1>6, <2>1, <2>2, Tales, TaleKept DEF Core
<1>10. Tale(h)'
  <2>1. Tale(h)' <=> Story(events', Established(h), Terminated(h), Has(h)', h \in up)
    BY <1>6 DEF Tale
  <2> QED
    BY <1>5, <1>7, <2>1 DEF Story, in
<1> QED
  BY <1>1, <1>6, <1>8, <1>9, <1>10, Tales DEF Core

-----------------------------------------------------------------------------
(* A scan that counts as active ends *)

LEMMA ScanStep == TypeOK /\ ScanKnown /\ [Next]_vars => ScanKnown'
<1> SUFFICES ASSUME TypeOK, ScanKnown, [Next]_vars, activeScan'
             PROVE  scan' = "on" \/ OnItsWay(Discovery)'
  BY DEF ScanKnown
<1>1. events \in Queue
  BY TypeParts
<1>2. ASSUME NEW e, Put(events, e, events')
      PROVE  /\ OnItsWay(Discovery) => OnItsWay(Discovery)'
             /\ e = Discovery => OnItsWay(Discovery)'
  BY <1>2, PutMembers DEF OnItsWay
<1>3. ASSUME NEW e, Take(events, e, events'), e # Discovery
      PROVE  OnItsWay(Discovery) => OnItsWay(Discovery)'
  BY <1>3, TakeMembers DEF OnItsWay
<1>4. CASE StackScanEnds
  BY <1>1, <1>2, <1>4, SendPuts, EventFacts DEF StackScanEnds
<1>5. ASSUME NEW e \in Events, Send(e), UNCHANGED <<activeScan, scan>>
      PROVE  scan' = "on" \/ OnItsWay(Discovery)'
  BY <1>1, <1>2, <1>5, SendPuts DEF ScanKnown
<1>6. CASE StackLinkFails
  BY <1>5, <1>6, EventFacts DEF StackLinkFails, hostVars
<1>7. ASSUME NEW h \in Handles, StackLinkUp(h) \/ StackLinkDown(h)
      PROVE  scan' = "on" \/ OnItsWay(Discovery)'
  BY <1>5, <1>7, EventFacts DEF StackLinkUp, StackLinkDown, hostVars
<1>8. CASE HandleMgmt
  BY <1>8 DEF HandleMgmt, ScanStart, ScanStop, Connect, ConnectRefused, stackVars,
              ScanKnown, OnItsWay
<1>9. CASE ScanComplete
  BY <1>9 DEF ScanComplete
<1>10. ASSUME NEW e, e # Discovery, Receive(e), UNCHANGED <<activeScan, scan>>
       PROVE  scan' = "on" \/ OnItsWay(Discovery)'
  BY <1>1, <1>3, <1>10, ReceiveTakes DEF ScanKnown
<1>11. CASE LinkFailed
  BY <1>10, <1>11, EventFacts DEF LinkFailed
<1>12. ASSUME NEW h \in Handles, LinkEstablished(h) \/ LinkTerminated(h)
       PROVE  scan' = "on" \/ OnItsWay(Discovery)'
  BY <1>10, <1>12, EventFacts DEF LinkEstablished, LinkTerminated
<1>13. CASE UNCHANGED vars
  BY <1>13 DEF vars, hostVars, stackVars, ScanKnown, OnItsWay
<1> QED
  BY <1>4, <1>6, <1>7, <1>8, <1>9, <1>11, <1>12, <1>13 DEF Next, Stack, EventCb

-----------------------------------------------------------------------------
(* The theorems *)

LEMMA InvParts == /\ IInv <=> Core /\ ScanKnown
                  /\ IInv' <=> Core' /\ ScanKnown'
  BY TypeParts DEF IInv, Core

(* The inductive invariant holds at the start. *)
LEMMA InitInv == Init => IInv
<1> SUFFICES ASSUME Init PROVE Core /\ ScanKnown
  BY InvParts
<1>1. events \in Queue /\ Len(events) = 0
  BY EmptySeq DEF Init, Queue
<1>2. /\ slots \in [Slots -> SlotType] /\ link \in [Slots -> Handles \cup {NoHandle}]
      /\ \A s \in Slots : slots[s] = [state |-> "IDLE", handle |-> NoHandle] /\ link[s] = NoHandle
  BY DEF Init, SlotType, NoOne
<1>3. activeScan \in BOOLEAN /\ linking \in BOOLEAN
  BY Zenon DEF Init
<1>4. Scalars
  BY <1>2, <1>3 DEF Init, Scalars
<1>5. SlotsInv
  BY <1>2, SlotNumbers DEF Init, SlotsInv
<1>6. OutcomeInv
  BY <1>1 DEF Init, OutcomeInv
<1>7. \A h \in Handles : ~Has(h) /\ h \notin up
  BY <1>2, BleHostAssumption DEF Init, Has
<1>8. LinksInv
  BY <1>1, <1>7 DEF LinksInv, Story, Apart, After, Without
<1> QED
  BY <1>1, <1>4, <1>5, <1>6, <1>8 DEF Core, Init, ScanKnown

(* Every step keeps the inductive invariant. *)
LEMMA StepInv == IInv /\ [Next]_vars => IInv'
<1> SUFFICES ASSUME Core, ScanKnown, TypeOK, [Next]_vars PROVE Core' /\ ScanKnown'
  BY InvParts DEF IInv
<1>1. ScanKnown'
  BY ScanStep
<1>2. CASE UNCHANGED vars
  <2>1. Scalars' /\ SlotsInv' /\ OutcomeInv'
    BY <1>2 DEF vars, hostVars, stackVars, Core, Scalars, SlotsInv, OutcomeInv
  <2>2. LinksInv' /\ events' \in Queue
    BY <1>2 DEF vars, hostVars, stackVars, Core, LinksInv, Has
  <2> QED
    BY <1>1, <2>1, <2>2 DEF Core
<1>3. CASE Stack
  BY <1>1, <1>3, CoreScanEnds, CoreLinkFails, CoreLinkUp, CoreLinkDown DEF Stack
<1>4. CASE HandleMgmt
  BY <1>1, <1>4, CoreCommand
<1>5. CASE EventCb
  BY <1>1, <1>5, CoreScanComplete, CoreFailed, CoreEstablished, CoreTerminated DEF EventCb
<1> QED
  BY <1>1, <1>2, <1>3, <1>4, <1>5 DEF Next

(* The inductive invariant holds throughout. *)
THEOREM Invariance == Spec => []IInv
  BY InitInv, StepInv, PTL DEF Spec

(* Slots, links and events keep to their types: above all, no handler writes *)
(* a slot beyond the array, whatever pending_connect_slot is.                *)
THEOREM TypeCorrect == Spec => []TypeOK
<1>1. IInv => TypeOK
  BY DEF IInv
<1> QED
  BY <1>1, Invariance, PTL

(* No link of the stack is orphaned, and no slot or link context keeps one   *)
(* whose end has been told: ESTABLISHED and TERMINATED meet the right slot.  *)
THEOREM NoLinkOrphaned == Spec => []LinkOwned
<1>1. IInv => LinkOwned
  <2> SUFFICES ASSUME IInv PROVE LinkOwned
    OBVIOUS
  <2>1. \A h \in Handles : Story(events, Established(h), Terminated(h), Has(h), h \in up)
    BY DEF IInv, LinksInv
  <2>2. /\ up \subseteq Handles
        /\ \A s \in Slots : slots[s].handle \in Handles \cup {NoHandle}
    BY DEF IInv, TypeOK
  <2>3. ASSUME NEW h \in up PROVE Having(h) # {} \/ OnItsWay(Established(h))
    BY <2>1, <2>2, <2>3 DEF Story, EndsWith, Has, Having, OnItsWay
  <2>4. ASSUME NEW s \in Slots, slots[s].state = "CONNECTED"
        PROVE  slots[s].handle \in up \/ OnItsWay(Terminated(slots[s].handle))
    <3> DEFINE h == slots[s].handle
    <3>1. h # NoHandle
      BY <2>4 DEF IInv, SlotsInv
    <3>2. h \in Handles /\ Has(h)
      BY <2>2, <3>1 DEF Has
    <3> HIDE DEF h
    <3>3. h \in up \/ OnItsWay(Terminated(h))
      BY <2>1, <3>2 DEF Story, EndsWith, OnItsWay
    <3> QED
      BY <3>3 DEF h
  <2> QED
    BY <2>3, <2>4 DEF LinkOwned, IInv, SlotsInv
<1> QED
  BY <1>1, Invariance, PTL

(* The pending slot is the only one connecting, and one outcome is owed it.  *)
THEOREM OneConnectAtATime == Spec => []OneConnect
<1>1. IInv => OneConnect
  <2> SUFFICES ASSUME IInv PROVE OneConnect
    OBVIOUS
  <2>1. {s \in Slots : slots[s].state = "CONNECTING"} = {pending} \ {NoSlot}
    BY SlotNumbers DEF IInv, TypeOK, SlotsInv
  <2>2. Outcomes = {i \in 1 .. Len(events) : IsOutcome(events[i])}
    BY DEF Outcomes, IsOutcome
  <2>3. Cardinality({}) = 0
    BY FS_EmptySet
  <2>4. CASE pending = NoSlot
    <3>1. Outcomes = {} /\ ~linking
      BY <2>2, <2>4 DEF IInv, OutcomeInv
    <3> QED
      BY <2>1, <2>3, <2>4, <3>1 DEF OneConnect
  <2>5. CASE pending # NoSlot /\ linking
    <3>1. Outcomes = {}
      BY <2>2, <2>5 DEF IInv, OutcomeInv
    <3> QED
      BY <2>1, <2>3, <2>5, <3>1 DEF OneConnect
  <2>6. CASE pending # NoSlot /\ ~linking
    <3>1. PICK i \in 1 .. Len(events) : IsOutcome(events[i])
      BY <2>6 DEF IInv, OutcomeInv
    <3>2. Outcomes = {i}
      BY <2>2, <3>1 DEF IInv, OutcomeInv
    <3>3. Cardinality({i}) = 1
      BY FS_Singleton
    <3> QED
      BY <2>1, <2>6, <3>2, <3>3 DEF OneConnect
  <2> QED
    BY <2>4, <2>5, <2>6
<1> QED
  BY <1>1, Invariance, PTL

(* active_scan is set only while the stack scans or has told of the end.     *)
THEOREM ScanFlagTrue == Spec => []ScanKnown
<1>1. IInv => ScanKnown
  BY DEF IInv
<1> QED
  BY <1>1, Invariance, PTL
=============================================================================
