------------------------------ MODULE BleLink ------------------------------
(***************************************************************************)
(* ble/ble_link_fsm.c: the GATT procedures of one slot.  A command of the  *)
(* host starts a procedure of the stack; what the stack has found comes    *)
(* back in TMOS messages, handled later, and by then the host may have     *)
(* asked for something else.                                               *)
(*                                                                         *)
(* The stack runs one client procedure per link and refuses a second one   *)
(* (blePending).  A discovery sends several messages and ends as           *)
(* BLE/wchble.h:3263-3265 and 3370-3372 say.  Write, subscribe and         *)
(* unsubscribe are one kind; the MTU value, notifications and writes       *)
(* without response touch nothing here.  All messages of a connection have *)
(* been handled before the slot gets its next one.                         *)
(***************************************************************************)
EXTENDS Naturals, Sequences

CONSTANTS LastHandle,  \* the highest attribute handle of the peer
          MaxStarts    \* bound: procedures of the stack

ASSUME BleLinkAssumption == LastHandle \in Nat \ {0} /\ MaxStarts \in Nat

Handles  == 1 .. LastHandle
Ranged   == {"DISC_CHAR", "DISC_DESC"}      \* discoveries of a range of handles
Single   == {"READ", "WRITE_REQ", "EXCHANGE_MTU"}
Kinds    == {"DISC_SERVICE"} \cup Ranged \cup Single
NoProc   == [kind |-> "NONE", id |-> 0, from |-> 0, to |-> 0]
Statuses == {"SUCCESS", "bleProcedureComplete", "bleTimeout", "ERROR_RSP"}

VARIABLES
    attached,  \* conn_handle # GAP_CONNHANDLE_INIT
    busy,      \* proc_busy
    proc,      \* proc
    rangeEnd,  \* range_end
    up,        \* stack: the link
    client,    \* stack: the client procedure it runs: kind, id, handles to search
    msgs,      \* GATT messages under way: kind of procedure, id, status, last
               \* handle found in it, 0 where it reports nothing found
    starts,    \* procedures the stack has begun
    begun,     \* ghost: the id of the procedure the slot began last
    mute       \* ghost: the end of the procedure in hand has been ignored

linkVars == <<attached, busy, proc, rangeEnd>>
vars == <<linkVars, up, client, msgs, starts, begun, mute>>

Init == /\ attached = FALSE /\ busy = FALSE /\ proc = "NONE" /\ rangeEnd = 0
        /\ up = FALSE /\ client = NoProc /\ msgs = <<>>
        /\ starts = 0 /\ begun = 0 /\ mute = FALSE

-----------------------------------------------------------------------------
(* The connection *)

StackUp == /\ ~up /\ ~attached /\ msgs = <<>> /\ up' = TRUE
           /\ UNCHANGED <<linkVars, client, msgs, starts, begun, mute>>

StackDown == /\ up /\ up' = FALSE /\ client' = NoProc
             /\ UNCHANGED <<linkVars, msgs, starts, begun, mute>>

NoneBusy == busy' = FALSE /\ proc' = "NONE" /\ rangeEnd' = 0 /\ mute' = FALSE

(* BleLink_Attach, on GAP_LINK_ESTABLISHED_EVENT. *)
Attach == /\ up /\ ~attached /\ attached' = TRUE
          /\ NoneBusy
          /\ UNCHANGED <<up, client, msgs, starts, begun>>

(* BleLink_Reset, on GAP_LINK_TERMINATED_EVENT. *)
Reset == /\ attached /\ ~up /\ attached' = FALSE
         /\ NoneBusy
         /\ UNCHANGED <<up, client, msgs, starts, begun>>

-----------------------------------------------------------------------------
(* The stack at work *)

Send(status, last) ==
    msgs' = Append(msgs, [kind |-> client.kind, id |-> client.id, status |-> status, last |-> last])

(* A response to a discovery; the stack goes on behind the last handle.      *)
StackFinds(h) ==
    /\ client.kind \notin Single /\ h \in client.from .. client.to
    /\ Send("SUCCESS", h)
    /\ client' = [client EXCEPT !.from = h + 1]
    /\ UNCHANGED <<linkVars, up, starts, begun, mute>>

(* The end of a discovery, which may report something found or not.          *)
StackCompletes(h) ==
    /\ client.kind \notin Single /\ h \in (client.from .. client.to) \cup {0}
    /\ client # NoProc /\ client' = NoProc
    /\ Send("bleProcedureComplete", h)
    /\ UNCHANGED <<linkVars, up, starts, begun, mute>>

StackAnswers ==
    /\ client.kind \in Single /\ client' = NoProc
    /\ Send("SUCCESS", 0)
    /\ UNCHANGED <<linkVars, up, starts, begun, mute>>

StackGivesUp(status) ==
    /\ client # NoProc /\ client' = NoProc
    /\ Send(status, 0)
    /\ UNCHANGED <<linkVars, up, starts, begun, mute>>

Stack == \/ StackUp \/ StackDown \/ StackAnswers
         \/ \E h \in Handles : StackFinds(h)
         \/ \E h \in Handles \cup {0} : StackCompletes(h)
         \/ \E status \in {"bleTimeout", "ERROR_RSP"} : StackGivesUp(status)

(* GATT_* of the stack: bleNotConnected, blePending, or accepted.  Where the *)
(* module calls it, the stack may refuse for want of memory as well.         *)
Free == up /\ client = NoProc /\ starts < MaxStarts
Accept(kind, from, to) ==
    /\ Free
    /\ client' = [kind |-> kind, id |-> starts + 1, from |-> from, to |-> to]
    /\ starts' = starts + 1
    /\ begun' = starts + 1

-----------------------------------------------------------------------------
(* Commands: BleLink_StartDiscover*, _Read, _WriteReq, _Subscribe,           *)
(* _Unsubscribe, _ExchangeMtu                                                *)

(* Mutant: proc_busy is not looked at. *)
ReadyBlind == attached

Ready == attached /\ ~busy  \* BleLink_RequireReadyCtx, BleLink_RequireIdleProc

BeginProc(kind, to) == busy' = TRUE /\ proc' = kind /\ rangeEnd' = to /\ mute' = FALSE

StartRanged(kind, from, to) ==
    /\ kind \in Ranged /\ from <= to
    /\ Ready
    /\ Accept(kind, from, to)
    /\ BeginProc(kind, to)
    /\ UNCHANGED <<attached, up, msgs>>

(* BleLink_StartDiscoverServices (the stack searches all handles) and the    *)
(* procedures on one attribute.                                              *)
Start(kind) ==
    /\ kind \in Kinds \ Ranged
    /\ Ready
    /\ Accept(kind, 1, LastHandle)
    /\ BeginProc(kind, 0)
    /\ UNCHANGED <<attached, up, msgs>>

(* Mutant: the stack's refusal leaves proc_busy set. *)
StartRefusedBusy ==
    /\ Ready
    /\ busy' = TRUE
    /\ UNCHANGED <<attached, proc, rangeEnd, up, client, msgs, starts, begun, mute>>

(* The stack refuses: proc_busy is set and cleared again.                    *)
StartRefused ==
    /\ Ready
    /\ busy' = FALSE
    /\ UNCHANGED <<attached, proc, rangeEnd, up, client, msgs, starts, begun, mute>>

-----------------------------------------------------------------------------
(* BleLink_HandleGattMsg *)

EndProc == NoneBusy
Keep    == UNCHANGED <<busy, proc, rangeEnd, mute>>
Quiet   == UNCHANGED <<client, starts, begun>>
Finished(m) == m.status \in {"bleProcedureComplete", "bleTimeout"}

(* Nobody looks at the status of a discovery message that reports nothing    *)
(* found: if it is the end of the procedure in hand, that end is passed over. *)
Ignore(m) == /\ UNCHANGED <<busy, proc, rangeEnd>>
             /\ mute' = (mute \/ (Finished(m) /\ m.id = begun))

(* BleLink_HandleDiscoverServices *)
HandleDiscoverServices(m) ==
    /\ IF m.status = "ERROR_RSP" \/ (m.last # 0 /\ Finished(m)) THEN EndProc
       ELSE IF m.last # 0 THEN Keep ELSE Ignore(m)
    /\ Quiet

(* GATT_DiscAllChars or GATT_DiscAllCharDescs for the rest of the range.     *)
SearchOn(m) ==
    \/ Accept(proc, m.last + 1, rangeEnd) /\ Keep
    \/ EndProc /\ Quiet

(* BleLink_HandleDiscoverChars, BleLink_HandleDiscoverDescs *)
HandleDiscoverRange(m) ==
    \/ m.status = "ERROR_RSP" /\ EndProc /\ Quiet
    \/ m.status = "SUCCESS" /\ m.last # 0 /\ m.last < rangeEnd /\ SearchOn(m)
    \/ m.last # 0 /\ (Finished(m) \/ m.last >= rangeEnd) /\ EndProc /\ Quiet
    \/ m.status # "ERROR_RSP" /\ m.last = 0 /\ Ignore(m) /\ Quiet
    \/ proc = "DISC_DESC" /\ m.last # 0 /\ EndProc /\ Quiet  \* unknown format

(* Mutant: only the response ends the procedure, the error does not. *)
HandleSingleNoError(m) == (IF m.status = "ERROR_RSP" THEN Keep ELSE EndProc) /\ Quiet

(* BleLink_HandleReadProc, _HandleWriteProc, _HandleMtuProc *)
HandleSingle(m) == EndProc /\ Quiet

(* Mutant: the method of the message is not compared with the procedure. *)
HandleProcAny(m) ==
    \/ proc = "DISC_SERVICE" /\ HandleDiscoverServices(m)
    \/ proc \in Ranged /\ HandleDiscoverRange(m)
    \/ proc \in Single /\ HandleSingle(m)

(* Each handler looks at the method of the message first.                    *)
HandleProc(m) ==
    \/ m.kind # proc /\ Keep /\ Quiet
    \/ m.kind = proc /\ proc = "DISC_SERVICE" /\ HandleDiscoverServices(m)
    \/ m.kind = proc /\ proc \in Ranged /\ HandleDiscoverRange(m)
    \/ m.kind = proc /\ proc \in Single /\ HandleSingle(m)

(* A message of a link whose slot is gone finds no slot                      *)
(* (BleHostMgr_ProcessGattMsg).                                              *)
HandleGattMsg ==
    /\ msgs # <<>> /\ msgs' = Tail(msgs)
    /\ IF attached /\ busy THEN HandleProc(Head(msgs)) ELSE Keep /\ Quiet
    /\ UNCHANGED <<attached, up>>

-----------------------------------------------------------------------------
Command == \/ StartRefused
           \/ \E kind \in Kinds : Start(kind)
           \/ \E kind \in Kinds, from, to \in Handles : StartRanged(kind, from, to)

Next == Stack \/ Attach \/ Reset \/ Command \/ HandleGattMsg
Spec == Init /\ [][Next]_vars

-----------------------------------------------------------------------------
(* Properties *)

Procs == [kind : Kinds, id : 1 .. MaxStarts, from : 1 .. LastHandle + 1, to : Handles] \cup {NoProc}
Messages == [kind : Kinds, id : 1 .. MaxStarts, status : Statuses, last : 0 .. LastHandle]
TypeOK ==
    /\ attached \in BOOLEAN /\ busy \in BOOLEAN /\ up \in BOOLEAN /\ mute \in BOOLEAN
    /\ proc \in Kinds \cup {"NONE"} /\ (busy <=> proc # "NONE")
    /\ rangeEnd \in 0 .. LastHandle /\ client \in Procs /\ msgs \in Seq(Messages)
    /\ starts \in 0 .. MaxStarts /\ begun \in 0 .. starts

Heard(m) == attached /\ msgs # <<>> /\ m = Head(msgs)
Taken(m) == busy /\ proc = m.kind /\ begun = m.id

(* The answer to a read, a write, an MTU exchange or a service discovery     *)
(* meets the procedure that asked for it, whatever the host has asked since: *)
(* it is reported, once, and under the right command.                        *)
Answered == \A m \in Messages : Heard(m) /\ m.kind \notin Ranged => Taken(m)

(* The same for the two discoveries of a range.                              *)
RangeAnswered == \A m \in Messages :
    Heard(m) /\ m.kind \in Ranged /\ m.last # 0 => busy /\ proc = m.kind

(* A busy slot is owed something: the stack is at the procedure, or has      *)
(* messages for it; if not, its end came as a message that was ignored, and  *)
(* no other way leads to a slot that answers BUSY for good.                  *)
NotStuck == busy /\ up /\ ~mute => client # NoProc \/ msgs # <<>>

(* The stack works for nobody else: while it runs a read, a write, an MTU    *)
(* exchange or a service discovery, the slot answers BUSY (design document   *)
(* 8.4: one procedure per slot).                                             *)
OneProcedure == client # NoProc /\ client.kind \notin Ranged => busy /\ proc = client.kind
=============================================================================
