------------------------------ MODULE BleHost ------------------------------
(***************************************************************************)
(* ble/ble_host_manager.c: scanning, one connect at a time, and the slots, *)
(* with the connection handle ble/ble_link_fsm.c keeps for each slot.      *)
(* Commands (BleHostMgr_HandleMgmt) and callbacks (BleHostMgr_EventCb) run *)
(* in the TMOS loop, one after the other; each is one step.  The stack     *)
(* sends its GAP events as TMOS messages, so an event reports what has     *)
(* been true some time ago.                                                *)
(*                                                                         *)
(* The stack is the library behind BLE/wchble.h.  g_ble_mgr.state is left  *)
(* out: it is only written to the log.  Queries, refused commands and      *)
(* scan parameters change none of this.  BleLink follows the procedures    *)
(* of one connection.                                                      *)
(***************************************************************************)
EXTENDS Naturals, Sequences, FiniteSets

CONSTANTS MaxLinks,  \* APP_BLE_MAX_LINKS
          Handles,   \* the connection handles of the stack
          NoHandle,  \* GAP_CONNHANDLE_INIT
          MaxEvents  \* bound: events under way

ASSUME BleHostAssumption ==
    /\ MaxLinks \in Nat \ {0} /\ MaxEvents \in Nat
    /\ NoHandle \notin Handles /\ IsFiniteSet(Handles)

Slots  == 0 .. MaxLinks - 1
NoSlot == MaxLinks        \* 0xFF
NoOne  == [state |-> "IDLE", handle |-> NoHandle]

VARIABLES
    activeScan,  \* active_scan
    pending,     \* pending_connect_slot
    slots,       \* slots[]: [state, handle]
    link,        \* conn_handle of g_ble_link_ctx[]
    scan,        \* stack: "off", "on", or "ending" after a cancel
    linking,     \* stack: a link is being established
    up,          \* stack: handles of the links there are
    events       \* stack: events sent, oldest first

hostVars  == <<activeScan, pending, slots, link>>
stackVars == <<scan, linking, up, events>>
vars == <<hostVars, stackVars>>

Discovery      == [kind |-> "DISCOVERY", handle |-> NoHandle]
Failed         == [kind |-> "FAILED", handle |-> NoHandle]  \* ESTABLISHED, not SUCCESS
Established(h) == [kind |-> "ESTABLISHED", handle |-> h]
Terminated(h)  == [kind |-> "TERMINATED", handle |-> h]
Events == {Discovery, Failed} \cup [kind : {"ESTABLISHED", "TERMINATED"}, handle : Handles]

Init == /\ activeScan = FALSE /\ pending = NoSlot
        /\ slots = [s \in Slots |-> NoOne]
        /\ link = [s \in Slots |-> NoHandle]
        /\ scan = "off" /\ linking = FALSE /\ up = {} /\ events = <<>>

-----------------------------------------------------------------------------
(* The stack, left to itself *)

Send(e) == Len(events) < MaxEvents /\ events' = Append(events, e)

StackScanEnds ==
    /\ scan # "off" /\ scan' = "off"
    /\ Send(Discovery)
    /\ UNCHANGED <<hostVars, linking, up>>

StackLinkUp(h) ==
    /\ linking /\ h \notin up
    /\ linking' = FALSE /\ up' = up \cup {h}
    /\ Send(Established(h))
    /\ UNCHANGED <<hostVars, scan>>

StackLinkFails ==
    /\ linking /\ linking' = FALSE
    /\ Send(Failed)
    /\ UNCHANGED <<hostVars, scan, up>>

(* The peer, the supervision timeout, or GAPRole_TerminateLink called by     *)
(* VP_BLE_DISCONNECT, which changes nothing in the host manager.             *)
StackLinkDown(h) ==
    /\ h \in up /\ up' = up \ {h}
    /\ Send(Terminated(h))
    /\ UNCHANGED <<hostVars, scan, linking>>

-----------------------------------------------------------------------------
(* BleHostMgr_HandleMgmt *)

(* Mutant: the scan counts as active though the stack has refused it. *)
ScanStartAnyway ==
    /\ ~activeScan
    /\ activeScan' = TRUE
    /\ scan' \in {scan, IF scan = "off" THEN "on" ELSE scan}
    /\ UNCHANGED <<pending, slots, link, linking, up, events>>

(* VP_BLE_SCAN_START, accepted by the stack. *)
ScanStart ==
    /\ ~activeScan
    /\ scan = "off" /\ scan' = "on"
    /\ activeScan' = TRUE
    /\ UNCHANGED <<pending, slots, link, linking, up, events>>

(* VP_BLE_SCAN_STOP: "cancel started". *)
ScanStop ==
    /\ scan = "on" /\ scan' = "ending"
    /\ activeScan' = FALSE
    /\ UNCHANGED <<pending, slots, link, linking, up, events>>

CanConnect(s) == pending = NoSlot /\ slots[s].state = "IDLE"

(* VP_BLE_CONNECT, submitted. *)
Connect(s) ==
    /\ CanConnect(s)
    /\ scan = "off" /\ ~linking /\ linking' = TRUE
    /\ link' = [link EXCEPT ![s] = NoHandle]
    /\ pending' = s
    /\ slots' = [slots EXCEPT ![s].state = "CONNECTING"]
    /\ UNCHANGED <<activeScan, scan, up, events>>

(* Mutant: the slot is looked at, the connect under way is not. *)
ConnectRefusedBlind(s) ==
    /\ slots[s].state = "IDLE"
    /\ link' = [link EXCEPT ![s] = NoHandle]
    /\ pending' = NoSlot
    /\ UNCHANGED <<activeScan, slots, stackVars>>

(* VP_BLE_CONNECT, refused by the stack: the slot is taken and given back.   *)
ConnectRefused(s) ==
    /\ CanConnect(s)
    /\ link' = [link EXCEPT ![s] = NoHandle]
    /\ UNCHANGED <<activeScan, pending, slots, stackVars>>

-----------------------------------------------------------------------------
(* BleHostMgr_EventCb *)

Receive(e) == events # <<>> /\ Head(events) = e /\ events' = Tail(events)

(* GAP_DEVICE_DISCOVERY_EVENT *)
ScanComplete ==
    /\ Receive(Discovery)
    /\ activeScan' = FALSE
    /\ UNCHANGED <<pending, slots, link, scan, linking, up>>

(* Mutant: the slot is given a state of its own for a failed attempt. *)
LinkFailedError ==
    /\ Receive(Failed)
    /\ IF pending = NoSlot THEN UNCHANGED <<slots, link>>
       ELSE /\ slots' = [slots EXCEPT ![pending].state = "ERROR"]
            /\ link' = [link EXCEPT ![pending] = NoHandle]
    /\ pending' = NoSlot
    /\ UNCHANGED <<activeScan, scan, linking, up>>

(* GAP_LINK_ESTABLISHED_EVENT; BleLink_Attach or BleLink_Reset. *)
LinkFailed ==
    /\ Receive(Failed)
    /\ IF pending = NoSlot THEN UNCHANGED <<slots, link>>
       ELSE /\ slots' = [slots EXCEPT ![pending].state = "IDLE"]
            /\ link' = [link EXCEPT ![pending] = NoHandle]
    /\ pending' = NoSlot
    /\ UNCHANGED <<activeScan, scan, linking, up>>

LinkEstablished(h) ==
    /\ Receive(Established(h))
    /\ IF pending = NoSlot THEN UNCHANGED <<slots, link>>
       ELSE /\ slots' = [slots EXCEPT ![pending] = [state |-> "CONNECTED", handle |-> h]]
            /\ link' = [link EXCEPT ![pending] = h]
    /\ pending' = NoSlot
    /\ UNCHANGED <<activeScan, scan, linking, up>>

(* BleHostMgr_FindSlotByConnHandle: the first slot with the handle.          *)
Having(h) == {s \in Slots : slots[s].handle = h}
FindSlot(h) == CHOOSE s \in Having(h) : \A t \in Having(h) : s <= t

(* Mutant: the slot is marked idle and keeps its handle. *)
LinkTerminatedHandle(h) ==
    /\ Receive(Terminated(h))
    /\ IF Having(h) = {} THEN UNCHANGED <<slots, link>>
       ELSE /\ slots' = [slots EXCEPT ![FindSlot(h)].state = "IDLE"]
            /\ link' = [link EXCEPT ![FindSlot(h)] = NoHandle]
    /\ UNCHANGED <<activeScan, pending, scan, linking, up>>

(* GAP_LINK_TERMINATED_EVENT; BleLink_Reset. *)
LinkTerminated(h) ==
    /\ Receive(Terminated(h))
    /\ IF Having(h) = {} THEN UNCHANGED <<slots, link>>
       ELSE /\ slots' = [slots EXCEPT ![FindSlot(h)] = NoOne]
            /\ link' = [link EXCEPT ![FindSlot(h)] = NoHandle]
    /\ UNCHANGED <<activeScan, pending, scan, linking, up>>

-----------------------------------------------------------------------------
Stack == StackScanEnds \/ StackLinkFails \/ \E h \in Handles : StackLinkUp(h) \/ StackLinkDown(h)

HandleMgmt == ScanStart \/ ScanStop \/ \E s \in Slots : Connect(s) \/ ConnectRefused(s)

EventCb == ScanComplete \/ LinkFailed \/ \E h \in Handles : LinkEstablished(h) \/ LinkTerminated(h)

Next == Stack \/ HandleMgmt \/ EventCb

Spec == Init /\ [][Next]_vars

-----------------------------------------------------------------------------
(* Properties *)

TypeOK ==
    /\ activeScan \in BOOLEAN /\ pending \in Slots \cup {NoSlot}
    /\ slots \in [Slots -> [state : {"IDLE", "CONNECTING", "CONNECTED"},
                            handle : Handles \cup {NoHandle}]]
    /\ link \in [Slots -> Handles \cup {NoHandle}]
    /\ scan \in {"off", "on", "ending"} /\ linking \in BOOLEAN
    /\ up \subseteq Handles /\ events \in Seq(Events)

OnItsWay(e) == \E i \in 1 .. Len(events) : events[i] = e

(* No link is orphaned: one the stack has is in a slot, or the event that    *)
(* puts it there is on its way; a slot is connected only to a link that      *)
(* there is or whose end has been sent; no two slots share a handle; and     *)
(* ble_link_fsm.c has the same handle for each connected slot and none for   *)
(* the others, whatever event or command came last.                          *)
LinkOwned ==
    /\ \A h \in up : Having(h) # {} \/ OnItsWay(Established(h))
    /\ \A s \in Slots : slots[s].state = "CONNECTED" =>
           slots[s].handle \in up \/ OnItsWay(Terminated(slots[s].handle))
    /\ \A s, t \in Slots : s # t /\ slots[s].handle = slots[t].handle => slots[s].handle = NoHandle
    /\ \A s \in Slots : link[s] = slots[s].handle
                        /\ (link[s] # NoHandle <=> slots[s].state = "CONNECTED")

(* Design document 8.2: at most one connect at a time.  The pending slot is  *)
(* the only one connecting, and an outcome is owed to it: the stack is still *)
(* at it or has sent it, and sends no second one.                            *)
Outcomes == {i \in 1 .. Len(events) : events[i].kind \in {"FAILED", "ESTABLISHED"}}
OneConnect ==
    /\ {s \in Slots : slots[s].state = "CONNECTING"} = {pending} \ {NoSlot}
    /\ Cardinality(Outcomes) + (IF linking THEN 1 ELSE 0) = (IF pending = NoSlot THEN 0 ELSE 1)

(* active_scan never blocks scanning for ever (SCAN_START answers BUSY while *)
(* it is set, and SCAN_STOP cannot clear it once the stack has no scan):     *)
(* the stack is scanning, or the event that clears it has been sent.         *)
ScanKnown == activeScan => scan = "on" \/ OnItsWay(Discovery)
=============================================================================
