------------------------------ MODULE Inventory ------------------------------
(***************************************************************************)
(* One player's inventory at both ends: the container the server keeps     *)
(* (InventoryService), the requests of handleInventoryPacket, the scripts  *)
(* that change the container without telling anybody, and the copy that    *)
(* the client shows (InventoryState.h), over reliable, ordered channels.   *)
(*                                                                         *)
(* Requests name slots, by what the client's copy shows; the server        *)
(* answers with the slots it changed.  The copy survives the session: a    *)
(* client that reconnects starts with what it knew before.                 *)
(***************************************************************************)
EXTENDS InventoryService, Sequences

CONSTANTS
    Starter,        \* the starter items: slot -> item, amount, flags
    WireMod,        \* what a 16-bit field holds: 65536
    Items,          \* the items scripts hand out
    Amounts,        \* the amounts scripts use
    Grants,         \* the flags scripts give
    AnyClient,      \* TRUE: a client may send what its UI would not
    MaxScripts,     \* bound: changes by scripts in one session
    MaxInFlight     \* bound: messages on each channel

ASSUME InventoryAssumption ==
    /\ DOMAIN Starter \subseteq Slots
    /\ \A s \in DOMAIN Starter :
          /\ Starter[s].item \in Nat
          /\ Starter[s].amount \in Nat
          /\ Starter[s].flags \in Flags
    /\ WireMod \in Nat \ {0}
    /\ Items \subseteq Nat
    /\ Amounts \subseteq Nat
    /\ Grants \subseteq Flags
    /\ AnyClient \in BOOLEAN
    /\ MaxScripts \in Nat
    /\ MaxInFlight \in Nat

VARIABLES
    link,       \* the session, see Links
    slots,      \* the server's container
    c2s,        \* requests on their way
    s2c,        \* answers on their way
    client,     \* the slots the client shows
    visible,    \* the client's window is open
    silent,     \* history: slots changed since the server last sent them
    changes     \* for MaxScripts: changes by scripts in this session

vars == <<link, slots, c2s, s2c, client, visible, silent, changes>>

(* "ending": the server ended the session and the client has yet to hear   *)
(* of it; what the server sent before may still arrive.                    *)
Links == {"down", "up", "ending"}

OnWire(state) ==
    [state EXCEPT !.item = @ % WireMod, !.amount = @ % WireMod]

Requests ==
    [kind: {"open", "close"}]
    \cup [kind: {"use", "drop"}, slot: 0..Size]
    \cup [kind: {"move"}, from: 0..Size, to: 0..Size]

(* An answer tells the state of some slots; an error tells of none. *)
Answers == [told: SUBSET Slots, state: Containers]

Telling(S, inv) ==
    [told |-> S, state |-> [s \in Slots |-> IF s \in S THEN OnWire(inv[s]) ELSE Nothing]]

Error(inv) == Telling({}, inv)

FullState(inv) == Telling(Slots, inv)

SlotUpdate(inv, s) == Telling({s}, inv)

-----------------------------------------------------------------------------
(* The client *)

Send(r) ==
    /\ Len(c2s) < MaxInFlight
    /\ c2s' = IF link = "up" THEN Append(c2s, r) ELSE c2s
    /\ UNCHANGED <<link, slots, s2c, client, silent, changes>>

(* InventoryUi: opening and closing tell the server. *)
OpenWindow ==
    /\ link # "down"
    /\ ~visible
    /\ visible' = TRUE
    /\ Send([kind |-> "open"])

CloseWindow ==
    /\ link # "down"
    /\ visible
    /\ visible' = FALSE
    /\ Send([kind |-> "close"])

(* What the window offers: by the copy, a stack that may be used or        *)
(* dropped, or dragged to any other slot.                                  *)
Offered(r) ==
    CASE r.kind \in {"use", "drop"} ->
            /\ r.slot \in Slots
            /\ client[r.slot].occupied
            /\ r.kind \in client[r.slot].flags
      [] r.kind = "move" ->
            /\ r.from \in Slots
            /\ r.to \in Slots \ {r.from}
            /\ client[r.from].occupied
            /\ "move" \in client[r.from].flags
      [] OTHER -> FALSE

Ask(r) ==
    /\ link # "down"
    /\ r.kind \in {"use", "drop", "move"}
    /\ AnyClient \/ (visible /\ Offered(r))
    /\ Send(r)
    /\ UNCHANGED visible

(* HandleNetworkEvent: a full state or an update overwrites the slots it   *)
(* names, an error only shows a line of text.                              *)
ClientReceives ==
    /\ s2c # <<>>
    /\ s2c' = Tail(s2c)
    /\ client' = [s \in Slots |->
                     IF s \in Head(s2c).told THEN Head(s2c).state[s] ELSE client[s]]
    /\ UNCHANGED <<link, slots, c2s, visible, silent, changes>>

-----------------------------------------------------------------------------
(* The server *)

Receive(kind) ==
    /\ link = "up"
    /\ c2s # <<>>
    /\ Head(c2s).kind = kind
    /\ Len(s2c) < MaxInFlight
    /\ c2s' = Tail(c2s)
    /\ UNCHANGED <<link, client, visible, changes>>

Reject ==
    /\ s2c' = Append(s2c, Error(slots))
    /\ UNCHANGED <<slots, silent>>

(* CMSG_OPEN: the whole container is sent. *)
HandleOpen ==
    /\ Receive("open")
    /\ s2c' = Append(s2c, FullState(slots))
    /\ silent' = {}
    /\ UNCHANGED slots

HandleClose ==
    /\ Receive("close")
    /\ UNCHANGED <<slots, s2c, silent>>

(* CMSG_USE_ITEM.  OnPlayerUseItem, called last, may do what any script    *)
(* may: the Script actions.                                                *)
HandleUse ==
    /\ Receive("use")
    /\ LET s == Head(c2s).slot
       IN  IF UseResult(slots, s) # "OK" THEN Reject
           ELSE /\ slots' = Used(slots, s)
                /\ s2c' = Append(s2c, SlotUpdate(slots', s))
                /\ silent' = silent \ {s}

HandleDrop ==
    /\ Receive("drop")
    /\ LET s == Head(c2s).slot
       IN  IF DropResult(slots, s) # "OK" THEN Reject
           ELSE /\ slots' = [slots EXCEPT ![s] = Nothing]
                /\ s2c' = Append(s2c, SlotUpdate(slots', s))
                /\ silent' = silent \ {s}

(* Mutant: a move reports the target only. *)
HandleMoveHalfReported ==
    /\ Receive("move")
    /\ LET from == Head(c2s).from
           to   == Head(c2s).to
       IN  IF MoveResult(slots, from, to) # "OK" THEN Reject
           ELSE /\ slots' = Moved(slots, from, to)
                /\ s2c' = Append(s2c, SlotUpdate(slots', to))
                /\ silent' = silent \ {from, to}

(* CMSG_MOVE_ITEM: both slots are reported, one update each. *)
HandleMove ==
    /\ Receive("move")
    /\ LET from == Head(c2s).from
           to   == Head(c2s).to
       IN  IF MoveResult(slots, from, to) # "OK" THEN Reject
           ELSE /\ slots' = Moved(slots, from, to)
                /\ s2c' = Append(Append(s2c, SlotUpdate(slots', from)),
                                 SlotUpdate(slots', to))
                /\ silent' = silent \ {from, to}

(* The builtins: the container changes and nothing is sent. *)
ScriptPuts(inv) ==
    /\ link = "up"
    /\ changes < MaxScripts
    /\ changes' = changes + 1
    /\ slots' = inv
    /\ silent' = silent \cup {s \in Slots : inv[s] # slots[s]}
    /\ UNCHANGED <<link, c2s, s2c, client, visible>>

SetInventorySlot(s, item, amount, flags) ==
    ScriptPuts(SetSlot(slots, s, item, amount, flags))

ClearInventorySlot(s) == ScriptPuts(ClearSlot(slots, s))

AddInventoryItem(item, amount, flags) ==
    ScriptPuts(AddItem(slots, item, amount, flags).inv)

RemoveInventoryItem(item, amount) ==
    ScriptPuts(RemoveItem(slots, item, amount).inv)

-----------------------------------------------------------------------------
(* Sessions, see module Sessions *)

(* CONNECT creates the container; the client hears of it when it opens its *)
(* window, and keeps the copy it has until then.                           *)
Connect ==
    /\ link = "down"
    /\ link' = "up"
    /\ slots' = Created(Starter)
    /\ silent' = Slots
    /\ changes' = 0
    /\ UNCHANGED <<c2s, s2c, client, visible>>

(* The server is done with the player: requests are no longer delivered    *)
(* and nothing more is sent.                                               *)
SessionEnds ==
    /\ link = "up"
    /\ link' = "ending"
    /\ slots' = Created([s \in {} |-> Nothing])
    /\ c2s' = <<>>
    /\ silent' = Slots
    /\ UNCHANGED <<s2c, client, visible, changes>>

(* The client hears of it, or finds out by itself: the window closes and   *)
(* the slots stay.                                                         *)
Disconnected ==
    /\ link = "ending"
    /\ link' = "down"
    /\ s2c' = <<>>
    /\ visible' = FALSE
    /\ UNCHANGED <<slots, c2s, client, silent, changes>>

-----------------------------------------------------------------------------

Init ==
    /\ link = "down"
    /\ slots = Created([s \in {} |-> Nothing])
    /\ c2s = <<>>
    /\ s2c = <<>>
    /\ client = [s \in Slots |-> Nothing]
    /\ visible = FALSE
    /\ silent = Slots
    /\ changes = 0

Client ==
    \/ OpenWindow
    \/ CloseWindow
    \/ \E r \in Requests : Ask(r)
    \/ ClientReceives

Handle ==
    \/ HandleOpen
    \/ HandleClose
    \/ HandleUse
    \/ HandleDrop
    \/ HandleMove

Script ==
    \/ \E s \in Slots, item \in Items \cup {0}, amount \in Amounts \cup {0}, flags \in Grants :
          SetInventorySlot(s, item, amount, flags)
    \/ \E s \in Slots : ClearInventorySlot(s)
    \/ \E item \in Items, amount \in Amounts, flags \in Grants :
          AddInventoryItem(item, amount, flags)
    \/ \E item \in Items, amount \in Amounts : RemoveInventoryItem(item, amount)

Session == Connect \/ SessionEnds \/ Disconnected

Next == Client \/ Handle \/ Script \/ Session

Spec == Init /\ [][Next]_vars

-----------------------------------------------------------------------------
(* Properties *)

TypeOK ==
    /\ link \in Links
    /\ slots \in Containers
    /\ c2s \in Seq(Requests)
    /\ s2c \in Seq(Answers)
    /\ client \in Containers
    /\ visible \in BOOLEAN
    /\ silent \subseteq Slots
    /\ changes \in Nat

(* A slot is occupied exactly when it has a positive amount of an item: no *)
(* operation leaves a stack of none, or hides one.                         *)
StacksAreReal ==
    \A s \in Slots : slots[s].occupied <=> slots[s].item > 0 /\ slots[s].amount > 0

(* Once what is on its way has arrived, the client shows what the server   *)
(* has, in every slot but those a script changed since they were last      *)
(* sent: no answer is missing, and none overtakes a newer one.             *)
ClientFollows ==
    link = "up" =>
        \A s \in Slots \ silent :
            /\ (\A i \in 1..Len(s2c) : s \notin s2c[i].told) => client[s] = OnWire(slots[s])
            /\ \A i \in 1..Len(s2c) :
                  s \in s2c[i].told /\ (\A j \in (i + 1)..Len(s2c) : s \notin s2c[j].told)
                      => s2c[i].state[s] = OnWire(slots[s])

(* Adding is exact: the whole amount or nothing, and nothing only when the *)
(* item has no stack and no slot is free.  No other item is touched.       *)
AddIsExact ==
    \A item \in Items \ {0}, amount \in Amounts \ {0}, flags \in Grants :
        LET added == AddItem(slots, item, amount, flags)
        IN  /\ added.ok <=> FreeSlots(slots) # {} \/ CountItem(slots, item) > 0
            /\ \A other \in Items :
                  CountItem(added.inv, other) =
                      CountItem(slots, other)
                          + (IF added.ok /\ other = item THEN amount ELSE 0)

(* Removing is exact: the whole amount or nothing, and nothing only when   *)
(* there is less, however many stacks it takes.  No other item is touched. *)
RemoveIsExact ==
    \A item \in Items : \A amount \in 1..(CountItem(slots, item) + 1) :
        LET removed == RemoveItem(slots, item, amount)
        IN  /\ removed.ok <=> CountItem(slots, item) >= amount
            /\ \A other \in Items :
                  CountItem(removed.inv, other) =
                      CountItem(slots, other)
                          - (IF removed.ok /\ other = item THEN amount ELSE 0)

Handled == link = "up" /\ link' = "up" /\ c2s # <<>> /\ c2s' = Tail(c2s)

(* Whatever a client asks for, it never has more of anything afterwards,   *)
(* moving loses nothing, and using takes one.                              *)
ConservesItems ==
    Handled =>
        /\ \A item \in Items : CountItem(slots', item) <= CountItem(slots, item)
        /\ Head(c2s).kind = "move" =>
              \A item \in Items : CountItem(slots', item) = CountItem(slots, item)
        /\ Head(c2s).kind = "use" =>
              \A item \in Items : CountItem(slots', item) >= CountItem(slots, item) - 1

ClientsCreateNothing == [][ConservesItems]_vars
=============================================================================
