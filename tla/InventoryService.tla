-------------------------- MODULE InventoryService --------------------------
(***************************************************************************)
(* inventory/InventoryService.cpp: the operations on one player's          *)
(* container, as operators from slots to slots.  A container is a function *)
(* from slot indices; a slot keeps what the code's SlotState keeps, its    *)
(* index apart, which the function has.  The revision and the open flag    *)
(* are left out: nothing reads them.                                       *)
(***************************************************************************)
EXTENDS Integers, FiniteSetsExt

CONSTANT Size       \* kInventorySize

ASSUME SizeAssumption == Size \in Nat \ {0}

Slots == 0..(Size - 1)

Flags == SUBSET {"use", "drop", "move"}

SlotStates ==
    [occupied: BOOLEAN, item: Nat, amount: Nat, flags: Flags]

Containers == [Slots -> SlotStates]

Nothing == [occupied |-> FALSE, item |-> 0, amount |-> 0, flags |-> {}]

(* setSlot keeps what it was given even where that is no stack. *)
Slot(item, amount, flags) ==
    [occupied |-> item > 0 /\ amount > 0,
     item |-> item, amount |-> amount, flags |-> flags]

SetSlot(inv, s, item, amount, flags) ==
    IF s \in Slots THEN [inv EXCEPT ![s] = Slot(item, amount, flags)] ELSE inv

ClearSlot(inv, s) == IF s \in Slots THEN [inv EXCEPT ![s] = Nothing] ELSE inv

Holds(inv, s, item) == inv[s].occupied /\ inv[s].item = item

StacksOf(inv, item) == {s \in Slots : Holds(inv, s, item)}

FreeSlots(inv) == {s \in Slots : ~inv[s].occupied}

First(S) == CHOOSE s \in S : \A other \in S : s <= other

CountItem(inv, item) ==
    MapThenSumSet(LAMBDA s : inv[s].amount, StacksOf(inv, item))

-----------------------------------------------------------------------------
(* What a client may ask for.  Each has a result and, when that is OK, an  *)
(* effect.                                                                 *)

MoveResult(inv, from, to) ==
    IF from \notin Slots \/ to \notin Slots THEN "INVALID_SLOT"
    ELSE IF from # to /\ ~inv[from].occupied THEN "NO_ITEM"
    ELSE "OK"

(* Mutant: a stack put where it already is merges with itself. *)
MovedOntoItself(inv, from, to) ==
    IF Holds(inv, to, inv[from].item)
    THEN [inv EXCEPT ![to].amount = @ + inv[from].amount, ![from] = Nothing]
    ELSE [inv EXCEPT ![from] = inv[to], ![to] = inv[from]]

(* A stack put on one of the same item joins it, under the target's flags; *)
(* anything else changes places.                                           *)
Moved(inv, from, to) ==
    IF from = to THEN inv
    ELSE IF Holds(inv, to, inv[from].item)
    THEN [inv EXCEPT ![to].amount = @ + inv[from].amount, ![from] = Nothing]
    ELSE [inv EXCEPT ![from] = inv[to], ![to] = inv[from]]

UseResult(inv, s) ==
    IF s \notin Slots THEN "INVALID_SLOT"
    ELSE IF ~inv[s].occupied THEN "NO_ITEM"
    ELSE IF "use" \notin inv[s].flags THEN "NOT_ALLOWED"
    ELSE "OK"

(* Mutant: the last one of a stack stays as a stack of none. *)
UsedToZero(inv, s) == [inv EXCEPT ![s].amount = @ - 1]

Used(inv, s) ==
    IF inv[s].amount > 1 THEN [inv EXCEPT ![s].amount = @ - 1]
    ELSE [inv EXCEPT ![s] = Nothing]

DropResult(inv, s) ==
    IF s \notin Slots THEN "INVALID_SLOT"
    ELSE IF ~inv[s].occupied THEN "NO_ITEM"
    ELSE IF "drop" \notin inv[s].flags THEN "NOT_ALLOWED"
    ELSE "OK"

-----------------------------------------------------------------------------
(* What a script may do. *)

(* Mutant: a full pack is written over. *)
AddItemToFull(inv, item, amount, flags) ==
    LET stacks == StacksOf(inv, item)
    IN  IF item = 0 \/ amount = 0 THEN [ok |-> FALSE, inv |-> inv]
        ELSE IF stacks # {}
        THEN [ok |-> TRUE,
              inv |-> [inv EXCEPT ![First(stacks)].amount = @ + amount,
                                  ![First(stacks)].flags = flags]]
        ELSE [ok |-> TRUE,
              inv |-> SetSlot(inv, First(Slots), item, amount, flags)]

(* addItem: onto the first stack of the item, whose flags it replaces, or  *)
(* into the first free slot; all of it or nothing.                         *)
AddItem(inv, item, amount, flags) ==
    LET stacks == StacksOf(inv, item)
    IN  IF item = 0 \/ amount = 0 \/ stacks \cup FreeSlots(inv) = {}
        THEN [ok |-> FALSE, inv |-> inv]
        ELSE IF stacks # {}
        THEN [ok |-> TRUE,
              inv |-> [inv EXCEPT ![First(stacks)].amount = @ + amount,
                                  ![First(stacks)].flags = flags]]
        ELSE [ok |-> TRUE,
              inv |-> SetSlot(inv, First(FreeSlots(inv)), item, amount, flags)]

(* What removeItem takes from the stacks before slot s. *)
CountBefore(inv, item, s) ==
    MapThenSumSet(LAMBDA t : inv[t].amount, {t \in StacksOf(inv, item) : t < s})

(* Mutant: every stack gives what is asked for. *)
RemoveItemFromEach(inv, item, amount) ==
    IF item = 0 \/ amount = 0 \/ CountItem(inv, item) < amount
    THEN [ok |-> FALSE, inv |-> inv]
    ELSE [ok |-> TRUE,
          inv |-> [s \in Slots |->
                      IF ~Holds(inv, s, item) THEN inv[s]
                      ELSE IF inv[s].amount <= amount THEN Nothing
                      ELSE [inv[s] EXCEPT !.amount = @ - amount]]]

(* removeItem: from the first stack on, until the amount is together; all  *)
(* of it or nothing.                                                       *)
RemoveItem(inv, item, amount) ==
    LET wanted(s) == amount - CountBefore(inv, item, s)
    IN  IF item = 0 \/ amount = 0 \/ CountItem(inv, item) < amount
        THEN [ok |-> FALSE, inv |-> inv]
        ELSE [ok |-> TRUE,
              inv |-> [s \in Slots |->
                          IF ~Holds(inv, s, item) THEN inv[s]
                          ELSE IF wanted(s) \in 1..(inv[s].amount - 1)
                          THEN [inv[s] EXCEPT !.amount = @ - wanted(s)]
                          ELSE IF wanted(s) <= 0 THEN inv[s]
                          ELSE Nothing]]

(* Mutant: one slot more than there are. *)
CreatedOneTooMany(starter) ==
    [s \in 0..Size |->
        IF s \in DOMAIN starter
        THEN Slot(starter[s].item, starter[s].amount, starter[s].flags)
        ELSE Nothing]

(* createInventory: every slot free but for the starter items, which       *)
(* giveStarterItems puts in by setSlot.                                    *)
Created(starter) ==
    [s \in Slots |->
        IF s \in DOMAIN starter
        THEN Slot(starter[s].item, starter[s].amount, starter[s].flags)
        ELSE Nothing]
=============================================================================
