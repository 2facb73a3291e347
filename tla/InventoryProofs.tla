-------------------------- MODULE InventoryProofs --------------------------
(***************************************************************************)
(* Proofs about Inventory, for containers of any size, any starter items,  *)
(* any amounts and any length of the channels: what the client shows       *)
(* follows what the server keeps, and what the operations add, take and    *)
(* move is exact.                                                          *)
(*                                                                         *)
(* Counts are sums over the slots that hold an item, which the community   *)
(* modules define by a recursive function.  That it exists, and that a sum *)
(* does not depend on the order it is taken in, is proved below by         *)
(* looking at a smallest set of slots for which it would fail.             *)
(***************************************************************************)
EXTENDS Inventory, TLAPS, FiniteSetTheorems, WellFoundedInduction

Real(inv) ==
    \A s \in Slots : inv[s].occupied <=> inv[s].item > 0 /\ inv[s].amount > 0

(* ClientFollows, of any channel, copy, container and silence. *)
Follows(q, copy, inv, quiet) ==
    \A s \in Slots \ quiet :
        /\ (\A i \in 1..Len(q) : s \notin q[i].told) => copy[s] = OnWire(inv[s])
        /\ \A i \in 1..Len(q) :
              s \in q[i].told /\ (\A j \in (i + 1)..Len(q) : s \notin q[j].told)
                  => q[i].state[s] = OnWire(inv[s])

-----------------------------------------------------------------------------
(* The operations on a container *)

(* A set of numbers that is not empty has a least. *)
LEMMA SomeLeast ==
    ASSUME NEW S \in SUBSET Nat, S # {}
    PROVE  \E s \in S : \A other \in S : s <= other
<1> DEFINE R == {ss \in Nat \X Nat : ss[1] < ss[2]}
<1>2. OpToRel(<, Nat) = R
    BY DEF OpToRel
<1>3. IsWellFoundedOn(R, Nat)
    BY <1>2, NatLessThanWellFounded
<1>4. PICK s \in S : \A other \in S : <<other, s>> \notin R
  <2> HIDE DEF R
  <2> QED
    BY <1>3, WFMin, Zenon
<1>5. ASSUME NEW other \in S PROVE s <= other
  <2>1. <<other, s>> \notin R
      BY <1>4
  <2>2. <<other, s>> \in Nat \X Nat
      OBVIOUS
  <2>3. ~(other < s)
      BY <2>1, <2>2
  <2> QED
      BY <2>3
<1> QED
    BY <1>5

(* A nonempty set of slots has a first one. *)
LEMMA FirstIsIn ==
    ASSUME NEW S \in SUBSET Slots, S # {}
    PROVE  First(S) \in S
<1>1. S \in SUBSET Nat
    BY SizeAssumption DEF Slots
<1>2. \E s \in S : \A other \in S : s <= other
    BY <1>1, SomeLeast
<1> QED
    BY <1>2 DEF First

(* Nothing is no stack, and a slot a script fills is one exactly when it   *)
(* has a positive amount of an item.                                       *)
LEMMA SlotIsReal ==
    ASSUME NEW item \in Nat, NEW amount \in Nat, NEW flags \in Flags
    PROVE  /\ Slot(item, amount, flags) \in SlotStates
           /\ Slot(item, amount, flags).occupied
                 <=> /\ Slot(item, amount, flags).item > 0
                     /\ Slot(item, amount, flags).amount > 0
           /\ Nothing \in SlotStates
           /\ ~Nothing.occupied
           /\ Nothing.item = 0
BY DEF Slot, SlotStates, Nothing, Flags

LEMMA CreatedIsReal ==
    ASSUME NEW starter, \A s \in DOMAIN starter :
               /\ starter[s].item \in Nat
               /\ starter[s].amount \in Nat
               /\ starter[s].flags \in Flags
    PROVE  Created(starter) \in Containers /\ Real(Created(starter))
<1>1. \A s \in DOMAIN starter :
          LET slot == Slot(starter[s].item, starter[s].amount, starter[s].flags)
          IN  slot \in SlotStates /\ (slot.occupied <=> slot.item > 0 /\ slot.amount > 0)
    BY SlotIsReal
<1>2. Nothing \in SlotStates /\ ~Nothing.occupied /\ Nothing.item = 0
    BY SlotIsReal DEF Nothing, SlotStates, Flags
<1> QED
    BY <1>1, <1>2 DEF Created, Containers, Real

LEMMA SetSlotIsReal ==
    ASSUME NEW inv \in Containers, Real(inv),
           NEW s, NEW item \in Nat, NEW amount \in Nat, NEW flags \in Flags
    PROVE  /\ SetSlot(inv, s, item, amount, flags) \in Containers
           /\ Real(SetSlot(inv, s, item, amount, flags))
<1> DEFINE slot == Slot(item, amount, flags)
<1>1. slot \in SlotStates /\ (slot.occupied <=> slot.item > 0 /\ slot.amount > 0)
    BY SlotIsReal
<1> HIDE DEF slot
<1>2. SetSlot(inv, s, item, amount, flags) = IF s \in Slots THEN [inv EXCEPT ![s] = slot] ELSE inv
    BY DEF SetSlot, slot
<1> QED
    BY <1>1, <1>2 DEF Containers, Real

LEMMA ClearSlotIsReal ==
    ASSUME NEW inv \in Containers, Real(inv), NEW s
    PROVE  /\ ClearSlot(inv, s) \in Containers
           /\ Real(ClearSlot(inv, s))
           /\ s \in Slots => /\ [inv EXCEPT ![s] = Nothing] \in Containers
                             /\ Real([inv EXCEPT ![s] = Nothing])
<1>1. Nothing \in SlotStates /\ ~Nothing.occupied /\ Nothing.item = 0
    BY DEF Nothing, SlotStates, Flags
<1> QED
    BY <1>1 DEF ClearSlot, Containers, Real

(* Moving changes the two slots only, and moving a stack that is real      *)
(* keeps every slot so.                                                    *)
LEMMA MovedIsReal ==
    ASSUME NEW inv \in Containers, Real(inv), NEW from \in Slots, NEW to \in Slots
    PROVE  /\ Moved(inv, from, to) \in Containers
           /\ MoveResult(inv, from, to) = "OK" => Real(Moved(inv, from, to))
           /\ \A s \in Slots \ {from, to} : Moved(inv, from, to)[s] = inv[s]
<1>1. Nothing \in SlotStates /\ ~Nothing.occupied /\ Nothing.item = 0
    BY DEF Nothing, SlotStates, Flags
<1>2. inv[from] \in SlotStates /\ inv[to] \in SlotStates
    BY DEF Containers
<1>3. CASE from = to
    BY <1>3 DEF Moved
<1>4. CASE from # to /\ Holds(inv, to, inv[from].item)
  <2> DEFINE merged == [inv[to] EXCEPT !.amount = @ + inv[from].amount]
  <2>1. /\ merged \in SlotStates
        /\ merged.occupied = inv[to].occupied
        /\ merged.item = inv[to].item
        /\ merged.amount = inv[to].amount + inv[from].amount
      BY <1>2 DEF SlotStates
  <2> HIDE DEF merged
  <2>2. Moved(inv, from, to) = [inv EXCEPT ![to] = merged, ![from] = Nothing]
      BY <1>4 DEF Moved, merged, Containers
  <2>3. inv[to].amount \in Nat /\ inv[from].amount \in Nat /\ inv[to].item \in Nat
      BY <1>2 DEF SlotStates
  <2>4. merged.occupied <=> merged.item > 0 /\ merged.amount > 0
      BY <1>4, <2>1, <2>3 DEF Real, Holds
  <2> QED
      BY <1>1, <1>4, <2>1, <2>2, <2>4 DEF Containers, Real
<1>5. CASE from # to /\ ~Holds(inv, to, inv[from].item)
    BY <1>2, <1>5 DEF Moved, Containers, Real
<1> QED
    BY <1>3, <1>4, <1>5

LEMMA UsedIsReal ==
    ASSUME NEW inv \in Containers, Real(inv), NEW s \in Slots
    PROVE  /\ Used(inv, s) \in Containers
           /\ Real(Used(inv, s))
           /\ \A other \in Slots \ {s} : Used(inv, s)[other] = inv[other]
<1>1. Nothing \in SlotStates /\ ~Nothing.occupied /\ Nothing.item = 0
    BY DEF Nothing, SlotStates, Flags
<1>2. CASE inv[s].amount > 1
  <2> DEFINE rest == [inv[s] EXCEPT !.amount = @ - 1]
  <2>1. /\ rest \in SlotStates
        /\ rest.occupied = inv[s].occupied
        /\ rest.item = inv[s].item
        /\ rest.amount = inv[s].amount - 1
      BY <1>2 DEF SlotStates, Containers
  <2>2. inv[s].amount \in Nat
      BY DEF SlotStates, Containers
  <2> HIDE DEF rest
  <2>3. rest.occupied <=> rest.item > 0 /\ rest.amount > 0
      BY <1>2, <2>1, <2>2 DEF Real
  <2>4. Used(inv, s) = [inv EXCEPT ![s] = rest]
      BY <1>2 DEF Used, Containers, rest
  <2> QED
      BY <2>1, <2>3, <2>4 DEF Containers, Real
<1>3. CASE ~(inv[s].amount > 1)
    BY <1>1, <1>3 DEF Used, Containers, Real
<1> QED
    BY <1>2, <1>3

(* What an addition makes of a stack. *)
More(old, amount, flags) ==
    [occupied |-> old.occupied, item |-> old.item,
     amount |-> old.amount + amount, flags |-> flags]

Grown(inv, s, amount, flags) == [inv EXCEPT ![s] = More(inv[s], amount, flags)]

LEMMA MoreType ==
    ASSUME NEW old \in SlotStates, NEW amount \in Nat, NEW flags \in Flags
    PROVE  /\ More(old, amount, flags) \in SlotStates
           /\ More(old, amount, flags).occupied = old.occupied
           /\ More(old, amount, flags).item = old.item
           /\ More(old, amount, flags).amount = old.amount + amount
BY DEF SlotStates, More

LEMMA MoreIs ==
    ASSUME NEW old \in SlotStates, NEW amount \in Nat, NEW flags \in Flags
    PROVE  [old EXCEPT !.amount = @ + amount, !.flags = flags] = More(old, amount, flags)
<1> SUFFICES ASSUME NEW new, new = [old EXCEPT !.amount = @ + amount, !.flags = flags]
             PROVE  new = More(old, amount, flags)
    OBVIOUS
<1> QED
    BY DEF SlotStates, More

(* An item of which there is a stack goes onto the first one. *)
LEMMA AddedToStack ==
    ASSUME NEW inv \in Containers, NEW item \in Nat, NEW amount \in Nat, NEW flags \in Flags,
           item > 0, amount > 0, StacksOf(inv, item) # {},
           NEW s, s = First(StacksOf(inv, item))
    PROVE  /\ s \in Slots
           /\ Holds(inv, s, item)
           /\ AddItem(inv, item, amount, flags).ok = TRUE
           /\ AddItem(inv, item, amount, flags).inv = Grown(inv, s, amount, flags)
<1>1. StacksOf(inv, item) \in SUBSET Slots
    BY DEF StacksOf
<1>2. s \in StacksOf(inv, item)
    BY <1>1, FirstIsIn
<1>3. s \in Slots /\ Holds(inv, s, item)
    BY <1>2 DEF StacksOf
<1>4. /\ AddItem(inv, item, amount, flags).ok = TRUE
      /\ AddItem(inv, item, amount, flags).inv =
            [inv EXCEPT ![s].amount = @ + amount, ![s].flags = flags]
    BY DEF AddItem
<1>5. [inv EXCEPT ![s].amount = @ + amount, ![s].flags = flags] =
          [inv EXCEPT ![s] = [inv[s] EXCEPT !.amount = @ + amount, !.flags = flags]]
    BY <1>3 DEF Containers
<1>6. inv[s] \in SlotStates
    BY <1>3 DEF Containers
<1>7. [inv[s] EXCEPT !.amount = @ + amount, !.flags = flags] = More(inv[s], amount, flags)
    BY <1>6, MoreIs
<1> QED
    BY <1>3, <1>4, <1>5, <1>7 DEF Grown

LEMMA AddItemIsReal ==
    ASSUME NEW inv \in Containers, Real(inv),
           NEW item \in Nat, NEW amount \in Nat, NEW flags \in Flags
    PROVE  /\ AddItem(inv, item, amount, flags).inv \in Containers
           /\ Real(AddItem(inv, item, amount, flags).inv)
<1> DEFINE stacks == StacksOf(inv, item)
<1>0. stacks \subseteq Slots /\ FreeSlots(inv) \subseteq Slots
    BY DEF StacksOf, FreeSlots
<1>1. CASE item = 0 \/ amount = 0 \/ stacks \cup FreeSlots(inv) = {}
    BY <1>1 DEF AddItem
<1>2. CASE ~(item = 0 \/ amount = 0 \/ stacks \cup FreeSlots(inv) = {}) /\ stacks # {}
  <2> DEFINE s == First(StacksOf(inv, item))
             more == More(inv[s], amount, flags)
  <2>1. item > 0 /\ amount > 0 /\ StacksOf(inv, item) # {}
      BY <1>2
  <2>2. /\ s \in Slots
        /\ Holds(inv, s, item)
        /\ AddItem(inv, item, amount, flags).inv = Grown(inv, s, amount, flags)
      BY <2>1, AddedToStack
  <2>a. AddItem(inv, item, amount, flags).inv = [inv EXCEPT ![s] = more]
      BY <2>2 DEF Grown
  <2> HIDE DEF s
  <2>3. inv[s] \in SlotStates
      BY <2>2 DEF Containers
  <2>4. /\ more \in SlotStates
        /\ more.occupied = inv[s].occupied
        /\ more.item = inv[s].item
        /\ more.amount = inv[s].amount + amount
      BY <2>3, MoreType
  <2>5. inv[s].amount \in Nat /\ inv[s].item \in Nat
      BY <2>3 DEF SlotStates
  <2> HIDE DEF more
  <2>6. more.occupied <=> more.item > 0 /\ more.amount > 0
      BY <2>2, <2>4, <2>5 DEF Real, Holds
  <2> QED
      BY <2>2, <2>a, <2>4, <2>6 DEF Containers, Real
<1>3. CASE ~(item = 0 \/ amount = 0 \/ stacks \cup FreeSlots(inv) = {}) /\ stacks = {}
  <2>1. AddItem(inv, item, amount, flags).inv =
            SetSlot(inv, First(FreeSlots(inv)), item, amount, flags)
      BY <1>3 DEF AddItem
  <2> QED
      BY <2>1, SetSlotIsReal
<1> QED
    BY <1>1, <1>2, <1>3

LEMMA RemoveItemIsReal ==
    ASSUME NEW inv \in Containers, Real(inv), NEW item \in Nat, NEW amount \in Nat
    PROVE  /\ RemoveItem(inv, item, amount).inv \in Containers
           /\ Real(RemoveItem(inv, item, amount).inv)
<1> DEFINE wanted(s) == amount - CountBefore(inv, item, s)
           left(s) == [inv[s] EXCEPT !.amount = @ - wanted(s)]
<1>1. CASE item = 0 \/ amount = 0 \/ CountItem(inv, item) < amount
    BY <1>1 DEF RemoveItem
<1>2. CASE ~(item = 0 \/ amount = 0 \/ CountItem(inv, item) < amount)
  <2> DEFINE new == [s \in Slots |->
                        IF ~Holds(inv, s, item) THEN inv[s]
                        ELSE IF wanted(s) \in 1..(inv[s].amount - 1) THEN left(s)
                        ELSE IF wanted(s) <= 0 THEN inv[s]
                        ELSE Nothing]
  <2>1. RemoveItem(inv, item, amount).inv = new
      BY <1>2 DEF RemoveItem
  <2>2. ASSUME NEW s \in Slots
        PROVE  new[s] \in SlotStates /\ (new[s].occupied <=> new[s].item > 0 /\ new[s].amount > 0)
    <3>1. inv[s] \in SlotStates /\ (inv[s].occupied <=> inv[s].item > 0 /\ inv[s].amount > 0)
        BY DEF Containers, Real
    <3>2. Nothing \in SlotStates /\ ~Nothing.occupied /\ Nothing.item = 0
        BY DEF Nothing, SlotStates, Flags
    <3>3. ASSUME Holds(inv, s, item), wanted(s) \in 1..(inv[s].amount - 1)
          PROVE  left(s) \in SlotStates /\ (left(s).occupied <=> left(s).item > 0 /\ left(s).amount > 0)
      <4> DEFINE w == wanted(s)
      <4>1. w \in Nat /\ inv[s].amount - w \in Nat /\ inv[s].amount - w > 0
          BY <3>1, <3>3 DEF SlotStates
      <4> HIDE DEF w
      <4>2. left(s) = [inv[s] EXCEPT !.amount = @ - w]
          BY DEF w
      <4> QED
          BY <3>1, <3>3, <4>1, <4>2 DEF SlotStates, Holds
    <3> HIDE DEF left, wanted
    <3> QED
        BY <3>1, <3>2, <3>3
  <2> HIDE DEF new
  <2>3. new \in Containers /\ Real(new)
    <3>1. new = [s \in Slots |-> new[s]]
        BY DEF new
    <3> QED
        BY <2>2, <3>1 DEF Containers, Real
  <2> QED
      BY <2>1, <2>3
<1> QED
    BY <1>1, <1>2

-----------------------------------------------------------------------------
(* Sums over a container *)

Total(inv, S) == MapThenSumSet(LAMBDA s : inv[s].amount, S)

AnyOf(S) == CHOOSE x \in S : TRUE

(* f is the recursive function behind MapThenSumSet. *)
Adds(f, inv, S) ==
    f = [T \in SUBSET S |->
            IF T = {} THEN 0 ELSE inv[AnyOf(T)].amount + f[T \ {AnyOf(T)}]]

(* Slots are finitely many. *)
LEMMA SlotsFinite ==
    ASSUME NEW S \in SUBSET Slots
    PROVE  IsFiniteSet(S) /\ Cardinality(S) \in Nat
<1>1. IsFiniteSet(Slots)
    BY SizeAssumption, FS_Interval DEF Slots
<1> QED
    BY <1>1, FS_Subset, FS_CardinalityType

(* If something is wrong with some set of slots, then with one of whose    *)
(* proper subsets it is not: induction over sets of slots.                 *)
LEMMA SmallestSet ==
    ASSUME NEW Bad \in SUBSET SUBSET Slots, Bad # {}
    PROVE  \E S \in Bad : \A T \in SUBSET S : T # S => T \notin Bad
<1> DEFINE N == {Cardinality(S) : S \in Bad}
<1>1. N \in SUBSET Nat /\ N # {}
    BY SlotsFinite
<1>2. PICK n \in N : \A m \in N : n <= m
  <2> HIDE DEF N
  <2> QED
    BY <1>1, SomeLeast
<1>3. PICK S \in Bad : n = Cardinality(S)
    OBVIOUS
<1>4. ASSUME NEW T \in SUBSET S, T # S, T \in Bad PROVE FALSE
  <2>1. IsFiniteSet(S) /\ Cardinality(S) \in Nat
      BY SlotsFinite
  <2>2. Cardinality(T) <= Cardinality(S) /\ Cardinality(T) # Cardinality(S)
      BY <1>4, <2>1, FS_Subset
  <2>3. Cardinality(S) <= Cardinality(T)
      BY <1>2, <1>3, <1>4
  <2>4. Cardinality(T) \in Nat
      BY SlotsFinite
  <2> QED
      BY <2>1, <2>2, <2>3, <2>4
<1> QED
    BY <1>4

LEMMA AnyIsIn == ASSUME NEW S, S # {} PROVE AnyOf(S) \in S
BY DEF AnyOf

(* What the recursion says of one set. *)
LEMMA AddsStep ==
    ASSUME NEW inv, NEW S, NEW f, Adds(f, inv, S), NEW T \in SUBSET S
    PROVE  f[T] = IF T = {} THEN 0 ELSE inv[AnyOf(T)].amount + f[T \ {AnyOf(T)}]
<1> DEFINE G(U) == IF U = {} THEN 0 ELSE inv[AnyOf(U)].amount + f[U \ {AnyOf(U)}]
<1>1. f = [U \in SUBSET S |-> G(U)]
    BY DEF Adds
<1> HIDE DEF G
<1>2. f[T] = G(T)
    BY <1>1
<1> QED
    BY <1>2 DEF G

(* It has one solution. *)
LEMMA AddsAgree ==
    ASSUME NEW inv, NEW S \in SUBSET Slots, NEW T \in SUBSET Slots,
           NEW f, Adds(f, inv, S), NEW g, Adds(g, inv, T)
    PROVE  \A U \in SUBSET (S \cap T) : f[U] = g[U]
<1> DEFINE Bad == {U \in SUBSET (S \cap T) : f[U] # g[U]}
<1> SUFFICES ASSUME Bad # {} PROVE FALSE
    OBVIOUS
<1>1. PICK U \in Bad : \A V \in SUBSET U : V # U => V \notin Bad
  <2>1. Bad \in SUBSET SUBSET Slots
      OBVIOUS
  <2> HIDE DEF Bad
  <2> QED
      BY <2>1, SmallestSet
<1>2. U \in SUBSET S /\ U \in SUBSET T /\ f[U] # g[U]
    OBVIOUS
<1>3. f[U] = IF U = {} THEN 0 ELSE inv[AnyOf(U)].amount + f[U \ {AnyOf(U)}]
    BY <1>2, AddsStep
<1>4. g[U] = IF U = {} THEN 0 ELSE inv[AnyOf(U)].amount + g[U \ {AnyOf(U)}]
    BY <1>2, AddsStep
<1>5. U # {}
    BY <1>2, <1>3, <1>4
<1>6. U \ {AnyOf(U)} \in SUBSET U /\ U \ {AnyOf(U)} # U
    BY <1>5, AnyIsIn
<1>7. f[U \ {AnyOf(U)}] = g[U \ {AnyOf(U)}]
    BY <1>1, <1>2, <1>6
<1> QED
    BY <1>2, <1>3, <1>4, <1>5, <1>7

LEMMA TotalUnfold ==
    ASSUME NEW inv, NEW S
    PROVE  Total(inv, S) = (CHOOSE f : Adds(f, inv, S))[S]
BY DEF MapThenSumSet, MapThenFoldSet, Adds, AnyOf, Total

LEMMA TotalIs ==
    ASSUME NEW inv, NEW S \in SUBSET Slots, NEW f, Adds(f, inv, S)
    PROVE  \A T \in SUBSET S : (\E g : Adds(g, inv, T)) => Total(inv, T) = f[T]
<1> SUFFICES ASSUME NEW T \in SUBSET S, NEW g, Adds(g, inv, T) PROVE Total(inv, T) = f[T]
    OBVIOUS
<1> DEFINE h == CHOOSE k : Adds(k, inv, T)
<1>1. Adds(h, inv, T)
    OBVIOUS
<1>2. Total(inv, T) = h[T]
    BY TotalUnfold
<1> HIDE DEF h
<1>3. T \in SUBSET Slots /\ T \in SUBSET (T \cap S)
    OBVIOUS
<1> QED
    BY <1>1, <1>2, <1>3, AddsAgree

(* And it has one. *)
LEMMA AddsExists ==
    ASSUME NEW inv
    PROVE  \A S \in SUBSET Slots : \E f : Adds(f, inv, S)
<1> DEFINE Bad == {S \in SUBSET Slots : ~ \E f : Adds(f, inv, S)}
<1> SUFFICES ASSUME Bad # {} PROVE FALSE
    OBVIOUS
<1>1. PICK S \in Bad : \A T \in SUBSET S : T # S => T \notin Bad
  <2>1. Bad \in SUBSET SUBSET Slots
      OBVIOUS
  <2> HIDE DEF Bad
  <2> QED
      BY <2>1, SmallestSet
<1>2. S \in SUBSET Slots /\ ~ \E f : Adds(f, inv, S)
    OBVIOUS
<1>3. \A T \in SUBSET S : T # S => \E f : Adds(f, inv, T)
    BY <1>1, <1>2
<1> HIDE DEF Bad
<1> DEFINE G(T) == IF T = {} THEN 0 ELSE inv[AnyOf(T)].amount + Total(inv, T \ {AnyOf(T)})
           k == [T \in SUBSET S |-> G(T)]
<1>4. ASSUME NEW T \in SUBSET S, T # S PROVE Total(inv, T) = G(T)
  <2>1. PICK f : Adds(f, inv, T)
      BY <1>3, <1>4
  <2>2. T \in SUBSET Slots /\ T \in SUBSET T
      BY <1>2
  <2>3. Total(inv, T) = f[T]
      BY <2>1, <2>2, TotalIs
  <2>4. f[T] = IF T = {} THEN 0 ELSE inv[AnyOf(T)].amount + f[T \ {AnyOf(T)}]
      BY <2>1, <2>2, AddsStep
  <2>5. ASSUME T # {} PROVE Total(inv, T \ {AnyOf(T)}) = f[T \ {AnyOf(T)}]
    <3>1. T \ {AnyOf(T)} \in SUBSET T /\ T \ {AnyOf(T)} \in SUBSET S /\ T \ {AnyOf(T)} # S
        BY <1>4, <2>5, AnyIsIn
    <3>2. \E g : Adds(g, inv, T \ {AnyOf(T)})
        BY <1>3, <3>1
    <3> QED
        BY <2>1, <2>2, <3>1, <3>2, TotalIs
  <2> QED
      BY <2>3, <2>4, <2>5
<1>5. ASSUME NEW T \in SUBSET S
      PROVE  G(T) = IF T = {} THEN 0 ELSE inv[AnyOf(T)].amount + k[T \ {AnyOf(T)}]
  <2>1. CASE T = {}
      BY <2>1
  <2>2. CASE T # {}
    <3> DEFINE U == T \ {AnyOf(T)}
    <3>1. U \in SUBSET S /\ U # S
        BY <2>2, AnyIsIn
    <3>2. Total(inv, U) = G(U)
        BY <1>4, <3>1
    <3> HIDE DEF G
    <3>3. k[U] = G(U)
        BY <3>1
    <3> QED
        BY <2>2, <3>2, <3>3 DEF G
  <2> QED
      BY <2>1, <2>2
<1>6. k = [T \in SUBSET S |-> IF T = {} THEN 0 ELSE inv[AnyOf(T)].amount + k[T \ {AnyOf(T)}]]
  <2> DEFINE H(T) == IF T = {} THEN 0 ELSE inv[AnyOf(T)].amount + k[T \ {AnyOf(T)}]
  <2>1. \A T \in SUBSET S : G(T) = H(T)
      BY <1>5
  <2>2. k = [T \in SUBSET S |-> H(T)]
    <3> HIDE DEF G, H
    <3> QED
        BY <2>1
  <2> QED
      BY <2>2
<1> HIDE DEF k
<1>7. Adds(k, inv, S)
    BY <1>6 DEF Adds
<1> QED
    BY <1>2, <1>7

(* The sum over a set, by the slot the fold happens to take first. *)
LEMMA TotalStep ==
    ASSUME NEW inv, NEW S \in SUBSET Slots
    PROVE  Total(inv, S) =
               IF S = {} THEN 0 ELSE inv[AnyOf(S)].amount + Total(inv, S \ {AnyOf(S)})
<1>1. PICK f : Adds(f, inv, S)
    BY AddsExists
<1>2. S \in SUBSET S /\ S \ {AnyOf(S)} \in SUBSET S /\ S \ {AnyOf(S)} \in SUBSET Slots
    OBVIOUS
<1>3. (\E g : Adds(g, inv, S)) /\ (\E g : Adds(g, inv, S \ {AnyOf(S)}))
    BY <1>2, AddsExists
<1>4. Total(inv, S) = f[S] /\ Total(inv, S \ {AnyOf(S)}) = f[S \ {AnyOf(S)}]
    BY <1>1, <1>2, <1>3, TotalIs
<1> QED
    BY <1>1, <1>2, <1>4, AddsStep

LEMMA TotalIsNat ==
    ASSUME NEW inv \in Containers, NEW S \in SUBSET Slots
    PROVE  Total(inv, S) \in Nat
<1> DEFINE Bad == {T \in SUBSET Slots : Total(inv, T) \notin Nat}
<1> SUFFICES ASSUME Bad # {} PROVE FALSE
    OBVIOUS
<1>1. PICK T \in Bad : \A U \in SUBSET T : U # T => U \notin Bad
  <2>1. Bad \in SUBSET SUBSET Slots
      OBVIOUS
  <2> HIDE DEF Bad
  <2> QED
      BY <2>1, SmallestSet
<1>2. T \in SUBSET Slots /\ Total(inv, T) \notin Nat
    OBVIOUS
<1>3. Total(inv, T) =
          IF T = {} THEN 0 ELSE inv[AnyOf(T)].amount + Total(inv, T \ {AnyOf(T)})
    BY <1>2, TotalStep
<1>4. T # {}
    BY <1>2, <1>3
<1>5. AnyOf(T) \in T /\ T \ {AnyOf(T)} \in SUBSET T /\ T \ {AnyOf(T)} # T
    BY <1>4, AnyIsIn
<1>6. Total(inv, T \ {AnyOf(T)}) \in Nat
    BY <1>1, <1>2, <1>5
<1>7. inv[AnyOf(T)].amount \in Nat
    BY <1>2, <1>5 DEF Containers, SlotStates
<1> QED
    BY <1>2, <1>3, <1>4, <1>6, <1>7

(* Any slot may be counted apart. *)
LEMMA TotalWithout ==
    ASSUME NEW inv \in Containers, NEW S \in SUBSET Slots, NEW s \in S
    PROVE  Total(inv, S) = inv[s].amount + Total(inv, S \ {s})
<1> DEFINE Bad == {T \in SUBSET Slots :
                      \E t \in T : Total(inv, T) # inv[t].amount + Total(inv, T \ {t})}
<1> SUFFICES ASSUME Bad # {} PROVE FALSE
    OBVIOUS
<1>1. PICK T \in Bad : \A U \in SUBSET T : U # T => U \notin Bad
  <2>1. Bad \in SUBSET SUBSET Slots
      OBVIOUS
  <2> HIDE DEF Bad
  <2> QED
      BY <2>1, SmallestSet
<1>2. T \in SUBSET Slots
    OBVIOUS
<1>3. PICK t \in T : Total(inv, T) # inv[t].amount + Total(inv, T \ {t})
    OBVIOUS
<1> DEFINE c == AnyOf(T)
<1>4. c \in T /\ Total(inv, T) = inv[c].amount + Total(inv, T \ {c})
    BY <1>2, <1>3, AnyIsIn, TotalStep
<1>5. c # t
    BY <1>3, <1>4
<1>6. \A U \in SUBSET T : U # T =>
          \A u \in U : Total(inv, U) = inv[u].amount + Total(inv, U \ {u})
    BY <1>1, <1>2
<1> HIDE DEF Bad, c
<1>7. Total(inv, T \ {c}) = inv[t].amount + Total(inv, (T \ {c}) \ {t})
    BY <1>4, <1>5, <1>6
<1>8. Total(inv, T \ {t}) = inv[c].amount + Total(inv, (T \ {t}) \ {c})
    BY <1>4, <1>5, <1>6
<1>9. (T \ {c}) \ {t} = (T \ {t}) \ {c}
    OBVIOUS
<1>10. inv[c].amount \in Nat /\ inv[t].amount \in Nat
    BY <1>2, <1>4 DEF Containers, SlotStates
<1>11. Total(inv, (T \ {c}) \ {t}) \in Nat
    BY <1>2, TotalIsNat
<1> QED
    BY <1>3, <1>4, <1>7, <1>8, <1>9, <1>10, <1>11

(* Only the slots counted matter. *)
LEMMA TotalSame ==
    ASSUME NEW inv, NEW new, NEW S \in SUBSET Slots,
           \A s \in S : new[s].amount = inv[s].amount
    PROVE  Total(new, S) = Total(inv, S)
<1> DEFINE Bad == {T \in SUBSET S : Total(new, T) # Total(inv, T)}
<1> SUFFICES ASSUME Bad # {} PROVE FALSE
    OBVIOUS
<1>1. PICK T \in Bad : \A U \in SUBSET T : U # T => U \notin Bad
  <2>1. Bad \in SUBSET SUBSET Slots
      OBVIOUS
  <2> HIDE DEF Bad
  <2> QED
      BY <2>1, SmallestSet
<1>2. T \in SUBSET S /\ T \in SUBSET Slots /\ Total(new, T) # Total(inv, T)
    OBVIOUS
<1>3. /\ Total(inv, T) =
            IF T = {} THEN 0 ELSE inv[AnyOf(T)].amount + Total(inv, T \ {AnyOf(T)})
      /\ Total(new, T) =
            IF T = {} THEN 0 ELSE new[AnyOf(T)].amount + Total(new, T \ {AnyOf(T)})
    BY <1>2, TotalStep
<1>4. T # {}
    BY <1>2, <1>3
<1>5. AnyOf(T) \in T /\ T \ {AnyOf(T)} \in SUBSET T /\ T \ {AnyOf(T)} # T
    BY <1>4, AnyIsIn
<1>6. Total(inv, T \ {AnyOf(T)}) = Total(new, T \ {AnyOf(T)})
    BY <1>1, <1>2, <1>5
<1> QED
    BY <1>2, <1>3, <1>4, <1>5, <1>6

LEMMA TotalOfNone == ASSUME NEW inv PROVE Total(inv, {}) = 0
BY TotalStep

(* What a slot contributes to the count of an item. *)
Share(inv, s, item) == IF Holds(inv, s, item) THEN inv[s].amount ELSE 0

LEMMA CountIs ==
    ASSUME NEW inv, NEW item
    PROVE  CountItem(inv, item) = Total(inv, StacksOf(inv, item))
BY DEF CountItem, Total

LEMMA CountIsNat ==
    ASSUME NEW inv \in Containers, NEW item
    PROVE  CountItem(inv, item) \in Nat
<1>1. StacksOf(inv, item) \in SUBSET Slots
    BY DEF StacksOf
<1> QED
    BY <1>1, CountIs, TotalIsNat

LEMMA ShareIsNat ==
    ASSUME NEW inv \in Containers, NEW s \in Slots, NEW item
    PROVE  Share(inv, s, item) \in Nat
BY DEF Share, Containers, SlotStates

(* A slot's share apart from the others'. *)
LEMMA CountWithout ==
    ASSUME NEW inv \in Containers, NEW s \in Slots, NEW item
    PROVE  CountItem(inv, item) =
               Share(inv, s, item) + Total(inv, StacksOf(inv, item) \ {s})
<1>1. StacksOf(inv, item) \in SUBSET Slots
    BY DEF StacksOf
<1>2. Total(inv, StacksOf(inv, item) \ {s}) \in Nat
    BY <1>1, TotalIsNat
<1>3. CASE Holds(inv, s, item)
  <2>1. s \in StacksOf(inv, item)
      BY <1>3 DEF StacksOf
  <2> QED
      BY <1>1, <1>3, <2>1, CountIs, TotalWithout DEF Share
<1>4. CASE ~Holds(inv, s, item)
  <2>1. StacksOf(inv, item) \ {s} = StacksOf(inv, item)
      BY <1>4 DEF StacksOf
  <2> QED
      BY <1>2, <1>4, <2>1, CountIs DEF Share
<1> QED
    BY <1>3, <1>4

(* When one slot changes, the count changes by its share. *)
LEMMA OneChanged ==
    ASSUME NEW inv \in Containers, NEW new \in Containers, NEW s \in Slots, NEW item,
           \A t \in Slots \ {s} : new[t] = inv[t]
    PROVE  CountItem(new, item) =
               CountItem(inv, item) - Share(inv, s, item) + Share(new, s, item)
<1> DEFINE rest == StacksOf(inv, item) \ {s}
<1>1. StacksOf(new, item) \ {s} = rest
    BY DEF StacksOf, Holds
<1>2. rest \in SUBSET Slots /\ \A t \in rest : new[t].amount = inv[t].amount
    BY DEF StacksOf
<1> HIDE DEF rest
<1>3. Total(new, rest) = Total(inv, rest) /\ Total(inv, rest) \in Nat
    BY <1>2, TotalSame, TotalIsNat
<1>4. CountItem(inv, item) = Share(inv, s, item) + Total(inv, rest)
    BY CountWithout DEF rest
<1>5. CountItem(new, item) = Share(new, s, item) + Total(new, rest)
    BY <1>1, CountWithout
<1>6. Share(inv, s, item) \in Nat /\ Share(new, s, item) \in Nat
    BY ShareIsNat
<1> QED
    BY <1>3, <1>4, <1>5, <1>6

(* And when two do, by theirs. *)
LEMMA TwoChanged ==
    ASSUME NEW inv \in Containers, NEW new \in Containers,
           NEW a \in Slots, NEW b \in Slots, a # b, NEW item,
           \A t \in Slots \ {a, b} : new[t] = inv[t]
    PROVE  CountItem(new, item) =
               CountItem(inv, item) - (Share(inv, a, item) + Share(inv, b, item))
                   + (Share(new, a, item) + Share(new, b, item))
<1> DEFINE half == [inv EXCEPT ![a] = new[a]]
<1>1. half \in Containers
    BY DEF Containers
<1>2. /\ \A t \in Slots \ {a} : half[t] = inv[t]
      /\ \A t \in Slots \ {b} : new[t] = half[t]
      /\ half[a] = new[a] /\ half[b] = inv[b]
    BY DEF Containers
<1> HIDE DEF half
<1>3. Share(half, a, item) = Share(new, a, item) /\ Share(half, b, item) = Share(inv, b, item)
    BY <1>2 DEF Share, Holds
<1>4. CountItem(half, item) = CountItem(inv, item) - Share(inv, a, item) + Share(half, a, item)
    BY <1>1, <1>2, OneChanged
<1>5. CountItem(new, item) = CountItem(half, item) - Share(half, b, item) + Share(new, b, item)
    BY <1>1, <1>2, OneChanged
<1>6. /\ Share(inv, a, item) \in Nat /\ Share(new, a, item) \in Nat
      /\ Share(inv, b, item) \in Nat /\ Share(new, b, item) \in Nat
    BY ShareIsNat
<1>7. CountItem(inv, item) \in Nat
    BY CountIsNat
<1> QED
    BY <1>3, <1>4, <1>5, <1>6, <1>7

-----------------------------------------------------------------------------
(* What the operations add, take and move *)

(* There is something to count exactly when there is a stack. *)
LEMMA CountPositive ==
    ASSUME NEW inv \in Containers, Real(inv), NEW item
    PROVE  CountItem(inv, item) > 0 <=> StacksOf(inv, item) # {}
<1>1. CASE StacksOf(inv, item) = {}
    BY <1>1, CountIs, TotalOfNone
<1>2. CASE StacksOf(inv, item) # {}
  <2>1. PICK s \in Slots : Holds(inv, s, item)
      BY <1>2 DEF StacksOf
  <2>2. Share(inv, s, item) > 0
      BY <2>1 DEF Share, Holds, Real
  <2>3. StacksOf(inv, item) \ {s} \in SUBSET Slots
      BY DEF StacksOf
  <2>4. Total(inv, StacksOf(inv, item) \ {s}) \in Nat /\ Share(inv, s, item) \in Nat
      BY <2>3, TotalIsNat, ShareIsNat
  <2> QED
      BY <1>2, <2>2, <2>4, CountWithout
<1> QED
    BY <1>1, <1>2

(* A stack that grows, or is put where there was none, counts for its item *)
(* what it grew by, and nothing for any other.                             *)
LEMMA GrownCounts ==
    ASSUME NEW inv \in Containers, NEW new \in Containers, NEW s \in Slots,
           NEW item \in Nat, NEW amount \in Nat,
           \A t \in Slots \ {s} : new[t] = inv[t],
           Holds(new, s, item),
           inv[s].occupied => inv[s].item = item,
           new[s].amount = Share(inv, s, item) + amount,
           NEW other
    PROVE  CountItem(new, other) =
               CountItem(inv, other) + (IF other = item THEN amount ELSE 0)
<1>1. CountItem(new, other) =
          CountItem(inv, other) - Share(inv, s, other) + Share(new, s, other)
    BY OneChanged
<1>2. Share(new, s, other) = Share(inv, s, other) + (IF other = item THEN amount ELSE 0)
  <2>1. CASE other = item
      BY <2>1 DEF Share
  <2>2. CASE other # item
    <3>1. ~Holds(new, s, other) /\ ~Holds(inv, s, other)
        BY <2>2 DEF Holds
    <3> QED
        BY <2>2, <3>1 DEF Share
  <2> QED
      BY <2>1, <2>2
<1>3. Share(inv, s, other) \in Nat /\ CountItem(inv, other) \in Nat
    BY ShareIsNat, CountIsNat
<1> QED
    BY <1>1, <1>2, <1>3

(* Adding, to any container of real stacks: all of it or nothing, and      *)
(* nothing only when there is neither a stack of the item nor a free slot. *)
LEMMA AddExact ==
    ASSUME NEW inv \in Containers, Real(inv), NEW item \in Nat, item > 0,
           NEW amount \in Nat, amount > 0, NEW flags \in Flags, NEW other
    PROVE  /\ AddItem(inv, item, amount, flags).ok
                 <=> FreeSlots(inv) # {} \/ CountItem(inv, item) > 0
           /\ CountItem(AddItem(inv, item, amount, flags).inv, other) =
                 CountItem(inv, other)
                     + (IF AddItem(inv, item, amount, flags).ok /\ other = item
                        THEN amount ELSE 0)
<1> DEFINE stacks == StacksOf(inv, item)
           added == AddItem(inv, item, amount, flags)
           count == CountItem(inv, other)
<1>0. stacks \subseteq Slots /\ FreeSlots(inv) \subseteq Slots
    BY DEF StacksOf, FreeSlots
<1>1. CountItem(inv, item) > 0 <=> stacks # {}
    BY CountPositive
<1>2. count \in Nat
    BY CountIsNat
<1>3. added.inv \in Containers
    BY AddItemIsReal
<1>4. CASE stacks \cup FreeSlots(inv) = {}
  <2>1. added = [ok |-> FALSE, inv |-> inv]
      BY <1>4 DEF AddItem
  <2>2. added.ok = FALSE /\ added.inv = inv
      BY <2>1
  <2>3. FreeSlots(inv) = {} /\ stacks = {}
      BY <1>4
  <2>4. CountItem(added.inv, other) = count
      BY <2>2
  <2> HIDE DEF added, count, stacks
  <2>5. CountItem(added.inv, other) = count + (IF added.ok /\ other = item THEN amount ELSE 0)
      BY <1>2, <2>2, <2>4
  <2>6. added.ok <=> FreeSlots(inv) # {} \/ CountItem(inv, item) > 0
      BY <1>1, <2>2, <2>3, Zenon
  <2> QED
      BY <2>5, <2>6 DEF added, count
<1>5. ASSUME NEW s \in Slots, added.ok = TRUE, FreeSlots(inv) # {} \/ stacks # {},
             \A t \in Slots \ {s} : added.inv[t] = inv[t],
             Holds(added.inv, s, item),
             inv[s].occupied => inv[s].item = item,
             added.inv[s].amount = Share(inv, s, item) + amount
      PROVE  /\ added.ok <=> FreeSlots(inv) # {} \/ CountItem(inv, item) > 0
             /\ CountItem(added.inv, other) =
                   count + (IF added.ok /\ other = item THEN amount ELSE 0)
  <2> HIDE DEF added, count, stacks
  <2>1. CountItem(added.inv, other) = CountItem(inv, other) + (IF other = item THEN amount ELSE 0)
      BY <1>3, <1>5, GrownCounts
  <2>2. CountItem(added.inv, other) = count + (IF added.ok /\ other = item THEN amount ELSE 0)
      BY <1>5, <2>1 DEF count
  <2>3. added.ok <=> FreeSlots(inv) # {} \/ CountItem(inv, item) > 0
      BY <1>1, <1>5, Zenon
  <2> QED
      BY <2>2, <2>3
<1>6. CASE stacks # {}
  <2> DEFINE s == First(StacksOf(inv, item))
             more == More(inv[s], amount, flags)
  <2>1. /\ s \in Slots
        /\ Holds(inv, s, item)
        /\ AddItem(inv, item, amount, flags).ok = TRUE
        /\ AddItem(inv, item, amount, flags).inv = Grown(inv, s, amount, flags)
      BY <1>6, AddedToStack
  <2> HIDE DEF s, added
  <2>2. inv[s] \in SlotStates
      BY <2>1 DEF Containers
  <2>3. /\ more \in SlotStates
        /\ more.occupied = inv[s].occupied
        /\ more.item = inv[s].item
        /\ more.amount = inv[s].amount + amount
      BY <2>2, MoreType
  <2> HIDE DEF more
  <2>4. added.ok = TRUE /\ added.inv = [inv EXCEPT ![s] = more]
      BY <2>1 DEF added, more, Grown
  <2>5. /\ \A t \in Slots \ {s} : added.inv[t] = inv[t]
        /\ added.inv[s] = more
      BY <2>1, <2>4 DEF Containers
  <2>6. Holds(added.inv, s, item) /\ added.inv[s].amount = Share(inv, s, item) + amount
      BY <2>1, <2>3, <2>5 DEF Holds, Share
  <2> QED
      BY <1>5, <1>6, <2>1, <2>4, <2>5, <2>6 DEF Holds, added, count
<1>7. CASE stacks = {} /\ FreeSlots(inv) # {}
  <2> DEFINE s == First(FreeSlots(inv))
             fresh == Slot(item, amount, flags)
  <2>1. s \in Slots /\ ~inv[s].occupied
      BY <1>0, <1>7, FirstIsIn DEF FreeSlots
  <2>2. added.ok = TRUE /\ added.inv = [inv EXCEPT ![s] = fresh]
      BY <1>7, <2>1 DEF AddItem, SetSlot
  <2>a. fresh.item = item /\ fresh.amount = amount
      BY DEF Slot
  <2>b. fresh.occupied
      BY <2>a, SlotIsReal
  <2> HIDE DEF s, added, fresh
  <2>3. /\ \A t \in Slots \ {s} : added.inv[t] = inv[t]
        /\ added.inv[s] = fresh
      BY <2>1, <2>2 DEF Containers
  <2>4. Holds(added.inv, s, item) /\ added.inv[s].amount = Share(inv, s, item) + amount
      BY <2>1, <2>a, <2>b, <2>3 DEF Holds, Share
  <2> QED
      BY <1>5, <1>7, <2>1, <2>2, <2>3, <2>4 DEF added, count
<1> QED
    BY <1>4, <1>6, <1>7

(* Moving a stack loses and makes nothing. *)
LEMMA MovedCounts ==
    ASSUME NEW inv \in Containers, Real(inv), NEW from \in Slots, NEW to \in Slots,
           MoveResult(inv, from, to) = "OK", NEW item
    PROVE  CountItem(Moved(inv, from, to), item) = CountItem(inv, item)
<1> DEFINE new == Moved(inv, from, to)
<1>1. new \in Containers /\ \A t \in Slots \ {from, to} : new[t] = inv[t]
    BY MovedIsReal
<1>2. inv[from] \in SlotStates /\ inv[to] \in SlotStates
    BY DEF Containers
<1>3. CASE from = to
    BY <1>3 DEF Moved
<1>4. ASSUME from # to,
             Share(new, from, item) + Share(new, to, item) =
                 Share(inv, from, item) + Share(inv, to, item)
      PROVE  CountItem(new, item) = CountItem(inv, item)
  <2> HIDE DEF new
  <2>1. CountItem(new, item) =
            CountItem(inv, item) - (Share(inv, from, item) + Share(inv, to, item))
                + (Share(new, from, item) + Share(new, to, item))
      BY <1>1, <1>4, TwoChanged
  <2>2. /\ CountItem(inv, item) \in Nat
        /\ Share(inv, from, item) \in Nat
        /\ Share(inv, to, item) \in Nat
      BY CountIsNat, ShareIsNat
  <2> QED
      BY <1>4, <2>1, <2>2
<1>5. CASE from # to /\ Holds(inv, to, inv[from].item)
  <2> DEFINE merged == [inv[to] EXCEPT !.amount = @ + inv[from].amount]
  <2>1. /\ merged.occupied = inv[to].occupied
        /\ merged.item = inv[to].item
        /\ merged.amount = inv[to].amount + inv[from].amount
      BY <1>2 DEF SlotStates
  <2>2. new = [inv EXCEPT ![to] = merged, ![from] = Nothing]
      BY <1>5 DEF Moved, Containers
  <2>3. inv[to].amount \in Nat /\ inv[from].amount \in Nat
      BY <1>2 DEF SlotStates
  <2>4. inv[from].occupied
      BY <1>5 DEF MoveResult
  <2> HIDE DEF merged, new
  <2>5. new[to] = merged /\ new[from] = Nothing
      BY <1>5, <2>2 DEF Containers
  <2>6. ~Nothing.occupied
      BY DEF Nothing
  <2>7. Share(new, from, item) = 0
      BY <2>5, <2>6 DEF Share, Holds
  <2>8. Share(new, to, item) = Share(inv, from, item) + Share(inv, to, item)
    <3>1. CASE inv[to].item = item
      <4>1. Holds(new, to, item) /\ Holds(inv, from, item) /\ Holds(inv, to, item)
          BY <1>5, <2>1, <2>4, <2>5, <3>1 DEF Holds
      <4> QED
          BY <2>1, <2>3, <2>5, <4>1 DEF Share
    <3>2. CASE inv[to].item # item
      <4>1. ~Holds(new, to, item) /\ ~Holds(inv, from, item) /\ ~Holds(inv, to, item)
          BY <1>5, <2>1, <2>5, <3>2 DEF Holds
      <4> QED
          BY <4>1 DEF Share
    <3> QED
        BY <3>1, <3>2
  <2>9. Share(inv, from, item) \in Nat /\ Share(inv, to, item) \in Nat
      BY ShareIsNat
  <2> QED
      BY <1>4, <1>5, <2>7, <2>8, <2>9 DEF new
<1>6. CASE from # to /\ ~Holds(inv, to, inv[from].item)
  <2>1. new = [inv EXCEPT ![from] = inv[to], ![to] = inv[from]]
      BY <1>6 DEF Moved
  <2> HIDE DEF new
  <2>2. new[from] = inv[to] /\ new[to] = inv[from]
      BY <1>6, <2>1 DEF Containers
  <2>3. Share(new, from, item) = Share(inv, to, item) /\ Share(new, to, item) = Share(inv, from, item)
      BY <2>2 DEF Share, Holds
  <2>4. Share(inv, from, item) \in Nat /\ Share(inv, to, item) \in Nat
      BY ShareIsNat
  <2> QED
      BY <1>4, <1>6, <2>3, <2>4 DEF new
<1> QED
    BY <1>3, <1>5, <1>6

(* Using takes one of what the slot holds, also the last one. *)
LEMMA UsedCounts ==
    ASSUME NEW inv \in Containers, Real(inv), NEW s \in Slots,
           inv[s].occupied, NEW item
    PROVE  CountItem(Used(inv, s), item) =
               CountItem(inv, item) - (IF Holds(inv, s, item) THEN 1 ELSE 0)
<1> DEFINE new == Used(inv, s)
<1>1. new \in Containers /\ \A t \in Slots \ {s} : new[t] = inv[t]
    BY UsedIsReal
<1>2. inv[s] \in SlotStates
    BY DEF Containers
<1>3. inv[s].amount \in Nat /\ inv[s].amount > 0
    BY <1>2 DEF SlotStates, Real
<1>4. Share(new, s, item) = Share(inv, s, item) - (IF Holds(inv, s, item) THEN 1 ELSE 0)
  <2>1. CASE inv[s].amount > 1
    <3> DEFINE rest == [inv[s] EXCEPT !.amount = @ - 1]
    <3>1. /\ rest.occupied = inv[s].occupied
          /\ rest.item = inv[s].item
          /\ rest.amount = inv[s].amount - 1
        BY <1>2 DEF SlotStates
    <3>2. new[s] = rest
        BY <2>1 DEF Used, Containers
    <3> HIDE DEF rest, new
    <3>3. Holds(new, s, item) <=> Holds(inv, s, item)
        BY <3>1, <3>2 DEF Holds
    <3> QED
        BY <1>3, <3>1, <3>2, <3>3 DEF Share
  <2>2. CASE ~(inv[s].amount > 1)
    <3>1. new[s] = Nothing /\ inv[s].amount = 1
        BY <1>3, <2>2 DEF Used, Containers
    <3>2. ~Nothing.occupied
        BY DEF Nothing
    <3> HIDE DEF new
    <3> QED
        BY <3>1, <3>2 DEF Share, Holds
  <2> QED
      BY <2>1, <2>2
<1> HIDE DEF new
<1>5. CountItem(new, item) = CountItem(inv, item) - Share(inv, s, item) + Share(new, s, item)
    BY <1>1, OneChanged
<1>6. CountItem(inv, item) \in Nat /\ Share(inv, s, item) \in Nat
    BY CountIsNat, ShareIsNat
<1>7. CountItem(new, item) = CountItem(inv, item) - (IF Holds(inv, s, item) THEN 1 ELSE 0)
    BY <1>4, <1>5, <1>6
<1> QED
    BY <1>7 DEF new

LEMMA DroppedCounts ==
    ASSUME NEW inv \in Containers, Real(inv), NEW s \in Slots, NEW item
    PROVE  CountItem([inv EXCEPT ![s] = Nothing], item) <= CountItem(inv, item)
<1> DEFINE new == [inv EXCEPT ![s] = Nothing]
<1>1. new \in Containers
    BY ClearSlotIsReal
<1>2. new[s] = Nothing /\ \A t \in Slots \ {s} : new[t] = inv[t]
    BY DEF Containers
<1> HIDE DEF new
<1>3. Share(new, s, item) = 0
    BY <1>2 DEF Share, Holds, Nothing
<1>4. CountItem(new, item) = CountItem(inv, item) - Share(inv, s, item) + Share(new, s, item)
    BY <1>1, <1>2, OneChanged
<1>5. CountItem(inv, item) \in Nat /\ Share(inv, s, item) \in Nat
    BY CountIsNat, ShareIsNat
<1>6. CountItem(new, item) <= CountItem(inv, item)
    BY <1>3, <1>4, <1>5
<1> QED
    BY <1>6 DEF new

(* What lies before a slot, slot by slot. *)
LEMMA BeforeStep ==
    ASSUME NEW inv \in Containers, NEW item
    PROVE  /\ CountBefore(inv, item, 0) = 0
           /\ CountBefore(inv, item, Size) = CountItem(inv, item)
           /\ \A s \in Slots :
                 CountBefore(inv, item, s + 1) =
                     CountBefore(inv, item, s) + Share(inv, s, item)
           /\ \A s \in Nat : CountBefore(inv, item, s) \in Nat
<1> DEFINE below(s) == {t \in StacksOf(inv, item) : t < s}
<1>1. \A s : CountBefore(inv, item, s) = Total(inv, below(s))
    BY DEF CountBefore, Total
<1>2. \A s : below(s) \in SUBSET Slots
    BY DEF StacksOf
<1>3. below(0) = {} /\ below(Size) = StacksOf(inv, item)
    BY SizeAssumption DEF StacksOf, Slots
<1>4. ASSUME NEW s \in Slots
      PROVE  CountBefore(inv, item, s + 1) = CountBefore(inv, item, s) + Share(inv, s, item)
  <2>1. CASE Holds(inv, s, item)
    <3>1. s \in below(s + 1) /\ below(s + 1) \ {s} = below(s)
        BY <2>1, SizeAssumption DEF StacksOf, Slots
    <3> HIDE DEF below
    <3>2. Total(inv, below(s + 1)) = inv[s].amount + Total(inv, below(s))
        BY <1>2, <3>1, TotalWithout
    <3>3. inv[s].amount \in Nat /\ Total(inv, below(s)) \in Nat
        BY <1>2, TotalIsNat DEF Containers, SlotStates
    <3>4. Share(inv, s, item) = inv[s].amount
        BY <2>1 DEF Share
    <3> QED
        BY <1>1, <3>2, <3>3, <3>4
  <2>2. CASE ~Holds(inv, s, item)
    <3>1. below(s + 1) = below(s)
        BY <2>2, SizeAssumption DEF StacksOf, Slots
    <3> HIDE DEF below
    <3>2. Total(inv, below(s)) \in Nat /\ Share(inv, s, item) = 0
        BY <1>2, <2>2, TotalIsNat DEF Share
    <3> QED
        BY <1>1, <3>1, <3>2
  <2> QED
      BY <2>1, <2>2
<1> HIDE DEF below
<1>5. CountBefore(inv, item, 0) = 0
    BY <1>1, <1>3, TotalOfNone
<1>6. CountBefore(inv, item, Size) = CountItem(inv, item)
    BY <1>1, <1>3, CountIs
<1>7. \A s \in Nat : CountBefore(inv, item, s) \in Nat
    BY <1>1, <1>2, TotalIsNat
<1> QED
    BY <1>4, <1>5, <1>6, <1>7

(* What a removal leaves in one slot: all of it, as long as enough was     *)
(* taken before; nothing, as long as it does not suffice; else the rest.   *)
LEMMA RemovedShare ==
    ASSUME NEW inv \in Containers, NEW item \in Nat, NEW amount \in Nat,
           item > 0, amount > 0, CountItem(inv, item) >= amount,
           NEW s \in Slots
    PROVE  LET new    == RemoveItem(inv, item, amount).inv
               before == CountBefore(inv, item, s)
               share  == Share(inv, s, item)
           IN  Share(new, s, item) =
                   IF before >= amount THEN share
                   ELSE IF before + share <= amount THEN 0
                   ELSE before + share - amount
<1> DEFINE new == RemoveItem(inv, item, amount).inv
           before == CountBefore(inv, item, s)
           share == Share(inv, s, item)
           wanted(t) == amount - CountBefore(inv, item, t)
           left(t) == IF ~Holds(inv, t, item) THEN inv[t]
                      ELSE IF wanted(t) \in 1..(inv[t].amount - 1)
                      THEN [inv[t] EXCEPT !.amount = @ - wanted(t)]
                      ELSE IF wanted(t) <= 0 THEN inv[t]
                      ELSE Nothing
           expected == IF before >= amount THEN share
                       ELSE IF before + share <= amount THEN 0
                       ELSE before + share - amount
<1>1. before \in Nat /\ share \in Nat /\ CountItem(inv, item) \in Nat
  <2>1. s \in Nat
      BY SizeAssumption DEF Slots
  <2> QED
      BY <2>1, BeforeStep, ShareIsNat, CountIsNat
<1>2. inv[s] \in SlotStates /\ inv[s].amount \in Nat
    BY DEF Containers, SlotStates
<1>3. new[s] = left(s)
  <2>1. ~(item = 0 \/ amount = 0 \/ CountItem(inv, item) < amount)
      BY <1>1
  <2>2. new = [t \in Slots |-> left(t)]
      BY <2>1 DEF RemoveItem
  <2> HIDE DEF new, left
  <2> QED
      BY <2>2
<1> HIDE DEF new
<1>4. CASE ~Holds(inv, s, item)
  <2>1. new[s] = inv[s] /\ share = 0
      BY <1>3, <1>4 DEF Share
  <2>2. Share(new, s, item) = 0
      BY <1>4, <2>1 DEF Share, Holds
  <2> HIDE DEF before, share
  <2>3. Share(new, s, item) = expected
      BY <1>1, <2>1, <2>2
  <2> QED
      BY <2>3 DEF new, before, share
<1>5. CASE Holds(inv, s, item)
  <2>0. share = inv[s].amount
      BY <1>5 DEF Share
  <2>1. CASE before >= amount
    <3>1. wanted(s) <= 0 /\ ~(wanted(s) \in 1..(inv[s].amount - 1))
        BY <1>1, <1>2, <2>1
    <3>2. new[s] = inv[s]
        BY <1>3, <1>5, <3>1
    <3>3. Share(new, s, item) = share
        BY <3>2 DEF Share, Holds
    <3> HIDE DEF before, share
    <3> QED
        BY <2>1, <3>3 DEF new, before, share
  <2>2. CASE before < amount /\ before + share <= amount
    <3>1. ~(wanted(s) <= 0) /\ ~(wanted(s) \in 1..(inv[s].amount - 1))
        BY <1>1, <1>2, <2>0, <2>2
    <3>2. new[s] = Nothing
        BY <1>3, <1>5, <3>1
    <3>3. Share(new, s, item) = 0
        BY <3>2 DEF Share, Holds, Nothing
    <3>4. ~(before >= amount)
        BY <1>1, <2>2
    <3> HIDE DEF before, share
    <3> QED
        BY <2>2, <3>3, <3>4 DEF new, before, share
  <2>3. CASE before < amount /\ before + share > amount
    <3> DEFINE w == amount - before
    <3>1. w \in 1..(inv[s].amount - 1) /\ w = wanted(s)
        BY <1>1, <1>2, <2>0, <2>3
    <3>2. new[s] = [inv[s] EXCEPT !.amount = @ - w]
        BY <1>3, <1>5, <3>1
    <3> HIDE DEF w
    <3>3. new[s].occupied = inv[s].occupied /\ new[s].item = inv[s].item
        BY <1>2, <3>2 DEF SlotStates
    <3>4. new[s].amount = inv[s].amount - w
        BY <1>2, <3>2 DEF SlotStates
    <3>5. Holds(new, s, item)
        BY <1>5, <3>3 DEF Holds
    <3>6. Share(new, s, item) = inv[s].amount - w
        BY <3>4, <3>5 DEF Share
    <3> HIDE DEF before, share
    <3>7. Share(new, s, item) = before + share - amount
        BY <1>1, <2>0, <3>6 DEF w
    <3>8. ~(before >= amount) /\ ~(before + share <= amount)
        BY <1>1, <2>3
    <3> QED
        BY <3>7, <3>8 DEF new, before, share
  <2> HIDE DEF before, share
  <2> QED
      BY <1>1, <2>1, <2>2, <2>3
<1> QED
    BY <1>4, <1>5

(* So, from the first slot on, the first so many are gone. *)
LEMMA RemovedBefore ==
    ASSUME NEW inv \in Containers, Real(inv), NEW item \in Nat, NEW amount \in Nat,
           item > 0, amount > 0, CountItem(inv, item) >= amount
    PROVE  LET new == RemoveItem(inv, item, amount).inv
           IN  \A n \in 0..Size :
                   CountBefore(new, item, n) =
                       IF CountBefore(inv, item, n) <= amount THEN 0
                       ELSE CountBefore(inv, item, n) - amount
<1> DEFINE new == RemoveItem(inv, item, amount).inv
           was(n) == CountBefore(inv, item, n)
           is(n) == CountBefore(new, item, n)
           Good(n) == is(n) = IF was(n) <= amount THEN 0 ELSE was(n) - amount
           Bad == {n \in 0..Size : ~Good(n)}
<1> SUFFICES ASSUME Bad # {} PROVE FALSE
    OBVIOUS
<1>1. PICK n \in Bad : \A m \in Bad : n <= m
  <2>1. Bad \in SUBSET Nat
      BY SizeAssumption
  <2> HIDE DEF Bad
  <2> QED
      BY <2>1, SomeLeast
<1>2. new \in Containers
    BY RemoveItemIsReal
<1>3. n \in 0..Size /\ ~Good(n)
    OBVIOUS
<1>4. was(0) = 0 /\ is(0) = 0
    BY <1>2, BeforeStep
<1>5. n # 0
  <2> SUFFICES ASSUME n = 0 PROVE Good(n)
      BY <1>3
  <2> HIDE DEF was, is
  <2> QED
      BY <1>4
<1> DEFINE s == n - 1
<1>6. s \in Slots /\ s \in 0..Size /\ s + 1 = n /\ s \in Nat /\ ~(n <= s)
    BY <1>3, <1>5, SizeAssumption DEF Slots
<1>7. Good(s)
  <2>1. s \notin Bad
      BY <1>1, <1>6
  <2> QED
      BY <1>6, <2>1
<1> HIDE DEF s, Bad
<1>8. was(s + 1) = was(s) + Share(inv, s, item) /\ is(s + 1) = is(s) + Share(new, s, item)
    BY <1>2, <1>6, BeforeStep
<1>9. Share(new, s, item) =
          IF was(s) >= amount THEN Share(inv, s, item)
          ELSE IF was(s) + Share(inv, s, item) <= amount THEN 0
          ELSE was(s) + Share(inv, s, item) - amount
    BY <1>6, RemovedShare
<1>10. was(s) \in Nat /\ Share(inv, s, item) \in Nat
    BY <1>6, BeforeStep, ShareIsNat
<1> HIDE DEF was, is
<1>11. Good(s + 1)
    BY <1>7, <1>8, <1>9, <1>10
<1> QED
    BY <1>3, <1>6, <1>11

(* Removing, from any container of real stacks: all of it or nothing, and  *)
(* nothing only when there is less.                                        *)
LEMMA RemoveExact ==
    ASSUME NEW inv \in Containers, Real(inv), NEW item \in Nat, NEW amount \in Nat,
           amount > 0, NEW other
    PROVE  /\ RemoveItem(inv, item, amount).ok <=> CountItem(inv, item) >= amount
           /\ CountItem(RemoveItem(inv, item, amount).inv, other) =
                 CountItem(inv, other)
                     - (IF RemoveItem(inv, item, amount).ok /\ other = item
                        THEN amount ELSE 0)
<1> DEFINE removed == RemoveItem(inv, item, amount)
           new == removed.inv
           count == CountItem(inv, other)
           goal == /\ removed.ok <=> CountItem(inv, item) >= amount
                   /\ CountItem(removed.inv, other) =
                         count - (IF removed.ok /\ other = item THEN amount ELSE 0)
<1>1. count \in Nat /\ CountItem(inv, item) \in Nat
    BY CountIsNat
<1>2. new \in Containers
    BY RemoveItemIsReal
<1>3. item = 0 => CountItem(inv, item) = 0
  <2> SUFFICES ASSUME item = 0 PROVE CountItem(inv, item) = 0
      OBVIOUS
  <2>1. StacksOf(inv, item) = {}
      BY DEF StacksOf, Holds, Real
  <2> QED
      BY <2>1, CountIs, TotalOfNone
<1>4. CASE CountItem(inv, item) < amount
  <2>1. removed = [ok |-> FALSE, inv |-> inv]
      BY <1>4 DEF RemoveItem
  <2>2. removed.ok = FALSE /\ CountItem(removed.inv, other) = count
      BY <2>1
  <2> HIDE DEF removed, count
  <2>3. goal
      BY <1>1, <1>4, <2>2
  <2> QED
      BY <2>3 DEF removed, count
<1>5. CASE CountItem(inv, item) >= amount
  <2>1. item > 0
      BY <1>1, <1>3, <1>5
  <2>2. ~(item = 0 \/ amount = 0 \/ CountItem(inv, item) < amount)
      BY <1>1, <1>5, <2>1
  <2>3. removed.ok = TRUE
      BY <2>2 DEF RemoveItem
  <2>4. CASE other = item
    <3>1. CountBefore(new, item, Size) =
              IF CountBefore(inv, item, Size) <= amount THEN 0
              ELSE CountBefore(inv, item, Size) - amount
        BY <1>5, <2>1, SizeAssumption, RemovedBefore
    <3>2. /\ CountBefore(new, item, Size) = CountItem(new, item)
          /\ CountBefore(inv, item, Size) = CountItem(inv, item)
        BY <1>2, BeforeStep
    <3> HIDE DEF removed, new
    <3>3. CountItem(new, item) = CountItem(inv, item) - amount
        BY <1>1, <1>5, <3>1, <3>2
    <3>4. goal
        BY <1>5, <2>3, <2>4, <3>3 DEF new
    <3> QED
        BY <3>4 DEF removed
  <2>5. CASE other # item
    <3> DEFINE wanted(t) == amount - CountBefore(inv, item, t)
               left(t) == IF ~Holds(inv, t, item) THEN inv[t]
                          ELSE IF wanted(t) \in 1..(inv[t].amount - 1)
                          THEN [inv[t] EXCEPT !.amount = @ - wanted(t)]
                          ELSE IF wanted(t) <= 0 THEN inv[t]
                          ELSE Nothing
    <3>1. new = [t \in Slots |-> left(t)]
        BY <2>2 DEF RemoveItem
    <3>2. ASSUME NEW t \in Slots, ~Holds(inv, t, item) PROVE new[t] = inv[t]
        BY <3>1, <3>2
    <3>3. ASSUME NEW t \in Slots, Holds(inv, t, item)
          PROVE  ~Holds(new, t, other) /\ ~Holds(inv, t, other)
      <4>1. ~Holds(inv, t, other)
          BY <2>5, <3>3 DEF Holds
      <4>2. inv[t] \in SlotStates
          BY DEF Containers
      <4>3. new[t] = left(t)
          BY <3>1
      <4>4. left(t).item = inv[t].item \/ ~left(t).occupied
        <5> HIDE DEF wanted
        <5> QED
            BY <4>2 DEF Nothing, SlotStates
      <4> HIDE DEF left, new
      <4> QED
          BY <2>5, <3>3, <4>1, <4>3, <4>4 DEF Holds
    <3> HIDE DEF removed, new, left
    <3>4. StacksOf(new, other) = StacksOf(inv, other)
        BY <3>2, <3>3 DEF StacksOf, Holds
    <3>5. \A t \in StacksOf(inv, other) : new[t].amount = inv[t].amount
        BY <3>2, <3>3 DEF StacksOf
    <3>6. StacksOf(inv, other) \in SUBSET Slots
        BY DEF StacksOf
    <3>7. CountItem(new, other) = count
        BY <3>4, <3>5, <3>6, CountIs, TotalSame
    <3> HIDE DEF count
    <3>8. goal
        BY <1>1, <1>5, <2>3, <2>5, <3>7 DEF new
    <3> QED
        BY <3>8 DEF removed, count
  <2> QED
      BY <2>4, <2>5
<1>6. CountItem(inv, item) < amount \/ CountItem(inv, item) >= amount
    BY <1>1
<1> QED
    BY <1>4, <1>5, <1>6

-----------------------------------------------------------------------------
(* The channel to the client *)

LEMMA TellingType ==
    ASSUME NEW inv \in Containers, NEW T \in SUBSET Slots
    PROVE  /\ Telling(T, inv) \in Answers
           /\ Telling(T, inv).told = T
           /\ \A s \in T : Telling(T, inv).state[s] = OnWire(inv[s])
<1>1. ASSUME NEW s \in Slots PROVE OnWire(inv[s]) \in SlotStates
  <2>1. inv[s] \in SlotStates
      BY DEF Containers
  <2>2. inv[s].item % WireMod \in Nat /\ inv[s].amount % WireMod \in Nat
      BY <2>1, InventoryAssumption DEF SlotStates
  <2> QED
      BY <2>1, <2>2 DEF OnWire, SlotStates
<1>2. Nothing \in SlotStates
    BY DEF Nothing, SlotStates, Flags
<1> QED
    BY <1>1, <1>2 DEF Telling, Answers, Containers

(* An answer that tells the container as it is brings the slots it names   *)
(* up to date, when no other slot changed unheard.                         *)
LEMMA AppendFollows ==
    ASSUME NEW q \in Seq(Answers), NEW copy \in Containers,
           NEW old \in Containers, NEW inv \in Containers,
           NEW quiet, NEW T \in SUBSET Slots,
           Follows(q, copy, old, quiet),
           \A s \in Slots \ T : s \notin quiet => inv[s] = old[s]
    PROVE  Follows(Append(q, Telling(T, inv)), copy, inv, quiet \ T)
<1> DEFINE a == Telling(T, inv)
           long == Append(q, a)
<1>1. a \in Answers /\ a.told = T /\ \A s \in T : a.state[s] = OnWire(inv[s])
    BY TellingType
<1> HIDE DEF a
<1>2. /\ Len(q) \in Nat
      /\ Len(long) = Len(q) + 1
      /\ long[Len(q) + 1] = a
      /\ \A i \in 1..Len(q) : long[i] = q[i]
    BY <1>1
<1> HIDE DEF long
<1> SUFFICES ASSUME NEW s \in Slots \ (quiet \ T)
             PROVE  /\ (\A i \in 1..Len(long) : s \notin long[i].told)
                           => copy[s] = OnWire(inv[s])
                    /\ \A i \in 1..Len(long) :
                          s \in long[i].told
                          /\ (\A j \in (i + 1)..Len(long) : s \notin long[j].told)
                              => long[i].state[s] = OnWire(inv[s])
    BY DEF Follows, a, long
<1>3. CASE s \in T
  <2>1. s \in long[Len(long)].told /\ long[Len(long)].state[s] = OnWire(inv[s])
      BY <1>1, <1>2, <1>3
  <2>2. ASSUME NEW i \in 1..Len(long), i # Len(long)
        PROVE  Len(long) \in (i + 1)..Len(long)
      BY <1>2, <2>2
  <2>3. Len(long) \in 1..Len(long)
      BY <1>2
  <2> QED
      BY <2>1, <2>2, <2>3
<1>4. CASE s \notin T
  <2>1. s \in Slots \ quiet /\ OnWire(inv[s]) = OnWire(old[s])
      BY <1>4
  <2>2. s \notin long[Len(q) + 1].told
      BY <1>1, <1>2, <1>4
  <2>3. ASSUME \A i \in 1..Len(long) : s \notin long[i].told
        PROVE  copy[s] = OnWire(inv[s])
    <3>1. \A i \in 1..Len(q) : i \in 1..Len(long)
        BY <1>2
    <3> QED
        BY <1>2, <2>1, <2>3, <3>1 DEF Follows
  <2>4. ASSUME NEW i \in 1..Len(long), s \in long[i].told,
               \A j \in (i + 1)..Len(long) : s \notin long[j].told
        PROVE  long[i].state[s] = OnWire(inv[s])
    <3>1. i \in 1..Len(q)
        BY <1>2, <2>2, <2>4
    <3>2. \A j \in (i + 1)..Len(q) : s \notin q[j].told
      <4>1. \A j \in (i + 1)..Len(q) : j \in (i + 1)..Len(long) /\ long[j] = q[j]
          BY <1>2, <3>1
      <4> QED
          BY <2>4, <4>1
    <3>3. s \in q[i].told /\ long[i] = q[i]
        BY <1>2, <2>4, <3>1
    <3> QED
        BY <2>1, <3>1, <3>2, <3>3 DEF Follows
  <2> QED
      BY <2>3, <2>4
<1> QED
    BY <1>3, <1>4

(* Applying the first answer keeps the client behind by the rest only.     *)
LEMMA TailFollows ==
    ASSUME NEW q \in Seq(Answers), q # <<>>, NEW copy \in Containers,
           NEW inv \in Containers, NEW quiet, Follows(q, copy, inv, quiet)
    PROVE  Follows(Tail(q),
                   [s \in Slots |-> IF s \in Head(q).told THEN Head(q).state[s] ELSE copy[s]],
                   inv, quiet)
<1> DEFINE rest == Tail(q)
           new == [s \in Slots |-> IF s \in Head(q).told THEN Head(q).state[s] ELSE copy[s]]
<1>1. /\ Len(q) \in Nat /\ Len(q) > 0
      /\ Len(rest) = Len(q) - 1
      /\ Head(q) = q[1]
      /\ \A i \in 1..Len(rest) : rest[i] = q[i + 1]
    OBVIOUS
<1>2. \A s \in Slots : new[s] = IF s \in q[1].told THEN q[1].state[s] ELSE copy[s]
    BY <1>1
<1> HIDE DEF rest, new
<1> SUFFICES ASSUME NEW s \in Slots \ quiet
             PROVE  /\ (\A i \in 1..Len(rest) : s \notin rest[i].told)
                           => new[s] = OnWire(inv[s])
                    /\ \A i \in 1..Len(rest) :
                          s \in rest[i].told
                          /\ (\A j \in (i + 1)..Len(rest) : s \notin rest[j].told)
                              => rest[i].state[s] = OnWire(inv[s])
    BY DEF Follows, rest, new
<1>3. ASSUME NEW k \in Nat, \A j \in (k + 1)..Len(rest) : s \notin rest[j].told
      PROVE  \A j \in (k + 2)..Len(q) : s \notin q[j].told
  <2> SUFFICES ASSUME NEW j \in (k + 2)..Len(q) PROVE s \notin q[j].told
      OBVIOUS
  <2>1. j - 1 \in (k + 1)..Len(rest) /\ j - 1 \in 1..Len(rest) /\ (j - 1) + 1 = j
      BY <1>1
  <2> QED
      BY <1>1, <1>3, <2>1
<1>4. ASSUME \A i \in 1..Len(rest) : s \notin rest[i].told
      PROVE  new[s] = OnWire(inv[s])
  <2>1. \A j \in 2..Len(q) : s \notin q[j].told
    <3>1. \A j \in (0 + 1)..Len(rest) : s \notin rest[j].told
        BY <1>4
    <3>2. \A j \in (0 + 2)..Len(q) : s \notin q[j].told
        BY <1>3, <3>1
    <3> QED
        BY <3>2
  <2>2. CASE s \in q[1].told
    <3>1. 1 \in 1..Len(q) /\ \A j \in (1 + 1)..Len(q) : s \notin q[j].told
        BY <1>1, <2>1
    <3> QED
        BY <1>2, <2>2, <3>1 DEF Follows
  <2>3. CASE s \notin q[1].told
    <3>1. \A i \in 1..Len(q) : i = 1 \/ i \in 2..Len(q)
        BY <1>1
    <3>2. \A i \in 1..Len(q) : s \notin q[i].told
        BY <2>1, <2>3, <3>1
    <3> QED
        BY <1>2, <2>3, <3>2 DEF Follows
  <2> QED
      BY <2>2, <2>3
<1>5. ASSUME NEW i \in 1..Len(rest), s \in rest[i].told,
             \A j \in (i + 1)..Len(rest) : s \notin rest[j].told
      PROVE  rest[i].state[s] = OnWire(inv[s])
  <2>1. i \in Nat /\ i + 1 \in 1..Len(q) /\ rest[i] = q[i + 1] /\ (i + 1) + 1 = i + 2
      BY <1>1
  <2>2. \A j \in (i + 2)..Len(q) : s \notin q[j].told
      BY <1>3, <1>5, <2>1
  <2> QED
      BY <1>5, <2>1, <2>2 DEF Follows
<1> QED
    BY <1>4, <1>5

-----------------------------------------------------------------------------
(* The invariant *)

IInv ==
    /\ TypeOK
    /\ StacksAreReal
    /\ ClientFollows

LEMMA InitIInv == Init => IInv
<1> SUFFICES ASSUME Init PROVE IInv
    OBVIOUS
<1>1. slots \in Containers /\ Real(slots)
    BY CreatedIsReal DEF Init
<1>2. client \in Containers
    BY DEF Init, Containers, Nothing, SlotStates, Flags
<1>3. c2s \in Seq(Requests) /\ s2c \in Seq(Answers)
    BY DEF Init
<1> QED
    BY <1>1, <1>2, <1>3 DEF Init, IInv, TypeOK, StacksAreReal, Real, ClientFollows, Links

(* A step that only shortens or lengthens the requests. *)
LEMMA ClientIInv == IInv /\ Client => IInv'
<1> SUFFICES ASSUME IInv, Client PROVE IInv'
    OBVIOUS
<1> USE DEF IInv
<1>1. ASSUME NEW r \in Requests, Send(r), visible' \in BOOLEAN PROVE IInv'
  <2>1. c2s' \in Seq(Requests)
      BY <1>1 DEF Send, TypeOK
  <2> QED
      BY <1>1, <2>1 DEF Send, TypeOK, StacksAreReal, ClientFollows
<1>2. [kind |-> "open"] \in Requests /\ [kind |-> "close"] \in Requests
    BY DEF Requests
<1>3. CASE OpenWindow
    BY <1>1, <1>2, <1>3 DEF OpenWindow
<1>4. CASE CloseWindow
    BY <1>1, <1>2, <1>4 DEF CloseWindow
<1>5. ASSUME NEW r \in Requests, Ask(r) PROVE IInv'
    BY <1>1, <1>5 DEF Ask, TypeOK
<1>6. CASE ClientReceives
  <2> USE <1>6 DEF ClientReceives
  <2>1. s2c \in Seq(Answers) /\ client \in Containers /\ slots \in Containers
      BY DEF TypeOK
  <2>2. s2c' \in Seq(Answers) /\ Head(s2c) \in Answers
      BY <2>1
  <2>3. client' \in Containers
      BY <2>1, <2>2 DEF Containers, Answers
  <2>4. ASSUME link = "up" PROVE Follows(s2c', client', slots, silent)
    <3>1. Follows(s2c, client, slots, silent)
        BY <2>4 DEF ClientFollows, Follows
    <3> QED
        BY <2>1, <3>1, TailFollows
  <2>5. ClientFollows'
      BY <2>4 DEF ClientFollows, Follows
  <2> QED
      BY <2>2, <2>3, <2>5 DEF TypeOK, StacksAreReal
<1> QED
    BY <1>3, <1>4, <1>5, <1>6 DEF Client

(* What every handler does: one request is taken, and the slots it changes *)
(* are told.                                                               *)
LEMMA HandledIInv ==
    ASSUME IInv, link = "up", link' = link, client' = client,
           visible' = visible, changes' = changes,
           c2s # <<>>, c2s' = Tail(c2s),
           slots' \in Containers, Real(slots'),
           silent' \subseteq Slots, s2c' \in Seq(Answers),
           Follows(s2c', client, slots', silent')
    PROVE  IInv'
<1>1. c2s' \in Seq(Requests)
    BY DEF IInv, TypeOK
<1> QED
    BY <1>1 DEF IInv, TypeOK, StacksAreReal, Real, ClientFollows, Follows

LEMMA HandleIInv == IInv /\ Handle => IInv'
<1> SUFFICES ASSUME IInv, Handle PROVE IInv'
    OBVIOUS
<1>1. /\ s2c \in Seq(Answers) /\ client \in Containers /\ slots \in Containers
      /\ silent \subseteq Slots /\ Real(slots) /\ c2s \in Seq(Requests)
      /\ link = "up" => Follows(s2c, client, slots, silent)
    BY DEF IInv, TypeOK, StacksAreReal, Real, ClientFollows, Follows
<1>2. ASSUME c2s # <<>> PROVE Head(c2s) \in Requests
    BY <1>1, <1>2
<1>3. ASSUME NEW inv \in Containers, NEW T \in SUBSET Slots, link = "up",
             \A s \in Slots \ T : inv[s] = slots[s]
      PROVE  /\ Append(s2c, Telling(T, inv)) \in Seq(Answers)
             /\ Follows(Append(s2c, Telling(T, inv)), client, inv, silent \ T)
  <2>1. Follows(s2c, client, slots, silent)
      BY <1>1, <1>3
  <2>2. Telling(T, inv) \in Answers
      BY TellingType
  <2>3. Follows(Append(s2c, Telling(T, inv)), client, inv, silent \ T)
      BY <1>1, <1>3, <2>1, AppendFollows
  <2> QED
      BY <1>1, <2>2, <2>3
<1>4. ASSUME NEW kind, Receive(kind), Reject PROVE IInv'
  <2>1. s2c' = Append(s2c, Telling({}, slots))
      BY <1>4 DEF Reject, Error
  <2>2. silent \ {} = silent
      OBVIOUS
  <2>3. s2c' \in Seq(Answers) /\ Follows(s2c', client, slots, silent)
      BY <1>1, <1>3, <1>4, <2>1, <2>2 DEF Receive
  <2> QED
      BY <1>1, <1>4, <2>3, HandledIInv DEF Receive, Reject
<1>5. CASE HandleOpen
  <2>1. s2c' = Append(s2c, Telling(Slots, slots)) /\ silent' = {}
      BY <1>5 DEF HandleOpen, FullState
  <2>2. silent \ Slots = {}
      BY <1>1
  <2>3. s2c' \in Seq(Answers) /\ Follows(s2c', client, slots, {})
      BY <1>1, <1>3, <1>5, <2>1, <2>2 DEF HandleOpen, Receive
  <2> QED
      BY <1>1, <1>5, <2>1, <2>3, HandledIInv DEF HandleOpen, Receive
<1>6. CASE HandleClose
    BY <1>1, <1>6, HandledIInv DEF HandleClose, Receive
<1>7. CASE HandleUse
  <2> DEFINE s == Head(c2s).slot
  <2>1. CASE UseResult(slots, s) # "OK"
      BY <1>4, <1>7, <2>1 DEF HandleUse
  <2>2. CASE UseResult(slots, s) = "OK"
    <3>1. s \in Slots
        BY <2>2 DEF UseResult
    <3>2. slots' = Used(slots, s) /\ s2c' = Append(s2c, Telling({s}, slots')) /\ silent' = silent \ {s}
        BY <1>7, <2>2 DEF HandleUse, SlotUpdate
    <3>3. slots' \in Containers /\ Real(slots') /\ \A t \in Slots \ {s} : slots'[t] = slots[t]
        BY <1>1, <3>1, <3>2, UsedIsReal
    <3>4. Receive("use")
        BY <1>7 DEF HandleUse
    <3> HIDE DEF s
    <3>5. s2c' \in Seq(Answers) /\ Follows(s2c', client, slots', silent')
        BY <1>3, <3>1, <3>2, <3>3, <3>4 DEF Receive
    <3> QED
        BY <1>1, <3>2, <3>3, <3>4, <3>5, HandledIInv DEF Receive
  <2> QED
      BY <2>1, <2>2
<1>8. CASE HandleDrop
  <2> DEFINE s == Head(c2s).slot
  <2>1. CASE DropResult(slots, s) # "OK"
      BY <1>4, <1>8, <2>1 DEF HandleDrop
  <2>2. CASE DropResult(slots, s) = "OK"
    <3>1. s \in Slots
        BY <2>2 DEF DropResult
    <3>2. slots' = [slots EXCEPT ![s] = Nothing] /\ s2c' = Append(s2c, Telling({s}, slots')) /\ silent' = silent \ {s}
        BY <1>8, <2>2 DEF HandleDrop, SlotUpdate
    <3>3. slots' \in Containers /\ Real(slots')
        BY <1>1, <3>1, <3>2, ClearSlotIsReal
    <3>4. \A t \in Slots \ {s} : slots'[t] = slots[t]
        BY <1>1, <3>1, <3>2 DEF Containers
    <3>5. Receive("drop")
        BY <1>8 DEF HandleDrop
    <3> HIDE DEF s
    <3>6. s2c' \in Seq(Answers) /\ Follows(s2c', client, slots', silent')
        BY <1>3, <3>1, <3>2, <3>3, <3>4, <3>5 DEF Receive
    <3> QED
        BY <1>1, <3>2, <3>3, <3>5, <3>6, HandledIInv DEF Receive
  <2> QED
      BY <2>1, <2>2
<1>9. CASE HandleMove
  <2> DEFINE from == Head(c2s).from
             to == Head(c2s).to
  <2>1. CASE MoveResult(slots, from, to) # "OK"
      BY <1>4, <1>9, <2>1 DEF HandleMove
  <2>2. CASE MoveResult(slots, from, to) = "OK"
    <3>1. from \in Slots /\ to \in Slots
        BY <2>2 DEF MoveResult
    <3>2. /\ slots' = Moved(slots, from, to)
          /\ s2c' = Append(Append(s2c, Telling({from}, slots')), Telling({to}, slots'))
          /\ silent' = silent \ {from, to}
        BY <1>9, <2>2 DEF HandleMove, SlotUpdate
    <3>3. /\ slots' \in Containers /\ Real(slots')
          /\ \A t \in Slots \ {from, to} : slots'[t] = slots[t]
        BY <1>1, <2>2, <3>1, <3>2, MovedIsReal
    <3>4. Receive("move")
        BY <1>9 DEF HandleMove
    <3> HIDE DEF from, to
    <3> DEFINE once == Append(s2c, Telling({from}, slots'))
               quiet == silent \cup {to}
    <3>5. Follows(s2c, client, slots, quiet)
        BY <1>1, <3>4 DEF Receive, Follows
    <3>6. Follows(once, client, slots', quiet \ {from})
        BY <1>1, <3>1, <3>3, <3>5, AppendFollows
    <3>7. once \in Seq(Answers)
        BY <1>1, <3>1, <3>3, TellingType
    <3> HIDE DEF once
    <3>8. Follows(Append(once, Telling({to}, slots')), client, slots', (quiet \ {from}) \ {to})
        BY <1>1, <3>1, <3>3, <3>6, <3>7, AppendFollows
    <3>9. (quiet \ {from}) \ {to} = silent'
        BY <3>2
    <3>10. s2c' \in Seq(Answers)
        BY <3>1, <3>2, <3>3, <3>7, TellingType DEF once
    <3>11. Follows(s2c', client, slots', silent')
        BY <3>2, <3>8, <3>9 DEF once
    <3> QED
        BY <1>1, <3>2, <3>3, <3>4, <3>10, <3>11, HandledIInv DEF Receive
  <2> QED
      BY <2>1, <2>2
<1> QED
    BY <1>5, <1>6, <1>7, <1>8, <1>9 DEF Handle

LEMMA ScriptIInv == IInv /\ Script => IInv'
<1> SUFFICES ASSUME IInv, Script PROVE IInv'
    OBVIOUS
<1>1. slots \in Containers /\ Real(slots)
    BY DEF IInv, TypeOK, StacksAreReal, Real
<1>2. ASSUME NEW inv \in Containers, Real(inv), ScriptPuts(inv) PROVE IInv'
  <2>1. silent' \subseteq Slots /\ changes' \in Nat
      BY <1>2 DEF ScriptPuts, IInv, TypeOK
  <2>2. \A s \in Slots \ silent' : s \in Slots \ silent /\ slots'[s] = slots[s]
      BY <1>2 DEF ScriptPuts
  <2>3. ClientFollows'
      BY <1>2, <2>2 DEF ScriptPuts, IInv, ClientFollows
  <2> QED
      BY <1>2, <2>1, <2>3 DEF ScriptPuts, IInv, TypeOK, StacksAreReal, Real
<1>3. \A item \in Items, amount \in Amounts, flags \in Grants :
          item \in Nat /\ amount \in Nat /\ flags \in Flags
    BY InventoryAssumption
<1>4. ASSUME NEW s \in Slots, NEW item \in Items \cup {0},
             NEW amount \in Amounts \cup {0}, NEW flags \in Grants,
             SetInventorySlot(s, item, amount, flags)
      PROVE  IInv'
  <2>1. item \in Nat /\ amount \in Nat /\ flags \in Flags
      BY InventoryAssumption
  <2> QED
      BY <1>1, <1>2, <1>4, <2>1, SetSlotIsReal DEF SetInventorySlot
<1>5. ASSUME NEW s \in Slots, ClearInventorySlot(s) PROVE IInv'
    BY <1>1, <1>2, <1>5, ClearSlotIsReal DEF ClearInventorySlot
<1>6. ASSUME NEW item \in Items, NEW amount \in Amounts, NEW flags \in Grants,
             AddInventoryItem(item, amount, flags)
      PROVE  IInv'
    BY <1>1, <1>2, <1>3, <1>6, AddItemIsReal DEF AddInventoryItem
<1>7. ASSUME NEW item \in Items, NEW amount \in Amounts, RemoveInventoryItem(item, amount)
      PROVE  IInv'
  <2>1. item \in Nat /\ amount \in Nat
      BY InventoryAssumption
  <2> QED
      BY <1>1, <1>2, <1>7, <2>1, RemoveItemIsReal DEF RemoveInventoryItem
<1> QED
    BY <1>4, <1>5, <1>6, <1>7 DEF Script

LEMMA SessionIInv == IInv /\ Session => IInv'
<1> SUFFICES ASSUME IInv, Session PROVE IInv'
    OBVIOUS
<1> USE DEF IInv, TypeOK, Links
<1>1. Created(Starter) \in Containers /\ Real(Created(Starter))
    BY CreatedIsReal, InventoryAssumption
<1>2. /\ Created([s \in {} |-> Nothing]) \in Containers
      /\ Real(Created([s \in {} |-> Nothing]))
    BY CreatedIsReal
<1>3. CASE Connect
    BY <1>1, <1>3 DEF Connect, StacksAreReal, Real, ClientFollows
<1>4. CASE SessionEnds
    BY <1>2, <1>4 DEF SessionEnds, StacksAreReal, Real, ClientFollows
<1>5. CASE Disconnected
  <2>1. link' = "down" /\ s2c' \in Seq(Answers) /\ visible' = FALSE
      BY <1>5 DEF Disconnected
  <2> QED
      BY <1>5, <2>1 DEF Disconnected, StacksAreReal, ClientFollows
<1> QED
    BY <1>3, <1>4, <1>5 DEF Session

LEMMA NextIInv == IInv /\ [Next]_vars => IInv'
<1> SUFFICES ASSUME IInv, [Next]_vars PROVE IInv'
    OBVIOUS
<1>1. CASE UNCHANGED vars
    BY <1>1 DEF vars, IInv, TypeOK, StacksAreReal, ClientFollows
<1> QED
    BY <1>1, ClientIInv, HandleIInv, ScriptIInv, SessionIInv DEF Next

(* Whatever a client asks for, see ClientsCreateNothing. *)
LEMMA HandledConserves == IInv /\ Next => ConservesItems
<1> SUFFICES ASSUME IInv, Next, Handled PROVE ConservesItems
    BY DEF ConservesItems
<1>1. slots \in Containers /\ Real(slots) /\ c2s \in Seq(Requests) /\ c2s # <<>>
    BY DEF IInv, TypeOK, StacksAreReal, Real, Handled
<1>2. c2s' = Tail(c2s) /\ link = "up" /\ link' = "up"
    BY DEF Handled
<1>3. Tail(c2s) # c2s /\ \A r : Tail(c2s) # Append(c2s, r)
  <2>1. Len(Tail(c2s)) = Len(c2s) - 1 /\ Len(c2s) \in Nat
      BY <1>1
  <2>2. \A r : Len(Append(c2s, r)) = Len(c2s) + 1
      BY <1>1
  <2> QED
      BY <2>1, <2>2
<1>4. \A item : CountItem(slots, item) \in Nat
    BY <1>1, CountIsNat
<1>5. ASSUME slots' = slots PROVE ConservesItems
    BY <1>4, <1>5 DEF ConservesItems
<1>6. CASE Client
    BY <1>2, <1>3, <1>6 DEF Client, OpenWindow, CloseWindow, Ask, Send, ClientReceives
<1>7. CASE Script
    BY <1>2, <1>3, <1>7 DEF Script, ScriptPuts, SetInventorySlot, ClearInventorySlot,
       AddInventoryItem, RemoveInventoryItem
<1>8. CASE Session
    BY <1>2, <1>3, <1>8 DEF Session, Connect, SessionEnds, Disconnected
<1>9. CASE HandleOpen \/ HandleClose
    BY <1>5, <1>9 DEF HandleOpen, HandleClose
<1>10. CASE HandleUse
  <2> DEFINE s == Head(c2s).slot
  <2>1. CASE UseResult(slots, s) # "OK"
      BY <1>5, <1>10, <2>1 DEF HandleUse, Reject
  <2>2. CASE UseResult(slots, s) = "OK"
    <3>1. s \in Slots /\ slots[s].occupied
        BY <2>2 DEF UseResult
    <3>2. slots' = Used(slots, s)
        BY <1>10, <2>2 DEF HandleUse
    <3>3. Head(c2s).kind = "use"
        BY <1>10 DEF HandleUse, Receive
    <3> HIDE DEF s
    <3>4. \A item : CountItem(slots', item) =
              CountItem(slots, item) - (IF Holds(slots, s, item) THEN 1 ELSE 0)
        BY <1>1, <3>1, <3>2, UsedCounts
    <3>5. \A item : /\ CountItem(slots', item) <= CountItem(slots, item)
                    /\ CountItem(slots', item) >= CountItem(slots, item) - 1
        BY <1>4, <3>4
    <3> QED
        BY <3>3, <3>5 DEF ConservesItems
  <2> QED
      BY <2>1, <2>2
<1>11. CASE HandleDrop
  <2> DEFINE s == Head(c2s).slot
  <2>1. CASE DropResult(slots, s) # "OK"
      BY <1>5, <1>11, <2>1 DEF HandleDrop, Reject
  <2>2. CASE DropResult(slots, s) = "OK"
    <3>1. s \in Slots
        BY <2>2 DEF DropResult
    <3>2. slots' = [slots EXCEPT ![s] = Nothing]
        BY <1>11, <2>2 DEF HandleDrop
    <3>3. Head(c2s).kind = "drop"
        BY <1>11 DEF HandleDrop, Receive
    <3> HIDE DEF s
    <3>4. \A item : CountItem(slots', item) <= CountItem(slots, item)
        BY <1>1, <3>1, <3>2, DroppedCounts
    <3> QED
        BY <3>3, <3>4 DEF ConservesItems
  <2> QED
      BY <2>1, <2>2
<1>12. CASE HandleMove
  <2> DEFINE from == Head(c2s).from
             to == Head(c2s).to
  <2>1. CASE MoveResult(slots, from, to) # "OK"
      BY <1>5, <1>12, <2>1 DEF HandleMove, Reject
  <2>2. CASE MoveResult(slots, from, to) = "OK"
    <3>1. from \in Slots /\ to \in Slots
        BY <2>2 DEF MoveResult
    <3>2. slots' = Moved(slots, from, to)
        BY <1>12, <2>2 DEF HandleMove
    <3>3. Head(c2s).kind = "move"
        BY <1>12 DEF HandleMove, Receive
    <3> HIDE DEF from, to
    <3>4. \A item : CountItem(slots', item) = CountItem(slots, item)
        BY <1>1, <2>2, <3>1, <3>2, MovedCounts
    <3> QED
        BY <1>4, <3>3, <3>4 DEF ConservesItems
  <2> QED
      BY <2>1, <2>2
<1> QED
    BY <1>6, <1>7, <1>8, <1>9, <1>10, <1>11, <1>12 DEF Next, Handle

THEOREM Invariance == Spec => []IInv
BY InitIInv, NextIInv, PTL DEF Spec

-----------------------------------------------------------------------------
(* The theorems *)

(* Every state of an inventory and its client is of its type. *)
THEOREM TypeCorrect == Spec => []TypeOK
<1>1. IInv => TypeOK
    BY DEF IInv
<1> QED
    BY <1>1, Invariance, PTL

(* No operation, by a client or a script, leaves a stack of none or hides  *)
(* one, whatever the starter items, the amounts and the flags.             *)
THEOREM StacksStayReal == Spec => []StacksAreReal
<1>1. IInv => StacksAreReal
    BY DEF IInv
<1> QED
    BY <1>1, Invariance, PTL

(* With channels of any length, the client shows what the server has as    *)
(* soon as the answers on their way have arrived, but for slots a script   *)
(* changed unheard.                                                        *)
THEOREM ClientAlwaysFollows == Spec => []ClientFollows
<1>1. IInv => ClientFollows
    BY DEF IInv
<1> QED
    BY <1>1, Invariance, PTL

(* Whatever a client asks for, by whatever copy of the container, it never *)
(* has more of anything afterwards, moving loses nothing, and using takes  *)
(* at most one.                                                            *)
THEOREM RequestsCreateNothing == Spec => ClientsCreateNothing
<1>1. IInv /\ [Next]_vars => [ConservesItems]_vars
    BY HandledConserves
<1> QED
    BY <1>1, Invariance, PTL DEF Spec, ClientsCreateNothing

(* In every reachable container, adding is all or nothing, and nothing     *)
(* only when it must be; no other item is touched.                         *)
THEOREM AddingIsExact == Spec => []AddIsExact
<1>1. IInv => AddIsExact
  <2> SUFFICES ASSUME IInv, NEW item \in Items \ {0}, NEW amount \in Amounts \ {0},
                      NEW flags \in Grants
               PROVE  /\ AddItem(slots, item, amount, flags).ok
                            <=> FreeSlots(slots) # {} \/ CountItem(slots, item) > 0
                      /\ \A other \in Items :
                            CountItem(AddItem(slots, item, amount, flags).inv, other) =
                                CountItem(slots, other)
                                    + (IF AddItem(slots, item, amount, flags).ok /\ other = item
                                       THEN amount ELSE 0)
      BY DEF AddIsExact
  <2>1. slots \in Containers /\ Real(slots)
      BY DEF IInv, TypeOK, StacksAreReal, Real
  <2>2. /\ item \in Nat /\ item > 0
        /\ amount \in Nat /\ amount > 0
        /\ flags \in Flags
      BY InventoryAssumption
  <2> QED
      BY <2>1, <2>2, AddExact
<1> QED
    BY <1>1, Invariance, PTL

(* In every reachable container, removing is all or nothing, and nothing   *)
(* only when there is less, however many stacks it takes; no other item is *)
(* touched.                                                                *)
THEOREM RemovingIsExact == Spec => []RemoveIsExact
<1>1. IInv => RemoveIsExact
  <2> SUFFICES ASSUME IInv, NEW item \in Items, NEW amount \in 1..(CountItem(slots, item) + 1)
               PROVE  /\ RemoveItem(slots, item, amount).ok <=> CountItem(slots, item) >= amount
                      /\ \A other \in Items :
                            CountItem(RemoveItem(slots, item, amount).inv, other) =
                                CountItem(slots, other)
                                    - (IF RemoveItem(slots, item, amount).ok /\ other = item
                                       THEN amount ELSE 0)
      BY DEF RemoveIsExact
  <2>1. slots \in Containers /\ Real(slots)
      BY DEF IInv, TypeOK, StacksAreReal, Real
  <2>2. item \in Nat /\ CountItem(slots, item) \in Nat
      BY <2>1, CountIsNat, InventoryAssumption
  <2>3. amount \in Nat /\ amount > 0
      BY <2>2
  <2> QED
      BY <2>1, <2>2, <2>3, RemoveExact
<1> QED
    BY <1>1, Invariance, PTL
=============================================================================
