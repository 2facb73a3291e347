---------------------------- MODULE MCInventory ----------------------------
EXTENDS Inventory

AllFlags == {"use", "drop", "move"}

MCStarter ==
    [s \in {0} |-> [item |-> 1, amount |-> 2, flags |-> AllFlags]]

MCGrants == {{"use", "drop"}}

MCAmounts == {1}
=============================================================================
