------------------------------ MODULE Supplies ------------------------------
(* The places of a unit for supplies, which its data (UnitStore) and the    *)
(* names it shows (NameFlash) are about.                                    *)
EXTENDS Integers

CONSTANT SUPPLIES_NUM   \* 10 in the code

ASSUME PlacesAssumption == SUPPLIES_NUM \in Nat \ {0}

Places == 0 .. SUPPLIES_NUM - 1
=============================================================================
