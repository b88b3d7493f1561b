----------------------------- MODULE MCInventory -----------------------------
(* Small instances of Inventory: one client and two devices exist.         *)
EXTENDS Inventory, TLC

CONSTANTS r1, r2, c1, d1, d2, h1, h2, h3, n1, n2, root, dmz, unknown

MCHostOf == d1 :> h1 @@ d2 :> h2
MCNameOf == c1 :> n1
=============================================================================
