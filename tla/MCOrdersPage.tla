---------------------------- MODULE MCOrdersPage ----------------------------
(* A small instance of OrdersPage for TLC. *)
EXTENDS OrdersPage, TLC

Perms == Permutations(Forms)
=============================================================================
