---------------------------- MODULE OrderService ----------------------------
(***************************************************************************)
(* What the orders API promises its clients of the orders table, whatever  *)
(* goes on behind it: orders are added one at a time and never removed, a   *)
(* client_order_id names one order of an account, and every change of an    *)
(* order shows in its lock_version.                                         *)
(*                                                                          *)
(* Trading implements this specification; OrdersPage takes its server's     *)
(* behaviour from it.                                                       *)
(***************************************************************************)
EXTENDS Naturals

CONSTANTS OrderIds, NoKey

VARIABLE orders   \* the orders that exist, by id

SameKey(row, other) ==
    /\ row.client_order_id # NoKey
    /\ row.client_order_id = other.client_order_id
    /\ row.account = other.account

ServiceInit == orders = [o \in {} |-> 0]

\* Order o is new, and so is its key.
Placed(o) ==
    /\ orders'[o].status = "new"
    /\ orders'[o].lock_version = 0
    /\ \A p \in DOMAIN orders : ~ SameKey(orders'[o], orders[p])

\* Order o changed: a later version under the same key.
Changed(o) ==
    /\ orders'[o].lock_version > orders[o].lock_version
    /\ orders'[o].account = orders[o].account
    /\ orders'[o].client_order_id = orders[o].client_order_id

ServiceNext ==
    /\ DOMAIN orders \subseteq DOMAIN orders'
    /\ \A o \in DOMAIN orders : orders'[o] = orders[o] \/ Changed(o)
    /\ \A o \in DOMAIN orders' \ DOMAIN orders :
          Placed(o) /\ DOMAIN orders' = DOMAIN orders \cup {o}

ServiceSpec == ServiceInit /\ [][ServiceNext]_orders
=============================================================================
