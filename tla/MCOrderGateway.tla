--------------------------- MODULE MCOrderGateway ---------------------------
(* Model-checking instances of OrderGateway.                               *)
EXTENDS OrderGateway

CONSTANTS k1, k2, k3

Order(i, k) == [intent |-> i, key |-> k]

\* two orders, the first one also replayed under the key of the other
TwoOrders == {Order(1, k1), Order(1, k2), Order(2, k2)}

\* three plain orders
ThreeOrders == {Order(1, k1), Order(2, k2), Order(3, k3)}
=============================================================================
