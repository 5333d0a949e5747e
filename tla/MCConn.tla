-------------------------------- MODULE MCConn --------------------------------
(* Instances of Conn for TLC. *)
EXTENDS Conn, TLC

CONSTANTS c1, c2, c3

(* Every caller has a message id of its own; id 0 is the peer's. *)
MCDistinct == (c1 :> 1) @@ (c2 :> 2) @@ (c3 :> 3)

(* Both callers use the same id, as two cutovers on one connection do. *)
MCShared == (c1 :> 1) @@ (c2 :> 1)

MCOnce == [c \in Caller |-> 1]

(* The first caller comes back with its id, the others ask once. *)
MCRequests == (c1 :> 2) @@ (c2 :> 1) @@ (c3 :> 1)
===============================================================================
