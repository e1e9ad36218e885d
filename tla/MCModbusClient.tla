--------------------------- MODULE MCModbusClient ---------------------------
(***************************************************************************)
(* ModbusClient for TLC.  All requests have the same length, as most of    *)
(* those of a poll do, so that no answer is told by it.                    *)
(*                                                                         *)
(* Bus: one client with three callers alone on an RTU link, and another    *)
(* with one behind a gateway that numbers its frames and answers late.     *)
(* Shared: two clients, as of an entry and of a probe, for one meter.      *)
(***************************************************************************)
EXTENDS ModbusClient, TLC

CONSTANTS c1, c2, l1, l2, u1, t1, t2, t3, t4, r1, r2

BusLinks == c1 :> l1 @@ c2 :> l2
SharedLink == [c \in Clients |-> l1]
OneMeter == [c \in Clients |-> u1]
BusCallers == t1 :> c1 @@ t2 :> c1 @@ t3 :> c1 @@ t4 :> c2
SharedCallers == t1 :> c1 @@ t2 :> c2
Lengths == [r \in Requests |-> 2]
Reads == {<<r1, r2>>}
=============================================================================
