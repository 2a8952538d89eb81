--------------------------- MODULE MCTransaction ---------------------------
(* Model of Transaction: how many commands each client object issues. *)
EXTENDS Transaction

OpsPerClient == [c \in Clients |-> IF c = Base THEN 1 ELSE 4]
=============================================================================
