--------------------------- MODULE MCLocalApiWorker ---------------------------
(* Two addresses, one also without a backoff after errors, and polling off.    *)
EXTENDS LocalApiWorker

CONSTANTS a1, a2

AllSettings == [on : {TRUE}, ip : Address, backs : {TRUE}]
               \cup [on : BOOLEAN, ip : {a1}, backs : {FALSE}]

===============================================================================
