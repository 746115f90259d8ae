------------------------- MODULE MCCommandExecutor --------------------------
(* CommandExecutor with the strings "0" for plain SETs and "text" for SETs  *)
(* with EX, so that a stored value tells which command wrote it.  Clients   *)
(* send every command about Busy's keys and only SET the others, which      *)
(* evicts the busy ones from a store that is full.                          *)
EXTENDS CommandExecutor

CONSTANT Busy, BusyOp

Plain == {[kind |-> "int", n |-> 0]}
Ttl == {[kind |-> "text", n |-> 0]}
Commands == [k \in Key |-> IF k \in Busy THEN BusyOp ELSE {"SET"}]
=============================================================================
