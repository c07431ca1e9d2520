-------------------------------- MODULE MCPing --------------------------------
(***************************************************************************)
(* Small instances of Ping: numbers of two bits, so that they wrap.         *)
(***************************************************************************)
EXTENDS Ping
===============================================================================
