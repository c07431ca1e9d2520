------------------------------ MODULE MCLogStore ------------------------------
(***************************************************************************)
(* A small instance of LogStore: the clock passes from one digit to two.    *)
(***************************************************************************)
EXTENDS LogStore

Look(s, e, typ, sgnfcc) == [s |-> s, e |-> e, typ |-> typ, sgnfcc |-> sgnfcc]

SomeFilters ==
  {Look(1, 9, "ALL", "ALL"), Look(10, 99, "SYSTEM", "GENERAL"), Look(1, 9, "USER", "KEY")}
===============================================================================
