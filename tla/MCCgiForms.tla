------------------------------ MODULE MCCgiForms ------------------------------
(***************************************************************************)
(* A small instance of CgiForms, with the order of the code's limits: keys  *)
(* shorter than names of files, these shorter than form elements, these     *)
(* shorter than paths; names longer than what is opened are let through.    *)
(***************************************************************************)
EXTENDS CgiForms

Of(word, len) == [word |-> word, len |-> len]

(* Empty, short, at and beyond each limit.                                  *)
SomeTexts ==
  {Of("a", 0), Of("a", 1), Of("a", 2), Of("a", 3), Of("b", 1), Of("b", 4), Of("b", 6)}

SomeNames == [u \in Users |-> IF u = "admin" THEN Of("a", 1) ELSE Of("b", 1)]
SomePasswds == [u \in Users |-> Of("a", 1)]
===============================================================================
