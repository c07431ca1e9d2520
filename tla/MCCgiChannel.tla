---------------------------- MODULE MCCgiChannel ----------------------------
(* Small instances of CgiChannel.  The clients are interchangeable.         *)
EXTENDS CgiChannel

ClientSymmetry == Permutations(Clients)
=============================================================================
