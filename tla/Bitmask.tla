-------------------------------- MODULE Bitmask --------------------------------
(***************************************************************************)
(* Sets of priorities as bit masks (emf_bitmask.c): bit n - 1 of the mask  *)
(* stands for priority n, eight to a byte.                                 *)
(***************************************************************************)
EXTENDS Naturals, FiniteSetsExt

Byte(prio) == (prio - 1) \div 8

\* EMF_bitmask_findMax(): the highest priority of the lowest byte in use.
FindMax(S) ==
  IF S = {} THEN 0
  ELSE Max({o \in S : Byte(o) = Min({Byte(p) : p \in S})})
=============================================================================
