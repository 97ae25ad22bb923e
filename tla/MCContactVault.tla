--------------------------- MODULE MCContactVault ---------------------------
(***************************************************************************)
(* Instances of ContactVault for TLC.                                      *)
(***************************************************************************)
EXTENDS ContactVault

CONSTANTS p1, p2, k1, k2

MCPeople == {p1, p2}
OldPeople == {p2}
MCKeys == {k1, k2}

\* Before, during and after a change from k1 to k2, and no key at all.
MCKeyrings ==
  {[current |-> k1, previous |-> {}],
   [current |-> k2, previous |-> {k1}],
   [current |-> k2, previous |-> {}],
   [current |-> NoKey, previous |-> {}]}
=============================================================================
