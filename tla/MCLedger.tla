------------------------------ MODULE MCLedger ------------------------------
(***************************************************************************)
(* A small instance of the ledger: three accounts and three nested         *)
(* prefixes of one, two and four IP addresses, the last of which is more   *)
(* than len() counts.                                                      *)
(***************************************************************************)
EXTENDS Ledger, TLC

CONSTANTS a1, a2, a3, ms, r1, r2

MCIP == 1..4
MCPrefix == {{1}, {1, 2}, {1, 2, 3, 4}}

\* a1 owns everything at genesis; the two other accounts are alike.
MCGenesis == [a \in Addr |-> IF a = a1 THEN {{1, 2, 3, 4}} ELSE {}]
MCSymmetry == Permutations({a2, a3})

MCMapServerMeta == {<<ms>>}
MCPrioWeight == {<<1, 50>>, <<2, 100>>}
MCLocatorMeta ==
  {<<[rloc |-> r1, pw |-> <<1, 50>>], [rloc |-> r2, pw |-> <<2, 100>>]>>}
=============================================================================
