------------------------------ MODULE MCChain ------------------------------
(***************************************************************************)
(* A small instance of a node: two accounts, of which the node holds one,  *)
(* two IPv6 addresses and one IPv4 address.                                *)
(***************************************************************************)
EXTENDS Chain

CONSTANTS a1, a2

MCIP == 1..3
MCPrefix == {{1}, {1, 2}, {3}}
MCGenesis == [a \in Addr |-> IF a = a1 THEN {{1, 2}, {3}} ELSE {}]

Move(c, s, t, ips, n, afi) ==
  [category |-> c, sender |-> s, to |-> t, value |-> ips, nonce |-> n,
   metadata |-> <<>>, afi |-> afi]

\* A delegation to oneself and what it makes raise later; an allocation with the
\* same nonce; an IPv4 allocation; a delegation by the receiver.
SelfLoan == Move(DELEGATE, a1, a1, {1}, 0, 2)
Give     == Move(ALLOCATE, a1, a2, {1}, 0, 2)
GiveAll  == Move(ALLOCATE, a1, a2, {1, 2}, 1, 2)
Give4    == Move(ALLOCATE, a1, a2, {3}, 0, 1)
LoanBack == Move(DELEGATE, a2, a1, {1}, 0, 2)

MCTx == {SelfLoan, Give, GiveAll, Give4, LoanBack}
MCBlockTxs == {<<>>, <<SelfLoan>>, <<Give, SelfLoan>>, <<GiveAll>>}
=============================================================================
