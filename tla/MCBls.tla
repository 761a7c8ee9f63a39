-------------------------------- MODULE MCBls --------------------------------
(***************************************************************************)
(* Three nodes: n1 and n2 hold a key each and need both shares, n3 holds   *)
(* none.                                                                   *)
(***************************************************************************)
EXTENDS Bls

CONSTANTS n1, n2, n3, p1, p2

MCKeys == (n1 :> {p1}) @@ (n2 :> {p2}) @@ (n3 :> {})

\* The random numbers of the blocks select n1, then n3; an old one selects n2.
MCElected(random_no, num) ==
  IF Len(random_no) # num THEN n2 ELSE IF num % 2 = 0 THEN n1 ELSE n3

\* The node that has just been started is selected by block 0.
MCElectedFresh(random_no, num) == IF num = 0 THEN n3 ELSE MCElected(random_no, num)

\* What the theorems of BlsProofs suppose holds of the instance, but where block 0
\* selects the fresh node.
ASSUME MCBlsRounds == Elected(<<>>, 0) \notin Fresh => Rounds
=============================================================================
