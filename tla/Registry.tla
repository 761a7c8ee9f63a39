------------------------------ MODULE Registry ------------------------------
(***************************************************************************)
(* What the ledger promises, with the bookkeeping of its accounts left     *)
(* out: every IP address has at most one owner and is on loan to at most   *)
(* one address.  Only the owner of all of a prefix disposes of it, by      *)
(* transferring it, which ends the loans of what it transfers, or lending  *)
(* it, which replaces the old loans.  Each prefix disposed of in a block   *)
(* is announced with the account it was given to, and what is announced as *)
(* transferred to another account is owned by that account.  A transfer to *)
(* oneself gives the addresses up: nobody owns them from then on.          *)
(***************************************************************************)
CONSTANTS Addr, Nobody, IP, Prefix

VARIABLES
  owner,       \* owner[ip]: the account ip belongs to, or Nobody
  delegatee,   \* delegatee[ip]: the account ip is delegated to, or Nobody
  moved        \* moved[p]: the account this block gave or lent p to, or Nobody

Owned(s, ips) == \A ip \in ips : owner[ip] = s

Assign(f, ips, v) == [ip \in IP |-> IF ip \in ips THEN v ELSE f[ip]]

Transfer(s, t, ips) ==
  /\ Owned(s, ips)
  /\ owner' = Assign(owner, ips, IF s = t THEN Nobody ELSE t)
  /\ delegatee' = Assign(delegatee, ips, Nobody)
  /\ moved' = [moved EXCEPT ![ips] = t]

Lend(s, t, ips) ==
  /\ Owned(s, ips)
  /\ delegatee' = Assign(delegatee, ips, t)
  /\ moved' = [moved EXCEPT ![ips] = t]
  /\ UNCHANGED owner

\* The end of a block.
Settle ==
  /\ moved' = [p \in Prefix |-> Nobody]
  /\ UNCHANGED <<owner, delegatee>>

Init ==
  /\ owner \in [IP -> Addr \cup {Nobody}]
  /\ delegatee = [ip \in IP |-> Nobody]
  /\ moved = [p \in Prefix |-> Nobody]

Next ==
  \/ \E s, t \in Addr, ips \in Prefix : Transfer(s, t, ips) \/ Lend(s, t, ips)
  \/ Settle

Spec == Init /\ [][Next]_<<owner, delegatee, moved>>
=============================================================================
