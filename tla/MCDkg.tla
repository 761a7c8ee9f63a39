------------------------------- MODULE MCDkg -------------------------------
(* Two nodes with addresses in the new group, of which one was in the old  *)
(* group too and one with other addresses, and a node just started.  IPs:  *)
(* of the signer, of another address of its node, of the other node, one   *)
(* delegated by the other node to this address, and one without owner.     *)
EXTENDS Dkg

CONSTANTS n1, n2, f

MCNode == {n1, n2, f}
MCAddrs == (n1 :> {"a1"}) @@ (n2 :> {"a2", "a3", "a4"}) @@ (f :> {})
MCOld == {"a1", "a3", "a4"}
MCNew == {"a1", "a2"}
MCFresh == {f}
MCHolder == <<"a2", "a3", "a1", "a3", "nobody">>
MCOwner  == <<"a2", "a3", "a1", "a1", "nobody">>
=============================================================================
