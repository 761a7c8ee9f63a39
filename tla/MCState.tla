------------------------------ MODULE MCState ------------------------------
(* A state over four accounts whose hashes share prefixes of every length. *)
EXTENDS State, Trie

CONSTANTS none, x, y

MCAddr == {"a", "b", "c", "d"}
MCNibble == {0, 1}
MCsha3 == [a |-> <<0, 0, 0, 0>>, b |-> <<0, 0, 0, 1>>, c |-> <<0, 1, 0, 1>>, d |-> <<1, 0, 1, 0>>]
MCGenesis == [a |-> x]
MCBalances == {none, x, y}

Set(a, v) == [addr |-> a, balance |-> v]
Give(s, t, v, rest) == [sender |-> s, writes |-> <<Set(t, v), Set(s, rest)>>]
t1 == Give("a", "b", x, y)
t2 == Give("b", "c", y, none)
t3 == Give("a", "d", x, none)
t4 == [sender |-> "c", writes |-> <<Set("c", x)>>]
MCTx == {t1, t2, t3, t4}
MCTxLists == {<<>>, <<t1>>, <<t4>>, <<t2, t3>>, <<t3, t1>>}

\* Odd and even lengths, the empty key and prefixes of the hashes.
MCProbeKeys == {<<>>, <<0>>, <<1, 0>>, <<0, 0, 0>>, <<0, 1, 0, 0>>, <<0, 0, 0, 1, 1>>}

(* The operations of the trie *)
MCget(root, key) == _get(root, key)
MCupdate(root, key, value) == update(root, key, value)
MCto_dict(root) == to_dict(root)
MCof(d) == TrieOf(d)
MCnodes(root) == Nodes(root)

\* The values of four accounts; every dictionary of them is tried.
MCAccounts == {[nonce |-> n, balance |-> b] : n \in 0..1, b \in {none, x}}
MCTrieLaws == TrieLaws(MCAccounts)

\* The trie keeps to the laws that the theorems about State rest on, for every
\* dictionary of these accounts.  In the tries that the node builds it is a
\* dictionary for every other key too, prefixes of hashes included: a written key
\* is listed and counted with the rest, and deleting it gives back the node there
\* was, in the form a trie that never had it has.
TrieIsDictionary ==
  /\ MCTrieLaws
  /\ \A k \in MCProbeKeys \cup {sha3[a] : a \in Addr} :
       LET d       == to_dict(head.trie)
           written == (k :> BlankAccount) @@ d
           node    == update(head.trie, k, BlankAccount).node
           removed == TrieOf([s \in DOMAIN d \ {k} |-> d[s]])
       IN  /\ to_dict(node) = written /\ _get_size(node) = Cardinality(DOMAIN written)
           /\ \A s \in DOMAIN written : _get(node, s) = written[s]
           /\ _delete(node, k) = removed /\ _delete(head.trie, k) = removed

=============================================================================
