-------------------------------- MODULE Trie --------------------------------
(***************************************************************************)
(* The Merkle Patricia trie of trie.py, as pure operators.                 *)
(*                                                                         *)
(* A node is BLANK_NODE, a pair [key, val] (leaf or extension, told apart  *)
(* by the terminator flag inside the packed key) or a branch [items,       *)
(* value].  sha3 is taken to be injective, so a reference to a node is     *)
(* [sha3 |-> node] and fetching it undoes that; whether the database       *)
(* really holds the node is a question for the module that keeps the       *)
(* database.  Every node of this program encodes to 32 bytes or more (a    *)
(* pickled balance, a signed transaction or a hash is inside), so no node  *)
(* is embedded in its parent.                                              *)
(***************************************************************************)
EXTENDS Naturals, SequencesExt, FiniteSetsExt

CONSTANTS BLANK_NODE,   \* the empty string of the code
          Nibble        \* the nibbles that occur in keys, out of 0..15

NIBBLE_TERMINATOR == 16

ASSUME TrieAssumption == Nibble \subseteq 0..15

-----------------------------------------------------------------------------
(* Keys *)

EndsInTerminator(nibbles) == nibbles # <<>> /\ Last(nibbles) = NIBBLE_TERMINATOR

with_terminator(nibbles) ==
  IF EndsInTerminator(nibbles) THEN nibbles ELSE Append(nibbles, NIBBLE_TERMINATOR)

without_terminator(nibbles) ==
  IF EndsInTerminator(nibbles) THEN Front(nibbles) ELSE nibbles

\* Mutant: what is left of an extension becomes a leaf.
adapt_terminator_leaf(nibbles, has_terminator) == with_terminator(nibbles)

adapt_terminator(nibbles, has_terminator) ==
  IF has_terminator THEN with_terminator(nibbles) ELSE without_terminator(nibbles)

\* A packed key is a whole number of bytes: flags, a padding nibble if needed, the key.
pack_nibbles(nibbles) ==
  LET body  == without_terminator(nibbles)
      odd   == Len(body) % 2
      flags == odd + (IF EndsInTerminator(nibbles) THEN 2 ELSE 0)
  IN  (IF odd = 1 THEN <<flags>> ELSE <<flags, 0>>) \o body

unpack_to_nibbles(packed) ==
  LET flags == packed[1]
      body  == SubSeq(packed, IF flags % 2 = 1 THEN 2 ELSE 3, Len(packed))
  IN  IF flags \div 2 = 1 THEN with_terminator(body) ELSE body

From(seq, n) == SubSeq(seq, n + 1, Len(seq))

-----------------------------------------------------------------------------
(* Nodes *)

Pair(nibbles, val) == [key |-> pack_nibbles(nibbles), val |-> val]
Leaf(nibbles, value) == Pair(with_terminator(nibbles), value)
BlankBranch == [items |-> [n \in Nibble |-> BLANK_NODE], value |-> BLANK_NODE]

_encode_node(node) == IF node = BLANK_NODE THEN BLANK_NODE ELSE [sha3 |-> node]
_decode_to_node(encoded) ==
  IF encoded = BLANK_NODE THEN BLANK_NODE ELSE encoded.sha3

_get_node_type(node) ==
  CASE node = BLANK_NODE -> "BLANK"
    [] node # BLANK_NODE /\ "items" \in DOMAIN node -> "BRANCH"
    [] OTHER -> IF EndsInTerminator(unpack_to_nibbles(node.key))
                THEN "LEAF" ELSE "EXTENSION"

curr_key(node) == without_terminator(unpack_to_nibbles(node.key))

-----------------------------------------------------------------------------
(* Reading *)

RECURSIVE _get(_, _)
_get(node, key) ==
  CASE _get_node_type(node) = "BLANK" -> BLANK_NODE
    [] _get_node_type(node) = "BRANCH" ->
         IF key = <<>> THEN node.value
         ELSE _get(_decode_to_node(node.items[Head(key)]), Tail(key))
    [] _get_node_type(node) = "LEAF" ->
         IF key = curr_key(node) THEN node.val ELSE BLANK_NODE
    [] OTHER ->
         IF IsPrefix(curr_key(node), key)
         THEN _get(_decode_to_node(node.val), From(key, Len(curr_key(node))))
         ELSE BLANK_NODE

\* The dictionary the trie stands for, keyed by nibbles with their terminator.
RECURSIVE _to_dict(_)
_to_dict(node) ==
  LET below(prefix, d) ==
        [k \in {prefix \o s : s \in DOMAIN d} |-> d[From(k, Len(prefix))]]
      sub(n) == below(<<n>>, _to_dict(_decode_to_node(node.items[n])))
      own == IF node.value = BLANK_NODE THEN <<>>
             ELSE [k \in {<<NIBBLE_TERMINATOR>>} |-> node.value]
  IN  CASE _get_node_type(node) = "BLANK" -> <<>>
        [] _get_node_type(node) = "BRANCH" ->
             FoldSet(LAMBDA n, d : sub(n) @@ d, own, Nibble)
        [] _get_node_type(node) = "LEAF" ->
             below(curr_key(node), [k \in {<<NIBBLE_TERMINATOR>>} |-> node.val])
        [] OTHER -> below(curr_key(node), _to_dict(_decode_to_node(node.val)))

to_dict(node) ==
  LET d == _to_dict(node)
  IN  [k \in {without_terminator(s) : s \in DOMAIN d} |-> d[with_terminator(k)]]

RECURSIVE _get_size(_)
_get_size(node) ==
  CASE _get_node_type(node) = "BLANK" -> 0
    [] _get_node_type(node) = "LEAF" -> 1
    [] _get_node_type(node) = "EXTENSION" -> _get_size(_decode_to_node(node.val))
    [] OTHER -> FoldSet(LAMBDA n, s : s + _get_size(_decode_to_node(node.items[n])),
                        IF node.value = BLANK_NODE THEN 0 ELSE 1, Nibble)

-----------------------------------------------------------------------------
(* Writing.  An update yields the new node and the nodes that _encode_node *)
(* stored on the way.  Replaced nodes are noted in trie.deletes, a list    *)
(* that State.commit empties and nothing reads.                            *)

Made(node, puts) == [node |-> node, puts |-> puts]

\* A child is encoded, that is stored, and its hash put into item n of the branch.
PutItem(m, n, child) ==
  [m EXCEPT !.node.items[n] = _encode_node(child), !.puts = @ \cup {child}]

\* A blank branch that takes what the pair node had below the shared prefix.
BranchFor(node, is_inner, remain_curr_key) ==
  CASE remain_curr_key = <<>> -> Made([BlankBranch EXCEPT !.value = node.val], {})
    [] Len(remain_curr_key) = 1 /\ is_inner ->
         Made([BlankBranch EXCEPT !.items[Head(remain_curr_key)] = node.val], {})
    [] OTHER ->
         PutItem(Made(BlankBranch, {}), Head(remain_curr_key),
                 Pair(adapt_terminator(Tail(remain_curr_key), ~is_inner), node.val))

\* The new value goes into that branch.
AddValue(m, remain_key, value) ==
  IF remain_key = <<>> THEN [m EXCEPT !.node.value = value]
  ELSE PutItem(m, Head(remain_key), Leaf(Tail(remain_key), value))

\* An extension by the shared prefix, if there is one.
Extend(prefix, m) ==
  IF prefix = <<>> THEN m
  ELSE Made(Pair(prefix, _encode_node(m.node)), m.puts \cup {m.node})

RECURSIVE _update(_, _, _)

UpdateBelow(node, is_inner, prefix, remain_key, remain_curr_key, value) ==
  CASE remain_curr_key = <<>> /\ is_inner ->
         Extend(prefix, _update(_decode_to_node(node.val), remain_key, value))
    [] remain_curr_key = <<>> /\ ~is_inner /\ remain_key = <<>> ->
         Made([node EXCEPT !.val = value], {})
    [] OTHER ->
         Extend(prefix, AddValue(BranchFor(node, is_inner, remain_curr_key), remain_key, value))

UpdateAt(node, key, value, prefix) ==
  UpdateBelow(node, _get_node_type(node) = "EXTENSION", prefix,
              From(key, Len(prefix)), From(curr_key(node), Len(prefix)), value)

_update_kv_node(node, key, value) ==
  UpdateAt(node, key, value, LongestCommonPrefix({key, curr_key(node)}))

_update(node, key, value) ==
  CASE _get_node_type(node) = "BLANK" -> Made(Leaf(key, value), {})
    [] _get_node_type(node) = "BRANCH" /\ key = <<>> ->
         Made([node EXCEPT !.value = value], {})
    [] _get_node_type(node) = "BRANCH" /\ key # <<>> ->
         LET sub == _update(_decode_to_node(node.items[Head(key)]), Tail(key), value)
         IN  Made([node EXCEPT !.items[Head(key)] = _encode_node(sub.node)],
                  sub.puts \cup {sub.node})
    [] OTHER -> _update_kv_node(node, key, value)

\* Mutant: only the root node is stored.
update_root_only(root, key, value) ==
  LET m == _update(root, key, value) IN Made(m.node, {m.node})

\* The root node is stored whatever its size (_update_root_hash).
update(root, key, value) ==
  LET m == _update(root, key, value) IN Made(m.node, m.puts \cup {m.node})

-----------------------------------------------------------------------------
(* Deleting.  State.commit deletes no account that transactions touch, so  *)
(* no run of the program takes this path, and the nodes that it stores are *)
(* left out.                                                               *)

\* Mutant: a branch with one item left stays a branch.
_normalize_nothing(node) ==
  IF \A n \in Nibble : node.items[n] = BLANK_NODE THEN Leaf(<<>>, node.value) ELSE node

_normalize_branch_node(node) ==
  LET full == {n \in Nibble : node.items[n] # BLANK_NODE}
      only == CHOOSE n \in full : TRUE
      sub  == _decode_to_node(node.items[only])
  IN  CASE Cardinality(full) + (IF node.value = BLANK_NODE THEN 0 ELSE 1) > 1 -> node
        [] full = {} -> Leaf(<<>>, node.value)
        [] OTHER -> IF _get_node_type(sub) = "BRANCH"
                    THEN Pair(<<only>>, _encode_node(sub))
                    ELSE Pair(<<only>> \o unpack_to_nibbles(sub.key), sub.val)

RECURSIVE _delete(_, _)

_delete_branch_node(node, key) ==
  IF key = <<>> THEN _normalize_branch_node([node EXCEPT !.value = BLANK_NODE])
  ELSE LET sub == _encode_node(_delete(_decode_to_node(node.items[Head(key)]), Tail(key)))
           cut == [node EXCEPT !.items[Head(key)] = sub]
       IN  IF sub = BLANK_NODE /\ cut # node THEN _normalize_branch_node(cut) ELSE cut

_delete_kv_node(node, key) ==
  LET sub == _delete(_decode_to_node(node.val), From(key, Len(curr_key(node))))
  IN  CASE ~IsPrefix(curr_key(node), key) -> node
        [] IsPrefix(curr_key(node), key) /\ _get_node_type(node) = "LEAF" ->
             IF key = curr_key(node) THEN BLANK_NODE ELSE node
        [] OTHER ->
             CASE _encode_node(sub) = node.val -> node
               [] sub = BLANK_NODE -> BLANK_NODE
               [] OTHER -> IF _get_node_type(sub) = "BRANCH"
                           THEN Pair(curr_key(node), _encode_node(sub))
                           ELSE Pair(curr_key(node) \o unpack_to_nibbles(sub.key), sub.val)

_delete(node, key) ==
  CASE _get_node_type(node) = "BLANK" -> BLANK_NODE
    [] _get_node_type(node) = "BRANCH" -> _delete_branch_node(node, key)
    [] OTHER -> _delete_kv_node(node, key)

-----------------------------------------------------------------------------
(* What the trie of a dictionary should be, from the dictionary alone: the *)
(* shared prefix in an extension, a branch where the keys part.            *)

RECURSIVE TrieOf(_)
TrieOf(d) ==
  LET prefix == LongestCommonPrefix(DOMAIN d)
      under(n) == {k \in DOMAIN d : Len(k) > Len(prefix) /\ k[Len(prefix) + 1] = n}
      sub(n) == [s \in {From(k, Len(prefix) + 1) : k \in under(n)} |->
                   d[prefix \o <<n>> \o s]]
      branch == [items |-> [n \in Nibble |-> _encode_node(TrieOf(sub(n)))],
                 value |-> IF prefix \in DOMAIN d THEN d[prefix] ELSE BLANK_NODE]
  IN  CASE DOMAIN d = {} -> BLANK_NODE
        [] Cardinality(DOMAIN d) = 1 -> Leaf(prefix, d[prefix])
        [] OTHER -> IF prefix = <<>> THEN branch ELSE Pair(prefix, _encode_node(branch))

\* The nodes that must be fetched to read the whole trie.
RECURSIVE Nodes(_)
Nodes(node) ==
  CASE _get_node_type(node) = "BLANK" -> {}
    [] _get_node_type(node) = "LEAF" -> {node}
    [] _get_node_type(node) = "EXTENSION" -> {node} \cup Nodes(_decode_to_node(node.val))
    [] OTHER -> {node} \cup UNION {Nodes(_decode_to_node(node.items[n])) : n \in Nibble}

=============================================================================
