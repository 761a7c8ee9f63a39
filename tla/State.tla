-------------------------------- MODULE State --------------------------------
(***************************************************************************)
(* The account state of one node (state.py, account.py, securetrie.py):    *)
(* a cache of accounts with an undo journal, over a Merkle Patricia trie,  *)
(* over LevelDB (db.py).  The operations of the trie are parameters: the   *)
(* model checker runs them as module Trie translates them, the theorems    *)
(* hold for any that keep to TrieLaws.                                     *)
(*                                                                         *)
(* The node creates blocks on copies of this state, applies blocks to the  *)
(* state itself, and after a restart loads it from the state root that the *)
(* header of its head block names.  What transactions do to balances is    *)
(* the subject of module Ledger; here a transaction is the list of         *)
(* balances it writes.                                                     *)
(***************************************************************************)
EXTENDS Naturals, SequencesExt, FiniteSetsExt

CONSTANTS
  BLANK,                 \* BLANK_NODE: the root of an empty trie, the value of an absent key
  trie_get(_, _),        \* the value of a key
  trie_update(_, _, _),  \* sets a key: [node, puts], the new root node and what was stored
  trie_to_dict(_),       \* the keys and values under a root node
  trie_of(_),            \* the root node of the trie that is this dictionary
  trie_nodes(_)          \* the nodes that reading all of a trie fetches

CONSTANTS
  Addr,           \* addresses
  sha3,           \* sha3 of an address: its key in the trie
  Balances,       \* values of a balance
  NoBalance,      \* Balance(IPSet()), the balance of a blank account
  Genesis,        \* genesis balances: a function on a subset of Addr
  Tx,             \* transactions: [sender, writes], writes a sequence of [addr, balance]
  TxLists,        \* transaction lists of blocks
  MaxHeight, MaxCrash    \* bounds

ASSUME StateAssumption ==
  /\ IsFiniteSet(Addr)
  /\ DOMAIN sha3 = Addr /\ \A a, b \in Addr : sha3[a] = sha3[b] => a = b
  /\ NoBalance \in Balances
  /\ DOMAIN Genesis \subseteq Addr /\ \A a \in DOMAIN Genesis : Genesis[a] \in Balances
  /\ \A tx \in Tx : tx.sender \in Addr /\ tx.writes \in Seq([addr : Addr, balance : Balances])
  /\ \A l \in TxLists : l \in Seq(Tx)
  /\ {MaxHeight, MaxCrash} \subseteq Nat

VARIABLES
  pc,            \* "idle", "apply", "stopping" after an exception, "down"
  head,          \* chain.state: its root node, cache and journal
  block,         \* the block in hand: its transactions and header.state_root
  done,          \* how many of its transactions have been applied
  snapshot,      \* what state.snapshot() returned when apply_block began
  uncommitted,   \* LevelDB.uncommitted
  disk,          \* the LevelDB files
  db_root,       \* header.state_root of the block that 'head_hash' names on disk
  height,        \* its number; 0 while 'head_hash' has not been written
  accounts,      \* history: the accounts as the transactions applied so far leave them
  before,        \* history: the accounts when the block in hand was begun
  crashes        \* history: number of crashes

vars == <<pc, head, block, done, snapshot, uncommitted, disk, db_root, height,
          accounts, before, crashes>>

-----------------------------------------------------------------------------
(* State objects.  An account is [nonce, balance]; its copy in the cache   *)
(* also has the flag touched.  The rlp of an account is the account.       *)

\* A Python dictionary after d[k] = v.
Put(d, k, v) == [x \in DOMAIN d \cup {k} |-> IF x = k THEN v ELSE d[x]]

BlankAccount == [nonce |-> 0, balance |-> NoBalance]
rlp(acct) == [nonce |-> acct.nonce, balance |-> acct.balance]

StateAt(root) == [trie |-> root, cache |-> <<>>, journal |-> <<>>]

Untouched(acct) == [nonce |-> acct.nonce, balance |-> acct.balance, touched |-> FALSE]

get_and_cache_account(s, a) ==
  LET data == trie_get(s.trie, sha3[a])
      acct == Untouched(IF data = BLANK THEN BlankAccount ELSE data)
  IN  IF a \in DOMAIN s.cache THEN s ELSE [s EXCEPT !.cache = Put(@, a, acct)]

Account(s, a) == get_and_cache_account(s, a).cache[a]

set_and_journal(s, a, param, val) ==
  [trie    |-> s.trie,
   cache   |-> [s.cache EXCEPT ![a][param] = val],
   journal |-> Append(s.journal, [addr |-> a, param |-> param, preval |-> s.cache[a][param]])]

\* set_balance, set_nonce: load the account, write the field, mark the account.
Write(s, a, param, val) ==
  set_and_journal(set_and_journal(get_and_cache_account(s, a), a, param, val),
                  a, "touched", TRUE)
set_balance(s, a, balance) == Write(s, a, "balance", balance)
set_nonce(s, a, nonce) == Write(s, a, "nonce", nonce)
increment_nonce(s, a) == Write(s, a, "nonce", Account(s, a).nonce + 1)

\* Every touched account goes to the trie; a touched account exists.  The order
\* is that of a Python dictionary.  Yields the root node and what was put in the db.
Preimage(a) == [preimage |-> a]
store_touched(s) ==
  LET touched == {a \in DOMAIN s.cache : s.cache[a].touched}
      step(a, m) ==
        LET u == trie_update(m.node, sha3[a], rlp(s.cache[a]))
        IN  [node |-> u.node, puts |-> m.puts \cup u.puts \cup {Preimage(a)}]
  IN  FoldSet(step, [node |-> s.trie, puts |-> {}], touched)

\* Mutant: the cache and the journal outlive the commit.
commit_keep(s) ==
  LET stored == store_touched(s)
  IN  [state |-> [s EXCEPT !.trie = stored.node], puts |-> stored.puts]

\* commit empties the cache and the journal.
commit(s) ==
  LET stored == store_touched(s)
  IN  [state |-> StateAt(stored.node), puts |-> stored.puts]

\* The accounts written by a transaction, in order; the nonce of the sender last.
apply_writes(s, writes) ==
  FoldLeft(LAMBDA t, w : set_balance(t, w.addr, w.balance), s, writes)

apply_transaction(s, tx) ==
  commit(increment_nonce(apply_writes(get_and_cache_account(s, tx.sender), tx.writes),
                         tx.sender))

apply_all(s, txs) == FoldLeft(LAMBDA t, tx : apply_transaction(t, tx).state, s, txs)

\* State.to_dict loads every address of the trie, whose keys it gets back from
\* the preimages, and lists the whole cache: blank accounts that were only read
\* are in it too.
addresses(s) == {a \in Addr : sha3[a] \in DOMAIN trie_to_dict(s.trie)}
load_all(s) == FoldSet(LAMBDA a, t : get_and_cache_account(t, a), s, addresses(s))

\* The accounts in the cache.
cached_accounts(s) == [a \in DOMAIN s.cache |-> rlp(s.cache[a])]

to_snapshot(s) == cached_accounts(load_all(s))

from_snapshot(alloc) ==
  commit(FoldSet(LAMBDA a, t : set_nonce(set_balance(t, a, alloc[a].balance),
                                         a, alloc[a].nonce),
                 StateAt(BLANK), DOMAIN alloc)).state

state_from_genesis_declaration ==
  commit(FoldSet(LAMBDA a, t : set_balance(t, a, Genesis[a]),
                 StateAt(BLANK), DOMAIN Genesis))

\* Mutant: the copy is made from a listing.
clone_listed(s) == from_snapshot(to_snapshot(s))

\* State.clone, on an OverlayDB: what the copy stores is dropped with the copy.
clone(s) == [s EXCEPT !.cache = <<>>]

Snapshot(s) == [root |-> s.trie, len |-> Len(s.journal)]

undo(e, s) == [s EXCEPT !.cache[e.addr][e.param] = e.preval]
pop_journal(s, len) ==
  [FoldRight(undo, SubSeq(s.journal, len + 1, Len(s.journal)), s) EXCEPT !.journal = SubSeq(@, 1, len)]

\* Mutant: the cache is kept although the root is another one.
revert_keep_cache(s, snap) == [pop_journal(s, snap.len) EXCEPT !.trie = snap.root]

\* Mutant: the journal is kept.
revert_keep_journal(s, snap) == [s EXCEPT !.trie = snap.root, !.cache = <<>>]

\* Undo the journal; if transactions were committed since, go back to the old root.
revert(s, snap) ==
  LET popped == pop_journal(s, snap.len)
  IN  IF snap.root = s.trie THEN popped
      ELSE [trie |-> snap.root, cache |-> <<>>, journal |-> popped.journal]

-----------------------------------------------------------------------------
(* The accounts a list of writes should leave, without cache or trie *)

AccountIn(d, a) == IF a \in DOMAIN d THEN d[a] ELSE BlankAccount
Wrote(d, w) == Put(d, w.addr, [AccountIn(d, w.addr) EXCEPT !.balance = w.balance])
After(d, tx) ==
  LET m == FoldLeft(Wrote, d, tx.writes)
  IN  Put(m, tx.sender, [AccountIn(m, tx.sender) EXCEPT !.nonce = @ + 1])
AfterAll(d, txs) == FoldLeft(After, d, txs)

ByHash(d) == [k \in {sha3[a] : a \in DOMAIN d} |-> d[CHOOSE a \in DOMAIN d : sha3[a] = k]]

-----------------------------------------------------------------------------
NoBlock == [txs |-> <<>>, state_root |-> BLANK]

\* First start: the genesis accounts, written to the disk by initialize_genesis_keys,
\* which lists them (to_snapshot) and so leaves them in the cache.
Init ==
  /\ pc = "idle"
  /\ head = load_all(state_from_genesis_declaration.state)
  /\ block = NoBlock /\ done = 0 /\ snapshot = Snapshot(head)
  /\ uncommitted = {} /\ disk = state_from_genesis_declaration.puts
  /\ db_root = head.trie /\ height = 0
  /\ accounts = [a \in DOMAIN Genesis |-> [nonce |-> 0, balance |-> Genesis[a]]]
  /\ before = accounts /\ crashes = 0

dbvars == <<uncommitted, disk, db_root, height>>

\* get_nonce, get_balance: validation of a transaction, queries, the signer's check.
ReadAccount(a) ==
  /\ pc = "idle"
  /\ head' = get_and_cache_account(head, a)
  /\ UNCHANGED <<pc, block, done, snapshot, dbvars, accounts, before, crashes>>

\* add_block: validate_block reads the accounts of the senders, apply_block begins.
Begin(s, b) ==
  /\ head' = FoldLeft(LAMBDA t, tx : get_and_cache_account(t, tx.sender), s, b.txs)
  /\ block' = b /\ done' = 0
  /\ snapshot' = Snapshot(head')
  /\ before' = accounts
  /\ pc' = "apply"
  /\ UNCHANGED <<dbvars, accounts, crashes>>

\* create_block: to_snapshot fills the cache of the state, transactions are tried
\* on a scratch state, and the state root is computed on a clone.  The block is then
\* added by the same pass of the main loop.
CreateBlock(txs) ==
  /\ pc = "idle" /\ height < MaxHeight
  /\ Begin(load_all(head),
           [txs |-> txs, state_root |-> apply_all(clone(head), txs).trie])

\* A block of another node.  Its header names the root of the accounts its
\* transactions leave, by whatever way that node came to have them.
ReceiveBlock(txs) ==
  /\ pc = "idle" /\ height < MaxHeight
  /\ Begin(head, [txs |-> txs, state_root |-> trie_of(ByHash(AfterAll(accounts, txs)))])

ApplyTx ==
  /\ pc = "apply" /\ done < Len(block.txs)
  /\ LET tx == block.txs[done + 1]
         r  == apply_transaction(head, tx)
     IN  /\ head' = r.state
         /\ uncommitted' = uncommitted \cup r.puts
         /\ accounts' = After(accounts, tx)
  /\ done' = done + 1
  /\ UNCHANGED <<pc, block, snapshot, disk, db_root, height, before, crashes>>

\* apply_transaction raises after some of its writes: apply_block reverts the state
\* (ValueError, AssertionError) and the exception ends the process.
ApplyRaises ==
  /\ pc = "apply" /\ done < Len(block.txs) /\ crashes < MaxCrash
  /\ \E some \in Prefixes(block.txs[done + 1].writes) :
       head' = revert(apply_writes(head, some), snapshot)
  /\ accounts' = before
  /\ pc' = "stopping"
  /\ UNCHANGED <<block, done, snapshot, dbvars, before, crashes>>

\* The end of add_block: one LevelDB batch with the nodes, the block and 'head_hash'.
CommitBlock ==
  /\ pc = "apply" /\ done = Len(block.txs)
  /\ disk' = disk \cup uncommitted /\ uncommitted' = {}
  /\ db_root' = block.state_root /\ height' = height + 1
  /\ block' = NoBlock /\ done' = 0 /\ before' = accounts
  /\ pc' = "idle"
  /\ UNCHANGED <<head, snapshot, accounts, crashes>>

\* The process ends, by itself or not; what is in memory is lost.
Stop ==
  /\ pc # "down" /\ crashes < MaxCrash
  /\ pc' = "down" /\ crashes' = crashes + 1
  /\ head' = StateAt(BLANK) /\ uncommitted' = {}
  /\ block' = NoBlock /\ done' = 0 /\ snapshot' = Snapshot(StateAt(BLANK))
  /\ accounts' = before
  /\ UNCHANGED <<disk, db_root, height, before>>

\* Chain.__init__: from the genesis declaration while there is no head, otherwise
\* mk_poststate_of_blockhash, which must find the root of the head block in the db.
Restart ==
  /\ pc = "down"
  /\ \/ /\ height = 0
        /\ head' = load_all(state_from_genesis_declaration.state)
        /\ disk' = disk \cup state_from_genesis_declaration.puts
     \/ /\ height > 0 /\ (db_root = BLANK \/ db_root \in disk)
        /\ head' = StateAt(db_root)
        /\ UNCHANGED disk
  /\ pc' = "idle"
  /\ UNCHANGED <<block, done, snapshot, uncommitted, db_root, height, accounts, before, crashes>>

Next ==
  \/ \E a \in Addr : ReadAccount(a)
  \/ \E txs \in TxLists : CreateBlock(txs) \/ ReceiveBlock(txs)
  \/ ApplyTx
  \/ ApplyRaises
  \/ CommitBlock
  \/ Stop
  \/ Restart

Spec == Init /\ [][Next]_vars

-----------------------------------------------------------------------------
AccountType == [nonce : Nat, balance : Balances]
PartialOn(d, T) == DOMAIN d \subseteq Addr /\ \A a \in DOMAIN d : d[a] \in T

\* The shape of the state: accounts in the cache and in the history have their
\* fields, journal entries are about cached accounts, and what is stored is nodes
\* and preimages.
TypeOK ==
  /\ pc \in {"idle", "apply", "stopping", "down"}
  /\ DOMAIN head = {"trie", "cache", "journal"}
  /\ PartialOn(head.cache, [nonce : Nat, balance : Balances, touched : BOOLEAN])
  /\ \A i \in DOMAIN head.journal : head.journal[i].addr \in DOMAIN head.cache
  /\ block.txs \in TxLists \cup {<<>>} /\ done \in 0..Len(block.txs)
  /\ PartialOn(accounts, AccountType) /\ PartialOn(before, AccountType)
  /\ height \in 0..MaxHeight /\ crashes \in 0..MaxCrash
  /\ IsFiniteSet(disk \cup uncommitted)

\* get_nonce and get_balance return what the transactions applied so far have
\* written, through the cache, the journal and the trie, also after State.revert
\* has undone a block half way through and after a restart from the disk.
AccountsReadBack ==
  pc # "down" => \A a \in Addr : rlp(Account(head, a)) = AccountIn(accounts, a)

\* The state root is a function of the accounts alone: the trie that _update built
\* one key at a time, in the order blocks, dictionaries, crashes and reverts made
\* of it, is the trie of the dictionary.  Nodes with different histories agree on it.
RootIndependentOfHistory ==
  pc # "down" => head.trie = trie_of(ByHash(accounts))

\* A restart loads the accounts by the state root in the header of the head block,
\* which nothing compares with the state the node runs on (chain.py:99): they are
\* the same when the block is done, for blocks this node created on a clone and for
\* blocks it received.
HeaderRootMatches ==
  /\ pc = "apply" /\ done = Len(block.txs) => block.state_root = head.trie
  /\ pc = "idle" => db_root = head.trie

\* No read of the trie can raise KeyError: every node of the state root on disk, and
\* the preimage of every address in it, is on disk; those of the running state are
\* there or in the batch to be written.
Needed(root) == trie_nodes(root) \cup {Preimage(a) : a \in addresses(StateAt(root))}
DbClosed ==
  /\ Needed(db_root) \subseteq disk
  /\ Needed(head.trie) \subseteq disk \cup uncommitted

\* The assertions of State.clone and mk_poststate_of_blockhash: when a block is
\* created or the state is loaded nothing is touched and the journal is empty.
CleanBetweenBlocks ==
  pc = "idle" => /\ head.journal = <<>>
                 /\ \A a \in DOMAIN head.cache : ~head.cache[a].touched

\* The scratch state that create_block tries transactions on reads like the state
\* itself, although it is rebuilt from a listing and holds the blank accounts too.
SnapshotRoundTrip ==
  pc = "idle" => \A a \in Addr :
    rlp(Account(from_snapshot(to_snapshot(head)), a)) = rlp(Account(head, a))

-----------------------------------------------------------------------------
(* What the trie must be for its users: a dictionary from the hashes of    *)
(* addresses, whose root node is a function of the dictionary, and whose   *)
(* updates store every node of the new trie that the old one had not.      *)

Hashes == {sha3[a] : a \in Addr}
Dicts(Value) == UNION {[keys -> Value] : keys \in SUBSET Hashes}

UpdateLaw(d, k, v) ==
  LET u == trie_update(trie_of(d), k, v)
  IN  /\ u.node = trie_of(Put(d, k, v))
      /\ IsFiniteSet(u.puts)
      /\ trie_nodes(u.node) \subseteq trie_nodes(trie_of(d)) \cup u.puts

TrieLaws(Value) ==
  /\ BLANK \notin Value
  /\ trie_of(<<>>) = BLANK /\ trie_nodes(BLANK) = {}
  /\ \A d \in Dicts(Value) :
       /\ trie_to_dict(trie_of(d)) = d
       /\ \A k \in Hashes : /\ trie_get(trie_of(d), k) = IF k \in DOMAIN d THEN d[k] ELSE BLANK
                            /\ \A v \in Value : UpdateLaw(d, k, v)

=============================================================================
