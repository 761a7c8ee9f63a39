# IPchain in TLA+

A verification project for the blockchain mapping system (IPchain): a
proof-of-stake blockchain whose accounts own IP prefixes, used as a LISP mapping
system. The modules model the Python code under `src/`; TLC checks them on small
instances, TLAPS proves the main results for every value of the constants.

## 1. Inventory

| Component | Source | State | Operations | Hard behaviours |
|---|---|---|---|---|
| Account ledger | `balance.py`, `state.py`, `account.py`, `apply.py`, `transactions.py`, `genesis_helpers.py` | own / delegated / received IPs, map servers, locators and nonce of each address | `validate_transaction`, `apply_transaction` (allocate, delegate, set map server, set locator) | sequences over nested prefixes; two balances stored one after the other; to = sender |
| Account state | `state.py`, `account.py`, `securetrie.py` | cache of accounts, undo journal, trie root | `get_and_cache_account`, `set_and_journal`, `commit`, `snapshot`, `revert`, `clone`, `to_snapshot`, `from_snapshot` | a block half applied and reverted; copies that must give the same root; a restart by a root nothing compares |
| Merkle Patricia trie | `trie.py` | nodes stored by their hash | `get`, `update`, `delete`, `to_dict`, `get_size` | the root must be a function of the contents; every node must reach the disk with the block |
| Prefix tree | `patricia_state.py` | prefix → address; the file `patricia.p` | `set_value`, `get_value`, `to_db`, `from_db` | entries are never removed; the file is truncated, then written |
| Chain | `chain.py`, `db.py`, `block.py` | state, head hash, previous headers, block number, time queue, parent queue; LevelDB | `add_block`, `process_time_queue`, restart from the saved head | the head is recorded four times; two disk writes; exceptions half-way; early blocks |
| Chain service | `chain_service.py` | pool of pending transactions | `add_pending_transaction`, `create_block`, `add_block`, `query_eid` | pool valid against an old head; result of `add_block` ignored |
| Main loop | `blockchaincba.py` | timestamps, count, last random number, `dkg_on`, `exit_from_dkg` | blocks, transactions, signing, user, BLS shares, DKG, bootstrap | one thread over everything; shares popped before flags are read |
| BLS random number | `consensus.py`, `share_cache.py`, `shares.py` | shares of the round, group signature, random number, next signer | `create_shares`, `store_share`, `reset_bls`, `calculate_next_signer` | shares early, late, duplicated, bad |
| Distributed key generation | `consensus.py`, `Consensus/` | contributions, secret and public keys, group | `new_dkg`, `verify_dkg_contribution`, `all_node_dkgs_finished` | contributions before the local trigger; timeout |
| P2P process | `network.py`, `p2p.py`, `messages.py` | connections and peers, `num_block`, `last_served_block`, `blocks`, timers, block and pool queries | handshake, bootstrap by chunks with retries, broadcast, queries, DHT check | crossing connections; lost questions; silent peers; blocks out of order; a second process that polls |
| Keys, OOR interface, user parser, utilities | `keys.py`, `keystore.py`, `oor.py`, `map_reply.py`, `user.py`, `utils.py`, ... | – | – | – |

How they interact. The main loop is one thread that polls everything: it takes
blocks, transactions and shares from the P2P process over a local socket, calls
the chain service for blocks and transactions, consensus for the next signer and
for shares, and OOR for queries. Consensus picks an IP address at random, and the
prefix tree says which blockchain address that is; so the tree takes part both
in answering queries and in block creation. The accounts, the blocks and their
indexes live in LevelDB, the tree in a file of its own.

What makes each part correct: address space is neither duplicated nor moved by
anyone but its owner, and the two ends of a delegation agree (ledger); every
owned address is found, with its holder (tree); accounts read back what was
written, and the state root depends on them alone (state, trie); all records of the head agree,
the chain is linked, no transaction is applied twice, and a restart brings the
node back (chain); the pool holds what can still be applied, and what it gives
to a block applies (chain service); all nodes compute the same signer, a share
counts once, a round ends, and a renewal leaves everyone with one group key
(consensus); blocks are handed over in order and without gaps, peers know each
other on the same connection, a bootstrap ends (P2P).

The hazards are listed in `PROJECT.json` with the properties that would catch
them.

## 2. Modules

    Balance ──── Ledger ──── MCLedger          Registry   (what Ledger implements)
       │   └──── Chain ───── MCChain
    State, Trie ──────────── MCState           (State takes the trie as parameters)
    Bls ──────────────────── MCBls             Dkg ───── MCDkg
    Network ──────────────── MCNetwork

    BalanceProofs ── LedgerProofs              lemmas on the ledger; its theorems
    BalanceProofs, FoldProofs ── ChainProofs
    FoldProofs ── BlsProofs, NetworkProofs, DkgProofs, StateProofs

**Balance** holds the ledger as pure operators. A prefix is the set of IPs it
covers, so netaddr's IPSet operations are set operations; a dictionary whose empty
entries are popped is a total function. `validate_transaction` is the checks of
`apply.py:56-101`; `Applies` adds the exceptions that the rest of
`apply_transaction` can still raise: a blank destination; a `KeyError` for a
received entry that is not there; an `IndexError` of `len()`, which counts an IPSet only up
to `sys.maxint` (`MAXINT`) addresses, so not a delegated IPv6 prefix of /65 or shorter. `len()` is
called on what is affected, and on what is left at either end (`balance.py:42,55,66`). `allocate`, `delegate`, `set_map_servers` and
`set_locators` are the four categories, with the order of the two
`set_balance` calls, which matters when an account sends to itself: the
destination's copy is overwritten. `set_locator` keeps the code's one list shared
by all locators. `get_value` is the longest match of the radix tree.

**Ledger** is the state machine: transactions of a block are validated against the
state before the block and applied one after another; at the end of the block the
tree takes over the cached prefixes. One action per transaction category, and
`FinishBlock`.

**Registry** is the abstract specification: each IP has an owner and a delegatee,
and only the owner of a prefix transfers or lends it. A transfer gives the
prefix to the account that is announced for it in the block (`moved`); nothing else takes address
space away, save a transfer to oneself, which is what the order of the two stores makes of it. `Ledger`
implements it (`ImplementsRegistry`) under the mapping `owner_of`, `delegatee_of`, with the
block's `cached` as `moved`. So an allocation whose destination is not stored is caught, as one whose sender keeps the
prefix is.

**Chain** is one node. `pc` is the place in the main loop and in `add_block`:

| `pc` | code |
|---|---|
| `idle` | the main loop, between blocks: `ReceiveTx`, `SubmitTx`, `CreateBlock`, `ReceiveBlock`, `BlockTimeout`, `SignerUnknown` |
| `create` | the loop of `create_block` over the pool: `TakeTx`, `SkipTx`, `CreateDone` |
| `add` | `ChainService.add_block` and `Chain.add_block` up to the decision: `AddRaises`, `AddRefused`, `AddLaidAside`, `BeginApply` |
| `apply` | `apply_block`: `ApplyTx`, `ApplyRaises`, `ApplyDone` |
| `dump` | inside `PatriciaState.to_db`, the file is truncated: `DumpPatricia` |
| `commit` | up to the LevelDB batch: `CommitBlock`, which then updates the pool |
| `down` | the process is not running: `Restart` |

The main loop has no concurrency of its own, so only the clock (`Tick`, where the
code reads it) and `Crash` interleave with a block in hand. An exception that
reaches the main loop ends the process (`Exit`, `sys.exit`), as in the code.
`damage` and `crashes` are history variables.

**Bls** is several nodes and the rounds of the random number, between two renewals of
the group key. After a block every key holder signs the last random number with the block
number; `THRESHOLD` shares give the group signature, whose hash is the random number of
the next block. `consensus[n]` is the `Consensus` object with `store_share`, `reset_bls`,
`create_shares` and `calculate_next_signer` as operators on it; the actions are the
sections of the main loop that use it: `CreateBlock`, `ReceiveBlock`, `ReceiveShare`,
`TakeFutureShare` and `NearBlockTime`. A pass of the loop visits all sections and a section that
finds nothing does nothing, so their order needs no program counter. `BlockArrives` is the
filter of the P2P process for consecutive blocks.

A BLS group signature does not depend on which shares it is recovered from, so it is
identified with the message signed, and the random number with it; a recovery from shares
of different messages fails. Which node a random number selects is the parameter
`Elected`. Shares and blocks reach every node after any delay and in any order; connections
are not lost. A node in `Fresh` has just been started. `Timely` is a timing assumption the
code relies on without checking it: a block reaches every main loop within the block time,
and a pass of the loop fits into the last 1% of it (0.6 s), so that a node without group
signature goes to bootstrap mode before the next block comes. Without it `SignersAgree`
fails: the node calculates the next signer from an old random number. It also fails for a
master node that gets the block before the shares, since a master never goes to bootstrap
mode; `Master` is empty in the run.

**Trie** is the Merkle Patricia trie as operators on nodes: hex-prefix keys with their
terminator, leaf, extension and branch nodes, `_update` with its splits and `_delete`
with its normalisation. The hash of a node is the node, wrapped; what the code puts into
the database on the way is the second component of an update. Its operators are
recursive, so no theorem is stated over it; what its user `State` needs of it is stated as
`TrieLaws`, which TLC checks of these operators.

**State** is the account state of one node: the root node of a trie, the cache of accounts
with `touched` flags, and the journal of old values. The actions are the ways the chain
uses it: accounts are read, a block is created on copies (`to_snapshot`, the scratch
state, `clone`), a received block is validated, its transactions are applied and committed to
the trie one by one, one of them may raise after some of its writes and be reverted, the
database batch is written, the process stops anywhere and starts again from the genesis
or from the state root of the head block. A transaction is the list of balances it
writes; what it writes is the subject of `Balance`. The history variable `accounts` is the
dictionary that cache, journal and trie are compared with; the operations of the
trie are parameters of the module (`trie_get`, `trie_update`, `trie_to_dict`, `trie_nodes`, and
`trie_of`, the trie of a dictionary), which `MCState` gives the operators of `Trie`. `TrieLaws` says what they
must be: a dictionary, whose root node is a function of its contents, and whose updates store
every node of the new trie that the old one had not.

**Dkg** is one renewal of the group key among several nodes, one of them joining. Block 0
is the last one before the renewal, block 1 is meant to carry the new key; block 2 is outside. A key is
identified with the contributions it is the sum of, so two generations of contributions of a restarted
member give different keys. A random number is known by the block that carries it, and stands for the group
signature it is the hash of. `IP`, `Holder` and `Owner` are what the steps ask about the IP that the
random number of block 0 selects: the address the prefix tree names (`get_addr_from_ip`), or `Nobody`, and
the address whose own it is. The actions are the sections of the main loop:

| Action | code |
|---|---|
| `ReceiveShare`, `LoseShare`, `TakeFutureShare` | the share section; a share fetched while `dkg_on` is thrown away |
| `TriggerDkg` | the trigger, with `new_dkg` or `store_ids` |
| `PopDkgShare`, `DropDkgShare` | contributions, read or thrown away before the trigger |
| `Expire`, `OutsiderTimeout`, `BlockTimeout` | `DKG_TIMEOUT` and `TIMEOUT` |
| `ReceiveBlock` | block 1 in the block section, at a node that has finished its DKG, is in it, or has not triggered it |
| `CreateBlock`, `SignUnowned` | the signing section: the chosen member signs after the DKG, the address behind the selected IP before it; the latter may not exist |
| `BootstrapBlock`, `BootstrapEnds`, `Restart` | `perform_bootstrap` and the start |

The order of the sections in a pass matters at the trigger only. Blocks and signing come before the shares, and the
trigger after them. A node that gets its group signature from the shares is `due`: it triggers in the same pass, before
blocks are looked at. A node that has just been started has `verified` set (`consensus.py:54`) and is not
`due`: it may take, refuse or create block 1 first. The first `block` of the P2P process is the only one it hands
over (`served`), also if it is then refused. `NextRound` is what follows a correct block, and resets the round. Block 1
without a trigger is a block like any other: it is signed by the account behind the selected IP, it
carries the old key, and the node that takes or creates it goes on with the old key and the old table.

The history variables `dropped`, `lost`, `cut`, `ahead` and `restarts` record the causes that the
properties speak of: `cut` holds the members that took block 1 during their DKG, `ahead` the nodes past block 1
that had not triggered, or took a block of such a node. A node is `Alone` if it is past block 1 with the random
number of block 0: just started, it signed with it, and no other node accepts that block. The queues are sets
and every message reaches the queue; the relay of contributions to third members is in `PopDkgShare`, but with
two members of the new group no contribution is for a third. A contribution that does not verify is not
sent by this code and is left out.

**Network** is the P2P process of every node and the main process as far as it uses it.
A connection is the pair of its dialer and the dialed; each end has a `side` (state of the
`p2pProtocol`) and a FIFO channel (TCP). `phase` is the looping call that runs:

| `phase` | code |
|---|---|
| `off`, `num` | before and after `bootstrapProtocol`: `ck_num_blocks` |
| `blocks` | `ck_blocks` (`CheckAllBlocks`), with the timers `CheckBlocks` and `CheckBlock` |
| `tx` | `ck_tx` (`CheckTx`) |
| `run` | bootstrap over: `ck_dht_block` (`CheckDht`) |
| `dead` | a looping call has raised, as there was no peer to choose |

One action per message type (`NodeId` to `SetTxPool`), per timer, and per request of the main
process (`GetBlock` to `AnswerTxPoolQuery`). A block is its number, since there is one
block per height (`OneChain` of `Bls`). A connection that is closed as a duplicate drops what it
had not read. `Break` is a connection lost by the network or given up by the ping. `over` is a history variable:
the nodes that asked for a last chunk beyond the last block they knew of.

Abstractions of `Chain`: the hash of a header is its contents (no collisions); the
state root of a block is that of its transactions; which IP consensus selects and
which received blocks pass the signature checks is nondeterministic; the size limit
on blocks is not reached (`sys.getsizeof(block)` does not grow with its transactions);
blocks from the network are successors of the head, rivals or second deliveries of
it, wrongly numbered, or without a known parent, and at most one second early. The
LevelDB batch is atomic, as LevelDB's `Write` is, and a commit that returned
survives the crash of the process (not of the machine: `sync=False`).

## 3. Runs

| Run | Instance | Shows |
|---|---|---|
| `ledger` | 3 accounts (two symmetric), 4 IPs and 3 nested prefixes of one, two and four, of which `len()` counts two; 2 transactions per account, 1 map server, 2 locators | 8 properties, among them the refinement of `Registry` |
| `ledger_lookup` | same | finding: the tree returns former holders |
| `chain` | 2 accounts, one of the node; 3 IPs of both families; 5 transactions; chain of 3 blocks, 3 seconds, pool of 2, time queue of 1, 1 crash | 9 properties; no deadlock |
| `chain_time_queue` | same | finding: early blocks are never taken up |
| `chain_torn_file` | same | finding: a crash while the tree is dumped loses it |
| `bls` | 3 nodes, two with a key each, threshold 2, the third just started; 2 blocks, hence 3 rounds; signers n1 and n3, and n2 for an old random number | 6 properties, one of them liveness |
| `bls_fresh_signer` | same, the node just started is selected | finding: it signs with an old random number |
| `state` | 4 accounts whose hashes of 4 binary nibbles share prefixes of length 0, 1 and 3; 4 transactions in 5 lists; 3 blocks, 1 stop; 6 further keys for the trie | 8 properties: accounts read back, root independent of history, header root, closed database, trie as dictionary and its laws |
| `dkg` | 2 nodes with members of the new group, one of them also with two of the old; a joining node; threshold 2; 3 IPs that may be selected; 1 restart | 5 properties, one of them liveness |
| `dkg_joiner` | same, 1 IP, no restart | finding: a node that takes the renewal block while it bootstraps stops on the next share |
| `network` | bootstrap node, a second and a joining node, in two situations: one joins late, one block behind, while a block is created and its connection to the second may break; two join at the same time and their connection to the bootstrap node may break | 4 properties, one of them liveness |
| `network_blocks` | the first situation, nothing breaks, chunk size 3 | finding: a block missed while joining never arrives |

Bounds. Three accounts are a sender, a delegatee and a new destination, and three
nested prefixes give shorter, longer and equal overlaps; with `MAXINT` = 2 the longest is counted by
no `len()`, what it leaves next to the middle one is, so each of the three calls raises in some state. Two transactions
per account (six in all) suffice for delegate – re-delegate – allocate and for the
overlap of a received prefix. In `Chain` the transactions are chosen for their
conflicts: two with the same nonce, one that raises after another, one of the other
family, one by the receiver of another. Three blocks give an odd, an even and an odd
block, so that transactions of both families are committed; the exits (`Exit`) are
not bounded, so restarts happen any number of times, and one crash is enough because
it may hit every point. `MaxTime` equals `TIMEOUT`, so the timeout fires.

`MCLedger` does not check deadlock: when every account has used its `MaxNonce`
transactions the model has nothing left to do, unlike the program. `MCChain` does,
which shows that a block in hand always has a next step: the alternatives at each
stage are exhaustive, including that the guard `block.prevhash = head_hash` of
`BeginApply` never blocks.

In `MCState` the hashes make leaves, extensions and branches at several depths, with both
parities of the key; a transaction list that touches an account twice, one that raises after a first
transaction was committed, and an empty block are among the lists. One stop is enough,
as it may hit every point. Deadlock is checked: at the last height accounts can still be read.
`TrieLaws` is checked for all 625 dictionaries of the four addresses with two nonces and two
balances, every key read and every update made.

In `MCDkg` the second node has two addresses in the old group and one in the new, so that it
is a member throughout and still has to wait for a contribution, and holds enough shares of
the old group to trigger before the first node. The three IPs are one of the chosen member itself (1: a node
that has not triggered accepts its block, whichever key is in it), one of another address at the same node (2: it signs
before its trigger, nodes in a DKG take its key and refuse the block, and a node that has not triggered refuses the
block of the chosen member), and one without owner (5). `MCDkg` has two more, one of the other node (3) and one
that the other node has delegated to this one (4: named by the tree, refused by the others); the safety properties
hold with all five as well (2 095 094 states), with the liveness property that takes too long for a regular
run. As the second node has one member of the new group, `Mixed` is
false throughout. With a third member in the new group, needed for the relay of contributions, or two at one node,
needed for `Mixed`, the instance is too large for a regular run; the proofs cover both.

In `MCNetwork` the chunk size is 4 and heights go to 4, and the late node starts at 2: by the
number it is told the last chunk is too large (3 for one block) or too small (0 for two), and
the retries fetch the rest. In `network_blocks` the size is 3, so that no chunk is too
large and the counterexample is about the missed block alone. The ten-block cap of
`get_block_queries` is not reached. `MaxTraffic` = 1: a timer sends only on a connection on
which nothing is pending; the code's timers have periods of 3 to 7 s, in which messages
are normally answered. Without that bound the instance has more than a million states.
The situation with two joining nodes that both have blocks to fetch (chunk size 3) has 1.03 million
states and passes too; it takes too long for a regular run. `fragile` names the connections
that may break, once each. The nodes may all be quiet in the end, so deadlock is not checked here nor in `MCDkg`.

Symmetry (`a2`, `a3` in `MCLedger`) is sound: the genesis distinguishes `a1` only,
and the one temporal property is a safety property.

In `MCBls` both creators need the share of another node, so that a lost share would
stop the network; an old random number selects another node, so that a node that
calculates the signer from one disagrees with the others. It may stop at `MaxHeight`, so deadlock is
not checked; `Progress` says that it does not stop before.

Fairness. `Ledger`, `Chain` and `State` assume none: their properties are safety properties. `Bls`
has weak fairness of each section of each main loop, which comes back to every section
and takes all there is (`while ... is not None`); of the arrival of what was sent (TCP); and of
time. No fairness makes a node be selected or a share be signed. The block timeout
(`TIMEOUT`, after which a node stops) is in `Chain` and not in `Bls`: the age of a block
ends at `BLOCK_TIME` there, so `Progress` is about rounds that finish before the timeout.
`Dkg` assumes less than the loops give: while a section of some node has something to do, one is
done (every step uses a message or a stage up, so no node can keep the others waiting for ever). There is no fairness of
`Expire`, `Restart`, the timeouts or of the loss of a contribution. `Network` has weak fairness of the reactor's callbacks and timers
and of the polls of the main process, and strong fairness of a retry that goes to the bootstrap
node: `random.choice` picks each peer again and again. No block need be created and no connection
need break. `RepairSpec` adds weak fairness of the DHT check, so that the counterexample
of `network_blocks` is not a node that does not ask.

## 4. What is proved

For every choice of accounts, IPs, prefixes, genesis allocation, metadata and bounds
that satisfies the named assumptions of `Balance`, `Ledger` and `Chain`: the blank
address is no account, prefixes are nonempty, among prefixes over a common IP there
is a longest one (the longest match), the genesis allocations of different
accounts are disjoint.

**`LedgerProofs`**: type correctness (`TypeCorrect`), `OwnersDisjoint`,
`DelegateesUnique`, `MirrorKept`, `ExclusiveKept`, `RaisesOnlyExplained`,
`LookupTotal` and `Refinement` (`Spec => R!Spec`). None of the ledger properties is
inductive alone: disjoint owners need that only an owner moves a prefix, unique
delegatees need that accounts delegate what they own and that owners are
disjoint, and the mirror is what makes a revocation at one end the same set at the
other. `Consistent(st)` in `Balance` is their conjunction, with a received side that
is empty for a delegation to oneself (what makes `RaisesOnlyExplained` true: any other missing entry would be a mirror broken). Each
operator of `Balance` preserves it (lemmas of `BalanceProofs`), and the state machine
inherits that. `LookupTotal` adds that whatever is owned is covered by an entry of
the tree, which holds since entries are only added.

**`FoldProofs`** holds what the other proofs need of the community modules. The loops
of the code over lists and sets are folds in the models, and a fold is a recursive function:
even that it has a value needs induction over the set or the sequence. The library's induction
theorems cannot be instantiated by the provers; the induction is therefore done on a set of naturals,
by its least element. The step of a loop is a parameter of the module, so `INSTANCE FoldProofs WITH op <- ...`
gives the facts for one loop of the code: what it keeps (`FoldStep`, `SetFoldIn`), and, where the result depends
on what has been taken or is still to come, where it leads (`SetFoldTo`, `RFoldTo`).

**`ChainProofs`** proves every invariant the run `chain` checks, for any chain length, pool and
number of crashes, from `ChainAssumption` and `TxAssumption` (what `Transaction.__init__` lets through,
`transactions.py:30`). No property is inductive alone, since a block is in hand over several stages:

- `HInv` follows the block: from `BeginApply` to the commit it is the linked successor of the
  committed head, and `prev_headers[0]` is the committed head until `ApplyDone` and the block
  itself afterwards. From it `HeadsAlwaysAgree`, `ChainAlwaysLinked` and `NoSideChain`: the branch of
  `Chain.add_block` for side chains, whose call of `apply_block` lacks an argument, and the parent
  queue are dead code.
- `Types` (`ChainTypeOK`), and `Pending` (`PoolAlwaysValid`): the pool is valid between blocks since it is
  filtered with the new state after each commit, and `create_block` starts from it.
- `LedgersOK` (`LedgersConsistent`): the accounts in memory and in the database are `Consistent` in the
  sense of `Balance`, after the lemmas of `BalanceProofs` along the fold over the block.
- `Creation` (`CreatedBlockAlwaysValid`): what `create_block` has taken is valid on the state of the head and
  applies without an exception, although its scratch copy may differ from the result of
  `apply_block` in the received side (`Weaker`): a transaction that raises after half a revocation
  leaves that half behind.
- `Applied` (`NeverReplayed`): the nonces of an account in chain and block in hand are used once and in order.
- `Trees` (`TreeAlwaysFollowsChain`): the tree in memory and the file in each stage, as long as no crash
  came between the two disk writes; `Coverage` (`AlwaysFoundUnlessTorn`): every owned address is covered
  unless a crash tore the file.

The conjunction of these parts was checked by TLC on the run's instance (552 038 states).

**`BlsProofs`** proves the safety properties of the run `bls` for any number of nodes, keys and blocks. They need
`Rounds`, which is what the program's design relies on and its code does not ensure: `Timely`; block 0
does not select a node just started (the finding `bls_fresh_signer` is what happens otherwise); a master
holds enough keys to sign alone; every random number selects a node that runs. `MCBls` assumes the
implication, so TLC evaluates `Rounds` on the instance and the hypothesis is not empty. Under `Rounds` a
chain is known by its length: the random number of block k is `Rand(k)`. `BInv` says so of the chains, of
blocks and shares on their way and of the `Consensus` objects (`Chains`, `Objects`, `Traffic`,
`Process`); that no node is more than one block behind and one that is behind can follow
(`Abreast`); and that the signer of a block somebody has, has it (`SignerFirst`). `Abreast` is where `Timely` enters, and
`SignersAgree` fails without it.

**`NetworkProofs`** proves the safety properties of the run `network` for any number of nodes, connections
and blocks, with messages after any delay and connections that break at any time. `NInv` consists
of types; of what a message may contain, which a step keeps if what it writes is right (`Contents`,
`Queries`); of what a node holds in each phase (`Stores`); of the questions at the start of a
bootstrap, one message at a time with the bootstrap node (`Joining`, `Phases`); and of the two ends of a
connection (`Handshake`: an end that is closed has told the other, or the other is closed). `NoGap` needs that
a joining node asks for nothing beyond the number it counts on and stores nothing else, hence
that a count that fits is the set that fits; `over` names the nodes for which that is not
so. `PeersMutual` needs `Handshake` alone. TLC checked `NInv` on the run's instance (96 067 states).

**`DkgProofs`** proves the safety properties of the run `dkg` for any number of nodes, members of either
group, IPs and restarts. `DInv` says of each node what its `Consensus` object holds (`NodeOK`): before the trigger
(`WaitingOK`), while the DKG runs and after it (`RenewingOK`), past block 1 (`DoneOK`, `HeadOK`), in the bootstrap
(`StartOK`) and when it has stopped (`StopOK`). Of what is on its way it says that a contribution is of a
generation there was (`ContribsOK`); that a share of block 0 is signed with the old key, and one of block 1
with the key and random number of the signer's block unless something excuses it (`SharesOK`, `Excused`); and that
a copy of block 1 carries either that key, with the chosen member as signer, or the old one from a node that is
ahead (`BlocksOK`).

None of the properties is inductive alone. `OneGroupKey` compares nodes that got the key in different ways: they agree
since each that is not ahead agrees with the node of the chosen member (`SignerNode`), so `DInv` carries that node's
key and whether it has block 1 with the new key (`key` and `created` in `Hist`). That a member's own key fits needs that
a member with all contributions has the secret key they add up to (`Table`). `StopsExplained` needs what every share in a queue
may be signed with, and that a cause once there stays: an `Excused` share may be waiting when the cause is long past, so the causes
are histories that only grow. Whoever is ahead keeps the old key (`HeadOK`), which gives the second half of `OneGroupKey`.

- A node with several members of the new group computes a key for each. They differ when another
  member was restarted and its first contributions reached one of them and its second the other;
  `SecretsFitKey` and `StopsExplained` except that case (`Mixed`).
- Two nodes may be past block 1 with different keys, the old and the new one. `OneGroupKey` and `StopsExplained` name the
  nodes (`ahead`) and say which key they have.

**`StateProofs`** proves the seven properties of the account state that the run `state` checks beside the one
about the trie itself, for any set of accounts and transactions, chain length and number of stops, and for any trie with
`TrieLaws`: the hypothesis `Laws` of its theorems. The laws are what TLC checks of the operators of `Trie`, on
the dictionaries of the run; that they hold there shows that the hypothesis can be met. The argument:

- Between two transactions the state is `Holding(accounts, A)`: its root is that of the accounts,
  the accounts of `A` are cached as the trie has them, the journal is empty. Loading and listing only
  extend `A` (`LoadHolding`, `LoadAllIs`).
- Inside a transaction it is `Within`: the cache `Tracks` two dictionaries, the accounts the trie still
  holds and those that the touched entries make of them, and the journal is `Undoable`: for each field of each
  cached account the oldest entry about it, or else the cache, has the value in the trie. `WithinWrite` shows both for
  `set_balance` and `set_nonce`, each of which journals two fields.
- `commit` turns the second dictionary into one that is held (`CommitIs`), in whatever order the
  dictionary yields the touched accounts, and stores what was missing of its trie (`CommitNeeds`). Emptying the
  journal leads back to the first (`PopIs`, entry by entry from the newest), and `revert` to that of the snapshot, by the
  journal or by the root (`RevertIs`), where equal roots are equal accounts (`RootInjective`).
- Hence a block applied to the state, and one applied to a clone, reach the root of `AfterAll`
  (`ApplyTransactionIs`, `ApplyAllIs`), and a state rebuilt from a listing holds the listing, with the blank
  accounts in it (`FromSnapshotIs`).

`SInv` (`StateInvariant`) puts this into the stages of a block, with the header's root, the root on disk and the
closed database. None of the properties is inductive alone: `HeaderRootMatches` needs that the running
state holds what the transactions applied so far leave, `DbClosed` that what a commit does not store was there.
TLC checked `SInv` on the run's instance (9 642 states).

Assumptions. Each theorem holds under the named `ASSUME`s of its module: `ChainAssumption` and
`TxAssumption`, `BlsAssumption`, `NetworkAssumption` (nobody is ahead of the bootstrap node at the start),
`DkgAssumption` (addresses belong to one node, the groups are finite, a joining node has no
member) and `StateAssumption` (finitely many addresses, with different hashes). TLC evaluates them on every run.

Only model-checked:

- `TrieIsDictionary`, and with it `TrieLaws`: the operators of `Trie` are recursive, which the
  provers do not take.
- The liveness properties `Progress`, `Renewed` and `BootstrapEnds`.

What the exceptions leave out. Some properties except the case a hazard names, since the code goes wrong there; they
show that nothing else does, and are no check of that case:

- `TreeFollowsChain` excepts nodes that crashed between the two disk writes; `FoundUnlessTorn` says what still holds for them.
- The properties of `Bls` show that a block that overtakes its shares is repaired by the bootstrap mode. A loop too slow to
  set the mode, a second block in the same pass, and a master are outside `Timely` and `Master = {}`.
- `Renewed` excepts runs in which a contribution or share was thrown away; nothing brings it back, and what follows is a
  timeout (`StopsExplained`).
- `NoGap` and `BootstrapEnds` except the nodes in `over`, and `BootstrapEnds` a node all of whose connections were closed.
- `PeersMutual` accepts that of two crossing connections both are closed.
- `HeaderRootMatches` is about blocks the node creates: the state root of a received block is the right one by
  construction in `State`, as the code never compares it.
- `State.ApplyRaises` reverts for every exception; the code does for those it catches, and ends for the others. The
  model allows more.
- `Chain.CreateBlock` leaves out the exception for a block at the renewal height without a group key
  (`chain_service.py:76`), as keys are in `Dkg`.

## 5. Findings

1. `apply.py:263` – the tree never forgets an entry, and the longest match wins: after
   a longer prefix was moved and a shorter one over it is moved later, lookups still
   return the former holder (`LookupReturnsHolder`).
2. `chain.py:202` – `process_time_queue()` compares timestamps with `None`: a block laid
   aside as early is never processed (`TimeQueueProcessed`).
3. `patricia_state.py:26` – a crash between truncation and dump of `patricia.p` leaves a
   restarted node with an empty tree (`NotFoundIsNotOwned`); `FoundUnlessTorn` shows
   that this is the only way to lose entries.
4. `consensus.py:54` – a node that has just been started has `verified` set and no shares: it
   ignores those of the running round and, if selected, signs a block with the random
   number of the block before, which the others reject (`NewRandomPerBlock`).
5. `blockchaincba.py:621` – `perform_bootstrap` takes the key of a renewal block and not the members
   of its group: the node stops on the first share of a new member (`JoinerKnowsGroup`).
6. `network.py:137` – answers to block questions are read during bootstrap only, so what `check_dht`
   asks for afterwards is thrown away; a running node that missed a block never follows
   the chain again (`BlocksArrive`).

Further observations, without a run of their own:

- `apply.py:143` – a delegation to oneself loses the received end; later valid transactions over
  the prefix raise `KeyError` in `apply_transaction`. `balance.py:42,55,66` – `len()` of a set of more
  than `sys.maxint` addresses raises `IndexError`: so does a valid allocation or delegation over a delegated IPv6
  prefix of /65 or shorter. `RaisesExplained`, proved, says that these are the only two causes
  for real destinations. (`InvalidNonce`, `KeyError` and `IndexError` are not caught by
  `apply_block`, so nothing is reverted then; the process ends.)
- `chain_service.py:148` – the transactions of a refused or laid-aside block leave the pool as if
  they had been added.
- `blockchaincba.py:238` – the comment "We ONLY enter here if the nodes DOES NOT belong to the DKG
  group" is not so: a member whose DKG is not finished enters too (`cut` in `Dkg`), and
  signs with its old key afterwards. `SecretsFitKey` names it as an exception.
- `consensus.py:247` – the comment says that the group key "is the same for all members in a particular
  round". For a node with several members of the group it need not be, after another member was restarted
  during the DKG (`Mixed` in `Dkg`); the node then signs with secret keys of two groups.
- `blockchaincba.py:219,346` – a node that has not triggered its DKG handles the renewal block as any other. If the
  signer also owns the selected IP it takes it, and a node that has just been started may create it: the node is past the renewal
  with the old key (`ahead` in `OneGroupKey`), and stops on a later share.
- `blockchaincba.py:240` – a node in its DKG takes the key of the block and ends the DKG before it checks the signer.
- `blockchaincba.py:243` – the log message looks the selected IP up once more; for an IP that nobody owns that
  raises and ends the process.
- `consensus.py:109` – a share of the old group that is late stops a node that has finished its DKG and
  waits for the block (`StopsExplained`, first case of "unknown source").
- `network.py:423` – the size of the last chunk is right only if the node starts at a multiple of
  `BLOCK_CHUNK`, which a restarted node need not do. Too large a chunk brings a block that is newer than
  the node counts on: the count may then fit although an older block is missing, and the
  bootstrap ends with a gap; or it never fits, and the bootstrap never ends. The run
  `network` reaches both; `NoGap` and `BootstrapEnds` except the nodes in the history variable `over`, and
  TLC finds each violated without the exception, so it is the only cause and a real one.
- `network.py:80` – of two crossing connections each end may close the other one; both are then
  gone, and the two nodes are not peers (`PeersMutual` holds, they agree on it).
- `network.py:415` – a looping call that finds no peer raises and never runs again.
- `network.py:81` – after a duplicate connection was closed, lines already received are still read as node
  ids, and registered until the connection is lost; the model drops them.

## 6. Plan

1. **Signer**: the folds of the random number to an IPv4 and an IPv6 address
   (`consensus.py:270-304`) and the choice of the DKG group as pure operators, against reference
   definitions.
2. **Node**: `Chain`, `Bls` and `Network` composed, two nodes: the selected signer's block
   is accepted by the others (the signer is chosen with the tree, but checked against
   ownership, `apply.py:49`); progress of the network.
3. **Chain** implements the blocks of **Ledger**: the committed blocks are a behaviour of it, which
   `LedgersConsistent` prepares.
4. **Bls** without `Timely`: the properties that remain, stated with the nodes that were late as an exception.
5. **Trie** with recursive functions on nodes of bounded depth in place of recursive operators, so that `TrieLaws`
   can be proved of it and not only checked.

## 7. Not modelled

Of the trie: `next`, `prev`, `split`, `merge` and `clear`, which nothing here calls. Of the P2P
process: Twisted, sockets, the Kademlia table (an oracle for the newest block), and the sets
of transactions and shares, which are messages of `Chain`, `Bls` and `Dkg`. Keys and keystore,
the encoding of LISP messages and of answers to queries, the user's text file, logging,
configuration and the dataset generators. The operations of `State` that come from Ethereum
(code, storage, value transfer) have no caller.
