-------------------------------- MODULE Chain --------------------------------
(***************************************************************************)
(* One IPchain node: the chain it keeps in memory and on disk (chain.py,   *)
(* db.py, patricia_state.py) and the pool of pending transactions          *)
(* (chain_service.py), driven by the main loop (blockchaincba.py).         *)
(*                                                                         *)
(* The main loop is one thread, so a block in hand is carried to its end   *)
(* before anything else is done; pc is the place in that code, and only    *)
(* the clock and a crash interleave.  Two files are written on the way:    *)
(* patricia.p, truncated and then dumped, and after it the LevelDB batch   *)
(* with the block, the indexes and the account state, which is atomic.     *)
(*                                                                         *)
(* Consensus is the environment here: which IP signs next, and which       *)
(* received blocks pass verify_group_sig and verify_block_signature, is    *)
(* nondeterministic.  The state root of a block is that of its             *)
(* transactions.                                                           *)
(***************************************************************************)
EXTENDS Balance, SequencesExt

CONSTANTS
  Tx,          \* signed transactions: what the network and the user may send
  BlockTxs,    \* transaction lists of the blocks other nodes send
  Mine,        \* addresses whose keys this node holds
  BLOCK_TIME,  \* seconds between blocks
  TIMEOUT,     \* seconds after which a missing block stops the node
  Torn,        \* content of patricia.p between truncation and dump
  MaxTime, MaxHeight, MaxPool, MaxQueue, MaxCrash    \* bounds

ASSUME ChainAssumption ==
  /\ Mine \subseteq Addr
  /\ BLOCK_TIME \in Nat \ {0} /\ TIMEOUT \in Nat /\ TIMEOUT > BLOCK_TIME
  /\ Torn \notin Patricia
  /\ {MaxTime, MaxHeight, MaxPool, MaxQueue, MaxCrash} \subseteq Nat

\* Transaction.__init__ lets nothing else through.
ASSUME TxAssumption ==
  /\ \A tx \in Tx :
       /\ tx.category \in ALLOCATE..LOCATOR
       /\ tx.value \in Prefix /\ tx.to \in Addr \cup {Blank}
       /\ tx.category = MAPSERVER => tx.metadata \in MapServerMeta
       /\ tx.category = LOCATOR => tx.metadata \in LocatorMeta
  /\ BlockTxs \subseteq Seq(Tx)

VARIABLES
  pc,            \* where the main loop is; "down" when the process is not running
  now,           \* time.time()
  state,         \* chain.state
  prev_header,   \* chain.state.prev_headers[0]
  head_hash,     \* chain.head_hash
  block_number,  \* chain.state.block_number
  patricia,      \* chain.patricia
  time_queue,    \* chain.time_queue
  transactions,  \* ChainService.transactions: the pool
  block,         \* the block being created or added
  todo,          \* transactions of the loop that is running
  scratch,       \* the copy of the state create_block applies to
  cached,        \* prefixes moved by the block being applied
  db,            \* LevelDB: the blocks after genesis, and the account state
  file,          \* patricia.p
  damage,        \* history: how crashes have put the file out of step
  crashes        \* history: number of crashes

headvars == <<prev_header, head_hash, block_number>>
handvars == <<block, todo, scratch, cached>>
diskvars == <<db, file>>
history == <<damage, crashes>>
vars == <<pc, now, state, headvars, patricia, time_queue, transactions,
          handvars, diskvars, history>>

-----------------------------------------------------------------------------
\* The hash of a header covers everything but the signature.
Hash(b) == <<b.prevhash, b.number, b.timestamp, b.txs>>

GenesisBlock == [prevhash |-> <<>>, number |-> 0, timestamp |-> 0, txs |-> <<>>]

\* Block 0 stands for "no block in hand".
NoBlock == GenesisBlock

\* A block that this node does not know.
UnknownHash == <<"unknown">>

HeadBlock == IF db.chain = <<>> THEN GenesisBlock ELSE Last(db.chain)

\* The address family of a block's transactions: even blocks IPv4 (AFI 1), odd IPv6.
Family(number) == IF number % 2 = 0 THEN 1 ELSE 2

WrongFamily(b) == \E i \in DOMAIN b.txs : b.txs[i].afi # Family(b.number)

\* ChainService.in_chain, from the txindex keys.
in_chain(tx) == \E i \in DOMAIN db.chain : tx \in ToSet(db.chain[i].txs)

\* ChainService.in_pool.
in_pool(tx) == tx \in ToSet(transactions)

\* Mutant: a block as old as its parent passes.
validate_header_same_time(b) ==
  /\ b.prevhash = Hash(prev_header)
  /\ b.number = prev_header.number + 1
  /\ b.timestamp >= prev_header.timestamp

\* Mutant: the parent's hash is not compared.
validate_header_any_parent(b) ==
  /\ b.number = prev_header.number + 1
  /\ b.timestamp > prev_header.timestamp

\* apply.validate_header.
validate_header(b) ==
  /\ b.prevhash = Hash(prev_header)
  /\ b.number = prev_header.number + 1
  /\ b.timestamp > prev_header.timestamp

\* apply.validate_block: every transaction is checked against the state before
\* the block.  The transaction root is that of the list.
validate_block(b) ==
  /\ validate_header(b)
  /\ \A i \in DOMAIN b.txs : validate_transaction(state, b.txs[i])

\* The transactions of a list that are valid on a state.
valid_only(txs, st) ==
  FoldLeft(LAMBDA p, tx : IF validate_transaction(st, tx) THEN Append(p, tx) ELSE p, <<>>, txs)

\* The pool without the transactions of a block, each removed once.
without(pool, txs) == FoldLeft(LAMBDA p, tx : RemoveFirst(p, tx), pool, txs)

\* Mutant: the pool is not purged of what the block made invalid.
purged_of_block(pool, txs, st) == without(pool, txs)

(***************************************************************************)
(* The end of ChainService.add_block, whatever chain.add_block returned:   *)
(* the transactions of the block leave the pool, once each, and so does    *)
(* every transaction that is not valid on the state.                       *)
(***************************************************************************)
purged(pool, txs, st) == valid_only(without(pool, txs), st)

(***************************************************************************)
(* process_time_queue(None) compares the timestamps with None, and in      *)
(* Python 2 no integer is <= None: no queued block is ever due.            *)
(***************************************************************************)
NoTime == -1
Due(b, new_time) == new_time # NoTime /\ b.timestamp <= new_time

\* The blocks that process_time_queue leaves in the queue.
not_due(q, new_time) == FoldLeft(LAMBDA r, b : IF Due(b, new_time) THEN r ELSE Append(r, b), <<>>, q)

\* The place of a block in the queue: before the first that is not earlier.
queue_insert(q, b) ==
  LET later == { i \in DOMAIN q : b.timestamp <= q[i].timestamp }
  IN  InsertAt(q, IF later = {} THEN Len(q) + 1 ELSE Min(later), b)

(***************************************************************************)
(* What a transaction that raises leaves in the scratch state: the         *)
(* exception of one delegatee comes after some of the others were revoked, *)
(* in the order of a dictionary.                                           *)
(***************************************************************************)
half_applied(st, tx) ==
  IF /\ validate_transaction(st, tx) /\ tx.category \in {ALLOCATE, DELEGATE} /\ tx.to \in Addr
     /\ ~affected_raises(st, tx.sender, tx.value)
  THEN LET a == tx.sender
           revocable == { b \in Addr : /\ affected_delegated_ips(st, a, tx.value)[b] # {}
                                       /\ ~revoke_raises(st, a, b, tx.value) }
       IN  { [st EXCEPT !.received = [b \in Addr |-> IF b \in B
                                                     THEN revoke_received(st, a, tx.value)[b]
                                                     ELSE @[b]]] : B \in SUBSET revocable }
  ELSE {st}

-----------------------------------------------------------------------------
(***************************************************************************)
(* Startup and loss of the process.                                        *)
(***************************************************************************)
Init ==
  /\ pc = "idle"
  /\ now = 0
  /\ state = genesis_state
  /\ prev_header = GenesisBlock
  /\ head_hash = Hash(GenesisBlock)
  /\ block_number = 0
  /\ patricia = genesis_patricia
  /\ time_queue = <<>>
  /\ transactions = <<>>
  /\ block = NoBlock
  /\ todo = <<>>
  /\ scratch = genesis_state
  /\ cached = NoEntries
  /\ db = [chain |-> <<>>, state |-> genesis_state]
  /\ file = genesis_patricia
  /\ damage = {}
  /\ crashes = 0

EmptyHand ==
  /\ block' = NoBlock
  /\ todo' = <<>>
  /\ scratch' = genesis_state
  /\ cached' = NoEntries

\* The process ends: what is in memory is lost, uncommitted puts included.
Stop ==
  /\ pc' = "down"
  /\ state' = genesis_state
  /\ prev_header' = GenesisBlock
  /\ head_hash' = Hash(GenesisBlock)
  /\ block_number' = 0
  /\ patricia' = NoEntries
  /\ time_queue' = <<>>
  /\ transactions' = <<>>
  /\ EmptyHand
  /\ UNCHANGED <<now, diskvars>>

\* An exception reaches the main loop, which stops the node.
Exit == Stop /\ UNCHANGED history

(***************************************************************************)
(* The process is killed.  With a block committed, a truncated patricia.p  *)
(* is not made good at startup; a dump before the commit records a block   *)
(* that the database does not have.                                        *)
(***************************************************************************)
Crash ==
  /\ pc # "down"
  /\ crashes < MaxCrash
  /\ crashes' = crashes + 1
  /\ damage' = damage \cup (IF file = Torn /\ db.chain # <<>> THEN {"torn"} ELSE {})
                      \cup (IF pc = "commit" THEN {"ahead"} ELSE {})
  /\ Stop

\* Mutant: the genesis entries are set at every start.
RestartFromGenesis ==
  LET loaded == IF file = Torn THEN NoEntries ELSE file
  IN  /\ pc = "down"
      /\ pc' = "idle"
      /\ patricia' = set_values(loaded, genesis_patricia)
      /\ state' = db.state
      /\ prev_header' = HeadBlock
      /\ head_hash' = Hash(HeadBlock)
      /\ block_number' = HeadBlock.number
      /\ UNCHANGED <<now, time_queue, transactions, handvars, diskvars, history>>

\* Mutant: the genesis entries are not set when a file exists.
RestartFromFile ==
  /\ pc = "down"
  /\ pc' = "idle"
  /\ patricia' = IF file = Torn THEN NoEntries ELSE file
  /\ state' = db.state
  /\ prev_header' = HeadBlock
  /\ head_hash' = Hash(HeadBlock)
  /\ block_number' = HeadBlock.number
  /\ UNCHANGED <<now, time_queue, transactions, handvars, diskvars, history>>

\* Chain.__init__: without a saved head the genesis entries are set and saved.
Restart ==
  LET loaded == IF file = Torn THEN NoEntries ELSE file
      fresh == db.chain = <<>>
  IN  /\ pc = "down"
      /\ pc' = "idle"
      /\ patricia' = IF fresh THEN set_values(loaded, genesis_patricia) ELSE loaded
      /\ file' = IF fresh THEN patricia' ELSE file
      /\ state' = db.state
      /\ prev_header' = HeadBlock
      /\ head_hash' = Hash(HeadBlock)
      /\ block_number' = HeadBlock.number
      /\ UNCHANGED <<now, time_queue, transactions, handvars, db, history>>

\* The clock is read at these places only; it runs at the others unobserved.
Tick ==
  /\ pc \in {"idle", "add", "down"}
  /\ now < MaxTime
  /\ now' = now + 1
  /\ UNCHANGED <<pc, state, headvars, patricia, time_queue, transactions, handvars,
                 diskvars, history>>

-----------------------------------------------------------------------------
(***************************************************************************)
(* Pending transactions.  An invalid one is discarded.                     *)
(***************************************************************************)
add_pending_transaction(tx) ==
  /\ pc = "idle"
  /\ Len(transactions) < MaxPool
  /\ validate_transaction(state, tx)
  /\ transactions' = Append(transactions, tx)
  /\ UNCHANGED <<pc, now, state, headvars, patricia, time_queue, handvars, diskvars, history>>

\* A transaction from the network, unless it is known already.
ReceiveTx(tx) == ~in_chain(tx) /\ ~in_pool(tx) /\ add_pending_transaction(tx)

\* A transaction of the user: signed with a key of the node, with the nonce the
\* account has on the chain, and not looked up in the pool.
SubmitTx(tx) ==
  /\ tx.sender \in Mine
  /\ tx.nonce = state.nonce[tx.sender]
  /\ add_pending_transaction(tx)

-----------------------------------------------------------------------------
(***************************************************************************)
(* Block creation, when consensus selects an IP whose address is the       *)
(* node's.  create_block applies the pool, in order, to a scratch state.   *)
(***************************************************************************)
BlockTimeReached ==
  /\ pc = "idle"
  /\ now - HeadBlock.timestamp >= BLOCK_TIME

CreateBlock ==
  /\ BlockTimeReached
  /\ now - HeadBlock.timestamp < TIMEOUT
  /\ block_number < MaxHeight
  /\ \E ip \in IP : get_value(patricia, ip) \in Mine
  /\ block' = [prevhash |-> head_hash, number |-> block_number + 1,
               timestamp |-> now, txs |-> <<>>]
  /\ time_queue' = not_due(time_queue, NoTime)
  /\ todo' = transactions
  /\ scratch' = state
  /\ pc' = "create"
  /\ UNCHANGED <<now, state, headvars, patricia, transactions, cached, diskvars, history>>

\* get_addr_from_ip raises when no entry of the tree covers the selected IP,
\* before a block is created and before a received one is verified.
SignerUnknown ==
  /\ pc = "idle"
  /\ \E ip \in IP : get_value(patricia, ip) = Blank
  /\ Exit

\* The expected signer created no block in time.
BlockTimeout ==
  /\ BlockTimeReached
  /\ now - HeadBlock.timestamp >= TIMEOUT
  /\ Exit

Creating == pc = "create" /\ todo # <<>>

\* Mutant: every transaction is tried on a fresh copy of the head state.
TakeTxAlone ==
  /\ Creating
  /\ Head(todo).afi = Family(block.number)
  /\ Applies(state, Head(todo))
  /\ block' = [block EXCEPT !.txs = Append(@, Head(todo))]
  /\ todo' = Tail(todo)
  /\ UNCHANGED <<pc, now, state, headvars, patricia, time_queue, transactions, scratch,
                 cached, diskvars, history>>

\* The transaction applies after those already taken.
TakeTx ==
  /\ Creating
  /\ Head(todo).afi = Family(block.number)
  /\ Applies(scratch, Head(todo))
  /\ scratch' = apply_transaction(scratch, Head(todo))
  /\ block' = [block EXCEPT !.txs = Append(@, Head(todo))]
  /\ todo' = Tail(todo)
  /\ UNCHANGED <<pc, now, state, headvars, patricia, time_queue, transactions, cached,
                 diskvars, history>>

\* The other family's transactions wait; one that raises is logged.
SkipTx ==
  /\ Creating
  /\ \/ Head(todo).afi # Family(block.number) /\ scratch' = scratch
     \/ /\ Head(todo).afi = Family(block.number)
        /\ ~Applies(scratch, Head(todo))
        /\ scratch' \in half_applied(scratch, Head(todo))
  /\ todo' = Tail(todo)
  /\ UNCHANGED <<pc, now, state, headvars, patricia, time_queue, transactions, block,
                 cached, diskvars, history>>

\* _create_tries applies the transactions a second time, to a clone of the
\* state; CreatedBlockValid is why that does not raise.
CreateDone ==
  /\ pc = "create"
  /\ todo = <<>>
  /\ scratch' = genesis_state
  /\ pc' = "add"
  /\ UNCHANGED <<now, state, headvars, patricia, time_queue, transactions, block, todo,
                 cached, diskvars, history>>

-----------------------------------------------------------------------------
(***************************************************************************)
(* Blocks from the network that passed the signature checks.  They may be  *)
(* old, early, built on another block, or carry any transactions.          *)
(***************************************************************************)
ReceiveBlock(b) ==
  /\ pc = "idle"
  /\ block' = b
  /\ pc' = "add"
  /\ UNCHANGED <<now, state, headvars, patricia, time_queue, transactions, todo, scratch,
                 cached, diskvars, history>>

\* A successor of the head, one with the wrong number, a rival (or a second
\* delivery) of the head, and one whose parent the node does not know.
NetworkBlocks ==
  LET links == { <<head_hash, block_number + 1>>, <<head_hash, block_number>>,
                 <<prev_header.prevhash, block_number>>, <<UnknownHash, block_number + 1>> }
  IN  { [prevhash |-> l[1], number |-> l[2], timestamp |-> t, txs |-> txs] :
          l \in { l \in links : l[2] <= MaxHeight },
          t \in 1..(IF Len(time_queue) < MaxQueue /\ now < MaxTime THEN now + 1 ELSE now),
          txs \in BlockTxs }

-----------------------------------------------------------------------------
(***************************************************************************)
(* ChainService.add_block and Chain.add_block, on the block in hand.       *)
(***************************************************************************)

\* A transaction of the wrong family raises before anything is looked at.
AddRaises ==
  /\ pc = "add"
  /\ WrongFamily(block)
  /\ Exit

\* Mutant: the block stays in hand.
LeaveBlockInHand ==
  /\ transactions' = purged(transactions, block.txs, state)
  /\ pc' = "idle"
  /\ UNCHANGED <<now, state, headvars, patricia, handvars, diskvars, history>>

\* The block is left, and the pool tidied all the same.
LeaveBlock ==
  /\ transactions' = purged(transactions, block.txs, state)
  /\ EmptyHand
  /\ pc' = "idle"
  /\ UNCHANGED <<now, state, headvars, patricia, diskvars, history>>

AddRefused ==
  /\ pc = "add"
  /\ ~WrongFamily(block)
  /\ ~validate_block(block)
  /\ LeaveBlock
  /\ UNCHANGED time_queue

AddLaidAside ==
  /\ pc = "add"
  /\ ~WrongFamily(block)
  /\ validate_block(block)
  /\ block.timestamp > now
  /\ time_queue' = queue_insert(time_queue, block)
  /\ LeaveBlock

\* The branches for side chains and for blocks without a parent are behind
\* validate_header; ValidBlockExtendsHead is why they are not reached.
BeginApply ==
  /\ pc = "add"
  /\ ~WrongFamily(block)
  /\ validate_block(block)
  /\ block.timestamp <= now
  /\ block.prevhash = head_hash
  /\ todo' = block.txs
  /\ pc' = "apply"
  /\ UNCHANGED <<now, state, headvars, patricia, time_queue, transactions, block, scratch,
                 cached, diskvars, history>>

Applying == pc = "apply" /\ todo # <<>>

ApplyTx ==
  /\ Applying
  /\ Applies(state, Head(todo))
  /\ state' = apply_transaction(state, Head(todo))
  /\ cached' = cache_transaction(cached, Head(todo))
  /\ todo' = Tail(todo)
  /\ UNCHANGED <<pc, now, headvars, patricia, time_queue, transactions, block, scratch,
                 diskvars, history>>

\* Chain.add_block does not catch what apply_block raises.
ApplyRaises ==
  /\ Applying
  /\ ~Applies(state, Head(todo))
  /\ Exit

\* The header is recorded, the tree takes the cached entries, and to_db opens
\* the file for writing.
ApplyDone ==
  /\ pc = "apply"
  /\ todo = <<>>
  /\ prev_header' = block
  /\ patricia' = set_values(patricia, cached)
  /\ cached' = NoEntries
  /\ file' = Torn
  /\ pc' = "dump"
  /\ UNCHANGED <<now, state, head_hash, block_number, time_queue, transactions, block, todo,
                 scratch, db, history>>

DumpPatricia ==
  /\ pc = "dump"
  /\ file' = patricia
  /\ pc' = "commit"
  /\ UNCHANGED <<now, state, headvars, patricia, time_queue, transactions, handvars, db,
                 history>>

\* Mutant: the block number is not advanced.
CommitBlockOldNumber ==
  /\ pc = "commit"
  /\ db' = [chain |-> Append(db.chain, block), state |-> state]
  /\ head_hash' = Hash(block)
  /\ transactions' = purged(transactions, block.txs, state)
  /\ EmptyHand
  /\ pc' = "idle"
  /\ UNCHANGED <<now, state, prev_header, block_number, patricia, time_queue, file, history>>

\* The batch is written; head_hash and the block number follow, then the pool.
CommitBlock ==
  /\ pc = "commit"
  /\ db' = [chain |-> Append(db.chain, block), state |-> state]
  /\ head_hash' = Hash(block)
  /\ block_number' = block.number
  /\ transactions' = purged(transactions, block.txs, state)
  /\ EmptyHand
  /\ pc' = "idle"
  /\ UNCHANGED <<now, state, prev_header, patricia, time_queue, file, history>>

-----------------------------------------------------------------------------
\* The steps of the main loop once it has a block in hand.
BlockStep ==
  \/ TakeTx \/ SkipTx \/ CreateDone
  \/ AddRaises \/ AddRefused \/ AddLaidAside \/ BeginApply
  \/ ApplyTx \/ ApplyRaises \/ ApplyDone \/ DumpPatricia \/ CommitBlock

Next ==
  \/ Tick
  \/ \E tx \in Tx : ReceiveTx(tx)
  \/ \E tx \in Tx : SubmitTx(tx)
  \/ CreateBlock
  \/ SignerUnknown
  \/ BlockTimeout
  \/ \E b \in NetworkBlocks : ReceiveBlock(b)
  \/ BlockStep
  \/ Crash
  \/ Restart

Spec == Init /\ [][Next]_vars
-----------------------------------------------------------------------------
(***************************************************************************)
(* Properties.                                                             *)
(***************************************************************************)
BlockOK(b) ==
  /\ DOMAIN b = {"prevhash", "number", "timestamp", "txs"}
  /\ b.number \in 0..MaxHeight
  /\ b.timestamp \in 0..MaxTime
  /\ ToSet(b.txs) \subseteq Tx

\* The variables have their types, and the main loop is idle exactly when it
\* has no block in hand.
TypeOK ==
  /\ pc \in {"idle", "create", "add", "apply", "dump", "commit", "down"}
  /\ now \in 0..MaxTime
  /\ state \in LedgerState /\ scratch \in LedgerState /\ db.state \in LedgerState
  /\ BlockOK(prev_header) /\ BlockOK(block)
  /\ block_number \in 0..MaxHeight
  /\ patricia \in Patricia /\ cached \in Patricia /\ file \in Patricia \cup {Torn}
  /\ \A i \in DOMAIN time_queue : BlockOK(time_queue[i])
  /\ \A i \in DOMAIN db.chain : BlockOK(db.chain[i])
  /\ Len(db.chain) <= MaxHeight /\ Len(time_queue) <= MaxQueue /\ Len(transactions) <= MaxPool
  /\ ToSet(transactions) \subseteq Tx /\ ToSet(todo) \subseteq Tx
  /\ damage \subseteq {"torn", "ahead"} /\ crashes \in 0..MaxCrash
  /\ pc \in {"idle", "down"} => block = NoBlock

\* Between blocks, and until a block is applied, the four things that say where
\* the head is agree: chain.head_hash, prev_headers[0], block_number and the
\* database, and the state in memory is the committed one.  They are assigned at
\* different places of add_block and apply_block, and set anew at a restart.
HeadsAgree ==
  pc \in {"idle", "create", "add"} =>
    /\ prev_header = HeadBlock
    /\ head_hash = Hash(HeadBlock)
    /\ block_number = HeadBlock.number
    /\ state = db.state

\* The committed chain is linked by hashes, numbered without gaps, strictly
\* later from block to block, never ahead of the clock, and each block carries
\* the transactions of its family only.
ChainLinked ==
  \A i \in DOMAIN db.chain :
    LET b == db.chain[i]
        parent == IF i = 1 THEN GenesisBlock ELSE db.chain[i - 1]
    IN  /\ b.prevhash = Hash(parent)
        /\ b.number = i
        /\ parent.timestamp < b.timestamp /\ b.timestamp <= now
        /\ ~WrongFamily(b)

\* All transactions of the committed chain, in order.
ChainTxs == FoldLeft(LAMBDA txs, b : txs \o b.txs, <<>>, db.chain)

\* The places of the transactions of account a in a list.
Sent(txs, a) == { i \in DOMAIN txs : txs[i].sender = a }

\* The nonces of a list count the transactions of each account, from 0 on, and the
\* state holds their number.
NonceOK(txs, st) ==
  \A a \in Addr :
    /\ st.nonce[a] = Cardinality(Sent(txs, a))
    /\ \A i \in Sent(txs, a) : txs[i].nonce = Cardinality({ j \in Sent(txs, a) : j < i })

\* The k-th transaction of an account on the chain carries nonce k - 1 and the
\* account's committed nonce is their number: no transaction is applied twice or
\* out of order, through refused blocks, crashes and restarts.
NoReplay == NonceOK(ChainTxs, db.state)

\* Every pending transaction is valid on the state of the head, whatever blocks
\* were added, refused or laid aside since it came in.
PoolValid ==
  pc \in {"idle", "create", "add"} =>
    \A tx \in ToSet(transactions) : validate_transaction(state, tx)

\* All of a list applies, one after the other.
AppliesAll(st, txs) ==
  FoldLeft(LAMBDA r, tx : IF r.ok /\ Applies(r.st, tx)
                          THEN [ok |-> TRUE, st |-> apply_transaction(r.st, tx)]
                          ELSE [ok |-> FALSE, st |-> r.st],
           [ok |-> TRUE, st |-> st], txs).ok

\* The block create_block builds passes this node's own add_block: although the
\* pool is applied to a scratch state that failed transactions leave modified,
\* what was chosen is valid on the head state and applies to it as a whole.
CreatedBlockValid ==
  pc = "create" =>
    /\ validate_block(block)
    /\ ~WrongFamily(block)
    /\ block.timestamp <= now
    /\ AppliesAll(state, block.txs)

\* A block that passes validate_block builds on the head, so the side-chain
\* branch of Chain.add_block, whose apply_block call lacks an argument, and the
\* parent queue are never reached.
ValidBlockExtendsHead ==
  pc = "add" /\ validate_block(block) => block.prevhash = head_hash

\* The tree the committed blocks give, from the genesis entries on.
ChainTree ==
  FoldLeft(LAMBDA tree, b : set_values(tree, FoldLeft(cache_transaction, NoEntries, b.txs)),
           genesis_patricia, db.chain)

\* Without a crash inside the two disk writes, the tree in memory and the one in
\* patricia.p are those of the committed chain, after restarts too.
TreeFollowsChain ==
  damage = {} /\ pc = "idle" => patricia = ChainTree /\ file = ChainTree

\* As long as no crash hit a truncated patricia.p, every owned IP is found: a
\* dump that runs ahead of the database does not lose entries, and a fresh node
\* recovers from any file.
FoundUnlessTorn ==
  "torn" \notin damage /\ pc # "down" =>
    \A a \in Addr : \A ip \in state.own[a] : get_value(patricia, ip) # Blank

\* What the comment on process_time_queue says: a call processes the blocks that
\* were laid aside because they were too early, once their time has come.
TimeQueueProcessed ==
  [][ CreateBlock => \A i \in DOMAIN time_queue' : time_queue'[i].timestamp > now ]_vars

\* What query_eid's message says: an IP that is not found is owned by nobody.
NotFoundIsNotOwned ==
  pc = "idle" =>
    \A ip \in IP : get_value(patricia, ip) = Blank => \A a \in Addr : ip \notin state.own[a]
=============================================================================
