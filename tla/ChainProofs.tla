----------------------------- MODULE ChainProofs -----------------------------
(***************************************************************************)
(* Proofs about the chain of a node, for any number of blocks, crashes and *)
(* restarts.                                                               *)
(*                                                                         *)
(* The invariant comes in parts, each inductive on top of the ones before: *)
(*   HInv      follows a block through the stages of add_block: from its   *)
(*             validation to the commit it is the linked successor of the  *)
(*             committed head, and prev_headers[0] is the committed head   *)
(*             until the block is applied, the block itself from then on;  *)
(*   Types     the variables have their types;                             *)
(*   Pending   the pool, and what create_block has yet to try, is valid;   *)
(*   Creation  the block being created is one that add_block will accept;  *)
(*   Applied   how far a block in hand is applied: nonces and tree entries;*)
(*   Trees     the tree in memory and the file, stage by stage;            *)
(*   Coverage  which tree has an entry for every owned address.            *)
(*                                                                         *)
(* The loops of the code are folds in the model, and what a fold keeps is  *)
(* proved once, in FoldProofs.                                             *)
(***************************************************************************)
EXTENDS Chain, BalanceProofs, FoldProofs

IsBlock(b) ==
  /\ b = [prevhash |-> b.prevhash, number |-> b.number, timestamp |-> b.timestamp, txs |-> b.txs]
  /\ b.timestamp \in Nat

\* b may follow the committed head.
Follows(b) ==
  /\ b.prevhash = Hash(HeadBlock)
  /\ b.number = HeadBlock.number + 1
  /\ HeadBlock.timestamp < b.timestamp /\ b.timestamp <= now
  /\ ~WrongFamily(b)

\* The committed chain is a sequence of blocks, and its head is the last one.
Committed ==
  /\ now \in Nat
  /\ \E S : db.chain \in Seq(S)
  /\ \A i \in DOMAIN db.chain : db.chain[i].timestamp \in Nat
  /\ HeadBlock.number = Len(db.chain)
  /\ HeadBlock.timestamp \in Nat /\ HeadBlock.timestamp <= now

\* The block in hand and the header in memory, stage by stage.
InHand ==
  /\ pc \in {"create", "add", "apply", "dump", "commit"} => IsBlock(block)
  /\ pc \in {"apply", "dump", "commit"} => Follows(block)
  /\ pc = "apply" => prev_header = HeadBlock
  /\ pc \in {"dump", "commit"} => prev_header = block

HInv == Committed /\ ChainLinked /\ HeadsAgree /\ InHand

-----------------------------------------------------------------------------
\* A node that starts with an empty database satisfies it.
LEMMA InitHInv == Init => HInv
<1>. SUFFICES ASSUME Init PROVE HInv
  OBVIOUS
<1>. USE DEF Init
<1>1. db.chain = <<>> /\ db.state = genesis_state /\ HeadBlock = GenesisBlock
  BY DEF HeadBlock
<1>2. Committed
  <2>1. <<>> \in Seq({})
    OBVIOUS
  <2>2. \E S : db.chain \in Seq(S)
    BY <1>1, <2>1
  <2>. QED  BY <1>1, <2>2 DEF Committed, GenesisBlock
<1>3. ChainLinked
  BY <1>1 DEF ChainLinked
<1>4. HeadsAgree
  BY <1>1 DEF HeadsAgree, GenesisBlock
<1>5. InHand
  BY DEF InHand
<1>. QED  BY <1>2, <1>3, <1>4, <1>5 DEF HInv

\* What the clock and the database decide is kept while they are.
LEMMA CommittedKept ==
  ASSUME HInv, UNCHANGED <<now, db>>
  PROVE  /\ Committed' /\ ChainLinked'
         /\ HeadBlock' = HeadBlock
         /\ \A b : Follows(b)' <=> Follows(b)
BY DEF HInv, Committed, ChainLinked, HeadBlock, Follows, WrongFamily

\* A step that leaves the head alone, at a stage that is not past the
\* validation, keeps the invariant if what it has in hand is a block.
LEMMA HeadKept ==
  ASSUME HInv, UNCHANGED <<now, db, headvars, state>>,
         pc \in {"idle", "create", "add"},
         pc' \in {"idle", "create", "add"},
         pc' # "idle" => IsBlock(block')
  PROVE  HInv'
<1>1. /\ Committed' /\ ChainLinked'
      /\ HeadBlock' = HeadBlock
  BY CommittedKept
<1>2. HeadsAgree'
  BY <1>1 DEF HInv, HeadsAgree, headvars
<1>3. InHand'
  BY <1>1 DEF InHand, IsBlock
<1>. QED  BY <1>1, <1>2, <1>3 DEF HInv

\* So does the end of the process.
LEMMA StopKept ==
  ASSUME HInv, Stop
  PROVE  HInv'
<1>1. UNCHANGED <<now, db>> /\ pc' = "down"
  BY DEF Stop, diskvars
<1>2. Committed' /\ ChainLinked'
  BY <1>1, CommittedKept
<1>. QED  BY <1>1, <1>2 DEF HInv, HeadsAgree, InHand

\* The committed block becomes the head, and the chain stays linked.
LEMMA CommitKept ==
  ASSUME HInv, CommitBlock
  PROVE  HInv'
<1>. DEFINE n == Len(db.chain)
<1>1. /\ pc = "commit" /\ pc' = "idle"
      /\ db'.chain = Append(db.chain, block) /\ db'.state = state
      /\ head_hash' = Hash(block) /\ block_number' = block.number
      /\ UNCHANGED <<now, state, prev_header>>
  BY DEF CommitBlock
<1>2. PICK S : db.chain \in Seq(S)
  BY DEF HInv, Committed
<1>3. /\ db'.chain \in Seq(S \cup {block})
      /\ n \in Nat /\ Len(db'.chain) = n + 1
      /\ DOMAIN db.chain = 1..n /\ DOMAIN db'.chain = 1..(n + 1)
      /\ \A i \in 1..n : db'.chain[i] = db.chain[i]
      /\ db'.chain[n + 1] = block
  BY <1>1, <1>2
<1>4. HeadBlock' = block
  BY <1>3 DEF HeadBlock, Last
<1>5. HeadBlock = IF n = 0 THEN GenesisBlock ELSE db.chain[n]
  BY <1>2 DEF HeadBlock, Last
<1>6. IsBlock(block) /\ Follows(block) /\ prev_header = block
  BY <1>1 DEF HInv, InHand
<1>7. block.number = n + 1
  BY <1>3, <1>6 DEF HInv, Committed, Follows
<1>8. Committed'
  <2>1. \E T : db'.chain \in Seq(T)
    BY <1>3
  <2>2. \A i \in DOMAIN db'.chain : db'.chain[i].timestamp \in Nat
    BY <1>3, <1>6 DEF HInv, Committed, IsBlock
  <2>. QED
    BY <1>1, <1>3, <1>4, <1>6, <1>7, <2>1, <2>2 DEF HInv, Committed, IsBlock, Follows
<1>9. ChainLinked'
  <2>. DEFINE par(i) == IF i = 1 THEN GenesisBlock ELSE db'.chain[i - 1]
  <2>1. SUFFICES ASSUME NEW i \in 1..(n + 1)
                 PROVE  /\ db'.chain[i].prevhash = Hash(par(i))
                        /\ db'.chain[i].number = i
                        /\ par(i).timestamp < db'.chain[i].timestamp
                        /\ db'.chain[i].timestamp <= now
                        /\ ~WrongFamily(db'.chain[i])
    BY <1>1, <1>3 DEF ChainLinked, WrongFamily, Family
  <2>2. CASE i \in 1..n
    <3>1. par(i) = IF i = 1 THEN GenesisBlock ELSE db.chain[i - 1]
      BY <1>3, <2>2
    <3>2. db'.chain[i] = db.chain[i]
      BY <1>3, <2>2
    <3>. HIDE DEF par
    <3>. QED  BY <1>3, <2>2, <3>1, <3>2 DEF HInv, ChainLinked
  <2>3. CASE i = n + 1
    <3>1. par(i) = HeadBlock
      BY <1>3, <1>5, <2>3
    <3>. HIDE DEF par
    <3>. QED  BY <1>3, <1>6, <1>7, <2>3, <3>1 DEF Follows
  <2>. QED  BY <1>3, <2>2, <2>3
<1>10. HeadsAgree' /\ InHand'
  BY <1>1, <1>4, <1>6 DEF HeadsAgree, InHand
<1>. QED  BY <1>8, <1>9, <1>10 DEF HInv

\* Every step of the node preserves the invariant.
LEMMA NextHInv == HInv /\ [Next]_vars => HInv'
<1>. SUFFICES ASSUME HInv, [Next]_vars PROVE HInv'
  OBVIOUS
<1>0. CASE UNCHANGED vars
  <2>1. UNCHANGED <<pc, now, state, headvars, block, db>>
    BY <1>0 DEF vars, handvars, diskvars
  <2>2. Committed' /\ ChainLinked' /\ HeadBlock' = HeadBlock /\ (\A b : Follows(b)' <=> Follows(b))
    BY <2>1, CommittedKept
  <2>. QED
    BY <2>1, <2>2 DEF HInv, HeadsAgree, InHand, headvars, IsBlock, Follows, Hash, WrongFamily,
                      Family
<1>1. CASE Tick
  <2>1. /\ UNCHANGED <<pc, state, headvars, block, db>> /\ now' = now + 1
        /\ pc \in {"idle", "add", "down"}
    BY <1>1 DEF Tick, handvars, diskvars
  <2>2. HeadBlock' = HeadBlock
    BY <2>1 DEF HeadBlock
  <2>3. Committed' /\ ChainLinked'
    BY <2>1, <2>2 DEF HInv, Committed, ChainLinked, WrongFamily
  <2>4. HeadsAgree' /\ InHand'
    BY <2>1, <2>2 DEF HInv, HeadsAgree, InHand, IsBlock, headvars
  <2>. QED  BY <2>3, <2>4 DEF HInv
<1>2. ASSUME NEW tx \in Tx, add_pending_transaction(tx) PROVE HInv'
  BY <1>2, HeadKept DEF add_pending_transaction, diskvars
<1>3. CASE CreateBlock
  <2>1. IsBlock(block')
    BY <1>3 DEF CreateBlock, IsBlock, HInv, Committed
  <2>. QED  BY <1>3, <2>1, HeadKept DEF CreateBlock, BlockTimeReached, diskvars
<1>4. CASE SignerUnknown \/ BlockTimeout \/ AddRaises \/ ApplyRaises \/ Crash
  BY <1>4, StopKept DEF SignerUnknown, BlockTimeout, AddRaises, ApplyRaises, Crash, Exit
<1>5. ASSUME NEW b \in NetworkBlocks, ReceiveBlock(b) PROVE HInv'
  <2>1. IsBlock(b)
    BY DEF NetworkBlocks, IsBlock, HInv, Committed
  <2>. QED  BY <1>5, <2>1, HeadKept DEF ReceiveBlock, diskvars
<1>6. CASE TakeTx
  <2>1. IsBlock(block)
    BY <1>6 DEF TakeTx, Creating, HInv, InHand
  <2>2. block' = [block EXCEPT !.txs = Append(@, Head(todo))]
    BY <1>6 DEF TakeTx
  <2>3. IsBlock(block')
    BY <2>1, <2>2 DEF IsBlock
  <2>. QED  BY <1>6, <2>3, HeadKept DEF TakeTx, Creating, diskvars
<1>7. CASE SkipTx \/ CreateDone
  <2>1. IsBlock(block')
    BY <1>7 DEF SkipTx, CreateDone, Creating, HInv, InHand, IsBlock
  <2>. QED  BY <1>7, <2>1, HeadKept DEF SkipTx, CreateDone, Creating, diskvars
<1>8. CASE AddRefused \/ AddLaidAside
  BY <1>8, HeadKept DEF AddRefused, AddLaidAside, LeaveBlock, diskvars
<1>9. CASE BeginApply
  <2>1. /\ pc = "add" /\ pc' = "apply"
        /\ UNCHANGED <<now, db, prev_header, block>>
        /\ ~WrongFamily(block) /\ validate_header(block) /\ block.timestamp <= now
    BY <1>9 DEF BeginApply, validate_block, headvars, diskvars
  <2>2. prev_header = HeadBlock /\ IsBlock(block)
    BY <2>1 DEF HInv, HeadsAgree, InHand
  <2>3. Follows(block)
    BY <2>1, <2>2 DEF Follows, validate_header, HInv, Committed, IsBlock
  <2>4. Committed' /\ ChainLinked' /\ HeadBlock' = HeadBlock /\ (\A b : Follows(b)' <=> Follows(b))
    BY <2>1, CommittedKept
  <2>. QED
    BY <2>1, <2>2, <2>3, <2>4 DEF HInv, HeadsAgree, InHand, IsBlock, Follows, Hash, WrongFamily,
                                  Family
<1>10. CASE ApplyTx \/ ApplyDone \/ DumpPatricia
  <2>1. /\ pc \in {"apply", "dump"}
        /\ UNCHANGED <<now, db, block>>
        /\ \/ pc = "apply" /\ pc' = "apply" /\ UNCHANGED prev_header
           \/ pc = "apply" /\ pc' = "dump" /\ prev_header' = block
           \/ pc = "dump" /\ pc' = "commit" /\ UNCHANGED prev_header
    BY <1>10 DEF ApplyTx, ApplyDone, DumpPatricia, Applying, headvars, handvars, diskvars
  <2>2. Committed' /\ ChainLinked' /\ HeadBlock' = HeadBlock /\ (\A b : Follows(b)' <=> Follows(b))
    BY <2>1, CommittedKept
  <2>. QED  BY <2>1, <2>2 DEF HInv, HeadsAgree, InHand, IsBlock, Follows, Hash, WrongFamily, Family
<1>11. CASE CommitBlock
  BY <1>11, CommitKept
<1>12. CASE Restart
  <2>1. /\ pc' = "idle" /\ UNCHANGED <<now, db>>
        /\ state' = db.state
        /\ prev_header' = HeadBlock
        /\ head_hash' = Hash(HeadBlock)
        /\ block_number' = HeadBlock.number
    BY <1>12 DEF Restart
  <2>2. Committed' /\ ChainLinked' /\ HeadBlock' = HeadBlock
    BY <2>1, CommittedKept
  <2>. QED  BY <2>1, <2>2 DEF HInv, HeadsAgree, InHand
<1>. QED
  BY <1>0, <1>1, <1>2, <1>3, <1>4, <1>5, <1>6, <1>7, <1>8, <1>9, <1>10, <1>11, <1>12
     DEF Next, BlockStep, ReceiveTx, SubmitTx

\* The invariant holds of every reachable state.
LEMMA HeadInvariance == Spec => []HInv
BY InitHInv, NextHInv, PTL DEF Spec

-----------------------------------------------------------------------------
\* chain.head_hash, prev_headers[0], block_number, the state in memory and the
\* database agree on the head whenever the node is between blocks.
THEOREM HeadsAlwaysAgree == Spec => []HeadsAgree
<1>1. HInv => HeadsAgree
  BY DEF HInv
<1>. QED  BY <1>1, HeadInvariance, PTL

\* The committed chain is always linked, numbered, strictly later from block to
\* block and of the right families.
THEOREM ChainAlwaysLinked == Spec => []ChainLinked
<1>1. HInv => ChainLinked
  BY DEF HInv
<1>. QED  BY <1>1, HeadInvariance, PTL

\* add_block never reaches its side-chain and parent-queue branches.
THEOREM NoSideChain == Spec => []ValidBlockExtendsHead
<1>1. HInv => ValidBlockExtendsHead
  BY DEF HInv, HeadsAgree, ValidBlockExtendsHead, validate_block, validate_header
<1>. QED  BY <1>1, HeadInvariance, PTL

-----------------------------------------------------------------------------
(***************************************************************************)
(* The loops over transactions and blocks, as folds of the operators of    *)
(* the model: what each step of the loop adds.                             *)
(***************************************************************************)
\* One instance of FoldProofs per loop.
ValidFold == INSTANCE FoldProofs
  WITH op <- LAMBDA st, p, tx : IF validate_transaction(st, tx) THEN Append(p, tx) ELSE p
PoolFold == INSTANCE FoldProofs WITH op <- LAMBDA c, p, tx : RemoveFirst(p, tx)
QueueFold == INSTANCE FoldProofs WITH op <- LAMBDA t, r, b : IF Due(b, t) THEN r ELSE Append(r, b)
TxsFold == INSTANCE FoldProofs WITH op <- LAMBDA c, txs, b : txs \o b.txs
CacheFold == INSTANCE FoldProofs WITH op <- LAMBDA c, cache, tx : cache_transaction(cache, tx)
TreeFold == INSTANCE FoldProofs
  WITH op <- LAMBDA c, tree, b : set_values(tree, FoldLeft(cache_transaction, NoEntries, b.txs))
ApplyFold == INSTANCE FoldProofs
  WITH op <- LAMBDA c, r, tx : IF r.ok /\ Applies(r.st, tx)
                               THEN [ok |-> TRUE, st |-> apply_transaction(r.st, tx)]
                               ELSE [ok |-> FALSE, st |-> r.st]

\* Removing an element leaves a sequence that is not longer.
LEMMA RemoveFirstOK ==
  ASSUME NEW S, NEW s \in Seq(S), NEW e
  PROVE  RemoveFirst(s, e) \in Seq(S) /\ Len(RemoveFirst(s, e)) <= Len(s)
<1>. DEFINE I == { i \in 1..Len(s) : s[i] = e }
<1>1. CASE ~ \E i \in 1..Len(s) : s[i] = e
  BY <1>1 DEF RemoveFirst
<1>2. CASE \E i \in 1..Len(s) : s[i] = e
  <2>1. I # {} /\ I \in SUBSET Nat
    BY <1>2
  <2>2. Min(I) \in I
    <3>1. \E m \in I : \A k \in I : m <= k
      <4>. HIDE DEF I
      <4>. QED  BY <2>1, LeastNat
    <3>. HIDE DEF I
    <3>. QED  BY <3>1 DEF Min
  <2>3. PICK m : m = Min(I)
    OBVIOUS
  <2>4. m \in 1..Len(s)
    BY <2>2, <2>3
  <2>5. SelectInSeq(s, LAMBDA v : v = e) = m
    BY <2>1, <2>3 DEF SelectInSeq
  <2>6. RemoveFirst(s, e) = SubSeq(s, 1, m - 1) \o SubSeq(s, m + 1, Len(s))
    BY <1>2, <2>5 DEF RemoveFirst, RemoveAt
  <2>7. /\ SubSeq(s, 1, m - 1) \in Seq(S) /\ Len(SubSeq(s, 1, m - 1)) = m - 1
        /\ SubSeq(s, m + 1, Len(s)) \in Seq(S) /\ Len(SubSeq(s, m + 1, Len(s))) = Len(s) - m
    BY <2>4
  <2>8. PICK u, v : u = SubSeq(s, 1, m - 1) /\ v = SubSeq(s, m + 1, Len(s))
    OBVIOUS
  <2>9. u \o v \in Seq(S) /\ Len(u \o v) = Len(u) + Len(v)
    BY <2>7, <2>8
  <2>10. RemoveFirst(s, e) = u \o v
    BY <2>6, <2>8
  <2>11. Len(u) + Len(v) <= Len(s)
    <3>1. Len(u) = m - 1 /\ Len(v) = Len(s) - m /\ Len(s) \in Nat /\ m \in Nat
      BY <2>4, <2>7, <2>8
    <3>. QED  BY ONLY <3>1
  <2>. QED  BY <2>9, <2>10, <2>11
<1>. QED  BY <1>1, <1>2

\* What is left of the pool without a block's transactions.
LEMMA WithoutOK ==
  ASSUME NEW pool \in Seq(Tx), NEW txs \in Seq(Tx)
  PROVE  without(pool, txs) \in Seq(Tx) /\ Len(without(pool, txs)) <= Len(pool)
<1>. DEFINE D == { p \in Seq(Tx) : Len(p) <= Len(pool) }
<1>1. PoolFold!Closed(0, D, Tx)
  <2>1. \A p \in D : \A tx \in Tx : RemoveFirst(p, tx) \in D
    BY RemoveFirstOK
  <2>. QED  BY <2>1 DEF PoolFold!Closed
<1>2. pool \in D
  OBVIOUS
<1>3. without(pool, txs) = PoolFold!Fold(0, pool, txs)
  BY DEF without, PoolFold!Fold, FoldLeft, MapThenFoldSet, Max, PoolFold!FoldLeft,
         PoolFold!MapThenFoldSet, PoolFold!Max
<1>4. without(pool, txs) \in D
  <2>. HIDE DEF D
  <2>. QED  BY <1>1, <1>2, <1>3, PoolFold!FoldStep
<1>. QED  BY <1>4

\* The valid transactions of a list: all valid, and not more.
LEMMA ValidOnlyOK ==
  ASSUME NEW st, NEW txs \in Seq(Tx)
  PROVE  /\ valid_only(txs, st) \in Seq(Tx) /\ Len(valid_only(txs, st)) <= Len(txs)
         /\ \A i \in DOMAIN valid_only(txs, st) : validate_transaction(st, valid_only(txs, st)[i])
<1>. DEFINE D == { p \in Seq(Tx) : \A i \in DOMAIN p : validate_transaction(st, p[i]) }
            f(s) == ValidFold!Fold(st, <<>>, s)
            G == { s \in Seq(Tx) : Len(f(s)) <= Len(s) }
<1>1. ValidFold!Closed(st, D, Tx)
  <2>1. SUFFICES ASSUME NEW p \in D, NEW tx \in Tx, validate_transaction(st, tx)
                 PROVE  Append(p, tx) \in D
    BY DEF ValidFold!Closed
  <2>2. /\ p \in Seq(Tx) /\ Append(p, tx) \in Seq(Tx)
        /\ \A i \in DOMAIN p : validate_transaction(st, p[i])
    OBVIOUS
  <2>3. \A i \in DOMAIN Append(p, tx) : validate_transaction(st, Append(p, tx)[i])
    BY <2>1, <2>2
  <2>. QED  BY <2>2, <2>3
<1>2. <<>> \in D
  OBVIOUS
<1>3. \A s : valid_only(s, st) = f(s)
  BY DEF valid_only, ValidFold!Fold, FoldLeft, MapThenFoldSet, Max, ValidFold!FoldLeft,
         ValidFold!MapThenFoldSet, ValidFold!Max
<1>4. /\ f(<<>>) = <<>>
      /\ \A s \in Seq(Tx) : /\ f(s) \in D
                            /\ \A x \in Tx : f(Append(s, x)) =
                                 IF validate_transaction(st, x) THEN Append(f(s), x) ELSE f(s)
  <2>. HIDE DEF D
  <2>. QED  BY <1>1, <1>2, ValidFold!FoldStep
<1>5. \A s \in Seq(Tx) : s \in G
  <2>. HIDE DEF f
  <2>1. <<>> \in G
    BY <1>4
  <2>2. ASSUME NEW s \in Seq(Tx), NEW x \in Tx, s \in G PROVE Append(s, x) \in G
    <3>1. f(s) \in Seq(Tx) /\ Len(f(s)) <= Len(s)
      BY <1>4, <2>2
    <3>2. Len(f(Append(s, x))) <= Len(f(s)) + 1
      BY <1>4, <3>1
    <3>. QED  BY <3>1, <3>2, <1>4
  <2>. HIDE DEF G
  <2>. QED  BY <2>1, <2>2, SeqInduct
<1>. QED
  <2>1. f(txs) \in D /\ Len(f(txs)) <= Len(txs)
    <3>. HIDE DEF D, f
    <3>. QED  BY <1>4, <1>5
  <2>. HIDE DEF f
  <2>. QED  BY <1>3, <2>1

\* The pool after a block, whatever became of the block.
LEMMA PurgedOK ==
  ASSUME NEW pool \in Seq(Tx), NEW txs \in Seq(Tx), NEW st
  PROVE  /\ purged(pool, txs, st) \in Seq(Tx) /\ Len(purged(pool, txs, st)) <= Len(pool)
         /\ \A i \in DOMAIN purged(pool, txs, st) :
              validate_transaction(st, purged(pool, txs, st)[i])
<1>1. without(pool, txs) \in Seq(Tx) /\ Len(without(pool, txs)) <= Len(pool)
  BY WithoutOK
<1>2. PICK p : p = without(pool, txs)
  OBVIOUS
<1>3. purged(pool, txs, st) = valid_only(p, st)
  BY <1>2 DEF purged
<1>4. /\ valid_only(p, st) \in Seq(Tx) /\ Len(valid_only(p, st)) <= Len(p)
      /\ \A i \in DOMAIN valid_only(p, st) : validate_transaction(st, valid_only(p, st)[i])
  BY <1>1, <1>2, ValidOnlyOK
<1>. QED  BY <1>1, <1>2, <1>3, <1>4

\* No block in the time queue is ever due.
LEMMA NotDueOK ==
  ASSUME NEW S, NEW q \in Seq(S)
  PROVE  not_due(q, NoTime) = q
<1>. DEFINE f(s) == QueueFold!Fold(NoTime, <<>>, s)
            D == Seq(S)
            G == { s \in Seq(S) : f(s) = s }
<1>1. QueueFold!Closed(NoTime, D, S) /\ <<>> \in D
  BY DEF QueueFold!Closed
<1>2. \A s : not_due(s, NoTime) = f(s)
  BY DEF not_due, QueueFold!Fold, FoldLeft, MapThenFoldSet, Max, QueueFold!FoldLeft,
         QueueFold!MapThenFoldSet, QueueFold!Max
<1>3. /\ f(<<>>) = <<>>
      /\ \A s \in Seq(S) : \A x \in S : f(Append(s, x)) = Append(f(s), x)
  <2>1. /\ f(<<>>) = <<>>
        /\ \A s \in Seq(S) : \A x \in S :
             f(Append(s, x)) = IF Due(x, NoTime) THEN f(s) ELSE Append(f(s), x)
    <3>. HIDE DEF D
    <3>. QED  BY <1>1, QueueFold!FoldStep
  <2>2. \A x : ~Due(x, NoTime)
    BY DEF Due
  <2>. HIDE DEF f
  <2>. QED  BY <2>1, <2>2
<1>4. \A s \in Seq(S) : s \in G
  <2>. HIDE DEF f
  <2>1. <<>> \in G /\ \A s \in Seq(S) : \A x \in S : s \in G => Append(s, x) \in G
    BY <1>3
  <2>. HIDE DEF G
  <2>. QED  BY <2>1, SeqInduct
<1>. QED
  <2>1. f(q) = q
    <3>. HIDE DEF f
    <3>. QED  BY <1>4
  <2>. QED  BY <1>2, <2>1

\* All transactions of a chain, what the last blocks' transactions put into the tree, and
\* the tree of a chain.
TxsOf(chain) == FoldLeft(LAMBDA txs, b : txs \o b.txs, <<>>, chain)

CacheOf(txs) == FoldLeft(cache_transaction, NoEntries, txs)

TreeOf(chain) ==
  FoldLeft(LAMBDA tree, b : set_values(tree, FoldLeft(cache_transaction, NoEntries, b.txs)),
           genesis_patricia, chain)

\* The state after a list of transactions, and whether all of them applied.
Result(st, txs) ==
  FoldLeft(LAMBDA r, tx : IF r.ok /\ Applies(r.st, tx)
                          THEN [ok |-> TRUE, st |-> apply_transaction(r.st, tx)]
                          ELSE [ok |-> FALSE, st |-> r.st],
           [ok |-> TRUE, st |-> st], txs)

\* The transactions of a chain grow by those of the block.
LEMMA TxsOfOK ==
  ASSUME NEW S, \A b \in S : b.txs \in Seq(Tx)
  PROVE  /\ TxsOf(<<>>) = <<>>
         /\ \A c \in Seq(S) : /\ TxsOf(c) \in Seq(Tx)
                              /\ \A b \in S : TxsOf(Append(c, b)) = TxsOf(c) \o b.txs
<1>. DEFINE D == Seq(Tx)
<1>1. TxsFold!Closed(0, D, S) /\ <<>> \in D
  BY DEF TxsFold!Closed
<1>2. \A c : TxsOf(c) = TxsFold!Fold(0, <<>>, c)
  BY DEF TxsOf, TxsFold!Fold, FoldLeft, MapThenFoldSet, Max, TxsFold!FoldLeft,
         TxsFold!MapThenFoldSet, TxsFold!Max
<1>3. /\ TxsFold!Fold(0, <<>>, <<>>) = <<>>
      /\ \A c \in Seq(S) :
           /\ TxsFold!Fold(0, <<>>, c) \in D
           /\ \A b \in S : TxsFold!Fold(0, <<>>, Append(c, b)) = TxsFold!Fold(0, <<>>, c) \o b.txs
  <2>. HIDE DEF D
  <2>. QED  BY ONLY <1>1, TxsFold!FoldStep
<1>. QED  BY ONLY <1>2, <1>3

\* What a list of transactions sets in the tree.
LEMMA CacheOfOK ==
  /\ CacheOf(<<>>) = NoEntries
  /\ \A s \in Seq(Tx) :
       /\ CacheOf(s) \in Patricia
       /\ \A tx \in Tx : CacheOf(Append(s, tx)) = cache_transaction(CacheOf(s), tx)
<1>1. CacheFold!Closed(0, Patricia, Tx)
  <2>1. \A r \in Patricia : \A tx \in Tx : cache_transaction(r, tx) \in Patricia
    BY TxAssumption DEF cache_transaction, Patricia
  <2>. QED  BY <2>1 DEF CacheFold!Closed
<1>2. NoEntries \in Patricia
  BY DEF NoEntries, Patricia
<1>3. \A s : CacheOf(s) = CacheFold!Fold(0, NoEntries, s)
  BY DEF CacheOf, CacheFold!Fold, FoldLeft, MapThenFoldSet, Max, CacheFold!FoldLeft,
         CacheFold!MapThenFoldSet, CacheFold!Max
<1>. QED  BY <1>1, <1>2, <1>3, CacheFold!FoldStep

\* The genesis entries, and setting entries in a tree.
LEMMA TreeTypes ==
  /\ genesis_patricia \in Patricia
  /\ NoEntries \in Patricia
  /\ \A t, c \in Patricia : set_values(t, c) \in Patricia
BY GenesisAssumption DEF genesis_patricia, Patricia, NoEntries, set_values

\* The tree of a chain takes the entries of each block.
LEMMA TreeOfOK ==
  ASSUME NEW S, \A b \in S : b.txs \in Seq(Tx)
  PROVE  /\ TreeOf(<<>>) = genesis_patricia
         /\ \A c \in Seq(S) :
              /\ TreeOf(c) \in Patricia
              /\ \A b \in S : TreeOf(Append(c, b)) = set_values(TreeOf(c), CacheOf(b.txs))
<1>1. TreeFold!Closed(0, Patricia, S)
  <2>1. SUFFICES ASSUME NEW t \in Patricia, NEW b \in S
                 PROVE  set_values(t, CacheOf(b.txs)) \in Patricia
    BY DEF TreeFold!Closed, CacheOf
  <2>. QED  BY CacheOfOK, TreeTypes
<1>2. \A c : TreeOf(c) = TreeFold!Fold(0, genesis_patricia, c)
  BY DEF TreeOf, TreeFold!Fold, FoldLeft, MapThenFoldSet, Max, TreeFold!FoldLeft,
         TreeFold!MapThenFoldSet, TreeFold!Max
<1>3. /\ TreeOf(<<>>) = genesis_patricia
      /\ \A c \in Seq(S) :
              /\ TreeOf(c) \in Patricia
              /\ \A b \in S : TreeOf(Append(c, b)) =
                   set_values(TreeOf(c), FoldLeft(cache_transaction, NoEntries, b.txs))
  BY <1>1, <1>2, TreeTypes, TreeFold!FoldStep
<1>. QED  BY <1>3 DEF CacheOf

\* What a transaction that applies does to the state.
LEMMA EffectOK ==
  ASSUME NEW st \in LedgerState, NEW tx \in Tx, Applies(st, tx)
  PROVE  /\ apply_transaction(st, tx) \in LedgerState
         /\ apply_transaction(st, tx).nonce = [st.nonce EXCEPT ![tx.sender] = @ + 1]
         /\ tx.sender \in Addr /\ tx.nonce = st.nonce[tx.sender]
         /\ \A a \in Addr : \A ip \in apply_transaction(st, tx).own[a] :
              \E b \in Addr : ip \in st.own[b]
<1>. DEFINE s == tx.sender
            new == apply_transaction(st, tx)
<1>0. /\ s \in Addr /\ tx.nonce = st.nonce[s] /\ tx.category \in ALLOCATE..LOCATOR
      /\ tx.category \in {ALLOCATE, DELEGATE} => /\ tx.to \in Addr /\ tx.value \in Prefix
                                                 /\ tx.value \subseteq st.own[s]
  BY TxAssumption DEF Applies, validate_transaction, apply_raises, in_own_ips
<1>1. Prefix \subseteq SUBSET IP
  BY PrefixAssumption
<1>2. CASE tx.category = ALLOCATE
  <2>1. new = allocate(st, s, tx.to, tx.value)
    BY <1>2 DEF apply_transaction, ALLOCATE, DELEGATE, MAPSERVER, LOCATOR
  <2>2. PICK al : al = allocate(st, s, tx.to, tx.value)
    OBVIOUS
  <2>3. /\ tx.to \in Addr /\ tx.value \in SUBSET IP
    BY <1>0, <1>1, <1>2
  <2>4. /\ al \in LedgerState
        /\ al.own[s] = st.own[s] \ tx.value
        /\ s # tx.to => al.own[tx.to] = st.own[tx.to] \cup tx.value
        /\ \A a \in Addr : a # s /\ a # tx.to => al.own[a] = st.own[a]
    BY <1>0, <2>2, <2>3, AllocateEntries
  <2>5. al.nonce = [st.nonce EXCEPT ![s] = @ + 1]
    BY <2>2 DEF allocate, increment_nonce
  <2>6. \A a \in Addr : \A ip \in al.own[a] : \E b \in Addr : ip \in st.own[b]
    BY <1>0, <1>2, <2>3, <2>4
  <2>. QED  BY <1>0, <2>1, <2>2, <2>4, <2>5, <2>6
<1>3. CASE tx.category = DELEGATE
  <2>1. new = delegate(st, s, tx.to, tx.value)
    BY <1>3 DEF apply_transaction, ALLOCATE, DELEGATE, MAPSERVER, LOCATOR
  <2>2. PICK de : de = delegate(st, s, tx.to, tx.value)
    OBVIOUS
  <2>3. tx.to \in Addr /\ tx.value \in SUBSET IP
    BY <1>0, <1>1, <1>3
  <2>4. de \in LedgerState /\ de.own = st.own
    BY <1>0, <2>2, <2>3, DelegateEntries
  <2>5. de.nonce = [st.nonce EXCEPT ![s] = @ + 1]
    BY <2>2 DEF delegate, increment_nonce
  <2>. QED  BY <1>0, <2>1, <2>2, <2>4, <2>5
<1>4. CASE tx.category = MAPSERVER
  <2>1. new = set_map_servers(st, s, tx.metadata)
    BY <1>4 DEF apply_transaction, ALLOCATE, DELEGATE, MAPSERVER, LOCATOR
  <2>2. set_map_server(tx.metadata) \in SUBSET MapServer
    BY <1>4, TxAssumption, MetaAssumption DEF set_map_server
  <2>3. new \in LedgerState
    <3>1. /\ increment_nonce(st, s) \in [Addr -> Nat]
          /\ [st.map_server EXCEPT ![s] = set_map_server(tx.metadata)]
               \in [Addr -> SUBSET MapServer]
          /\ [st.locator EXCEPT ![s] = NoLocators]
               \in [Addr -> [Rloc -> PrioWeight \cup {NoLocator}]]
      BY <1>0, <2>2 DEF LedgerState, increment_nonce, NoLocators
    <3>. QED  BY <2>1, <3>1 DEF set_map_servers, LedgerState
  <2>4. new.nonce = [st.nonce EXCEPT ![s] = @ + 1] /\ new.own = st.own
    BY <2>1 DEF set_map_servers, increment_nonce
  <2>. QED  BY <1>0, <2>3, <2>4
<1>5. CASE tx.category = LOCATOR
  <2>1. new = set_locators(st, s, tx.metadata)
    BY <1>5 DEF apply_transaction, ALLOCATE, DELEGATE, MAPSERVER, LOCATOR
  <2>2. set_locator(tx.metadata) \in [Rloc -> PrioWeight \cup {NoLocator}]
    <3>1. PICK meta : meta = tx.metadata
      OBVIOUS
    <3>2. meta \in LocatorMeta
      BY <1>5, <3>1, TxAssumption
    <3>. DEFINE Entry == [rloc : Rloc, pw : PrioWeight]
    <3>3. meta \in Seq(Entry) /\ meta # <<>>
      BY <3>2, MetaAssumption
    <3>5. \A q \in Seq(Entry) : q # <<>> => q[Len(q)] \in Entry
      <4>. HIDE DEF Entry
      <4>. QED  OBVIOUS
    <3>4. meta[Len(meta)].pw \in PrioWeight
      BY <3>3, <3>5
    <3>. QED  BY <3>1, <3>4 DEF set_locator
  <2>3. new \in LedgerState
    <3>1. /\ increment_nonce(st, s) \in [Addr -> Nat]
          /\ [st.map_server EXCEPT ![s] = {}] \in [Addr -> SUBSET MapServer]
          /\ [st.locator EXCEPT ![s] = set_locator(tx.metadata)]
               \in [Addr -> [Rloc -> PrioWeight \cup {NoLocator}]]
      BY <1>0, <2>2 DEF LedgerState, increment_nonce
    <3>. QED  BY <2>1, <3>1 DEF set_locators, LedgerState
  <2>4. new.nonce = [st.nonce EXCEPT ![s] = @ + 1] /\ new.own = st.own
    BY <2>1 DEF set_locators, increment_nonce
  <2>. QED  BY <1>0, <2>3, <2>4
<1>. QED  BY <1>0, <1>2, <1>3, <1>4, <1>5 DEF ALLOCATE, DELEGATE, MAPSERVER, LOCATOR

\* A list of transactions on a state.
LEMMA ResultOK ==
  ASSUME NEW st \in LedgerState
  PROVE  /\ Result(st, <<>>) = [ok |-> TRUE, st |-> st]
         /\ \A s \in Seq(Tx) :
              /\ Result(st, s) \in [ok : BOOLEAN, st : LedgerState]
              /\ \A tx \in Tx : Result(st, Append(s, tx)) =
                   IF Result(st, s).ok /\ Applies(Result(st, s).st, tx)
                   THEN [ok |-> TRUE, st |-> apply_transaction(Result(st, s).st, tx)]
                   ELSE [ok |-> FALSE, st |-> Result(st, s).st]
<1>. DEFINE D == [ok : BOOLEAN, st : LedgerState]
<1>1. ApplyFold!Closed(0, D, Tx)
  <2>1. \A r \in D : \A tx \in Tx : Applies(r.st, tx) => apply_transaction(r.st, tx) \in LedgerState
    BY EffectOK
  <2>. QED  BY <2>1 DEF ApplyFold!Closed
<1>2. [ok |-> TRUE, st |-> st] \in D
  OBVIOUS
<1>3. \A s : Result(st, s) = ApplyFold!Fold(0, [ok |-> TRUE, st |-> st], s)
  BY DEF Result, ApplyFold!Fold, FoldLeft, MapThenFoldSet, Max, ApplyFold!FoldLeft,
         ApplyFold!MapThenFoldSet, ApplyFold!Max
<1>. HIDE DEF D
<1>4. PICK r : r = [ok |-> TRUE, st |-> st]
  OBVIOUS
<1>5. /\ ApplyFold!Fold(0, r, <<>>) = r
      /\ \A s \in Seq(Tx) :
           /\ ApplyFold!Fold(0, r, s) \in D
           /\ \A tx \in Tx : ApplyFold!Fold(0, r, Append(s, tx)) =
                   IF ApplyFold!Fold(0, r, s).ok /\ Applies(ApplyFold!Fold(0, r, s).st, tx)
                   THEN [ok |-> TRUE, st |-> apply_transaction(ApplyFold!Fold(0, r, s).st, tx)]
                   ELSE [ok |-> FALSE, st |-> ApplyFold!Fold(0, r, s).st]
  <2>1. r \in D
    BY <1>2, <1>4
  <2>. QED  BY ONLY <1>1, <2>1, ApplyFold!FoldStep
<1>. QED  BY <1>3, <1>4, <1>5 DEF D

-----------------------------------------------------------------------------
(***************************************************************************)
(* The rest of the invariant, each part on top of the ones before it: the  *)
(* types, the pool, the block being created, how far a block is applied,   *)
(* the trees on both sides of the two disk writes, and their coverage.     *)
(***************************************************************************)
\* A block whose fields have their types.
GoodBlock(b) ==
  /\ IsBlock(b)
  /\ b.number \in 0..MaxHeight
  /\ b.timestamp \in 0..MaxTime
  /\ b.txs \in Seq(Tx)

GoodBlocks(q) == \E S : q \in Seq(S) /\ \A b \in S : GoodBlock(b)

\* The variables have their types.
Types ==
  /\ pc \in {"idle", "create", "add", "apply", "dump", "commit", "down"}
  /\ now \in 0..MaxTime
  /\ state \in LedgerState /\ scratch \in LedgerState /\ db.state \in LedgerState
  /\ GoodBlock(prev_header) /\ GoodBlock(block)
  /\ block_number \in 0..MaxHeight
  /\ patricia \in Patricia /\ cached \in Patricia /\ file \in Patricia \cup {Torn}
  /\ GoodBlocks(time_queue) /\ Len(time_queue) <= MaxQueue
  /\ GoodBlocks(db.chain)
  /\ transactions \in Seq(Tx) /\ Len(transactions) <= MaxPool
  /\ todo \in Seq(Tx)
  /\ damage \subseteq {"torn", "ahead"} /\ crashes \in 0..MaxCrash
  /\ pc \in {"idle", "down"} => block = NoBlock
  /\ pc = "create" => block.timestamp = now
  /\ pc = "add" /\ block.timestamp > now => Len(time_queue) < MaxQueue

-----------------------------------------------------------------------------
\* All of txs is valid on st.
AllValid(st, txs) == \A i \in DOMAIN txs : validate_transaction(st, txs[i])

\* Pending transactions, and those create_block has not looked at yet, are valid
\* on the state of the head.
Pending ==
  /\ pc \in {"idle", "create", "add"} => AllValid(state, transactions)
  /\ pc = "create" => AllValid(state, todo)
  /\ pc = "down" => transactions = <<>>

\* a differs from b only in what half a revocation took from the received side.
Weaker(a, b) ==
  /\ a.own = b.own /\ a.delegated = b.delegated /\ a.nonce = b.nonce
  /\ \A x, y \in Addr : a.received[x][y] \subseteq b.received[x][y]

\* The block being created is one that add_block will accept.
Creation ==
  pc = "create" =>
    /\ validate_header(block)
    /\ AllValid(state, block.txs)
    /\ \A i \in DOMAIN block.txs : block.txs[i].afi = Family(block.number)
    /\ Result(state, block.txs).ok
    /\ Consistent(Result(state, block.txs).st)
    /\ Weaker(scratch, Result(state, block.txs).st)

-----------------------------------------------------------------------------
\* How far the block in hand has been applied.
Applied ==
  /\ NonceOK(TxsOf(db.chain), db.state)
  /\ pc = "apply" => \E done \in Seq(Tx) :
       /\ block.txs = done \o todo
       /\ NonceOK(TxsOf(db.chain) \o done, state)
       /\ cached = CacheOf(done)
  /\ pc \in {"dump", "commit"} => NonceOK(TxsOf(db.chain) \o block.txs, state)
  /\ pc # "apply" => cached = NoEntries

\* The tree in memory and the file, stage by stage, as long as no crash came
\* between the two disk writes.
Trees ==
  damage = {} =>
    /\ pc \in {"idle", "create", "add", "apply"} =>
         patricia = TreeOf(db.chain) /\ file = TreeOf(db.chain)
    /\ pc \in {"dump", "commit"} => patricia = set_values(TreeOf(db.chain), CacheOf(block.txs))
    /\ pc = "dump" => file = Torn
    /\ pc = "commit" => file = patricia
    /\ pc = "down" => file = TreeOf(db.chain) \/ (db.chain = <<>> /\ file = Torn)

\* Every IP owned in st is covered by an entry of tree.
CoveredBy(st, tree) ==
  \A a \in Addr : \A ip \in st.own[a] : \E p \in Prefix : ip \in p /\ tree[p] # Blank

Coverage ==
  /\ db.chain = <<>> => db.state = genesis_state
  /\ pc = "commit" => file = patricia
  /\ "torn" \notin damage =>
       /\ pc # "down" => CoveredBy(state, patricia) /\ CoveredBy(db.state, patricia)
       /\ file # Torn /\ db.chain # <<>> => CoveredBy(db.state, file)
       /\ file = Torn => pc = "dump" \/ db.chain = <<>>

\* The state in memory and the committed one are consistent ledgers.
LedgersOK == Consistent(state) /\ Consistent(db.state)

-----------------------------------------------------------------------------
\* The genesis block is a block.
LEMMA GenesisGood == GoodBlock(GenesisBlock)
BY ChainAssumption DEF GoodBlock, IsBlock, GenesisBlock

\* Concatenation.
LEMMA ConcatOK ==
  ASSUME NEW T, NEW u \in Seq(T), NEW w \in Seq(T)
  PROVE  /\ u \o w \in Seq(T) /\ Len(u \o w) = Len(u) + Len(w)
         /\ \A x \in T : u \o Append(w, x) = Append(u \o w, x)
         /\ u \o <<>> = u
<1>1. u \o w \in Seq(T) /\ Len(u \o w) = Len(u) + Len(w) /\ u \o <<>> = u
  OBVIOUS
<1>2. ASSUME NEW x \in T PROVE u \o Append(w, x) = Append(u \o w, x)
  OBVIOUS
<1>. QED  BY <1>1, <1>2

\* Lists of blocks: the empty one, a longer one, and the head of the chain.
LEMMA BlocksFacts ==
  /\ GoodBlocks(<<>>)
  /\ \A q, b : GoodBlocks(q) /\ GoodBlock(b) =>
       /\ GoodBlocks(Append(q, b)) /\ Len(Append(q, b)) = Len(q) + 1
       /\ GoodBlocks(queue_insert(q, b)) /\ Len(queue_insert(q, b)) = Len(q) + 1
  /\ \A q : GoodBlocks(q) => /\ Len(q) \in Nat /\ not_due(q, NoTime) = q
                             /\ \A i \in DOMAIN q : GoodBlock(q[i])
<1>1. GoodBlocks(<<>>)
  <2>1. PICK S : S = {}
    OBVIOUS
  <2>2. <<>> \in Seq(S) /\ \A b \in S : GoodBlock(b)
    BY <2>1
  <2>. QED  BY ONLY <2>2 DEF GoodBlocks
<1>2. ASSUME NEW q, NEW b, GoodBlocks(q), GoodBlock(b)
      PROVE  /\ GoodBlocks(Append(q, b)) /\ Len(Append(q, b)) = Len(q) + 1
             /\ GoodBlocks(queue_insert(q, b)) /\ Len(queue_insert(q, b)) = Len(q) + 1
  <2>1. PICK S : q \in Seq(S) /\ \A x \in S : GoodBlock(x)
    BY <1>2 DEF GoodBlocks
  <2>. DEFINE T == S \cup {b}
  <2>2. q \in Seq(T) /\ b \in T /\ \A x \in T : GoodBlock(x)
    BY <1>2, <2>1
  <2>. HIDE DEF T
  <2>3. Append(q, b) \in Seq(T) /\ Len(Append(q, b)) = Len(q) + 1
    BY <2>2
  <2>. DEFINE later == { i \in DOMAIN q : b.timestamp <= q[i].timestamp }
  <2>4. PICK i : i = IF later = {} THEN Len(q) + 1 ELSE Min(later)
    OBVIOUS
  <2>5. i \in 1..(Len(q) + 1)
    <3>1. CASE later = {}
      BY <2>2, <2>4, <3>1
    <3>2. CASE later # {}
      <4>1. later \in SUBSET Nat
        BY <2>2
      <4>2. \E m \in later : \A k \in later : m <= k
        <5>. HIDE DEF later
        <5>. QED  BY <3>2, <4>1, LeastNat
      <4>3. Min(later) \in later
        <5>. HIDE DEF later
        <5>. QED  BY <4>2 DEF Min
      <4>. QED  BY <2>2, <2>4, <3>2, <4>3
    <3>. QED  BY <3>1, <3>2
  <2>. HIDE DEF later
  <2>6. queue_insert(q, b) = SubSeq(q, 1, i - 1) \o <<b>> \o SubSeq(q, i, Len(q))
    BY <2>4 DEF queue_insert, InsertAt, later
  <2>7. PICK u, v, w : u = SubSeq(q, 1, i - 1) /\ v = SubSeq(q, i, Len(q)) /\ w = <<b>>
    OBVIOUS
  <2>8. u \in Seq(T) /\ Len(u) = i - 1 /\ v \in Seq(T) /\ Len(v) = Len(q) - i + 1
    BY <2>2, <2>5, <2>7
  <2>9. w \in Seq(T) /\ Len(w) = 1
    BY <2>2, <2>7
  <2>10. u \o w \o v \in Seq(T) /\ Len(u \o w \o v) = Len(u) + 1 + Len(v)
    <3>1. PICK uw : uw = u \o w
      OBVIOUS
    <3>2. uw \in Seq(T) /\ Len(uw) = Len(u) + Len(w)
      BY ONLY <2>8, <2>9, <3>1, ConcatOK
    <3>3. uw \o v \in Seq(T) /\ Len(uw \o v) = Len(uw) + Len(v)
      BY ONLY <2>8, <3>2, ConcatOK
    <3>. QED  BY <2>9, <3>1, <3>2, <3>3
  <2>11. Len(u) + 1 + Len(v) = Len(q) + 1
    <3>1. Len(q) \in Nat /\ i \in Int
      BY <2>2, <2>5
    <3>. QED  BY ONLY <2>8, <3>1
  <2>12. queue_insert(q, b) = u \o w \o v
    BY <2>6, <2>7
  <2>. QED  BY <2>2, <2>3, <2>10, <2>11, <2>12 DEF GoodBlocks
<1>3. ASSUME NEW q, GoodBlocks(q)
      PROVE  /\ Len(q) \in Nat /\ not_due(q, NoTime) = q
             /\ \A i \in DOMAIN q : GoodBlock(q[i])
  <2>1. PICK S : q \in Seq(S) /\ \A x \in S : GoodBlock(x)
    BY <1>3 DEF GoodBlocks
  <2>. QED  BY <2>1, NotDueOK
<1>. QED  BY <1>1, <1>2, <1>3

\* The head is a block.
LEMMA HeadGood ==
  ASSUME GoodBlocks(db.chain)
  PROVE  GoodBlock(HeadBlock)
<1>1. PICK S : db.chain \in Seq(S) /\ \A x \in S : GoodBlock(x)
  BY DEF GoodBlocks
<1>2. db.chain # <<>> => Last(db.chain) \in S
  BY <1>1 DEF Last
<1>. QED  BY <1>1, <1>2, GenesisGood DEF HeadBlock

\* A block with another list of transactions.
LEMMA BlockWith ==
  ASSUME NEW b, GoodBlock(b), NEW l \in Seq(Tx), NEW c, c = [b EXCEPT !.txs = l]
  PROVE  /\ GoodBlock(c) /\ c.txs = l
         /\ c.prevhash = b.prevhash /\ c.number = b.number /\ c.timestamp = b.timestamp
<1>1. PICK h, n, t, x : b = [prevhash |-> h, number |-> n, timestamp |-> t, txs |-> x]
  BY DEF GoodBlock, IsBlock
<1>2. c = [prevhash |-> h, number |-> n, timestamp |-> t, txs |-> l]
  BY <1>1
<1>3. /\ c.prevhash = b.prevhash /\ c.number = b.number /\ c.timestamp = b.timestamp
      /\ c.txs = l /\ c = [prevhash |-> c.prevhash, number |-> c.number,
                           timestamp |-> c.timestamp, txs |-> c.txs]
  BY <1>1, <1>2
<1>4. b.number \in 0..MaxHeight /\ b.timestamp \in 0..MaxTime /\ b.timestamp \in Nat
  BY DEF GoodBlock, IsBlock
<1>. QED  BY <1>3, <1>4 DEF GoodBlock, IsBlock

\* What the genesis gives has its types.
LEMMA GenesisTypes ==
  /\ genesis_state \in LedgerState
  /\ NoEntries \in Patricia /\ genesis_patricia \in Patricia
BY GenesisConsistent, TreeTypes DEF Consistent

\* What a revocation leaves of the received side.
LEMMA RevokeOK ==
  ASSUME NEW st \in LedgerState, NEW s \in Addr, NEW ips, NEW b \in Addr
  PROVE  /\ revoke_received(st, s, ips)[b] \in [Addr -> SUBSET IP]
         /\ revoke_received(st, s, ips)[b][s] = st.received[b][s] \ (st.delegated[s][b] \cap ips)
         /\ \A a \in Addr : a # s => revoke_received(st, s, ips)[b][a] = st.received[b][a]
         /\ \A a \in Addr : revoke_received(st, s, ips)[b][a] \subseteq st.received[b][a]
<1>1. PICK r : r = st.received[b]
  OBVIOUS
<1>2. r \in [Addr -> SUBSET IP]
  BY <1>1 DEF LedgerState
<1>3. revoke_received(st, s, ips)[b] = [r EXCEPT ![s] = @ \ (st.delegated[s][b] \cap ips)]
  BY <1>1 DEF revoke_received, affected_delegated_ips
<1>. QED  BY <1>1, <1>2, <1>3

\* The scratch state keeps its type, and loses received prefixes at most.
LEMMA HalfAppliedOK ==
  ASSUME NEW st \in LedgerState, NEW tx \in Tx, NEW h \in half_applied(st, tx)
  PROVE  h \in LedgerState /\ Weaker(h, st)
<1>1. CASE h = st
  BY <1>1 DEF Weaker
<1>2. CASE h # st
  <2>1. PICK B : h = [st EXCEPT !.received =
                        [b \in Addr |-> IF b \in B THEN revoke_received(st, tx.sender, tx.value)[b]
                                        ELSE @[b]]]
    BY <1>2 DEF half_applied
  <2>2. h = [st EXCEPT !.received =
               [b \in Addr |-> IF b \in B THEN revoke_received(st, tx.sender, tx.value)[b]
                               ELSE st.received[b]]]
    BY <2>1
  <2>0. tx.sender \in Addr
    BY <1>2 DEF half_applied, validate_transaction
  <2>3. \A b \in Addr : /\ revoke_received(st, tx.sender, tx.value)[b] \in [Addr -> SUBSET IP]
                        /\ \A a \in Addr : revoke_received(st, tx.sender, tx.value)[b][a]
                                             \subseteq st.received[b][a]
    BY <2>0, RevokeOK
  <2>4. PICK rec : rec = [b \in Addr |-> IF b \in B THEN revoke_received(st, tx.sender, tx.value)[b]
                                         ELSE st.received[b]]
    OBVIOUS
  <2>5. /\ rec \in [Addr -> [Addr -> SUBSET IP]]
        /\ \A x, y \in Addr : rec[x][y] \subseteq st.received[x][y]
    BY <2>3, <2>4 DEF LedgerState
  <2>6. h = [st EXCEPT !.received = rec]
    BY <2>2, <2>4
  <2>. QED  BY <2>5, <2>6 DEF LedgerState, Weaker
<1>. QED  BY <1>1, <1>2

-----------------------------------------------------------------------------
\* A node that starts with an empty database has its types.
LEMMA InitTypes == Init => Types
<1>. SUFFICES ASSUME Init PROVE Types
  OBVIOUS
<1>1. /\ now = 0 /\ crashes = 0 /\ block_number = 0 /\ pc = "idle" /\ damage = {}
      /\ prev_header = GenesisBlock /\ block = GenesisBlock /\ block = NoBlock
      /\ time_queue = <<>> /\ transactions = <<>> /\ todo = <<>>
      /\ state = genesis_state /\ scratch = genesis_state
      /\ db.chain = <<>> /\ db.state = genesis_state
      /\ patricia = genesis_patricia /\ file = genesis_patricia /\ cached = NoEntries
  BY DEF Init, NoBlock
<1>2. /\ now \in 0..MaxTime /\ crashes \in 0..MaxCrash /\ block_number \in 0..MaxHeight
      /\ 0 <= MaxQueue /\ 0 <= MaxPool /\ GoodBlocks(<<>>) /\ GoodBlock(GenesisBlock)
  BY <1>1, ChainAssumption, BlocksFacts, GenesisGood
<1>3. /\ GoodBlocks(time_queue) /\ Len(time_queue) <= MaxQueue /\ GoodBlocks(db.chain)
      /\ transactions \in Seq(Tx) /\ Len(transactions) <= MaxPool /\ todo \in Seq(Tx)
  BY <1>1, <1>2
<1>. QED  BY <1>1, <1>2, <1>3, GenesisTypes DEF Types

\* So does one whose process has ended.
LEMMA StopTypes ==
  ASSUME Types, Stop, damage' \subseteq {"torn", "ahead"}, crashes' \in 0..MaxCrash
  PROVE  Types'
<1>1. /\ now' = now /\ block_number' = 0 /\ pc' = "down"
      /\ prev_header' = GenesisBlock /\ block' = GenesisBlock /\ block' = NoBlock
      /\ time_queue' = <<>> /\ transactions' = <<>> /\ todo' = <<>>
      /\ state' = genesis_state /\ scratch' = genesis_state
      /\ db' = db /\ file' = file
      /\ patricia' = NoEntries /\ cached' = NoEntries
  BY DEF Stop, EmptyHand, NoBlock, diskvars
<1>2. /\ block_number' \in 0..MaxHeight
      /\ 0 <= MaxQueue /\ 0 <= MaxPool /\ GoodBlocks(<<>>) /\ GoodBlock(GenesisBlock)
  BY <1>1, ChainAssumption, BlocksFacts, GenesisGood
<1>3. /\ GoodBlocks(time_queue') /\ Len(time_queue') <= MaxQueue /\ GoodBlocks(db'.chain)
      /\ transactions' \in Seq(Tx) /\ Len(transactions') <= MaxPool /\ todo' \in Seq(Tx)
  BY <1>1, <1>2 DEF Types
<1>4. GoodBlock(prev_header') /\ GoodBlock(block')
  BY <1>1, <1>2
<1>. QED  BY <1>1, <1>2, <1>3, <1>4, GenesisTypes DEF Types, GoodBlock, IsBlock, GoodBlocks

\* So does one that leaves the block in hand.
LEMMA LeaveTypes ==
  ASSUME Types, LeaveBlock, UNCHANGED <<now, state, headvars, patricia, diskvars, history>>,
         GoodBlocks(time_queue'), Len(time_queue') <= MaxQueue
  PROVE  Types'
<1>1. /\ pc' = "idle" /\ block' = GenesisBlock /\ block' = NoBlock
      /\ todo' = <<>> /\ scratch' = genesis_state /\ cached' = NoEntries
      /\ transactions' = purged(transactions, block.txs, state)
      /\ UNCHANGED <<now, state, prev_header, block_number, patricia, db, file, damage, crashes>>
  BY DEF LeaveBlock, EmptyHand, NoBlock, headvars, diskvars, history
<1>2. transactions' \in Seq(Tx) /\ Len(transactions') <= MaxPool
  <2>1. transactions \in Seq(Tx) /\ block.txs \in Seq(Tx) /\ Len(transactions) <= MaxPool
    BY DEF Types, GoodBlock
  <2>2. PICK p : p = purged(transactions, block.txs, state)
    OBVIOUS
  <2>3. p \in Seq(Tx) /\ Len(p) <= Len(transactions)
    BY <2>1, <2>2, PurgedOK
  <2>4. Len(p) <= MaxPool
    BY <2>1, <2>3, ChainAssumption
  <2>. QED  BY <1>1, <2>2, <2>3, <2>4
<1>3. GoodBlock(block') /\ todo' \in Seq(Tx)
  BY <1>1, GenesisGood
<1>. QED  BY <1>1, <1>2, <1>3, GenesisTypes DEF Types

\* Every step keeps the types.
LEMMA NextTypes == HInv /\ Types /\ [Next]_vars => Types'
<1>. SUFFICES ASSUME HInv, Types, [Next]_vars PROVE Types'
  OBVIOUS
<1>0. CASE UNCHANGED vars
  BY <1>0 DEF Types, vars, headvars, handvars, diskvars, history
<1>1. CASE Tick
  <2>1. /\ now \in Nat /\ now < MaxTime /\ now' = now + 1 /\ now' \in 0..MaxTime
    BY <1>1, ChainAssumption DEF Tick, Types
  <2>2. /\ pc # "create"
        /\ UNCHANGED <<pc, state, headvars, patricia, time_queue, transactions, handvars,
                       diskvars, history>>
    BY <1>1 DEF Tick
  <2>3. pc = "add" /\ block.timestamp > now' => Len(time_queue) < MaxQueue
    <3>1. block.timestamp \in Nat
      BY DEF Types, GoodBlock
    <3>. QED  BY <2>1, <3>1 DEF Types
  <2>. QED  BY <2>1, <2>2, <2>3 DEF Types, headvars, handvars, diskvars, history
<1>2. ASSUME NEW tx \in Tx, add_pending_transaction(tx) PROVE Types'
  <2>1. transactions' \in Seq(Tx) /\ Len(transactions') <= MaxPool
    BY <1>2, ChainAssumption DEF add_pending_transaction, Types
  <2>. QED  BY <1>2, <2>1 DEF add_pending_transaction, Types, headvars, handvars, diskvars, history
<1>3. CASE CreateBlock
  <2>1. /\ pc = "idle" /\ pc' = "create"
        /\ block' = [prevhash |-> head_hash, number |-> block_number + 1,
                     timestamp |-> now, txs |-> <<>>]
        /\ todo' = transactions /\ scratch' = state /\ block_number < MaxHeight
        /\ UNCHANGED <<now, state, headvars, patricia, transactions, cached, diskvars, history>>
    BY <1>3 DEF CreateBlock, BlockTimeReached
  <2>2. time_queue' = time_queue
    BY <1>3, BlocksFacts DEF CreateBlock, Types
  <2>3. GoodBlock(block')
    <3>1. block_number + 1 \in 0..MaxHeight /\ now \in 0..MaxTime /\ now \in Nat
      BY <2>1, ChainAssumption DEF Types
    <3>2. PICK b : b = block'
      OBVIOUS
    <3>3. /\ b = [prevhash |-> b.prevhash, number |-> b.number,
                 timestamp |-> b.timestamp, txs |-> b.txs]
          /\ b.number = block_number + 1 /\ b.timestamp = now /\ b.txs = <<>>
      BY <2>1, <3>2
    <3>. QED  BY <3>1, <3>2, <3>3 DEF GoodBlock, IsBlock
  <2>4. block'.timestamp = now'
    BY <2>1
  <2>. QED  BY <2>1, <2>2, <2>3, <2>4 DEF Types, headvars, diskvars, history
<1>4. CASE SignerUnknown \/ BlockTimeout \/ AddRaises \/ ApplyRaises
  <2>1. Stop /\ UNCHANGED history
    BY <1>4 DEF SignerUnknown, BlockTimeout, AddRaises, ApplyRaises, Exit
  <2>2. damage' \subseteq {"torn", "ahead"} /\ crashes' \in 0..MaxCrash
    BY <2>1 DEF Types, history
  <2>. QED  BY <2>1, <2>2, StopTypes
<1>5. CASE Crash
  <2>1. crashes' \in 0..MaxCrash
    BY <1>5, ChainAssumption DEF Crash, Types
  <2>2. damage' \subseteq {"torn", "ahead"}
    BY <1>5 DEF Crash, Types
  <2>. QED  BY <1>5, <2>1, <2>2, StopTypes DEF Crash
<1>6. ASSUME NEW b \in NetworkBlocks, ReceiveBlock(b) PROVE Types'
  <2>1. PICK t \in 1..(IF Len(time_queue) < MaxQueue /\ now < MaxTime THEN now + 1 ELSE now),
             k \in {block_number, block_number + 1} :
          /\ \E h : \E txs \in BlockTxs :
               b = [prevhash |-> h, number |-> k, timestamp |-> t, txs |-> txs]
          /\ k <= MaxHeight
    BY DEF NetworkBlocks
  <2>2. GoodBlock(b)
    <3>1. t \in 0..MaxTime /\ k \in 0..MaxHeight
      BY <2>1, ChainAssumption DEF Types
    <3>2. PICK h : \E txs \in BlockTxs :
                     b = [prevhash |-> h, number |-> k, timestamp |-> t, txs |-> txs]
      BY <2>1
    <3>3. PICK txs \in BlockTxs : b = [prevhash |-> h, number |-> k, timestamp |-> t, txs |-> txs]
      BY <3>2
    <3>4. txs \in Seq(Tx)
      BY TxAssumption
    <3>. QED  BY <3>1, <3>3, <3>4 DEF GoodBlock, IsBlock
  <2>3. b.timestamp > now => Len(time_queue) < MaxQueue
    BY <2>1 DEF Types
  <2>4. /\ block' = b /\ pc' = "add"
        /\ UNCHANGED <<now, state, headvars, patricia, time_queue, transactions, todo, scratch,
                       cached, diskvars, history>>
    BY <1>6 DEF ReceiveBlock
  <2>5. GoodBlock(block') /\ (pc' = "add" /\ block'.timestamp > now' => Len(time_queue') < MaxQueue)
    BY <2>2, <2>3, <2>4
  <2>. QED  BY <2>4, <2>5 DEF Types, headvars, diskvars, history
<1>7. CASE TakeTx
  <2>1. todo \in Seq(Tx) /\ todo # <<>>
    BY <1>7 DEF TakeTx, Creating, Types
  <2>2. Head(todo) \in Tx /\ Tail(todo) \in Seq(Tx)
    BY <2>1
  <2>3. apply_transaction(scratch, Head(todo)) \in LedgerState
    BY <1>7, <2>2, EffectOK DEF TakeTx, Types
  <2>4. GoodBlock([block EXCEPT !.txs = Append(@, Head(todo))])
    <3>1. Append(block.txs, Head(todo)) \in Seq(Tx)
      BY <2>2 DEF Types, GoodBlock
    <3>2. [block EXCEPT !.txs = Append(@, Head(todo))] =
            [block EXCEPT !.txs = Append(block.txs, Head(todo))]
      OBVIOUS
    <3>. QED  BY <3>1, <3>2, BlockWith DEF Types
  <2>5. /\ pc = "create" /\ scratch' = apply_transaction(scratch, Head(todo))
        /\ block' = [block EXCEPT !.txs = Append(@, Head(todo))] /\ todo' = Tail(todo)
        /\ UNCHANGED <<pc, now, state, headvars, patricia, time_queue, transactions, cached,
                       diskvars, history>>
    BY <1>7 DEF TakeTx, Creating
  <2>6. GoodBlock(block') /\ todo' \in Seq(Tx) /\ scratch' \in LedgerState
    BY <2>2, <2>3, <2>4, <2>5
  <2>7. block'.timestamp = now'
    BY <2>5 DEF Types, GoodBlock, IsBlock
  <2>. QED  BY <2>5, <2>6, <2>7 DEF Types, headvars, diskvars, history
<1>8. CASE SkipTx
  <2>1. todo \in Seq(Tx) /\ todo # <<>>
    BY <1>8 DEF SkipTx, Creating, Types
  <2>2. Head(todo) \in Tx /\ Tail(todo) \in Seq(Tx)
    BY <2>1
  <2>3. scratch' \in LedgerState
    BY <1>8, <2>2, HalfAppliedOK DEF SkipTx, Types
  <2>4. /\ pc = "create" /\ todo' = Tail(todo)
        /\ UNCHANGED <<pc, now, state, headvars, patricia, time_queue, transactions, block, cached,
                       diskvars, history>>
    BY <1>8 DEF SkipTx, Creating
  <2>. QED  BY <2>2, <2>3, <2>4 DEF Types, headvars, diskvars, history
<1>9. CASE CreateDone
  <2>1. /\ pc = "create" /\ pc' = "add" /\ scratch' = genesis_state
        /\ UNCHANGED <<now, state, headvars, patricia, time_queue, transactions, block, todo,
                       cached, diskvars, history>>
    BY <1>9 DEF CreateDone
  <2>2. ~ (block'.timestamp > now')
    BY <2>1 DEF Types
  <2>. QED  BY <2>1, <2>2, GenesisTypes DEF Types, headvars, diskvars, history
<1>10. CASE AddRefused
  <2>1. LeaveBlock /\ UNCHANGED <<now, state, headvars, patricia, diskvars, history, time_queue>>
    BY <1>10 DEF AddRefused, LeaveBlock
  <2>. QED  BY <2>1, LeaveTypes DEF Types
<1>11. CASE AddLaidAside
  <2>1. /\ LeaveBlock /\ UNCHANGED <<now, state, headvars, patricia, diskvars, history>>
        /\ time_queue' = queue_insert(time_queue, block)
        /\ Len(time_queue) < MaxQueue
    BY <1>11 DEF AddLaidAside, LeaveBlock, Types
  <2>2. /\ GoodBlocks(time_queue') /\ Len(time_queue') = Len(time_queue) + 1
        /\ Len(time_queue) \in Nat
    BY <2>1, BlocksFacts DEF Types
  <2>3. Len(time_queue') <= MaxQueue
    BY <2>1, <2>2, ChainAssumption
  <2>. QED  BY <2>1, <2>2, <2>3, LeaveTypes
<1>12. CASE BeginApply
  BY <1>12 DEF BeginApply, Types, GoodBlock, headvars, diskvars, history
<1>13. CASE ApplyTx
  <2>1. todo \in Seq(Tx) /\ todo # <<>> /\ pc = "apply"
    BY <1>13 DEF ApplyTx, Applying, Types
  <2>2. Head(todo) \in Tx /\ Tail(todo) \in Seq(Tx)
    BY <2>1
  <2>3. apply_transaction(state, Head(todo)) \in LedgerState
    BY <1>13, <2>2, EffectOK DEF ApplyTx, Types
  <2>4. cache_transaction(cached, Head(todo)) \in Patricia
    BY <2>2, TxAssumption DEF Types, cache_transaction, Patricia
  <2>. QED  BY <1>13, <2>1, <2>2, <2>3, <2>4 DEF ApplyTx, Types, headvars, diskvars, history
<1>14. CASE ApplyDone
  BY <1>14, TreeTypes DEF ApplyDone, Types, history
<1>15. CASE DumpPatricia
  BY <1>15 DEF DumpPatricia, Types, headvars, handvars, history
<1>16. CASE CommitBlock
  <2>1. /\ pc' = "idle" /\ block' = GenesisBlock /\ block' = NoBlock
        /\ todo' = <<>> /\ scratch' = genesis_state /\ cached' = NoEntries
        /\ transactions' = purged(transactions, block.txs, state)
        /\ block_number' = block.number
        /\ db'.chain = Append(db.chain, block) /\ db'.state = state
        /\ UNCHANGED <<now, state, prev_header, patricia, time_queue, file, damage, crashes>>
    BY <1>16 DEF CommitBlock, EmptyHand, NoBlock, history
  <2>2. transactions' \in Seq(Tx) /\ Len(transactions') <= MaxPool
    <3>1. transactions \in Seq(Tx) /\ block.txs \in Seq(Tx) /\ Len(transactions) <= MaxPool
      BY DEF Types, GoodBlock
    <3>2. PICK p : p = purged(transactions, block.txs, state)
      OBVIOUS
    <3>3. p \in Seq(Tx) /\ Len(p) <= Len(transactions)
      BY <3>1, <3>2, PurgedOK
    <3>4. Len(p) <= MaxPool
      BY <3>1, <3>3, ChainAssumption
    <3>. QED  BY <2>1, <3>2, <3>3, <3>4
  <2>3. GoodBlocks(db'.chain)
    BY <2>1, BlocksFacts DEF Types
  <2>4. GoodBlock(block') /\ todo' \in Seq(Tx) /\ block_number' \in 0..MaxHeight
    BY <2>1, GenesisGood DEF Types, GoodBlock
  <2>. QED  BY <2>1, <2>2, <2>3, <2>4, GenesisTypes DEF Types
<1>17. CASE Restart
  <2>1. GoodBlock(HeadBlock)
    BY HeadGood DEF Types
  <2>2. GoodBlock(prev_header') /\ block_number' \in 0..MaxHeight
    BY <1>17, <2>1 DEF Restart, GoodBlock
  <2>3. patricia' \in Patricia /\ file' \in Patricia \cup {Torn}
    BY <1>17, TreeTypes DEF Restart, Types
  <2>4. state' \in LedgerState /\ pc = "down" /\ pc' = "idle"
    BY <1>17 DEF Restart, Types
  <2>. QED  BY <1>17, <2>2, <2>3, <2>4 DEF Restart, Types, handvars, history
<1>. QED
  BY <1>0, <1>1, <1>2, <1>3, <1>4, <1>5, <1>6, <1>7, <1>8, <1>9, <1>10, <1>11, <1>12, <1>13,
     <1>14, <1>15, <1>16, <1>17 DEF Next, BlockStep, ReceiveTx, SubmitTx

-----------------------------------------------------------------------------
\* The types hold of every reachable state.
LEMMA TypesInvariance == Spec => []Types
BY InitTypes, NextTypes, HeadInvariance, PTL DEF Spec

\* The variables have their types, through refused blocks, crashes and restarts.
THEOREM ChainTypeOK == Spec => []TypeOK
<1>1. ASSUME NEW b, GoodBlock(b) PROVE BlockOK(b)
  <2>1. PICK h, n, t, x : b = [prevhash |-> h, number |-> n, timestamp |-> t, txs |-> x]
    BY <1>1 DEF GoodBlock, IsBlock
  <2>2. DOMAIN b = {"prevhash", "number", "timestamp", "txs"}
    BY <2>1
  <2>3. ToSet(b.txs) \subseteq Tx
    BY <1>1 DEF GoodBlock, ToSet
  <2>. QED  BY <1>1, <2>2, <2>3 DEF GoodBlock, BlockOK
<1>2. ASSUME HInv, Types PROVE TypeOK
  <2>1. \A i \in DOMAIN time_queue : BlockOK(time_queue[i])
    BY <1>1, <1>2, BlocksFacts DEF Types
  <2>2. \A i \in DOMAIN db.chain : BlockOK(db.chain[i])
    BY <1>1, <1>2, BlocksFacts DEF Types
  <2>3. Len(db.chain) <= MaxHeight
    BY <1>2, HeadGood, ChainAssumption DEF Types, HInv, Committed, GoodBlock
  <2>4. ToSet(transactions) \subseteq Tx /\ ToSet(todo) \subseteq Tx
    BY <1>2 DEF Types, ToSet
  <2>. QED  BY <1>1, <1>2, <2>1, <2>2, <2>3, <2>4 DEF Types, TypeOK
<1>. QED  BY <1>2, TypesInvariance, HeadInvariance, PTL

-----------------------------------------------------------------------------
\* Pending transactions stay valid, step by step.
LEMMA NextPending == Types /\ Pending /\ [Next]_vars => Pending'
<1>. SUFFICES ASSUME Types, Pending, [Next]_vars PROVE Pending'
  OBVIOUS
<1>0. CASE UNCHANGED vars
  BY <1>0 DEF Pending, vars, handvars, AllValid
<1>1. CASE Tick \/ CreateDone \/ (\E b \in NetworkBlocks : ReceiveBlock(b)) \/ BeginApply
             \/ ApplyDone \/ DumpPatricia
  <2>1. /\ UNCHANGED <<state, transactions>>
        /\ \/ UNCHANGED <<pc, todo>>
           \/ pc \in {"idle", "create"} /\ pc' = "add"
           \/ pc' \in {"apply", "dump", "commit"}
    BY <1>1 DEF Tick, CreateDone, ReceiveBlock, BeginApply, ApplyDone, DumpPatricia, handvars
  <2>. QED  BY <2>1 DEF Pending, AllValid
<1>2. ASSUME NEW tx \in Tx, add_pending_transaction(tx) PROVE Pending'
  <2>1. /\ pc = "idle" /\ pc' = "idle" /\ state' = state
        /\ validate_transaction(state, tx) /\ transactions' = Append(transactions, tx)
    BY <1>2 DEF add_pending_transaction
  <2>2. AllValid(state, Append(transactions, tx))
    BY <2>1 DEF Pending, AllValid, Types
  <2>. QED  BY <2>1, <2>2 DEF Pending, AllValid
<1>3. CASE CreateBlock
  <2>1. /\ pc = "idle" /\ pc' = "create" /\ UNCHANGED <<state, transactions>>
        /\ todo' = transactions
    BY <1>3 DEF CreateBlock, BlockTimeReached
  <2>. QED  BY <2>1 DEF Pending, AllValid
<1>4. CASE SignerUnknown \/ BlockTimeout \/ AddRaises \/ ApplyRaises \/ Crash
  <2>1. pc' = "down" /\ transactions' = <<>>
    BY <1>4 DEF SignerUnknown, BlockTimeout, AddRaises, ApplyRaises, Crash, Exit, Stop
  <2>. QED  BY <2>1 DEF Pending
<1>5. CASE TakeTx \/ SkipTx
  <2>1. /\ pc = "create" /\ pc' = "create" /\ UNCHANGED <<state, transactions>>
        /\ todo' = Tail(todo) /\ todo # <<>> /\ todo \in Seq(Tx)
    BY <1>5 DEF TakeTx, SkipTx, Creating, Types
  <2>2. AllValid(state, Tail(todo))
    BY <2>1 DEF Pending, AllValid
  <2>. QED  BY <2>1, <2>2 DEF Pending, AllValid
<1>6. CASE AddRefused \/ AddLaidAside \/ CommitBlock
  <2>1. /\ pc' = "idle" /\ state' = state
        /\ transactions' = purged(transactions, block.txs, state)
    BY <1>6 DEF AddRefused, AddLaidAside, LeaveBlock, CommitBlock
  <2>2. transactions \in Seq(Tx) /\ block.txs \in Seq(Tx)
    BY DEF Types, GoodBlock
  <2>3. PICK p : p = purged(transactions, block.txs, state)
    OBVIOUS
  <2>4. AllValid(state, p)
    BY <2>2, <2>3, PurgedOK DEF AllValid
  <2>. QED  BY <2>1, <2>3, <2>4 DEF Pending, AllValid
<1>7. CASE ApplyTx
  BY <1>7 DEF ApplyTx, Applying, Pending
<1>8. CASE Restart
  <2>1. pc' = "idle" /\ transactions' = <<>>
    BY <1>8 DEF Restart, Pending
  <2>. QED  BY <2>1 DEF Pending, AllValid
<1>. QED
  BY <1>0, <1>1, <1>2, <1>3, <1>4, <1>5, <1>6, <1>7, <1>8 DEF Next, BlockStep, ReceiveTx, SubmitTx

\* They always are.
LEMMA PendingInvariance == Spec => []Pending
<1>1. Init => Pending
  BY DEF Init, Pending, AllValid
<1>. QED  BY <1>1, NextPending, TypesInvariance, PTL DEF Spec

\* Every transaction of the pool is valid on the state of the head, whatever
\* blocks were added, refused or laid aside since it came in.
THEOREM PoolAlwaysValid == Spec => []PoolValid
<1>1. Types /\ Pending => PoolValid
  BY DEF Pending, PoolValid, AllValid, ToSet
<1>. QED  BY <1>1, TypesInvariance, PendingInvariance, PTL

-----------------------------------------------------------------------------
\* A transaction that applies keeps the ledger consistent.
LEMMA ApplyConsistent ==
  ASSUME NEW st, Consistent(st), NEW tx \in Tx, Applies(st, tx)
  PROVE  Consistent(apply_transaction(st, tx))
<1>1. /\ tx.sender \in Addr /\ tx.category \in ALLOCATE..LOCATOR
      /\ tx.category \in {ALLOCATE, DELEGATE} =>
           /\ tx.to \in Addr /\ tx.value \in SUBSET IP
           /\ in_own_ips(st, tx.sender, tx.value) /\ ~revocation_raises(st, tx.sender, tx.value)
      /\ tx.category = MAPSERVER => tx.metadata \in MapServerMeta
      /\ tx.category = LOCATOR => tx.metadata \in LocatorMeta
  BY TxAssumption, PrefixAssumption DEF Applies, validate_transaction, apply_raises
<1>2. CASE tx.category = ALLOCATE
  <2>1. apply_transaction(st, tx) = allocate(st, tx.sender, tx.to, tx.value)
    BY <1>2 DEF apply_transaction, ALLOCATE, DELEGATE, MAPSERVER, LOCATOR
  <2>. QED  BY <1>1, <1>2, <2>1, AllocateConsistent
<1>3. CASE tx.category = DELEGATE
  <2>1. apply_transaction(st, tx) = delegate(st, tx.sender, tx.to, tx.value)
    BY <1>3 DEF apply_transaction, ALLOCATE, DELEGATE, MAPSERVER, LOCATOR
  <2>. QED  BY <1>1, <1>3, <2>1, DelegateConsistent
<1>4. CASE tx.category = MAPSERVER
  <2>1. apply_transaction(st, tx) = set_map_servers(st, tx.sender, tx.metadata)
    BY <1>4 DEF apply_transaction, ALLOCATE, DELEGATE, MAPSERVER, LOCATOR
  <2>. QED  BY <1>1, <1>4, <2>1, MappingsConsistent
<1>5. CASE tx.category = LOCATOR
  <2>1. apply_transaction(st, tx) = set_locators(st, tx.sender, tx.metadata)
    BY <1>5 DEF apply_transaction, ALLOCATE, DELEGATE, MAPSERVER, LOCATOR
  <2>. QED  BY <1>1, <1>5, <2>1, MappingsConsistent
<1>. QED  BY <1>1, <1>2, <1>3, <1>4, <1>5 DEF ALLOCATE, DELEGATE, MAPSERVER, LOCATOR

\* The ledger in memory and the committed one are consistent at every moment,
\* in the middle of a block and after a crash too: no address has two owners,
\* and both ends of every delegation agree.
THEOREM LedgersConsistent == Spec => []LedgersOK
<1>1. Init => LedgersOK
  BY GenesisConsistent DEF Init, LedgersOK
<1>2. Types /\ LedgersOK /\ [Next]_vars => LedgersOK'
  <2>. SUFFICES ASSUME Types, LedgersOK, [Next]_vars PROVE LedgersOK'
    OBVIOUS
  <2>1. CASE UNCHANGED <<state, db>>
    BY <2>1 DEF LedgersOK
  <2>2. CASE ApplyTx
    <3>1. todo \in Seq(Tx) /\ todo # <<>>
      BY <2>2 DEF ApplyTx, Applying, Types
    <3>2. Head(todo) \in Tx
      BY <3>1
    <3>. QED  BY <2>2, <3>2, ApplyConsistent DEF ApplyTx, LedgersOK, diskvars
  <2>3. CASE CommitBlock
    BY <2>3 DEF CommitBlock, LedgersOK
  <2>4. CASE SignerUnknown \/ BlockTimeout \/ AddRaises \/ ApplyRaises \/ Crash
    <3>1. state' = genesis_state /\ db' = db
      BY <2>4 DEF SignerUnknown, BlockTimeout, AddRaises, ApplyRaises, Crash, Exit, Stop, diskvars
    <3>. QED  BY <3>1, GenesisConsistent DEF LedgersOK
  <2>5. CASE Restart
    BY <2>5 DEF Restart, LedgersOK
  <2>. QED
    BY <2>1, <2>2, <2>3, <2>4, <2>5
       DEF Next, BlockStep, Tick, ReceiveTx, SubmitTx, add_pending_transaction, CreateBlock,
           ReceiveBlock, TakeTx, SkipTx, CreateDone, AddRefused, AddLaidAside, LeaveBlock,
           BeginApply, ApplyDone, DumpPatricia, vars, diskvars
<1>. QED  BY <1>1, <1>2, TypesInvariance, PTL DEF Spec

-----------------------------------------------------------------------------
\* What applies to a weakened state applies to the full one, and leaves it as far behind.
LEMMA WeakerStep ==
  ASSUME NEW a \in LedgerState, NEW b \in LedgerState, Weaker(a, b), NEW tx \in Tx, Applies(a, tx),
         Consistent(b)
  PROVE  Applies(b, tx) /\ Weaker(apply_transaction(a, tx), apply_transaction(b, tx))
<1>. DEFINE s == tx.sender
<1>0. /\ a.own = b.own /\ a.delegated = b.delegated /\ a.nonce = b.nonce
      /\ \A x, y \in Addr : a.received[x][y] \subseteq b.received[x][y]
  BY DEF Weaker
<1>1. validate_transaction(b, tx)
  BY <1>0 DEF Applies, validate_transaction, in_own_ips
<1>2. s \in Addr
  BY <1>1 DEF validate_transaction
<1>3. ~apply_raises(b, tx)
  <2>1. SUFFICES ASSUME tx.category \in {ALLOCATE, DELEGATE}, NEW x \in Addr,
                        revoke_raises(b, s, x, tx.value)
                 PROVE  FALSE
    BY <1>0 DEF Applies, apply_raises, revocation_raises, affected_raises, affected_delegated_ips
  <2>2. ~revoke_raises(a, s, x, tx.value)
    BY <2>1 DEF Applies, apply_raises, revocation_raises
  <2>3. a.received[x][s] \subseteq b.received[x][s]
    BY <1>0, <1>2
  <2>4. PICK joint : joint = b.delegated[s][x] \cap tx.value
    OBVIOUS
  <2>5. /\ joint # {}
        /\ \/ len_raises(b.delegated[s][x] \ joint)
           \/ b.received[x][s] = {}
           \/ len_raises(b.received[x][s] \ joint)
    BY <2>1, <2>4 DEF revoke_raises, affected_delegated_ips
  <2>6. ~len_raises(b.delegated[s][x] \ joint) /\ a.received[x][s] # {}
    BY <1>0, <2>2, <2>4, <2>5 DEF revoke_raises, affected_delegated_ips
  <2>7. /\ x # s => b.received[x][s] = b.delegated[s][x]
        /\ x = s => b.received[x][s] = {}
    BY <1>2 DEF Consistent, MirroredDelegations
  <2>. QED  BY <2>3, <2>5, <2>6, <2>7
<1>4. /\ tx.category \in ALLOCATE..LOCATOR
      /\ tx.category \in {ALLOCATE, DELEGATE} => tx.to \in Addr /\ tx.value \in SUBSET IP
  BY <1>1, <1>3, TxAssumption, PrefixAssumption DEF validate_transaction, apply_raises
<1>5. CASE tx.category = ALLOCATE
  <2>1. PICK p, q, to, ips : /\ to = tx.to /\ ips = tx.value
                             /\ p = allocate(a, s, to, ips) /\ q = allocate(b, s, to, ips)
    OBVIOUS
  <2>2. apply_transaction(a, tx) = p /\ apply_transaction(b, tx) = q
    BY <1>5, <2>1 DEF apply_transaction, ALLOCATE, DELEGATE, MAPSERVER, LOCATOR
  <2>3. p.own = q.own /\ p.delegated = q.delegated /\ p.nonce = q.nonce
    BY <1>0, <2>1 DEF allocate, increment_nonce
  <2>4. to \in Addr /\ ips \in SUBSET IP
    BY <1>4, <1>5, <2>1
  <2>5. /\ \A x \in Addr : p.received[x][s] = a.received[x][s] \ (a.delegated[s][x] \cap ips)
        /\ \A x, y \in Addr : y # s => p.received[x][y] = a.received[x][y]
    <3>1. s \in Addr /\ p = allocate(a, s, to, ips)
      BY <1>2, <2>1
    <3>. HIDE DEF s
    <3>. QED  BY ONLY <3>1, <2>4, a \in LedgerState, AllocateEntries
  <2>6. /\ \A x \in Addr : q.received[x][s] = b.received[x][s] \ (b.delegated[s][x] \cap ips)
        /\ \A x, y \in Addr : y # s => q.received[x][y] = b.received[x][y]
    <3>1. s \in Addr /\ q = allocate(b, s, to, ips)
      BY <1>2, <2>1
    <3>. HIDE DEF s
    <3>. QED  BY ONLY <3>1, <2>4, b \in LedgerState, AllocateEntries
  <2>7. \A x, y \in Addr : p.received[x][y] \subseteq q.received[x][y]
    BY <1>0, <1>2, <2>5, <2>6
  <2>. QED  BY <1>1, <1>3, <2>2, <2>3, <2>7 DEF Applies, Weaker
<1>6. CASE tx.category = DELEGATE
  <2>1. PICK p, q, to, ips : /\ to = tx.to /\ ips = tx.value
                             /\ p = delegate(a, s, to, ips) /\ q = delegate(b, s, to, ips)
    OBVIOUS
  <2>2. apply_transaction(a, tx) = p /\ apply_transaction(b, tx) = q
    BY <1>6, <2>1 DEF apply_transaction, ALLOCATE, DELEGATE, MAPSERVER, LOCATOR
  <2>3. p.own = q.own /\ p.delegated = q.delegated /\ p.nonce = q.nonce
    BY <1>0, <2>1 DEF delegate, increment_nonce
  <2>4. to \in Addr /\ ips \in SUBSET IP
    BY <1>4, <1>6, <2>1
  <2>5. /\ s # to => p.received[to][s] =
                       (a.received[to][s] \ (a.delegated[s][to] \cap ips)) \cup ips
        /\ \A x \in Addr : x # to \/ s = to =>
             p.received[x][s] = a.received[x][s] \ (a.delegated[s][x] \cap ips)
        /\ \A x, y \in Addr : y # s => p.received[x][y] = a.received[x][y]
    <3>1. s \in Addr /\ p = delegate(a, s, to, ips)
      BY <1>2, <2>1
    <3>. HIDE DEF s
    <3>2. s # to => p.received[to][s] = (a.received[to][s] \ (a.delegated[s][to] \cap ips)) \cup ips
      BY ONLY <3>1, <2>4, a \in LedgerState, DelegateEntries
    <3>3. \A x \in Addr : x # to \/ s = to =>
             p.received[x][s] = a.received[x][s] \ (a.delegated[s][x] \cap ips)
      BY ONLY <3>1, <2>4, a \in LedgerState, DelegateEntries
    <3>4. \A x, y \in Addr : y # s => p.received[x][y] = a.received[x][y]
      BY ONLY <3>1, <2>4, a \in LedgerState, DelegateEntries
    <3>. QED  BY <3>2, <3>3, <3>4
  <2>6. /\ s # to => q.received[to][s] =
                       (b.received[to][s] \ (b.delegated[s][to] \cap ips)) \cup ips
        /\ \A x \in Addr : x # to \/ s = to =>
             q.received[x][s] = b.received[x][s] \ (b.delegated[s][x] \cap ips)
        /\ \A x, y \in Addr : y # s => q.received[x][y] = b.received[x][y]
    <3>1. s \in Addr /\ q = delegate(b, s, to, ips)
      BY <1>2, <2>1
    <3>. HIDE DEF s
    <3>2. s # to => q.received[to][s] = (b.received[to][s] \ (b.delegated[s][to] \cap ips)) \cup ips
      BY ONLY <3>1, <2>4, b \in LedgerState, DelegateEntries
    <3>3. \A x \in Addr : x # to \/ s = to =>
             q.received[x][s] = b.received[x][s] \ (b.delegated[s][x] \cap ips)
      BY ONLY <3>1, <2>4, b \in LedgerState, DelegateEntries
    <3>4. \A x, y \in Addr : y # s => q.received[x][y] = b.received[x][y]
      BY ONLY <3>1, <2>4, b \in LedgerState, DelegateEntries
    <3>. QED  BY <3>2, <3>3, <3>4
  <2>7. \A x, y \in Addr : p.received[x][y] \subseteq q.received[x][y]
    <3>. HIDE DEF s
    <3>1. ASSUME NEW x \in Addr, NEW y \in Addr PROVE p.received[x][y] \subseteq q.received[x][y]
      <4>1. a.received[x][y] \subseteq b.received[x][y] /\ a.delegated[s][x] = b.delegated[s][x]
        BY <1>0
      <4>. QED  BY <1>2, <2>4, <2>5, <2>6, <4>1
    <3>. QED  BY <3>1
  <2>. QED  BY <1>1, <1>3, <2>2, <2>3, <2>7 DEF Applies, Weaker
<1>7. CASE tx.category = MAPSERVER
  <2>1. /\ apply_transaction(a, tx) = set_map_servers(a, s, tx.metadata)
        /\ apply_transaction(b, tx) = set_map_servers(b, s, tx.metadata)
    BY <1>7 DEF apply_transaction, ALLOCATE, DELEGATE, MAPSERVER, LOCATOR
  <2>. QED  BY <1>0, <1>1, <1>3, <2>1 DEF Applies, Weaker, set_map_servers, increment_nonce
<1>8. CASE tx.category = LOCATOR
  <2>1. /\ apply_transaction(a, tx) = set_locators(a, s, tx.metadata)
        /\ apply_transaction(b, tx) = set_locators(b, s, tx.metadata)
    BY <1>8 DEF apply_transaction, ALLOCATE, DELEGATE, MAPSERVER, LOCATOR
  <2>. QED  BY <1>0, <1>1, <1>3, <2>1 DEF Applies, Weaker, set_locators, increment_nonce
<1>. QED  BY <1>4, <1>5, <1>6, <1>7, <1>8 DEF ALLOCATE, DELEGATE, MAPSERVER, LOCATOR

\* The block being created stays acceptable, step by step.
LEMMA NextCreation == HInv /\ Types /\ Pending /\ LedgersOK /\ Creation /\ [Next]_vars => Creation'
<1>. SUFFICES ASSUME HInv, Types, Pending, LedgersOK, Creation, [Next]_vars PROVE Creation'
  OBVIOUS
<1>0. CASE UNCHANGED vars
  <2>1. UNCHANGED <<pc, state, prev_header, block, scratch>>
    BY <1>0 DEF vars, headvars, handvars
  <2>. QED  BY <2>1 DEF Creation, validate_header, AllValid, Hash, Family
<1>1. CASE CreateBlock
  <2>1. /\ pc = "idle" /\ pc' = "create"
        /\ block' = [prevhash |-> head_hash, number |-> block_number + 1,
                     timestamp |-> now, txs |-> <<>>]
        /\ scratch' = state /\ UNCHANGED <<state, prev_header>>
        /\ now - HeadBlock.timestamp >= BLOCK_TIME
    BY <1>1 DEF CreateBlock, BlockTimeReached, headvars
  <2>2. now > HeadBlock.timestamp
    BY <2>1, ChainAssumption DEF HInv, Committed
  <2>3. /\ prev_header = HeadBlock /\ head_hash = Hash(prev_header)
        /\ block_number = prev_header.number
    BY <2>1 DEF HInv, HeadsAgree
  <2>4. /\ block'.prevhash = Hash(prev_header) /\ block'.number = prev_header.number + 1
        /\ block'.timestamp > prev_header.timestamp /\ block'.txs = <<>>
    BY <2>1, <2>2, <2>3
  <2>5. validate_header(block)'
    BY <2>1, <2>4 DEF validate_header, Hash
  <2>6. Result(state, <<>>) = [ok |-> TRUE, st |-> state]
    BY ResultOK DEF Types
  <2>7. /\ Result(state', block'.txs).ok /\ Weaker(scratch', Result(state', block'.txs).st)
        /\ Consistent(Result(state', block'.txs).st)
    BY <2>1, <2>4, <2>6 DEF Weaker, LedgersOK
  <2>8. DOMAIN block'.txs = {}
    BY <2>4
  <2>. QED  BY <2>5, <2>7, <2>8 DEF Creation, AllValid
<1>2. CASE TakeTx
  <2>1. /\ pc = "create" /\ pc' = "create" /\ UNCHANGED <<state, prev_header>>
        /\ todo # <<>> /\ todo \in Seq(Tx)
        /\ block' = [block EXCEPT !.txs = Append(@, Head(todo))]
        /\ scratch' = apply_transaction(scratch, Head(todo)) /\ Applies(scratch, Head(todo))
        /\ Head(todo).afi = Family(block.number)
    BY <1>2 DEF TakeTx, Creating, Types, headvars
  <2>2. PICK tx, s, l : tx = Head(todo) /\ s = block.txs /\ l = Append(s, tx)
    OBVIOUS
  <2>3. tx \in Tx /\ s \in Seq(Tx) /\ l \in Seq(Tx) /\ GoodBlock(block)
    BY <2>1, <2>2 DEF Types, GoodBlock
  <2>4. block' = [block EXCEPT !.txs = l]
    BY <2>1, <2>2
  <2>5. /\ block'.txs = l /\ block'.prevhash = block.prevhash
        /\ block'.number = block.number /\ block'.timestamp = block.timestamp
    BY <2>3, <2>4, BlockWith
  <2>6. validate_header(block)'
    BY <2>1, <2>5 DEF Creation, validate_header, Hash
  <2>7. validate_transaction(state, tx)
    BY <2>1, <2>2 DEF Pending, AllValid
  <2>8. /\ \A i \in DOMAIN s : validate_transaction(state, s[i]) /\ s[i].afi = Family(block.number)
        /\ Result(state, s).ok /\ Weaker(scratch, Result(state, s).st)
        /\ Consistent(Result(state, s).st)
    BY <2>1, <2>2 DEF Creation, AllValid
  <2>9. \A i \in DOMAIN l : validate_transaction(state, l[i]) /\ l[i].afi = Family(block.number)
    BY <2>1, <2>2, <2>3, <2>7, <2>8
  <2>10. PICK r : r = Result(state, s)
    OBVIOUS
  <2>11. /\ r \in [ok : BOOLEAN, st : LedgerState]
         /\ Result(state, l) = IF r.ok /\ Applies(r.st, tx)
                               THEN [ok |-> TRUE, st |-> apply_transaction(r.st, tx)]
                               ELSE [ok |-> FALSE, st |-> r.st]
    <3>1. state \in LedgerState
      BY DEF Types
    <3>2. \A z \in Seq(Tx) :
            /\ Result(state, z) \in [ok : BOOLEAN, st : LedgerState]
            /\ \A y \in Tx : Result(state, Append(z, y)) =
                 IF Result(state, z).ok /\ Applies(Result(state, z).st, y)
                 THEN [ok |-> TRUE, st |-> apply_transaction(Result(state, z).st, y)]
                 ELSE [ok |-> FALSE, st |-> Result(state, z).st]
      BY <3>1, ResultOK
    <3>. QED  BY <2>2, <2>3, <2>10, <3>2
  <2>12. /\ Applies(r.st, tx)
         /\ Weaker(apply_transaction(scratch, tx), apply_transaction(r.st, tx))
         /\ Consistent(apply_transaction(r.st, tx))
    <3>1. Applies(r.st, tx) /\ Weaker(apply_transaction(scratch, tx), apply_transaction(r.st, tx))
      BY <2>1, <2>2, <2>3, <2>8, <2>10, <2>11, WeakerStep DEF Types
    <3>. QED  BY <2>3, <2>8, <2>10, <3>1, ApplyConsistent
  <2>13. Result(state, l) = [ok |-> TRUE, st |-> apply_transaction(r.st, tx)]
    BY <2>8, <2>10, <2>11, <2>12
  <2>14. /\ Result(state', block'.txs).ok /\ Weaker(scratch', Result(state', block'.txs).st)
         /\ Consistent(Result(state', block'.txs).st)
    BY <2>1, <2>2, <2>5, <2>12, <2>13
  <2>15. /\ AllValid(state', block'.txs)
         /\ \A i \in DOMAIN block'.txs : block'.txs[i].afi = Family(block'.number)
    BY <2>1, <2>5, <2>9 DEF AllValid, Family
  <2>. QED  BY <2>6, <2>14, <2>15 DEF Creation
<1>3. CASE SkipTx
  <2>1. /\ pc = "create" /\ UNCHANGED <<pc, state, prev_header, block>>
        /\ todo # <<>> /\ todo \in Seq(Tx)
        /\ scratch' = scratch \/ scratch' \in half_applied(scratch, Head(todo))
    BY <1>3 DEF SkipTx, Creating, Types, headvars
  <2>2. Head(todo) \in Tx
    BY <2>1
  <2>3. Weaker(scratch', scratch)
    BY <2>1, <2>2, HalfAppliedOK DEF Types, Weaker
  <2>4. PICK r : r = Result(state, block.txs).st
    OBVIOUS
  <2>5. Weaker(scratch, r)
    BY <2>1, <2>4 DEF Creation
  <2>6. Weaker(scratch', r)
    BY <2>3, <2>5 DEF Weaker
  <2>. QED  BY <2>1, <2>4, <2>6 DEF Creation, validate_header, AllValid, Hash, Family
<1>4. CASE pc' # "create"
  BY <1>4 DEF Creation
<1>. QED
  BY <1>0, <1>1, <1>2, <1>3, <1>4
     DEF Next, BlockStep, Tick, ReceiveTx, SubmitTx, add_pending_transaction, ReceiveBlock,
         SignerUnknown, BlockTimeout, CreateDone, AddRaises, AddRefused, AddLaidAside, LeaveBlock,
         BeginApply, ApplyTx, Applying, ApplyRaises, ApplyDone, DumpPatricia, CommitBlock, Crash,
         Restart, Exit, Stop

\* It always is.
LEMMA CreationInvariance == Spec => []Creation
<1>1. Init => Creation
  BY DEF Init, Creation
<1>. QED
  BY <1>1, NextCreation, HeadInvariance, TypesInvariance, PendingInvariance, LedgersConsistent,
     PTL DEF Spec

\* The block create_block builds passes this node's own add_block, although the
\* pool is applied to a scratch state that failed transactions leave modified.
THEOREM CreatedBlockAlwaysValid == Spec => []CreatedBlockValid
<1>1. HInv /\ Types /\ Creation => CreatedBlockValid
  <2>1. \A st, txs : AppliesAll(st, txs) = Result(st, txs).ok
    BY DEF AppliesAll, Result
  <2>2. Types /\ pc = "create" => block.timestamp <= now
    BY DEF Types
  <2>. QED
    BY <2>1, <2>2 DEF Creation, CreatedBlockValid, validate_block, AllValid, WrongFamily
<1>. QED
  BY <1>1, HeadInvariance, TypesInvariance, CreationInvariance, PTL

-----------------------------------------------------------------------------
\* A transaction that applies carries the next nonce of its sender.
LEMMA NonceStep ==
  ASSUME NEW txs \in Seq(Tx), NEW st \in LedgerState, NonceOK(txs, st),
         NEW tx \in Tx, Applies(st, tx)
  PROVE  NonceOK(Append(txs, tx), apply_transaction(st, tx))
<1>1. PICK l, n, new : l = Append(txs, tx) /\ n = Len(txs) /\ new = apply_transaction(st, tx)
  OBVIOUS
<1>2. /\ n \in Nat /\ DOMAIN txs = 1..n /\ DOMAIN l = 1..(n + 1)
      /\ \A i \in 1..n : l[i] = txs[i]
      /\ l[n + 1] = tx
  BY <1>1
<1>3. /\ tx.sender \in Addr /\ tx.nonce = st.nonce[tx.sender]
      /\ new.nonce = [st.nonce EXCEPT ![tx.sender] = @ + 1]
  BY <1>1, EffectOK
<1>4. SUFFICES ASSUME NEW a \in Addr
               PROVE  /\ new.nonce[a] = Cardinality(Sent(l, a))
                      /\ \A i \in Sent(l, a) :
                           l[i].nonce = Cardinality({ j \in Sent(l, a) : j < i })
  BY <1>1 DEF NonceOK
<1>5. PICK T : T = Sent(txs, a)
  OBVIOUS
<1>6. /\ st.nonce[a] = Cardinality(T)
      /\ \A i \in T : txs[i].nonce = Cardinality({ j \in T : j < i })
  BY <1>5 DEF NonceOK
<1>7. T \subseteq 1..n /\ IsFiniteSet(T)
  <2>1. T \subseteq 1..n
    BY <1>2, <1>5 DEF Sent
  <2>2. PICK N : N = 1..n
    OBVIOUS
  <2>3. IsFiniteSet(N)
    BY <1>2, <2>2, FS_Interval
  <2>. QED  BY <2>1, <2>2, <2>3, FS_Subset
<1>8. CASE a = tx.sender
  <2>1. Sent(l, a) = T \cup {n + 1} /\ n + 1 \notin T
    BY <1>2, <1>5, <1>7, <1>8 DEF Sent
  <2>2. Cardinality(T \cup {n + 1}) = Cardinality(T) + 1
    BY <1>7, <2>1, FS_AddElement
  <2>3. new.nonce[a] = st.nonce[a] + 1
    BY <1>3, <1>8 DEF LedgerState
  <2>0. n \in Nat /\ \A j \in T : j \in Nat /\ j < n + 1
    BY <1>2, <1>7
  <2>4. { j \in T \cup {n + 1} : j < n + 1 } = T
    BY ONLY <2>0
  <2>5. \A i \in T : { j \in T \cup {n + 1} : j < i } = { j \in T : j < i }
    BY ONLY <2>0
  <2>6. l[n + 1].nonce = Cardinality(T)
    BY <1>2, <1>3, <1>6, <1>8
  <2>7. \A i \in T : l[i].nonce = Cardinality({ j \in T : j < i })
    BY <1>2, <1>6, <1>7
  <2>8. \A i \in T \cup {n + 1} : l[i].nonce = Cardinality({ j \in T \cup {n + 1} : j < i })
    BY <2>4, <2>5, <2>6, <2>7
  <2>. QED  BY <1>6, <2>1, <2>2, <2>3, <2>8
<1>9. CASE a # tx.sender
  <2>1. Sent(l, a) = T
    BY <1>2, <1>5, <1>7, <1>9 DEF Sent
  <2>2. new.nonce[a] = st.nonce[a]
    BY <1>3, <1>9 DEF LedgerState
  <2>3. \A i \in T : l[i] = txs[i]
    BY <1>2, <1>7
  <2>. QED  BY <1>6, <2>1, <2>2, <2>3
<1>. QED  BY <1>8, <1>9

\* Before the first transaction all nonces are zero.
LEMMA NonceStart == NonceOK(<<>>, genesis_state)
<1>1. \A a \in Addr : Sent(<<>>, a) = {} /\ genesis_state.nonce[a] = 0
  BY DEF Sent, genesis_state
<1>2. Cardinality({}) = 0
  BY FS_EmptySet
<1>. QED  BY <1>1, <1>2 DEF NonceOK

\* The transactions of the chain, and those of the chain with one block more.
LEMMA ChainTxsOK ==
  ASSUME NEW q, GoodBlocks(q)
  PROVE  /\ TxsOf(<<>>) = <<>> /\ TreeOf(<<>>) = genesis_patricia
         /\ TxsOf(q) \in Seq(Tx) /\ TreeOf(q) \in Patricia
         /\ \A b : GoodBlock(b) => /\ TxsOf(Append(q, b)) = TxsOf(q) \o b.txs
                                   /\ TreeOf(Append(q, b)) = set_values(TreeOf(q), CacheOf(b.txs))
<1>1. PICK S : q \in Seq(S) /\ \A x \in S : GoodBlock(x)
  BY DEF GoodBlocks
<1>2. \A x \in S : x.txs \in Seq(Tx)
  BY <1>1 DEF GoodBlock
<1>3. /\ TxsOf(<<>>) = <<>> /\ TreeOf(<<>>) = genesis_patricia
      /\ TxsOf(q) \in Seq(Tx) /\ TreeOf(q) \in Patricia
  BY <1>1, <1>2, TxsOfOK, TreeOfOK
<1>4. ASSUME NEW b, GoodBlock(b)
      PROVE  /\ TxsOf(Append(q, b)) = TxsOf(q) \o b.txs
             /\ TreeOf(Append(q, b)) = set_values(TreeOf(q), CacheOf(b.txs))
  <2>1. PICK T : T = S \cup {b}
    OBVIOUS
  <2>2. q \in Seq(T) /\ b \in T /\ \A x \in T : x.txs \in Seq(Tx)
    BY <1>1, <1>2, <1>4, <2>1 DEF GoodBlock
  <2>. QED  BY <2>2, TxsOfOK, TreeOfOK
<1>. QED  BY <1>3, <1>4

\* Moving the first of s to the end of done.
LEMMA MoveHead ==
  ASSUME NEW T, NEW done \in Seq(T), NEW s \in Seq(T), s # <<>>
  PROVE  /\ Head(s) \in T /\ Tail(s) \in Seq(T) /\ Append(done, Head(s)) \in Seq(T)
         /\ done \o s = Append(done, Head(s)) \o Tail(s)
OBVIOUS

\* How far the block in hand is applied, step by step.
LEMMA NextApplied == HInv /\ Types /\ Applied /\ [Next]_vars => Applied'
<1>. SUFFICES ASSUME HInv, Types, Applied, [Next]_vars PROVE Applied'
  OBVIOUS
<1>1. CASE UNCHANGED <<pc, state, block, todo, cached, db>>
  BY <1>1 DEF Applied
<1>2. CASE /\ pc # "apply" /\ pc' \notin {"apply", "dump", "commit"}
           /\ cached' \in {cached, NoEntries} /\ db' = db
  BY <1>2 DEF Applied
<1>3. CASE SignerUnknown \/ BlockTimeout \/ AddRaises \/ ApplyRaises \/ Crash
  <2>1. pc' = "down" /\ cached' = NoEntries /\ db' = db
    BY <1>3 DEF SignerUnknown, BlockTimeout, AddRaises, ApplyRaises, Crash, Exit, Stop, EmptyHand,
                diskvars
  <2>. QED  BY <2>1 DEF Applied
<1>4. CASE BeginApply
  <2>1. /\ pc = "add" /\ pc' = "apply" /\ todo' = block.txs
        /\ UNCHANGED <<state, block, cached, db>>
    BY <1>4 DEF BeginApply, diskvars
  <2>2. state = db.state
    BY <2>1 DEF HInv, HeadsAgree
  <2>3. NonceOK(TxsOf(db.chain), state) /\ cached = CacheOf(<<>>)
    BY <2>1, <2>2, CacheOfOK DEF Applied
  <2>4. PICK c : c = TxsOf(db.chain)
    OBVIOUS
  <2>5. c \in Seq(Tx) /\ block.txs \in Seq(Tx)
    BY <2>4, ChainTxsOK DEF Types, GoodBlock
  <2>6. c \o <<>> = c /\ <<>> \o block.txs = block.txs /\ <<>> \in Seq(Tx)
    BY <2>5
  <2>7. TxsOf(db'.chain) = c
    BY <2>1, <2>4
  <2>8. \E done \in Seq(Tx) : /\ block'.txs = done \o todo'
                              /\ NonceOK(c \o done, state')
                              /\ cached' = CacheOf(done)
    BY <2>1, <2>3, <2>4, <2>6
  <2>9. NonceOK(c, db'.state)
    BY <2>1, <2>2, <2>3, <2>4
  <2>. QED  BY <2>1, <2>7, <2>8, <2>9 DEF Applied
<1>5. CASE ApplyTx
  <2>1. /\ pc = "apply" /\ pc' = "apply" /\ todo # <<>> /\ todo \in Seq(Tx) /\ todo' = Tail(todo)
        /\ Applies(state, Head(todo)) /\ state' = apply_transaction(state, Head(todo))
        /\ cached' = cache_transaction(cached, Head(todo))
        /\ UNCHANGED <<block, db>>
    BY <1>5 DEF ApplyTx, Applying, Types, diskvars
  <2>2. PICK done \in Seq(Tx) : /\ block.txs = done \o todo
                                /\ NonceOK(TxsOf(db.chain) \o done, state)
                                /\ cached = CacheOf(done)
    BY <2>1 DEF Applied
  <2>3. PICK tx, next, c : tx = Head(todo) /\ next = Append(done, tx) /\ c = TxsOf(db.chain)
    OBVIOUS
  <2>4. tx \in Tx /\ next \in Seq(Tx) /\ block.txs = next \o todo'
    BY <2>1, <2>2, <2>3, MoveHead
  <2>5. c \in Seq(Tx)
    BY <2>3, ChainTxsOK DEF Types
  <2>6. c \o done \in Seq(Tx) /\ c \o next = Append(c \o done, tx)
    BY <2>3, <2>4, <2>5, ConcatOK
  <2>7. NonceOK(c \o next, state')
    BY <2>1, <2>2, <2>3, <2>4, <2>6, NonceStep DEF Types
  <2>8. cached' = CacheOf(next)
    BY <2>1, <2>2, <2>3, <2>4, CacheOfOK
  <2>9. TxsOf(db'.chain) = c /\ NonceOK(c, db'.state)
    BY <2>1, <2>3 DEF Applied
  <2>10. \E d \in Seq(Tx) : /\ block'.txs = d \o todo'
                            /\ NonceOK(c \o d, state')
                            /\ cached' = CacheOf(d)
    BY <2>1, <2>4, <2>7, <2>8
  <2>. QED  BY <2>1, <2>9, <2>10 DEF Applied
<1>6. CASE ApplyDone
  <2>1. /\ pc = "apply" /\ pc' = "dump" /\ todo = <<>> /\ cached' = NoEntries
        /\ UNCHANGED <<state, block, db>>
    BY <1>6 DEF ApplyDone
  <2>2. NonceOK(TxsOf(db.chain) \o block.txs, state)
    <3>1. PICK done \in Seq(Tx) : /\ block.txs = done \o todo
                                  /\ NonceOK(TxsOf(db.chain) \o done, state)
      BY <2>1 DEF Applied
    <3>2. block.txs = done
      BY <2>1, <3>1
    <3>. QED  BY <3>1, <3>2
  <2>. QED  BY <2>1, <2>2 DEF Applied
<1>7. CASE DumpPatricia
  <2>1. pc = "dump" /\ pc' = "commit" /\ UNCHANGED <<state, block, cached, db>>
    BY <1>7 DEF DumpPatricia, handvars
  <2>. QED  BY <2>1 DEF Applied
<1>8. CASE CommitBlock
  <2>1. /\ pc = "commit" /\ pc' = "idle" /\ cached' = NoEntries
        /\ db'.chain = Append(db.chain, block) /\ db'.state = state
    BY <1>8 DEF CommitBlock, EmptyHand
  <2>2. TxsOf(Append(db.chain, block)) = TxsOf(db.chain) \o block.txs
    BY ChainTxsOK DEF Types
  <2>3. TxsOf(db'.chain) = TxsOf(db.chain) \o block.txs
    BY <2>1, <2>2
  <2>4. NonceOK(TxsOf(db.chain) \o block.txs, state)
    BY <2>1 DEF Applied
  <2>5. PICK c : c = TxsOf(db.chain) \o block.txs
    OBVIOUS
  <2>6. NonceOK(TxsOf(db'.chain), db'.state)
    BY <2>1, <2>3, <2>4
  <2>. QED  BY <2>1, <2>6 DEF Applied
<1>. QED
  <2>1. CASE Tick \/ (\E tx \in Tx : add_pending_transaction(tx)) \/ UNCHANGED vars
    BY <1>1, <2>1 DEF Tick, add_pending_transaction, vars, handvars, diskvars
  <2>2. CASE CreateBlock \/ (\E b \in NetworkBlocks : ReceiveBlock(b)) \/ TakeTx \/ SkipTx
             \/ CreateDone \/ AddRefused \/ AddLaidAside \/ Restart
    BY <1>2, <2>2 DEF CreateBlock, BlockTimeReached, ReceiveBlock, TakeTx, SkipTx, Creating,
         CreateDone, AddRefused, AddLaidAside, LeaveBlock, EmptyHand, Restart, diskvars, handvars
  <2>. QED
    BY <1>3, <1>4, <1>5, <1>6, <1>7, <1>8, <2>1, <2>2 DEF Next, BlockStep, ReceiveTx, SubmitTx

\* It always is.
LEMMA AppliedInvariance == Spec => []Applied
<1>1. Init => Applied
  <2>1. SUFFICES ASSUME Init PROVE Applied
    OBVIOUS
  <2>2. /\ pc = "idle" /\ cached = NoEntries /\ db.chain = <<>> /\ db.state = genesis_state
    BY <2>1 DEF Init
  <2>3. TxsOf(db.chain) = <<>>
    BY <2>2, BlocksFacts, ChainTxsOK
  <2>. QED  BY <2>2, <2>3, NonceStart DEF Applied
<1>. QED
  BY <1>1, NextApplied, HeadInvariance, TypesInvariance, PTL DEF Spec

\* The k-th transaction of an account on the chain carries nonce k - 1: none is
\* applied twice or out of order, through refused blocks, crashes and restarts.
THEOREM NeverReplayed == Spec => []NoReplay
<1>1. Applied => NoReplay
  <2>1. TxsOf(db.chain) = ChainTxs
    BY DEF ChainTxs, TxsOf
  <2>. QED  BY <2>1 DEF Applied, NoReplay
<1>. QED  BY <1>1, AppliedInvariance, PTL

-----------------------------------------------------------------------------
\* Setting the genesis entries in an empty tree, or again in their own.
LEMMA GenesisTree ==
  /\ set_values(NoEntries, genesis_patricia) = genesis_patricia
  /\ set_values(genesis_patricia, genesis_patricia) = genesis_patricia
BY TreeTypes DEF set_values, NoEntries, Patricia

\* The trees follow the chain, step by step.
LEMMA NextTrees == HInv /\ Types /\ Applied /\ Trees /\ [Next]_vars => Trees'
<1>. SUFFICES ASSUME HInv, Types, Applied, Trees, [Next]_vars PROVE Trees'
  OBVIOUS
<1>1. CASE UNCHANGED <<pc, block, patricia, file, damage, db>>
  BY <1>1 DEF Trees
<1>2. CASE /\ pc \in {"idle", "create", "add", "apply"}
           /\ pc' \in {"idle", "create", "add", "apply"}
           /\ UNCHANGED <<patricia, file, damage, db>>
  BY <1>2 DEF Trees
<1>3. CASE SignerUnknown \/ BlockTimeout \/ AddRaises \/ ApplyRaises
  <2>1. /\ pc \in {"idle", "create", "add", "apply"} /\ pc' = "down"
        /\ UNCHANGED <<file, damage, db>>
    BY <1>3 DEF SignerUnknown, BlockTimeout, BlockTimeReached, AddRaises, ApplyRaises, Applying,
                Exit, Stop, diskvars, history
  <2>. QED  BY <2>1 DEF Trees
<1>4. CASE Crash
  <2>1. /\ pc # "down" /\ pc' = "down" /\ UNCHANGED <<file, db>>
        /\ damage' = damage \cup (IF file = Torn /\ db.chain # <<>> THEN {"torn"} ELSE {})
                            \cup (IF pc = "commit" THEN {"ahead"} ELSE {})
    BY <1>4 DEF Crash, Stop, diskvars
  <2>2. damage' = {} => damage = {} /\ pc # "commit" /\ (file = Torn => db.chain = <<>>)
    BY <2>1
  <2>3. pc \in {"idle", "create", "add", "apply", "dump", "commit", "down"}
    BY DEF Types
  <2>. QED  BY <2>1, <2>2, <2>3 DEF Trees
<1>5. CASE ApplyDone
  <2>1. /\ pc = "apply" /\ pc' = "dump" /\ todo = <<>>
        /\ patricia' = set_values(patricia, cached) /\ file' = Torn
        /\ UNCHANGED <<block, db, damage>>
    BY <1>5 DEF ApplyDone, history
  <2>2. cached = CacheOf(block.txs)
    <3>1. PICK done \in Seq(Tx) : block.txs = done \o todo /\ cached = CacheOf(done)
      BY <2>1 DEF Applied
    <3>2. block.txs = done
      BY <2>1, <3>1
    <3>. QED  BY <3>1, <3>2
  <2>. QED  BY <2>1, <2>2 DEF Trees
<1>6. CASE DumpPatricia
  <2>1. /\ pc = "dump" /\ pc' = "commit" /\ file' = patricia
        /\ UNCHANGED <<block, patricia, db, damage>>
    BY <1>6 DEF DumpPatricia, handvars, history
  <2>. QED  BY <2>1 DEF Trees
<1>7. CASE CommitBlock
  <2>1. /\ pc = "commit" /\ pc' = "idle" /\ db'.chain = Append(db.chain, block)
        /\ UNCHANGED <<patricia, file, damage>>
    BY <1>7 DEF CommitBlock, history
  <2>2. TreeOf(Append(db.chain, block)) = set_values(TreeOf(db.chain), CacheOf(block.txs))
    BY ChainTxsOK DEF Types
  <2>. QED  BY <2>1, <2>2 DEF Trees
<1>8. CASE Restart
  <2>1. PICK loaded : loaded = IF file = Torn THEN NoEntries ELSE file
    OBVIOUS
  <2>2. /\ pc = "down" /\ pc' = "idle" /\ UNCHANGED <<db, damage>>
        /\ patricia' = IF db.chain = <<>> THEN set_values(loaded, genesis_patricia) ELSE loaded
        /\ file' = IF db.chain = <<>> THEN patricia' ELSE file
    BY <1>8, <2>1 DEF Restart, history
  <2>3. CASE db.chain = <<>>
    <3>1. TreeOf(db.chain) = genesis_patricia /\ genesis_patricia # Torn
      BY <2>3, BlocksFacts, ChainTxsOK, TreeTypes, ChainAssumption
    <3>2. damage = {} => file \in {genesis_patricia, Torn}
      BY <2>2, <3>1 DEF Trees
    <3>3. damage = {} => set_values(loaded, genesis_patricia) = genesis_patricia
      BY <2>1, <3>1, <3>2, GenesisTree
    <3>4. damage = {} => patricia' = genesis_patricia /\ file' = genesis_patricia
      BY <2>2, <2>3, <3>3
    <3>. QED  BY <2>2, <3>1, <3>4 DEF Trees
  <2>4. CASE db.chain # <<>>
    <3>1. damage = {} => file = TreeOf(db.chain)
      BY <2>2, <2>4 DEF Trees
    <3>2. TreeOf(db.chain) # Torn
      BY ChainTxsOK, ChainAssumption DEF Types
    <3>. QED  BY <2>1, <2>2, <2>4, <3>1, <3>2 DEF Trees
  <2>. QED  BY <2>3, <2>4
<1>. QED
  <2>1. CASE Tick \/ (\E tx \in Tx : add_pending_transaction(tx)) \/ UNCHANGED vars
    BY <1>1, <2>1 DEF Tick, add_pending_transaction, vars, handvars, diskvars, history
  <2>2. CASE CreateBlock \/ (\E b \in NetworkBlocks : ReceiveBlock(b)) \/ TakeTx \/ SkipTx
             \/ CreateDone \/ AddRefused \/ AddLaidAside \/ BeginApply \/ ApplyTx
    BY <1>2, <2>2 DEF CreateBlock, BlockTimeReached, ReceiveBlock, TakeTx, SkipTx, Creating,
         CreateDone, AddRefused, AddLaidAside, LeaveBlock, BeginApply, ApplyTx, Applying,
         diskvars, handvars, history
  <2>. QED
    BY <1>3, <1>4, <1>5, <1>6, <1>7, <1>8, <2>1, <2>2 DEF Next, BlockStep, ReceiveTx, SubmitTx

\* They always do.
LEMMA TreesInvariance == Spec => []Trees
<1>1. Init => Trees
  <2>1. SUFFICES ASSUME Init PROVE Trees
    OBVIOUS
  <2>2. /\ pc = "idle" /\ db.chain = <<>> /\ patricia = genesis_patricia
        /\ file = genesis_patricia
    BY <2>1 DEF Init
  <2>3. TreeOf(db.chain) = genesis_patricia
    BY <2>2, BlocksFacts, ChainTxsOK
  <2>. QED  BY <2>2, <2>3 DEF Trees
<1>. QED
  BY <1>1, NextTrees, HeadInvariance, TypesInvariance, AppliedInvariance, PTL DEF Spec

\* Without a crash inside the two disk writes, the tree in memory and the one in
\* patricia.p are those of the committed chain.
THEOREM TreeAlwaysFollowsChain == Spec => []TreeFollowsChain
<1>1. Trees => TreeFollowsChain
  <2>1. TreeOf(db.chain) = ChainTree
    BY DEF ChainTree, TreeOf
  <2>. QED  BY <2>1 DEF Trees, TreeFollowsChain
<1>. QED  BY <1>1, TreesInvariance, PTL

-----------------------------------------------------------------------------
\* Setting entries in a tree loses none.
LEMMA CoverageGrows ==
  ASSUME NEW st, NEW tree, CoveredBy(st, tree), NEW c
  PROVE  CoveredBy(st, set_values(tree, c))
BY DEF CoveredBy, set_values

\* The genesis entries cover what the genesis state owns, whatever else is in the tree.
LEMMA GenesisCovered ==
  ASSUME NEW tree
  PROVE  CoveredBy(genesis_state, set_values(tree, genesis_patricia))
<1>1. SUFFICES ASSUME NEW a \in Addr, NEW ip \in genesis_state.own[a]
               PROVE  \E p \in Prefix : ip \in p /\ set_values(tree, genesis_patricia)[p] # Blank
  BY DEF CoveredBy
<1>2. PICK p \in Genesis[a] : ip \in p
  BY <1>1 DEF genesis_state
<1>3. p \in Prefix /\ genesis_patricia[p] \in Addr
  BY <1>2, GenesisAssumption DEF genesis_patricia
<1>4. set_values(tree, genesis_patricia)[p] # Blank
  BY <1>3, BlankAssumption DEF set_values
<1>. QED  BY <1>2, <1>3, <1>4

\* Coverage, step by step.
LEMMA NextCoverage == HInv /\ Types /\ Coverage /\ [Next]_vars => Coverage'
<1>. SUFFICES ASSUME HInv, Types, Coverage, [Next]_vars PROVE Coverage'
  OBVIOUS
<1>1. CASE UNCHANGED <<pc, state, patricia, file, damage, db>>
  BY <1>1 DEF Coverage
<1>2. CASE /\ pc \in {"idle", "create", "add", "apply"}
           /\ pc' \in {"idle", "create", "add", "apply"}
           /\ UNCHANGED <<state, patricia, file, damage, db>>
  BY <1>2 DEF Coverage
<1>3. CASE SignerUnknown \/ BlockTimeout \/ AddRaises \/ ApplyRaises
  <2>1. /\ pc \in {"idle", "create", "add", "apply"} /\ pc' = "down"
        /\ UNCHANGED <<file, damage, db>>
    BY <1>3 DEF SignerUnknown, BlockTimeout, BlockTimeReached, AddRaises, ApplyRaises, Applying,
                Exit, Stop, diskvars, history
  <2>. QED  BY <2>1 DEF Coverage
<1>4. CASE Crash
  <2>1. /\ pc # "down" /\ pc' = "down" /\ UNCHANGED <<file, db>>
        /\ damage' = damage \cup (IF file = Torn /\ db.chain # <<>> THEN {"torn"} ELSE {})
                            \cup (IF pc = "commit" THEN {"ahead"} ELSE {})
    BY <1>4 DEF Crash, Stop, diskvars
  <2>2. "torn" \notin damage' => "torn" \notin damage /\ (file = Torn => db.chain = <<>>)
    BY <2>1
  <2>. QED  BY <2>1, <2>2 DEF Coverage
<1>5. CASE ApplyTx
  <2>1. /\ pc = "apply" /\ pc' = "apply" /\ todo # <<>> /\ todo \in Seq(Tx)
        /\ Applies(state, Head(todo)) /\ state' = apply_transaction(state, Head(todo))
        /\ UNCHANGED <<patricia, file, damage, db>>
    BY <1>5 DEF ApplyTx, Applying, Types, diskvars, history
  <2>2. Head(todo) \in Tx
    BY <2>1
  <2>3. \A a \in Addr : \A ip \in state'.own[a] : \E b \in Addr : ip \in state.own[b]
    BY <2>1, <2>2, EffectOK DEF Types
  <2>4. CoveredBy(state, patricia) => CoveredBy(state', patricia)
    BY <2>3 DEF CoveredBy
  <2>. QED  BY <2>1, <2>4 DEF Coverage
<1>6. CASE ApplyDone
  <2>1. /\ pc = "apply" /\ pc' = "dump"
        /\ patricia' = set_values(patricia, cached) /\ file' = Torn
        /\ UNCHANGED <<state, db, damage>>
    BY <1>6 DEF ApplyDone, history
  <2>2. /\ CoveredBy(state, patricia) => CoveredBy(state, patricia')
        /\ CoveredBy(db.state, patricia) => CoveredBy(db.state, patricia')
    BY <2>1, CoverageGrows
  <2>. QED  BY <2>1, <2>2 DEF Coverage
<1>7. CASE DumpPatricia
  <2>1. /\ pc = "dump" /\ pc' = "commit" /\ file' = patricia
        /\ UNCHANGED <<state, patricia, db, damage>>
    BY <1>7 DEF DumpPatricia, history
  <2>2. patricia # Torn
    BY ChainAssumption DEF Types
  <2>. QED  BY <2>1, <2>2 DEF Coverage
<1>8. CASE CommitBlock
  <2>1. /\ pc = "commit" /\ pc' = "idle" /\ db'.chain = Append(db.chain, block)
        /\ db'.state = state /\ UNCHANGED <<state, patricia, file, damage>>
    BY <1>8 DEF CommitBlock, history
  <2>2. patricia # Torn /\ file = patricia
    BY <2>1, ChainAssumption DEF Types, Coverage
  <2>3. db'.chain # <<>>
    <3>1. Len(db'.chain) = Len(db.chain) + 1 /\ Len(db.chain) \in Nat
      BY <2>1, BlocksFacts DEF Types
    <3>. QED  BY <3>1
  <2>. QED  BY <2>1, <2>2, <2>3 DEF Coverage
<1>9. CASE Restart
  <2>1. PICK loaded : loaded = IF file = Torn THEN NoEntries ELSE file
    OBVIOUS
  <2>2. /\ pc = "down" /\ pc' = "idle" /\ UNCHANGED <<db, damage>> /\ state' = db.state
        /\ patricia' = IF db.chain = <<>> THEN set_values(loaded, genesis_patricia) ELSE loaded
        /\ file' = IF db.chain = <<>> THEN patricia' ELSE file
    BY <1>9, <2>1 DEF Restart, history
  <2>3. CASE db.chain = <<>>
    <3>1. CoveredBy(db.state, patricia')
      BY <2>2, <2>3, GenesisCovered DEF Coverage
    <3>. QED  BY <2>2, <2>3, <3>1 DEF Coverage
  <2>4. CASE db.chain # <<>>
    <3>1. "torn" \notin damage => file # Torn /\ CoveredBy(db.state, file)
      BY <2>2, <2>4 DEF Coverage
    <3>. QED  BY <2>1, <2>2, <2>4, <3>1 DEF Coverage
  <2>. QED  BY <2>3, <2>4
<1>. QED
  <2>1. CASE Tick \/ (\E tx \in Tx : add_pending_transaction(tx)) \/ UNCHANGED vars
    BY <1>1, <2>1 DEF Tick, add_pending_transaction, vars, handvars, diskvars, history
  <2>2. CASE CreateBlock \/ (\E b \in NetworkBlocks : ReceiveBlock(b)) \/ TakeTx \/ SkipTx
             \/ CreateDone \/ AddRefused \/ AddLaidAside \/ BeginApply
    BY <1>2, <2>2 DEF CreateBlock, BlockTimeReached, ReceiveBlock, TakeTx, SkipTx, Creating,
         CreateDone, AddRefused, AddLaidAside, LeaveBlock, BeginApply,
         diskvars, handvars, history
  <2>. QED
    BY <1>3, <1>4, <1>5, <1>6, <1>7, <1>8, <1>9, <2>1, <2>2
       DEF Next, BlockStep, ReceiveTx, SubmitTx

\* It always holds.
LEMMA CoverageInvariance == Spec => []Coverage
<1>1. Init => Coverage
  <2>1. SUFFICES ASSUME Init PROVE Coverage
    OBVIOUS
  <2>2. /\ pc = "idle" /\ db.chain = <<>> /\ db.state = genesis_state
        /\ state = genesis_state /\ patricia = genesis_patricia /\ file = genesis_patricia
    BY <2>1 DEF Init
  <2>3. CoveredBy(genesis_state, genesis_patricia)
    BY GenesisCovered, GenesisTree
  <2>. QED  BY <2>2, <2>3 DEF Coverage
<1>. QED
  BY <1>1, NextCoverage, HeadInvariance, TypesInvariance, PTL DEF Spec

\* As long as no crash hit a truncated patricia.p, every owned IP is found in the
\* tree, in the middle of a block and after restarts too.
THEOREM AlwaysFoundUnlessTorn == Spec => []FoundUnlessTorn
<1>1. Types /\ Coverage => FoundUnlessTorn
  <2>1. SUFFICES ASSUME Types, Coverage, "torn" \notin damage, pc # "down",
                        NEW a \in Addr, NEW ip \in state.own[a]
                 PROVE  get_value(patricia, ip) # Blank
    BY DEF FoundUnlessTorn
  <2>2. ip \in IP
    BY <2>1 DEF Types, LedgerState
  <2>3. covering(patricia, ip) # {}
    BY <2>1 DEF Coverage, CoveredBy, covering
  <2>4. covering(patricia, ip) \in SUBSET { p \in Prefix : ip \in p }
    BY DEF covering
  <2>5. \E p \in covering(patricia, ip) : \A q \in covering(patricia, ip) : p \subseteq q
    BY <2>2, <2>3, <2>4, LongestMatchAssumption
  <2>6. \A p \in covering(patricia, ip) : patricia[p] # Blank
    BY DEF covering
  <2>. HIDE DEF covering
  <2>. QED  BY <2>3, <2>5, <2>6 DEF get_value
<1>. QED  BY <1>1, TypesInvariance, CoverageInvariance, PTL
=============================================================================
