--------------------------------- MODULE Bls ---------------------------------
(***************************************************************************)
(* The rounds of the BLS random number among the nodes (consensus.py,      *)
(* share_cache.py and the block, signing and share sections of the main    *)
(* loop, blockchaincba.py), between two key renewals.                      *)
(*                                                                         *)
(* After a block every key holder signs the last random number and the     *)
(* block number, and broadcasts its share.  THRESHOLD shares give the      *)
(* group signature; its hash is the next random number, which goes into    *)
(* the next block.  The random number of a block selects the signer of     *)
(* the one after it.                                                       *)
(*                                                                         *)
(* A group signature is unique, so it is identified with the message it    *)
(* signs and with the random number that is its hash.  Block 0 is the last *)
(* block before the rounds the module looks at.                            *)
(***************************************************************************)
EXTENDS Integers, SequencesExt, FiniteSetsExt

CONSTANTS
  Node,           \* running nodes
  Member,         \* members of the DKG group
  Keys,           \* Keys[n]: the members whose secret keys node n holds
  Master,         \* nodes started with the file of master keys
  Fresh,          \* nodes that have just been started, at block 0
  Elected(_, _),  \* the node of the IP that a random number selects after a block
  THRESHOLD,      \* shares that make a group signature
  BLOCK_TIME,     \* time between blocks
  NEAR,           \* 99% of it: a node without group signature gets ready for bootstrap
  Timely,         \* BOOLEAN: timing assumption, see Tick
  MaxHeight       \* bound: blocks

ASSUME BlsAssumption ==
  /\ IsFiniteSet(Member) /\ Keys \in [Node -> SUBSET Member]
  /\ \A m, n \in Node : m # n => Keys[m] \cap Keys[n] = {}
  /\ Master \subseteq Node /\ Fresh \subseteq Node \ Master
  /\ \A n \in Fresh : Keys[n] = {}
  /\ THRESHOLD \in Nat \ {0} /\ MaxHeight \in Nat
  /\ NEAR \in Nat /\ BLOCK_TIME \in Nat /\ 0 < NEAR /\ NEAR < BLOCK_TIME
  /\ Timely \in BOOLEAN

VARIABLES
  chain,              \* chain[n]: random number and signer of every block
  consensus,          \* consensus[n]: the Consensus object
  last_random_no,     \* of the last block, as the main loop knows it
  from_bootstrap,     \* the next block also sets the random number
  bls_share_cache,    \* Share_Cache: shares seen
  bls_future_shares,  \* Share_Cache: shares for later blocks
  num_block,          \* P2P process: number of the last block it accepted
  last_served_block,  \* P2P process: number of the last block it handed over
  blocks,             \* P2P process: blocks accepted and not handed over
  share_net,          \* shares on their way to, or waiting at, a node
  block_net,          \* blocks on their way to a node
  age                 \* time since the newest block was created, up to BLOCK_TIME

mainvars == <<chain, consensus, last_random_no, from_bootstrap>>
cachevars == <<bls_share_cache, bls_future_shares>>
p2pvars == <<num_block, last_served_block, blocks>>
netvars == <<share_net, block_net>>
vars == <<mainvars, cachevars, p2pvars, netvars, age>>

-----------------------------------------------------------------------------
block_num(n) == Len(chain[n])

\* What is signed after block num, and the random number its signature gives.
Message(random_no, num) == Append(random_no, num)

\* A block as it is sent: the chain it extends, its random number, its signer.
BlockNumber(b) == Len(b.prev) + 1

(***************************************************************************)
(* Consensus.store_share.  Recovery from shares of different messages      *)
(* gives a signature that does not verify, and an exception.               *)
(***************************************************************************)
store_share(c, share, msg) ==
  LET got == c.shares \cup {share}
      full == Cardinality(got) >= THRESHOLD
      valid == \A s \in got : s.signature = msg
  IN  IF c.verified \/ \E s \in c.shares : s.source = share.source
      THEN c
      ELSE [c EXCEPT !.shares = got,
                     !.verified = full /\ valid,
                     !.random_no = IF full /\ valid THEN msg ELSE @,
                     !.raised = full /\ ~valid]

\* Consensus.calculate_next_signer.
calculate_next_signer(c, num) == [c EXCEPT !.next_signer = Elected(c.random_no, num)]

\* Mutant: the group signature of the last round stays.
reset_bls_shares(c) == [c EXCEPT !.shares = {}]

\* Consensus.reset_bls.
reset_bls(c) == [c EXCEPT !.shares = {}, !.verified = FALSE]

\* The shares node n signs after block num, and the object that stored them.
new_shares(n, random_no, num) ==
  { [source |-> m, signature |-> Message(random_no, num), block_number |-> num] : m \in Keys[n] }

create_shares(c, n, random_no, num) ==
  FoldSet(LAMBDA share, d : store_share(d, share, Message(random_no, num)), c,
          new_shares(n, random_no, num))

\* Mutant: bootstrap mode does not take the random number of the block.
after_block_own_random(c, n, num, random_no, bootstrap) ==
  create_shares(reset_bls(calculate_next_signer(c, num)), n, random_no, num)

(***************************************************************************)
(* What the main loop does with consensus after a block: in bootstrap mode *)
(* the block's random number replaces the node's, then the next signer is  *)
(* calculated, the round reset and the shares of the new one created.      *)
(***************************************************************************)
after_block(c, n, num, random_no, bootstrap) ==
  LET d == IF bootstrap THEN [c EXCEPT !.random_no = random_no] ELSE c
  IN  create_shares(reset_bls(calculate_next_signer(d, num)), n, random_no, num)

\* A broadcast reaches every other node, at some time.
broadcast(net, n, msgs) == [m \in Node |-> IF m = n THEN net[m] ELSE net[m] \cup msgs]

\* A relayed share too; nodes that have seen it drop it, and are left out.
relay(net, n, share) ==
  [m \in Node |-> IF m = n \/ share \in bls_share_cache[m] THEN net[m] ELSE net[m] \cup {share}]

-----------------------------------------------------------------------------
(***************************************************************************)
(* Block 0 is on every chain.  The nodes that were running have reset      *)
(* their round and sent their shares; the others have just created their   *)
(* Consensus object from the header of the block.                          *)
(***************************************************************************)
Init ==
  /\ chain = [n \in Node |-> <<>>]
  /\ consensus = [n \in Node |->
       LET c == [random_no |-> <<>>, next_signer |-> Elected(<<>>, 0), shares |-> {},
                 verified |-> TRUE, raised |-> FALSE]
       IN  IF n \in Fresh THEN c ELSE create_shares(reset_bls(c), n, <<>>, 0)]
  /\ last_random_no = [n \in Node |-> <<>>]
  /\ from_bootstrap = [n \in Node |-> n \in Fresh]
  /\ bls_share_cache = [n \in Node |-> new_shares(n, <<>>, 0)]
  /\ bls_future_shares = [n \in Node |-> {}]
  /\ num_block = [n \in Node |-> 0]
  /\ last_served_block = [n \in Node |-> 0]
  /\ blocks = [n \in Node |-> {}]
  /\ share_net = [n \in Node |-> UNION { new_shares(m, <<>>, 0) : m \in Node \ {n} }]
  /\ block_net = [n \in Node |-> {}]
  /\ age = 0

\* The time since the head block of a node.
head_age(n) == IF \A m \in Node : block_num(m) <= block_num(n) THEN age ELSE BLOCK_TIME

\* The node has the newest block, and its group signature or bootstrap mode.
Prepared(n) ==
  /\ \A m \in Node : block_num(m) <= block_num(n)
  /\ consensus[n].verified \/ from_bootstrap[n] \/ n \in Master

(***************************************************************************)
(* Time passes.  With Timely, a block reaches every main loop within the   *)
(* block time, and a pass of the loop is shorter than the last 1% of it:   *)
(* the check at 99% is made before the next block is due.                  *)
(***************************************************************************)
Tick ==
  /\ age < BLOCK_TIME
  /\ Timely /\ age + 1 = BLOCK_TIME => \A n \in Node : Prepared(n)
  /\ age' = age + 1
  /\ UNCHANGED <<mainvars, cachevars, p2pvars, netvars>>

\* Near the block time a node without group signature goes to bootstrap mode.
NearBlockTime(n) ==
  /\ ~consensus[n].raised
  /\ head_age(n) >= NEAR
  /\ ~consensus[n].verified
  /\ n \notin Master
  /\ ~from_bootstrap[n]
  /\ from_bootstrap' = [from_bootstrap EXCEPT ![n] = TRUE]
  /\ UNCHANGED <<chain, consensus, last_random_no, cachevars, p2pvars, netvars, age>>

\* Mutant: every node takes itself to be the signer.
must_sign_any(c, n) == TRUE

\* The address of the next signer is in the node's keystore.
must_sign(c, n) == c.next_signer = n

\* The selected node creates, adds and broadcasts the block, and starts the round.
CreateBlock(n) ==
  LET c == consensus[n]
      num == block_num(n) + 1
      new == new_shares(n, c.random_no, num)
  IN  /\ ~c.raised
      /\ num <= MaxHeight
      /\ head_age(n) = BLOCK_TIME
      /\ c.verified
      /\ must_sign(c, n)
      /\ chain' = [chain EXCEPT ![n] = Append(@, [random_no |-> c.random_no, signer |-> n])]
      /\ block_net' = broadcast(block_net, n,
                        {[prev |-> chain[n], random_no |-> c.random_no, signer |-> n]})
      /\ num_block' = [num_block EXCEPT ![n] = @ + 1]
      /\ last_served_block' = [last_served_block EXCEPT ![n] = @ + 1]
      /\ last_random_no' = [last_random_no EXCEPT ![n] = c.random_no]
      /\ consensus' = [consensus EXCEPT ![n] = after_block(c, n, num, c.random_no, FALSE)]
      /\ bls_share_cache' = [bls_share_cache EXCEPT ![n] = @ \cup new]
      /\ share_net' = broadcast(share_net, n, new)
      /\ age' = IF \A m \in Node : block_num(m) < num THEN 0 ELSE age
      /\ UNCHANGED <<from_bootstrap, bls_future_shares, blocks>>

-----------------------------------------------------------------------------
(***************************************************************************)
(* The P2P process takes a block only if it follows the last one it took.  *)
(***************************************************************************)
BlockArrives(n, b) ==
  /\ b \in block_net[n]
  /\ block_net' = [block_net EXCEPT ![n] = @ \ {b}]
  /\ IF num_block[n] = BlockNumber(b) - 1
     THEN /\ blocks' = [blocks EXCEPT ![n] = @ \cup {b}]
          /\ num_block' = [num_block EXCEPT ![n] = @ + 1]
     ELSE UNCHANGED <<blocks, num_block>>
  /\ UNCHANGED <<mainvars, cachevars, last_served_block, share_net, age>>

\* verify_group_sig on the expected message, and verify_block_signature.
correct_block(n, b) ==
  /\ b.random_no = Message(last_random_no[n], block_num(n))
  /\ b.signer = consensus[n].next_signer

(***************************************************************************)
(* The block section.  The P2P process hands the next block over; one with *)
(* a wrong signature is ignored.  The result of add_block is not looked    *)
(* at: the round starts anew also when the block did not fit the chain.    *)
(***************************************************************************)
ReceiveBlock(n, b) ==
  LET fits == b.prev = chain[n]
      num == block_num(n) + (IF fits THEN 1 ELSE 0)
      new == new_shares(n, b.random_no, num)
  IN  /\ ~consensus[n].raised
      /\ b \in blocks[n]
      /\ BlockNumber(b) = last_served_block[n] + 1
      /\ last_served_block' = [last_served_block EXCEPT ![n] = @ + 1]
      /\ blocks' = [blocks EXCEPT ![n] = @ \ {b}]
      /\ IF correct_block(n, b)
         THEN /\ chain' = IF fits
                          THEN [chain EXCEPT ![n] = Append(@, [random_no |-> b.random_no,
                                                               signer |-> b.signer])]
                          ELSE chain
              /\ last_random_no' = [last_random_no EXCEPT ![n] = b.random_no]
              /\ consensus' = [consensus EXCEPT
                                 ![n] = after_block(@, n, num, b.random_no, from_bootstrap[n])]
              /\ from_bootstrap' = [from_bootstrap EXCEPT ![n] = FALSE]
              /\ bls_share_cache' = [bls_share_cache EXCEPT ![n] = @ \cup new]
              /\ share_net' = broadcast(share_net, n, new)
         ELSE UNCHANGED <<mainvars, bls_share_cache, share_net>>
      /\ UNCHANGED <<bls_future_shares, num_block, block_net, age>>

-----------------------------------------------------------------------------
\* Mutant: a share for an earlier block is not told from one for this block.
share_due_past(share, num) == share.block_number <= num

\* The share is for the round the node is in.
share_due(share, num) == share.block_number = num

\* Mutant: a share for a later block is forgotten.
store_future_nothing(future, share) == future

\* Share_Cache.store_future_bls.
store_future_bls(future, share) == future \cup {share}

(***************************************************************************)
(* The share section, one share from the P2P process.  A share that was    *)
(* not seen before is relayed.                                             *)
(***************************************************************************)
ReceiveShare(n, share) ==
  LET num == block_num(n)
      new == share \notin bls_share_cache[n]
      rest == [share_net EXCEPT ![n] = @ \ {share}]
  IN  /\ ~consensus[n].raised
      /\ share \in share_net[n]
      /\ consensus' =
           IF new /\ share_due(share, num)
           THEN [consensus EXCEPT ![n] = store_share(@, share, Message(last_random_no[n], num))]
           ELSE consensus
      /\ bls_future_shares' =
           IF new /\ ~share_due(share, num) /\ share.block_number > num
           THEN [bls_future_shares EXCEPT ![n] = store_future_bls(@, share)]
           ELSE bls_future_shares
      /\ bls_share_cache' = [bls_share_cache EXCEPT ![n] = @ \cup {share}]
      /\ share_net' = IF new THEN relay(rest, n, share) ELSE rest
      /\ UNCHANGED <<chain, last_random_no, from_bootstrap, p2pvars, block_net, age>>

\* A share that came early is taken up once its block is there.
TakeFutureShare(n, share) ==
  /\ ~consensus[n].raised
  /\ share \in bls_future_shares[n]
  /\ share.block_number = block_num(n)
  /\ bls_future_shares' = [bls_future_shares EXCEPT ![n] = @ \ {share}]
  /\ consensus' = [consensus EXCEPT
                     ![n] = store_share(@, share, Message(last_random_no[n], block_num(n)))]
  /\ UNCHANGED <<chain, last_random_no, from_bootstrap, bls_share_cache, p2pvars, netvars, age>>

-----------------------------------------------------------------------------
Next ==
  \/ Tick
  \/ \E n \in Node : NearBlockTime(n)
  \/ \E n \in Node : CreateBlock(n)
  \/ \E n \in Node : \E b \in block_net[n] : BlockArrives(n, b)
  \/ \E n \in Node : \E b \in blocks[n] : ReceiveBlock(n, b)
  \/ \E n \in Node : \E share \in share_net[n] : ReceiveShare(n, share)
  \/ \E n \in Node : \E share \in bls_future_shares[n] : TakeFutureShare(n, share)

(***************************************************************************)
(* The main loop of a node comes back to each of its sections, the sections*)
(* take all there is, and what is sent arrives.                            *)
(***************************************************************************)
Fairness ==
  /\ WF_vars(Tick)
  /\ \A n \in Node :
       /\ WF_vars(NearBlockTime(n))
       /\ WF_vars(CreateBlock(n))
       /\ WF_vars(\E b \in block_net[n] : BlockArrives(n, b))
       /\ WF_vars(\E b \in blocks[n] : ReceiveBlock(n, b))
       /\ WF_vars(\E share \in share_net[n] : ReceiveShare(n, share))
       /\ WF_vars(\E share \in bls_future_shares[n] : TakeFutureShare(n, share))

Spec == Init /\ [][Next]_vars /\ Fairness
-----------------------------------------------------------------------------
(***************************************************************************)
(* Properties.                                                             *)
(***************************************************************************)

\* The variables have their types; a round has at most one share of a member,
\* at most THRESHOLD of them, and a running node's group signature rests on as many.
TypeOK ==
  /\ \A n \in Node :
       LET c == consensus[n]
       IN  /\ c.next_signer \in Node
           /\ Cardinality({ s.source : s \in c.shares }) = Cardinality(c.shares)
           /\ Cardinality(c.shares) <= THRESHOLD
           /\ c.verified => Cardinality(c.shares) = THRESHOLD \/ (n \in Fresh /\ c.shares = {})
           /\ Len(chain[n]) <= MaxHeight
           /\ last_served_block[n] <= num_block[n] /\ num_block[n] <= MaxHeight
  /\ from_bootstrap \in [Node -> BOOLEAN]
  /\ age \in 0..BLOCK_TIME

\* Nodes with the same chain expect the same signer for the next block, although
\* each calculates it from its own random number when the block comes, and the
\* block may come before the shares.
SignersAgree ==
  \A m, n \in Node : chain[m] = chain[n] => consensus[m].next_signer = consensus[n].next_signer

\* No two nodes have different blocks at the same height.
OneChain ==
  \A m, n \in Node : IsPrefix(chain[m], chain[n]) \/ IsPrefix(chain[n], chain[m])

\* A random number is generated for every new block: each block carries the group
\* signature over the random number and the number of the block before it.
NewRandomPerBlock ==
  \A n \in Node : \A i \in DOMAIN chain[n] :
    chain[n][i].random_no =
      Message(IF i = 1 THEN <<>> ELSE chain[n][i - 1].random_no, i - 1)

\* Shares of different rounds are never combined, so no node stops on an invalid
\* group signature.
SharesOfOneRound == \A n \in Node : ~consensus[n].raised

\* The random number that block k carries when each follows from the one before.
Rand(k) == [i \in 1..k |-> i - 1]

\* What the safety of the rounds rests on: blocks and main loops are faster than the
\* block time, block 0 does not select a node that has just been started, the file of
\* master keys holds enough of them, and every random number selects a running node.
Rounds ==
  /\ Timely
  /\ Elected(<<>>, 0) \notin Fresh
  /\ \A n \in Master : Cardinality(Keys[n]) >= THRESHOLD
  /\ \A k \in 0..MaxHeight : Elected(Rand(k), k) \in Node

\* The rounds go on: every node gets every block.
Progress == <>(\A n \in Node : Len(chain[n]) = MaxHeight)
=============================================================================
