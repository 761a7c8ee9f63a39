------------------------------ MODULE Network ------------------------------
(***************************************************************************)
(* The P2P process (network.py) of every node, and the main process as far *)
(* as it uses it through p2p.py: connections and their node-id handshake,  *)
(* the bootstrap of a joining node, the broadcast of new blocks, and the   *)
(* queries for old ones.                                                   *)
(*                                                                         *)
(* A block is its number: there is one block per height (Bls, OneChain).   *)
(* A connection is <<dialer, dialed>>; each end writes into a FIFO channel *)
(* of its own (TCP).  Transactions and shares, which the process only puts *)
(* into a set and takes out again, are left to Chain, Bls and Dkg; of the  *)
(* transaction pool only the question and the answer are kept.             *)
(***************************************************************************)
EXTENDS Naturals, Sequences, FiniteSets, SequencesExt

CONSTANTS
    Node,        \* the nodes
    BootNode,    \* BOOTSTRAP_NODE of chain_config.cfg, network.py:36
    Situation,   \* where the system may start: joined, the nodes that have
                 \* finished their bootstrap and are connected, and last, the
                 \* head of each node's chain, and fragile, the connections
                 \* that the network may break
    BLOCK_CHUNK, \* blocks asked for in one message, network.py:40
    Signer,      \* the node that the consensus selects for each block (Bls)
    MaxHeight,   \* bound: blocks are created up to this number
    MaxTraffic   \* bound: a timer sends only on a connection with less to do than this

ASSUME NetworkAssumption ==
    /\ BootNode \in Node
    /\ Situation \subseteq [joined : SUBSET Node, last : [Node -> Nat],
                          fragile : SUBSET (Node \X Node)]
    /\ \A s \in Situation : /\ BootNode \in s.joined
                            /\ \A n \in Node : s.last[n] <= s.last[BootNode]
                            /\ \A n \in s.joined : s.last[n] = s.last[BootNode]
                            /\ s.last[BootNode] <= MaxHeight
                            /\ \A c \in s.fragile : c[1] # c[2] /\ c[1] # BootNode
    /\ MaxHeight \in Nat
    /\ BLOCK_CHUNK \in Nat \ {0}
    /\ Signer \in [1..MaxHeight -> Node]

Conn == {c \in Node \X Node : c[1] # c[2] /\ c[1] # BootNode}
Ends(c) == {c[1], c[2]}
Other(c, n) == IF c[1] = n THEN c[2] ELSE c[1]
End == {e \in Conn \X Node : e[2] \in Ends(e[1])}

VARIABLES
    side,    \* p2pProtocol of each end: none, NODEID, peer (registered), closed
    chan,    \* what each end has written and the other has not read
    phase,   \* the LoopingCall that runs; the bootstrap flag follows from it
    ckNum,   \* factory.ck_num
    txPool,  \* factory.tx_pool
    num,     \* factory.num_block
    served,  \* factory.last_served_block
    blocks,  \* keys of factory.blocks
    chunks,  \* deferLater(check_blocks, i) that have not fired
    retry,   \* deferLater(check_block, i) that have not fired
    queries, \* factory.block_queries: the numbers each connection asked for
    taken,   \* numbers the main process has taken and not answered
    poolq,   \* factory.tx_pool_query
    height,  \* number of the newest block of the network
    fragile, \* connections that may still break
    over     \* history: nodes that asked for more than the last block they knew of

links == <<side, chan>>
loops == <<phase, ckNum, txPool, chunks, retry>>
store == <<num, served, blocks>>
asked == <<queries, taken, poolq>>
world == <<height, fragile, over>>
vars == <<links, loops, store, asked, world>>

Number == 1..MaxHeight
Msg == [t : {"nodeid", "fin", "get_peers", "get_num_blocks", "get_tx_pool", "set_tx_pool"}]
       \cup [t : {"set_peers"}, peers : SUBSET Node]
       \cup [t : {"set_num_blocks"}, num : 0..MaxHeight]
       \cup [t : {"set_block", "get_block_num"}, num : Number]
       \cup [t : {"get_blocks"}, num : Number, chunk : 0..BLOCK_CHUNK]
       \cup [t : {"set_blocks"}, blocks : SUBSET Number]
Plain(t) == [t |-> t]
GetBlockNumMsg(i) == [t |-> "get_block_num", num |-> i]

\* The connections registered at n, factory.peers, and the nodes behind them.
Peers(n) == {c \in Conn : n \in Ends(c) /\ side[<<c, n>>] = "peer"}
Known(n) == {Other(c, n) : c \in Peers(n)}
\* factory.bootstrap: set by bootstrapProtocol, cleared by check_tx.
Bootstrap(n) == phase[n] \in {"num", "blocks", "tx", "dead"}
Running(n) == phase[n] = "run"

\* myFactory and startFactory of each process.  The nodes that have joined
\* are connected to the bootstrap node.
Init ==
    \E s \in Situation :
        /\ side = [e \in End |-> IF e[1][1] \in s.joined /\ e[1][2] = BootNode
                                 THEN "peer" ELSE "none"]
        /\ chan = [e \in End |-> <<>>]
        /\ phase = [n \in Node |-> IF n \in s.joined THEN "run" ELSE "off"]
        /\ ckNum = [n \in Node |-> n \in s.joined \ {BootNode}]
        /\ txPool = [n \in Node |-> n \in s.joined \ {BootNode}]
        /\ num = s.last
        /\ served = s.last
        /\ blocks = [n \in Node |-> {}]
        /\ chunks = [n \in Node |-> {}]
        /\ retry = [n \in Node |-> {}]
        /\ queries = [e \in End |-> {}]
        /\ taken = [n \in Node |-> {}]
        /\ poolq = [n \in Node |-> {}]
        /\ height = s.last[BootNode]
        /\ fragile = s.fragile
        /\ over = {}

(***************************************************************************)
(* Sending.  Out is a set of pairs <<end, message>>, at most one message   *)
(* per end, except for get_blocks and check_blocks, whose messages may go  *)
(* in any order.  What is written to an end that has closed is dropped.    *)
(***************************************************************************)
Gone(e) == side[<<e[1], Other(e[1], e[2])>>] = "closed"
Written(e, Out) == IF Gone(e) THEN <<>> ELSE SetToSeq({o[2] : o \in {x \in Out : x[1] = e}})
Send(Out) == chan' = [e \in End |-> chan[e] \o Written(e, Out)]

\* n reads m from c; Out is what it writes in the same callback.
CanRead(n, c) == /\ side[<<c, n>>] \in {"NODEID", "peer"}
                 /\ chan[<<c, Other(c, n)>>] # <<>>
Incoming(n, c) == Head(chan[<<c, Other(c, n)>>])
Reads(n, c, t) == /\ CanRead(n, c)
                  /\ side[<<c, n>>] = "peer"
                  /\ Incoming(n, c).t = t
ReadAndSend(n, c, Out) ==
    chan' = [e \in End |->
                (IF e = <<c, Other(c, n)>> THEN Tail(chan[e]) ELSE chan[e])
                \o Written(e, Out)]
Close(n, c) ==
    chan' = [chan EXCEPT ![<<c, Other(c, n)>>] = <<>>,
                         ![<<c, n>>] = @ \o Written(<<c, n>>, {<<<<c, n>>, Plain("fin")>>})]

\* sendMsgRandomPeer.  What waits in a connection: messages on their way, and
\* questions that the main process of either end has not answered.  A timer
\* uses a connection with less than MaxTraffic of it.
Pending(e) == Len(chan[e]) + Cardinality(queries[e]) + Cardinality(poolq[e[2]] \cap {e[1]})
Traffic(c) == Pending(<<c, c[1]>>) + Pending(<<c, c[2]>>)
IdlePeers(n) == {c \in Peers(n) : Traffic(c) < MaxTraffic}
RandomPeer(n, m) == \E c \in IdlePeers(n) : Send({<<<<c, n>>, m>>})
\* To one of the connections in from, chosen anew for each of the messages.
AskPeers(n, messages, from) ==
    \E to \in [messages -> from] :
        chan' = [e \in End |->
                    chan[e] \o SetToSeq({m \in messages : e = <<to[m], n>>})]

(***************************************************************************)
(* Connections                                                             *)
(***************************************************************************)
\* bootstrap and bootstrapProtocol: dial the bootstrap node and ask for its
\* peers.  Both ends write their node id in connectionMade.
Start(n) ==
    LET c == <<n, BootNode>> IN
    /\ phase[n] = "off"
    /\ phase' = [phase EXCEPT ![n] = "num"]
    /\ side' = [e \in End |-> IF e[1] = c THEN "NODEID" ELSE side[e]]
    /\ chan' = [chan EXCEPT ![<<c, n>>] = <<Plain("nodeid"), Plain("get_peers")>>,
                            ![<<c, BootNode>>] = <<Plain("nodeid")>>]
    /\ UNCHANGED <<ckNum, txPool, chunks, retry, store, asked, world>>

\* Mutant: a further connection to a known node is registered too.
NodeId_again(n, c) ==
    /\ CanRead(n, c)
    /\ side[<<c, n>>] = "NODEID"
    /\ Incoming(n, c).t = "nodeid"
    /\ side' = [side EXCEPT ![<<c, n>>] = "peer"]
    /\ ReadAndSend(n, c, {})
    /\ UNCHANGED <<loops, store, asked, world>>

\* dataReceived in state NODEID: the first connection to a node is
\* registered, a further one is closed.
NodeId(n, c) ==
    /\ CanRead(n, c)
    /\ side[<<c, n>>] = "NODEID"
    /\ Incoming(n, c).t = "nodeid"
    /\ IF Other(c, n) \notin Known(n)
       THEN /\ side' = [side EXCEPT ![<<c, n>>] = "peer"]
            /\ ReadAndSend(n, c, {})
       ELSE /\ side' = [side EXCEPT ![<<c, n>>] = "closed"]
            /\ Close(n, c)
    /\ UNCHANGED <<loops, store, asked, world>>

\* connectionLost.  The queries of the connection go with it, the question
\* for the transaction pool does not.
ConnectionLost(n, c) ==
    /\ CanRead(n, c)
    /\ Incoming(n, c).t = "fin"
    /\ side' = [side EXCEPT ![<<c, n>>] = "closed"]
    /\ chan' = [chan EXCEPT ![<<c, Other(c, n)>>] = <<>>]
    /\ queries' = [queries EXCEPT ![<<c, n>>] = {}]
    /\ UNCHANGED <<loops, store, taken, poolq, world>>

\* The network breaks a connection, or a ping stays without a pong for
\* three seconds (sendPing, checkPong): what was under way is lost.
Break(c) ==
    /\ c \in fragile
    /\ \A n \in Ends(c) : side[<<c, n>>] \in {"NODEID", "peer"}
    /\ fragile' = fragile \ {c}
    /\ chan' = [e \in End |-> IF e[1] = c THEN <<Plain("fin")>> ELSE chan[e]]
    /\ UNCHANGED <<side, loops, store, asked, height, over>>

(***************************************************************************)
(* Messages between P2P processes: p2pProtocol.dataReceived                *)
(***************************************************************************)
GetPeers(n, c) ==
    /\ Reads(n, c, "get_peers")
    /\ ReadAndSend(n, c, {<<<<c, n>>, [t |-> "set_peers", peers |-> Known(n)]>>})
    /\ UNCHANGED <<side, loops, store, asked, world>>

\* A bootstrapping node dials every peer it does not know, and asks the
\* sender for its number of blocks.
SetPeers(n, c) ==
    LET dial == {<<n, p>> : p \in {q \in Incoming(n, c).peers \ (Known(n) \cup {n}) : Bootstrap(n)}}
        hello == {<<e, Plain("nodeid")>> : e \in {x \in End : x[1] \in dial}}
        ask == {<<e, Plain("get_num_blocks")>> : e \in {x \in {<<c, n>>} : Bootstrap(n)}}
    IN
    /\ Reads(n, c, "set_peers")
    /\ side' = [e \in End |-> IF e[1] \in dial THEN "NODEID" ELSE side[e]]
    /\ ReadAndSend(n, c, hello \cup ask)
    /\ UNCHANGED <<loops, store, asked, world>>

\* Mutant: the number of the next block instead of the last.
GetNumBlocks_next(n, c) ==
    /\ Reads(n, c, "get_num_blocks")
    /\ ReadAndSend(n, c, {<<<<c, n>>, [t |-> "set_num_blocks", num |-> num[n] + 1]>>})
    /\ UNCHANGED <<side, loops, store, asked, world>>

GetNumBlocks(n, c) ==
    /\ Reads(n, c, "get_num_blocks")
    /\ ReadAndSend(n, c, {<<<<c, n>>, [t |-> "set_num_blocks", num |-> num[n]]>>})
    /\ UNCHANGED <<side, loops, store, asked, world>>

SetNumBlocks(n, c) ==
    LET told == Incoming(n, c).num IN
    /\ Reads(n, c, "set_num_blocks")
    /\ num' = [num EXCEPT ![n] = IF Bootstrap(n) /\ told > @ THEN told ELSE @]
    /\ ckNum' = [ckNum EXCEPT ![n] = @ \/ Bootstrap(n)]
    /\ ReadAndSend(n, c, {})
    /\ UNCHANGED <<side, phase, txPool, chunks, retry, served, blocks, asked, world>>

\* A new block is kept only if it is the one after the last known.
SetBlock(n, c) ==
    /\ Reads(n, c, "set_block")
    /\ IF Incoming(n, c).num = num[n] + 1
       THEN /\ blocks' = [blocks EXCEPT ![n] = @ \cup {Incoming(n, c).num}]
            /\ num' = [num EXCEPT ![n] = @ + 1]
       ELSE UNCHANGED <<blocks, num>>
    /\ ReadAndSend(n, c, {})
    /\ UNCHANGED <<side, loops, served, asked, world>>

\* Blocks that were asked for are kept only during the bootstrap.
SetBlocks(n, c) ==
    /\ Reads(n, c, "set_blocks")
    /\ blocks' = [blocks EXCEPT ![n] =
                     IF Bootstrap(n)
                     THEN @ \cup {b \in Incoming(n, c).blocks : b > served[n]}
                     ELSE @]
    /\ ReadAndSend(n, c, {})
    /\ UNCHANGED <<side, loops, num, served, asked, world>>

\* get_block_num and get_blocks: a block the main process has is queued for
\* it, one that waits here is answered at once.
Query(n, c, wanted) ==
    LET forMain == {b \in wanted : b <= served[n] /\ ~Bootstrap(n)}
        here == {b \in wanted \ forMain : b <= num[n] /\ b \in blocks[n]}
    IN
    /\ queries' = [queries EXCEPT ![<<c, n>>] = @ \cup forMain]
    /\ ReadAndSend(n, c, IF here = {} THEN {}
                         ELSE {<<<<c, n>>, [t |-> "set_blocks", blocks |-> here]>>})
    /\ UNCHANGED <<side, loops, store, taken, poolq, world>>

GetBlockNum(n, c) ==
    /\ Reads(n, c, "get_block_num")
    /\ Query(n, c, {Incoming(n, c).num})

GetBlocks(n, c) ==
    LET m == Incoming(n, c) IN
    /\ Reads(n, c, "get_blocks")
    /\ Query(n, c, {b \in Number : m.num <= b /\ b < m.num + m.chunk})

GetTxPool(n, c) ==
    /\ Reads(n, c, "get_tx_pool")
    /\ poolq' = [poolq EXCEPT ![n] = IF Bootstrap(n) THEN @ ELSE @ \cup {c}]
    /\ ReadAndSend(n, c, {})
    /\ UNCHANGED <<side, loops, store, queries, taken, world>>

SetTxPool(n, c) ==
    /\ Reads(n, c, "set_tx_pool")
    /\ txPool' = [txPool EXCEPT ![n] = @ \/ Bootstrap(n)]
    /\ ReadAndSend(n, c, {})
    /\ UNCHANGED <<side, phase, ckNum, chunks, retry, store, asked, world>>

(***************************************************************************)
(* The timers of a bootstrapping node.  A looping call that finds no peer  *)
(* ends with an exception of random.choice and does not run again.         *)
(***************************************************************************)
\* get_blocks: the first number of every chunk, and the size it asks for, which
\* for the last one is what is left only if served[n] is a multiple of the size.
FirstOfChunk(n) ==
    {i \in served[n] + 1 .. num[n] : (i - served[n] - 1) % BLOCK_CHUNK = 0}
ChunkSize(n, i) == IF i + BLOCK_CHUNK - 1 > num[n] THEN num[n] % BLOCK_CHUNK ELSE BLOCK_CHUNK

\* check_num_blocks and get_blocks.
CheckNumBlocks(n) ==
    LET first == IF Peers(n) = {} THEN {} ELSE FirstOfChunk(n) IN
    /\ phase[n] = "num"
    /\ ckNum[n]
    /\ phase' = [phase EXCEPT ![n] = "blocks"]
    /\ chunks' = [chunks EXCEPT ![n] = first]
    /\ AskPeers(n, {[t |-> "get_blocks", num |-> i, chunk |-> ChunkSize(n, i)] : i \in first},
                Peers(n))
    /\ over' = over \cup {n : i \in {x \in first : x + ChunkSize(n, x) - 1 > num[n]}}
    /\ UNCHANGED <<side, ckNum, txPool, retry, store, asked, height, fragile>>

\* Mutant: no timer is set after the second question.
CheckBlocks_once(n, i) ==
    LET missing == {x \in i .. i + BLOCK_CHUNK - 1 : x <= num[n] /\ x \notin blocks[n]} IN
    /\ i \in chunks[n]
    /\ chunks' = [chunks EXCEPT ![n] = @ \ {i}]
    /\ AskPeers(n, {GetBlockNumMsg(x) : x \in missing}, IdlePeers(n))
    /\ UNCHANGED <<side, phase, ckNum, txPool, retry, store, asked, world>>

\* check_blocks(i): ask again, one by one, for what is missing.
CheckBlocks(n, i) ==
    LET missing == {x \in i .. i + BLOCK_CHUNK - 1 : x <= num[n] /\ x \notin blocks[n]}
        again == IF Peers(n) = {} THEN {} ELSE missing
    IN
    /\ i \in chunks[n]
    /\ chunks' = [chunks EXCEPT ![n] = @ \ {i}]
    /\ retry' = [retry EXCEPT ![n] = @ \cup again]
    /\ AskPeers(n, {GetBlockNumMsg(x) : x \in again}, IdlePeers(n))
    /\ UNCHANGED <<side, phase, ckNum, txPool, store, asked, world>>

\* check_block(i): the timer is set again as long as the block is missing.
CheckBlock(n, i) ==
    /\ i \in retry[n]
    /\ \/ /\ i \notin blocks[n] /\ Peers(n) # {}
          /\ RandomPeer(n, GetBlockNumMsg(i))
          /\ UNCHANGED retry
       \/ /\ i \in blocks[n] \/ Peers(n) = {}
          /\ retry' = [retry EXCEPT ![n] = @ \ {i}]
          /\ UNCHANGED chan
    /\ UNCHANGED <<side, phase, ckNum, txPool, chunks, store, asked, world>>

\* Mutant: off by one, the last block is not waited for.
CheckAllBlocks_early(n) ==
    /\ phase[n] = "blocks"
    /\ Cardinality(blocks[n]) + 1 >= num[n] - served[n]
    /\ RandomPeer(n, Plain("get_tx_pool"))
    /\ phase' = [phase EXCEPT ![n] = "tx"]
    /\ UNCHANGED <<side, ckNum, txPool, chunks, retry, store, asked, world>>

\* check_all_blocks counts the blocks it holds.
CheckAllBlocks(n) ==
    /\ phase[n] = "blocks"
    /\ Cardinality(blocks[n]) = num[n] - served[n]
    /\ \/ /\ RandomPeer(n, Plain("get_tx_pool"))
          /\ phase' = [phase EXCEPT ![n] = "tx"]
       \/ /\ Peers(n) = {}
          /\ phase' = [phase EXCEPT ![n] = "dead"]
          /\ UNCHANGED chan
    /\ UNCHANGED <<side, ckNum, txPool, chunks, retry, store, asked, world>>

\* check_tx: the pool has arrived and the bootstrap ends, or ask again.
CheckTx(n) ==
    /\ phase[n] = "tx"
    /\ \/ /\ txPool[n]
          /\ phase' = [phase EXCEPT ![n] = "run"]
          /\ UNCHANGED chan
       \/ /\ ~txPool[n]
          /\ RandomPeer(n, Plain("get_tx_pool"))
          /\ UNCHANGED phase
       \/ /\ ~txPool[n] /\ Peers(n) = {}
          /\ phase' = [phase EXCEPT ![n] = "dead"]
          /\ UNCHANGED chan
    /\ UNCHANGED <<side, ckNum, txPool, chunks, retry, store, asked, world>>

\* check_dht and ask_dht on a running node: the table names the newest block,
\* each unknown one is asked for from some peer.
CheckDht(n) ==
    LET unknown == num[n] + 1 .. height IN
    /\ Running(n)
    /\ unknown # {}
    /\ AskPeers(n, {GetBlockNumMsg(x) : x \in unknown}, IdlePeers(n))
    /\ UNCHANGED <<side, loops, store, asked, world>>

(***************************************************************************)
(* The main process, through p2p.py                                        *)
(***************************************************************************)
\* p2p.get_block: the next block in order, if it is there.
GetBlock(n) ==
    /\ Running(n)
    /\ served[n] + 1 \in blocks[n]
    /\ served' = [served EXCEPT ![n] = @ + 1]
    /\ UNCHANGED <<links, loops, num, blocks, asked, world>>

\* The signer of the next block, whose chain ends with the newest one,
\* creates it and hands it to broadcast_block: it goes to the direct peers,
\* and is not kept in factory.blocks.
BroadcastBlock(n) ==
    /\ Running(n)
    /\ served[n] = height /\ height < MaxHeight
    /\ n = Signer[height + 1]
    /\ height' = height + 1
    /\ num' = [num EXCEPT ![n] = @ + 1]
    /\ served' = [served EXCEPT ![n] = @ + 1]
    /\ Send({<<<<c, n>>, [t |-> "set_block", num |-> height + 1]>> : c \in Peers(n)})
    /\ UNCHANGED <<side, loops, blocks, asked, fragile, over>>

\* get_block_queries: the main process takes the numbers and reads the blocks.
GetBlockQueries(n) ==
    /\ Running(n) /\ taken[n] = {}
    /\ taken' = [taken EXCEPT ![n] = UNION {queries[e] : e \in {x \in End : x[2] = n}}]
    /\ taken'[n] # {}
    /\ UNCHANGED <<links, loops, store, queries, poolq, world>>

\* answer_block_queries: every connection that is asking by now gets its part.
AnswerBlockQueries(n) ==
    LET asking == {e \in End : e[2] = n /\ queries[e] # {}} IN
    /\ taken[n] # {}
    /\ Send({<<e, [t |-> "set_blocks", blocks |-> queries[e] \cap taken[n]]>> : e \in asking})
    /\ queries' = [e \in End |-> IF e \in asking THEN queries[e] \ taken[n] ELSE queries[e]]
    /\ taken' = [taken EXCEPT ![n] = {}]
    /\ UNCHANGED <<side, loops, store, poolq, world>>

\* tx_pool_query and answer_tx_pool_query; what is written to a connection
\* that is gone is dropped.
AnswerTxPoolQuery(n) ==
    /\ Running(n) /\ poolq[n] # {}
    /\ poolq' = [poolq EXCEPT ![n] = {}]
    /\ Send({<<<<c, n>>, Plain("set_tx_pool")>> : c \in poolq[n] \cap Peers(n)})
    /\ UNCHANGED <<side, loops, store, queries, taken, world>>

----------------------------------------------------------------------------
Read(n, c) == NodeId(n, c) \/ ConnectionLost(n, c) \/ GetPeers(n, c) \/ SetPeers(n, c)
              \/ GetNumBlocks(n, c) \/ SetNumBlocks(n, c) \/ SetBlock(n, c)
              \/ SetBlocks(n, c) \/ GetBlockNum(n, c) \/ GetBlocks(n, c)
              \/ GetTxPool(n, c) \/ SetTxPool(n, c)
Main(n) == GetBlock(n) \/ GetBlockQueries(n) \/ AnswerBlockQueries(n) \/ AnswerTxPoolQuery(n)

Next ==
    \/ \E n \in Node : \/ Start(n) \/ CheckNumBlocks(n) \/ CheckAllBlocks(n) \/ CheckTx(n)
                       \/ CheckDht(n) \/ BroadcastBlock(n) \/ Main(n)
                       \/ \E i \in Number : CheckBlocks(n, i) \/ CheckBlock(n, i)
    \/ \E c \in Conn : Break(c) \/ \E n \in Ends(c) : Read(n, c)

(***************************************************************************)
(* The reactor runs every callback and timer, a joining node is started,   *)
(* and the main process polls without end.  random.choice picks the        *)
(* bootstrap node again and again among the peers of a joining node; that  *)
(* any block is created is not assumed.                                    *)
(***************************************************************************)
AsksBootNode(n) == Len(chan'[<<<<n, BootNode>>, n>>]) > Len(chan[<<<<n, BootNode>>, n>>])

Fairness ==
    /\ \A c \in Conn : \A n \in Ends(c) : WF_vars(Read(n, c))
    /\ \A n \in Node : /\ WF_vars(GetBlock(n)) /\ WF_vars(GetBlockQueries(n))
                       /\ WF_vars(AnswerBlockQueries(n)) /\ WF_vars(AnswerTxPoolQuery(n))
    /\ \A n \in Node \ {BootNode} :
          /\ WF_vars(Start(n)) /\ WF_vars(CheckNumBlocks(n))
          /\ WF_vars(CheckAllBlocks(n)) /\ WF_vars(CheckTx(n))
          /\ SF_vars(CheckTx(n) /\ AsksBootNode(n))
          /\ WF_vars(\E i \in Number : CheckBlocks(n, i))
          /\ WF_vars(\E i \in Number : CheckBlock(n, i))
          /\ SF_vars(\E i \in Number : CheckBlock(n, i) /\ AsksBootNode(n))

Spec == Init /\ [][Next]_vars
FairSpec == Spec /\ Fairness
\* With the looping call that compares the last block with the table's.
RepairSpec == FairSpec /\ \A n \in Node : WF_vars(CheckDht(n))

----------------------------------------------------------------------------
\* Every variable has its type.
TypeOK ==
    /\ side \in [End -> {"none", "NODEID", "peer", "closed"}]
    /\ \A e \in End : \A i \in DOMAIN chan[e] : chan[e][i] \in Msg
    /\ phase \in [Node -> {"off", "num", "blocks", "tx", "run", "dead"}]
    /\ ckNum \in [Node -> BOOLEAN] /\ txPool \in [Node -> BOOLEAN]
    /\ num \in [Node -> 0..height] /\ served \in [Node -> 0..height]
    /\ {blocks, chunks, retry, taken} \subseteq [Node -> SUBSET Number]
    /\ queries \in [End -> SUBSET Number]
    /\ poolq \in [Node -> SUBSET Conn]
    /\ height \in 0..MaxHeight /\ fragile \subseteq Conn /\ over \subseteq Node

\* Once the bootstrap is over the process holds every block between the last
\* one it handed to the main process and the last one it knows of, so get_block
\* (network.py:273) never waits for a block that no message can bring any more.
\* The one exception is a last chunk that was asked for with too large a size
\* (network.py:423): check_all_blocks counts a block too many for the missing one.
NoGap ==
    \A n \in Node \ over : Running(n) => served[n] + 1 .. num[n] \subseteq blocks[n]

\* When nothing is under way between two nodes, they have registered each other
\* on the same connection, and on at most one, however their dialling crossed
\* and whatever broke (network.py:79-88, 62-72).
PeersMutual ==
    \A n, m \in Node :
        LET between == {c \in Conn : Ends(c) = {n, m}} IN
        (n # m /\ \A c \in between : chan[<<c, n>>] = <<>> /\ chan[<<c, m>>] = <<>>)
            => /\ between \cap Peers(n) = between \cap Peers(m)
               /\ Cardinality(between \cap Peers(n)) <= 1

\* A node that joins finishes its bootstrap as long as its connection to the
\* bootstrap node holds, whatever the other peers do: each block it asked for
\* in vain is asked for again (network.py:430-439), and so is the pool (392-398).
\* After too large a last chunk it may hold more blocks than it counts on, and
\* then waits for ever (network.py:387).
BootstrapEnds ==
    \A n \in Node \ {BootNode} :
        <>(Running(n) \/ n \in over \/ side[<<<<n, BootNode>>, n>>] = "closed")

\* A new block reaches every node: broadcast_block "sends a new block to the
\* network" (API definition.txt:32), and check_dht asks for what was missed.
BlocksArrive == \A b \in Number : (height >= b) ~> \A n \in Node : served[n] >= b
============================================================================
