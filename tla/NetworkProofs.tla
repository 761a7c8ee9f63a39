--------------------------- MODULE NetworkProofs ---------------------------
(***************************************************************************)
(* Proofs about the P2P processes, for any number of nodes, blocks and     *)
(* connections: what a node holds at the end of its bootstrap, and that    *)
(* two nodes agree on the connection between them.  Messages arrive after  *)
(* any delay, connections break at any time, and nothing is assumed of     *)
(* timing.                                                                 *)
(*                                                                         *)
(* Most actions read one message and write some others.  The invariant is  *)
(* therefore in two parts, one of formulas about single messages, which a  *)
(* step keeps if what it writes is right, and one of formulas about the    *)
(* two ends of a connection.                                               *)
(***************************************************************************)
EXTENDS Network, FoldProofs

-----------------------------------------------------------------------------
(***************************************************************************)
(* The inductive invariant.                                                *)
(***************************************************************************)

TypedChan == chan \in [End -> Seq(Msg)]

TypedVars ==
    /\ side \in [End -> {"none", "NODEID", "peer", "closed"}]
    /\ phase \in [Node -> {"off", "num", "blocks", "tx", "run", "dead"}]
    /\ ckNum \in [Node -> BOOLEAN] /\ txPool \in [Node -> BOOLEAN]
    /\ num \in [Node -> 0..height] /\ served \in [Node -> 0..height]
    /\ blocks \in [Node -> SUBSET Number] /\ chunks \in [Node -> SUBSET Number]
    /\ retry \in [Node -> SUBSET Number] /\ taken \in [Node -> SUBSET Number]
    /\ queries \in [End -> SUBSET Number]
    /\ poolq \in [Node -> SUBSET Conn]
    /\ height \in 0..MaxHeight /\ fragile \subseteq Conn /\ over \subseteq Node

Typed == TypedVars /\ TypedChan

\* The other end of a connection.
Far(e) == <<e[1], Other(e[1], e[2])>>

\* A node that has not finished its bootstrap, and has asked for no block past
\* the last one it knew of.
Careful(n) == n \in Node \ over /\ ~Running(n)

\* Nobody speaks of a block that there is not, and nobody asks for one, or sends one,
\* past the last one that a joining node knows of.
Right(e, m) ==
    /\ m.t \in {"set_block", "set_num_blocks"} => m.num <= height
    /\ m.t = "set_blocks" => m.blocks \subseteq 1..height
    /\ Careful(e[2]) /\ m.t = "get_block_num" => m.num <= num[e[2]]
    /\ Careful(e[2]) /\ m.t = "get_blocks" => m.num + m.chunk - 1 <= num[e[2]]
    /\ Careful(Far(e)[2]) /\ m.t = "set_blocks" => \A i \in m.blocks : i <= num[Far(e)[2]]

Contents == \A e \in End : \A m \in ToSet(chan[e]) : Right(e, m)

\* The same of the numbers that wait for the main process.
Queries ==
    \A e \in End : \A i \in queries[e] :
        i <= height /\ (Careful(Far(e)[2]) => i <= num[Far(e)[2]])

\* What a node holds: nothing that it does not need while it joins, and all of it once
\* check_all_blocks has counted.
Holds(n) ==
    /\ blocks[n] \subseteq 1..height
    /\ Careful(n) => /\ served[n] <= num[n]
                     /\ blocks[n] \subseteq served[n] + 1 .. num[n]
                     /\ \A i \in retry[n] : i <= num[n]
    /\ n \in Node \ over /\ phase[n] \in {"tx", "run"} => served[n] + 1 .. num[n] \subseteq blocks[n]

Stores == \A n \in Node : Holds(n)

\* The question of a joining node for peers, then for the number of blocks, and the
\* answers: one message at a time, between it and the bootstrap node, and none
\* once the number has come.
Step == {"get_peers", "set_peers", "get_num_blocks", "set_num_blocks"}
StepAt(e, i) == i \in DOMAIN chan[e] /\ chan[e][i].t \in Step

\* While the question for peers is open no other connection has been dialled.
OnlyBootNode(n) == \A d \in End : d[1][1] = n /\ d[1][2] # BootNode => side[d] = "none"

Joining ==
    \A e \in End : \A i \in Nat : StepAt(e, i) =>
        /\ e[1][2] = BootNode
        /\ chan[e][i].t \in {"set_peers", "set_num_blocks"} => e[2] = BootNode
        /\ chan[e][i].t \in {"get_peers", "get_num_blocks"} => e[2] = e[1][1]
        /\ phase[e[1][1]] = "num" /\ ~ckNum[e[1][1]]
        /\ \A f \in End : \A j \in Nat : f[1] = e[1] /\ StepAt(f, j) => f = e /\ i = j
        /\ chan[e][i].t \in {"get_peers", "set_peers"} => OnlyBootNode(e[1][1])

Phases ==
    /\ \A n \in Node :
        /\ phase[n] = "off" => ~ckNum[n] /\ \A d \in End : d[1][1] = n => side[d] = "none"
        /\ phase[n] \in {"blocks", "tx"} => ckNum[n]
    /\ phase[BootNode] = "run"

\* The end has written that it is closed, or the network has for it.
HasFin(e) == \E m \in ToSet(chan[e]) : m.t = "fin"

\* An end that waits for a node id has something to read, and one that is closed
\* tells the other.
Shaken(e) ==
    /\ side[e] = "none" => side[Far(e)] = "none"
    /\ side[e] = "NODEID" => chan[Far(e)] # <<>>
    /\ side[e] = "closed" => side[Far(e)] = "closed" \/ HasFin(e)
    /\ HasFin(e) => side[e] = "closed" \/ side[Far(e)] = "closed" \/ HasFin(Far(e))

\* No two connections to one node are registered.
OnePerPeer(n) == \A c, d \in Peers(n) : Other(c, n) = Other(d, n) => c = d

Handshake == (\A e \in End : Shaken(e)) /\ (\A n \in Node : OnePerPeer(n))

NInv == Typed /\ Contents /\ Queries /\ Stores /\ Joining /\ Phases /\ Handshake

-----------------------------------------------------------------------------
(***************************************************************************)
(* Connections, and what is written into them.                             *)
(***************************************************************************)

\* The two ends of a connection.
LEMMA EndFacts ==
  /\ \A c \in Conn : \A n \in Ends(c) :
        /\ <<c, n>> \in End /\ n \in Node
        /\ Other(c, n) \in Ends(c) /\ Other(c, n) # n /\ Other(c, Other(c, n)) = n
        /\ Far(<<c, n>>) = <<c, Other(c, n)>>
        /\ \A m \in Ends(c) : m = n \/ m = Other(c, n)
  /\ \A e \in End : /\ e = <<e[1], e[2]>> /\ e[1] \in Conn /\ e[2] \in Ends(e[1]) /\ e[2] \in Node
                    /\ Far(e) \in End /\ Far(e) # e /\ Far(Far(e)) = e /\ Far(e)[1] = e[1]
                    /\ Far(e)[2] = Other(e[1], e[2])
                    /\ \A f \in End : f[1] = e[1] => f = e \/ f = Far(e)
<1>1. ASSUME NEW c \in Conn, NEW n \in Ends(c)
      PROVE  /\ <<c, n>> \in End /\ n \in Node
             /\ Other(c, n) \in Ends(c) /\ Other(c, n) # n /\ Other(c, Other(c, n)) = n
             /\ Far(<<c, n>>) = <<c, Other(c, n)>>
             /\ \A m \in Ends(c) : m = n \/ m = Other(c, n)
  BY DEF Conn, Ends, End, Other, Far
<1>2. ASSUME NEW e \in End
      PROVE  /\ e = <<e[1], e[2]>> /\ e[1] \in Conn /\ e[2] \in Ends(e[1]) /\ e[2] \in Node
             /\ Far(e) \in End /\ Far(e) # e /\ Far(Far(e)) = e /\ Far(e)[1] = e[1]
             /\ Far(e)[2] = Other(e[1], e[2])
             /\ \A f \in End : f[1] = e[1] => f = e \/ f = Far(e)
  <2>1. \A f \in End : f = <<f[1], f[2]>> /\ f[1] \in Conn /\ f[2] \in Ends(f[1])
    BY DEF End
  <2>2. Far(e) = <<e[1], Other(e[1], e[2])>>
    BY DEF Far
  <2>3. Far(e)[1] = e[1] /\ Far(e)[2] = Other(e[1], e[2])
    BY <2>2
  <2>. QED  BY <1>1, <2>1, <2>2, <2>3
<1>. QED  BY <1>1, <1>2

\* A step that reads a message at most, from the channel r, and writes W.
Flow(r, W) ==
  chan' = [e \in End |-> (IF e = r THEN Tail(chan[e]) ELSE chan[e]) \o W[e]]

\* How many messages of a channel it leaves there.
Kept(e, r) == IF e = r THEN Len(chan[e]) - 1 ELSE Len(chan[e])

\* Where the message at place i of a channel was before it.
CameFrom(e, i, r, W) ==
  \/ i \in DOMAIN chan[e] /\ e # r /\ chan'[e][i] = chan[e][i]
  \/ i + 1 \in DOMAIN chan[e] /\ e = r /\ chan'[e][i] = chan[e][i + 1]
  \/ i - Kept(e, r) \in DOMAIN W[e] /\ chan'[e][i] = W[e][i - Kept(e, r)]

\* What such a step leaves in the channels.
LEMMA FlowFacts ==
  ASSUME chan \in [End -> Seq(Msg)], NEW W \in [End -> Seq(Msg)],
         NEW r, r \in End => chan[r] # <<>>, Flow(r, W)
  PROVE  /\ chan' \in [End -> Seq(Msg)]
         /\ \A e \in End :
              /\ ToSet(chan'[e]) \subseteq ToSet(chan[e]) \cup ToSet(W[e])
              /\ ToSet(W[e]) \subseteq ToSet(chan'[e])
              /\ \A m \in ToSet(chan[e]) : m \in ToSet(chan'[e]) \/ (e = r /\ m = Head(chan[e]))
              /\ e # r /\ chan[e] # <<>> => chan'[e] # <<>>
              /\ \A i \in Nat : i \in DOMAIN chan'[e] => CameFrom(e, i, r, W)
<1>1. ASSUME NEW e \in End
      PROVE  /\ chan'[e] \in Seq(Msg)
             /\ ToSet(chan'[e]) \subseteq ToSet(chan[e]) \cup ToSet(W[e])
             /\ ToSet(W[e]) \subseteq ToSet(chan'[e])
             /\ \A m \in ToSet(chan[e]) : m \in ToSet(chan'[e]) \/ (e = r /\ m = Head(chan[e]))
             /\ e # r /\ chan[e] # <<>> => chan'[e] # <<>>
             /\ \A i \in Nat : i \in DOMAIN chan'[e] => CameFrom(e, i, r, W)
  <2>. DEFINE s == chan[e]
              w == W[e]
  <2>1. s \in Seq(Msg) /\ w \in Seq(Msg)
    OBVIOUS
  <2>2. CASE e # r
    <3>1. chan'[e] = s \o w
      BY <2>2 DEF Flow
    <3>. HIDE DEF s, w
    <3>2. \A i \in Nat : i \in DOMAIN (s \o w) =>
            \/ i \in DOMAIN s /\ (s \o w)[i] = s[i]
            \/ i - Len(s) \in DOMAIN w /\ (s \o w)[i] = w[i - Len(s)]
      BY <2>1
    <3>3. ToSet(s \o w) = ToSet(s) \cup ToSet(w) /\ s \o w \in Seq(Msg) /\ (s # <<>> => s \o w # <<>>)
      BY <2>1, ToSetFacts
    <3>4. Kept(e, r) = Len(s)
      BY <2>2 DEF Kept, s
    <3>6. /\ chan'[e] \in Seq(Msg)
          /\ ToSet(chan'[e]) \subseteq ToSet(s) \cup ToSet(w)
          /\ ToSet(w) \subseteq ToSet(chan'[e])
          /\ \A m \in ToSet(s) : m \in ToSet(chan'[e]) \/ (e = r /\ m = Head(s))
          /\ e # r /\ s # <<>> => chan'[e] # <<>>
      <4>1. chan'[e] \in Seq(Msg)
        BY <3>1, <3>3
      <4>2. ToSet(chan'[e]) = ToSet(s) \cup ToSet(w)
        BY <3>1, <3>3
      <4>3. s # <<>> => chan'[e] # <<>>
        BY <3>1, <3>3
      <4>. QED  BY <4>1, <4>2, <4>3
    <3>7. \A i \in Nat : i \in DOMAIN chan'[e] =>
            \/ i \in DOMAIN s /\ e # r /\ chan'[e][i] = s[i]
            \/ i + 1 \in DOMAIN s /\ e = r /\ chan'[e][i] = s[i + 1]
            \/ i - Kept(e, r) \in DOMAIN w /\ chan'[e][i] = w[i - Kept(e, r)]
      BY <2>2, <3>1, <3>2, <3>4
    <3>. QED  BY <3>6, <3>7 DEF s, w, CameFrom
  <2>3. CASE e = r
    <3>1. chan'[e] = Tail(s) \o w /\ s # <<>>
      BY <2>3 DEF Flow
    <3>. HIDE DEF s, w
    <3>2. /\ Tail(s) \in Seq(Msg) /\ Len(Tail(s)) = Len(s) - 1
          /\ \A i \in DOMAIN Tail(s) : i + 1 \in DOMAIN s /\ Tail(s)[i] = s[i + 1]
      BY <2>1, <3>1
    <3>3. \A i \in Nat : i \in DOMAIN (Tail(s) \o w) =>
            \/ i \in DOMAIN Tail(s) /\ (Tail(s) \o w)[i] = Tail(s)[i]
            \/ /\ i - (Len(s) - 1) \in DOMAIN w
               /\ (Tail(s) \o w)[i] = w[i - (Len(s) - 1)]
      BY <2>1, <3>2
    <3>4. /\ ToSet(Tail(s) \o w) = ToSet(Tail(s)) \cup ToSet(w)
          /\ ToSet(s) = {Head(s)} \cup ToSet(Tail(s))
          /\ Tail(s) \o w \in Seq(Msg)
      <4>1. ToSet(s) = {Head(s)} \cup ToSet(Tail(s))
        BY <2>1, <3>1, ToSetFacts
      <4>. DEFINE u == Tail(s)
      <4>2. u \in Seq(Msg)
        BY <3>2
      <4>. HIDE DEF u
      <4>3. ToSet(u \o w) = ToSet(u) \cup ToSet(w) /\ u \o w \in Seq(Msg)
        BY <2>1, <4>2, ToSetFacts
      <4>. QED  BY <4>1, <4>3 DEF u
    <3>5. Kept(e, r) = Len(s) - 1
      BY <2>3 DEF Kept, s
    <3>6. /\ chan'[e] \in Seq(Msg)
          /\ ToSet(chan'[e]) \subseteq ToSet(s) \cup ToSet(w)
          /\ ToSet(w) \subseteq ToSet(chan'[e])
          /\ \A m \in ToSet(s) : m \in ToSet(chan'[e]) \/ (e = r /\ m = Head(s))
          /\ e # r /\ s # <<>> => chan'[e] # <<>>
      <4>1. chan'[e] \in Seq(Msg)
        BY <3>1, <3>4
      <4>2. ToSet(chan'[e]) = ToSet(Tail(s)) \cup ToSet(w)
        BY <3>1, <3>4
      <4>. QED  BY <2>3, <3>4, <4>1, <4>2
    <3>7. \A i \in Nat : i \in DOMAIN chan'[e] =>
            \/ i \in DOMAIN s /\ e # r /\ chan'[e][i] = s[i]
            \/ i + 1 \in DOMAIN s /\ e = r /\ chan'[e][i] = s[i + 1]
            \/ i - Kept(e, r) \in DOMAIN w /\ chan'[e][i] = w[i - Kept(e, r)]
      BY <2>3, <3>1, <3>2, <3>3, <3>5
    <3>. QED  BY <3>6, <3>7 DEF s, w, CameFrom
  <2>. QED  BY <2>2, <2>3
<1>2. chan' \in [End -> Seq(Msg)]
  <2>1. chan' = [e \in End |-> chan'[e]]
    BY DEF Flow
  <2>. QED  BY <1>1, <2>1
<1>. QED  BY <1>1, <1>2

\* What a callback writes, at most one message to each end.
Letters(Out) ==
  Out \subseteq End \X Msg /\ \A o, p \in Out : o[1] = p[1] => o = p

\* What comes of it in a channel: nothing, or that message.
LEMMA WrittenFacts ==
  ASSUME NEW Out, Letters(Out), NEW e \in End
  PROVE  /\ Written(e, Out) \in Seq(Msg)
         /\ Written(e, Out) = <<>> \/ \E m \in Msg : <<e, m>> \in Out /\ Written(e, Out) = <<m>>
         /\ \A m : <<e, m>> \in Out /\ ~Gone(e) => Written(e, Out) = <<m>>
<1>. DEFINE mine == {o[2] : o \in {x \in Out : x[1] = e}}
<1>1. mine = {} \/ \E m \in Msg : <<e, m>> \in Out /\ mine = {m}
  <2>1. \A o \in Out : o = <<o[1], o[2]>> /\ o[2] \in Msg
    BY DEF Letters
  <2>2. ASSUME NEW o \in Out, o[1] = e PROVE mine = {o[2]} /\ <<e, o[2]>> \in Out /\ o[2] \in Msg
    BY <2>1, <2>2 DEF Letters
  <2>. QED  BY <2>2
<1>2. \A m : <<e, m>> \in Out => m \in mine
  OBVIOUS
<1>3. Written(e, Out) = IF Gone(e) THEN <<>> ELSE SetToSeq(mine)
  BY DEF Written
<1>4. <<>> \in Seq(Msg) /\ \A m \in Msg : <<m>> \in Seq(Msg)
  OBVIOUS
<1>. HIDE DEF mine
<1>5. CASE mine = {}
  BY <1>2, <1>3, <1>4, <1>5, SetToSeqSmall
<1>6. CASE \E m \in Msg : <<e, m>> \in Out /\ mine = {m}
  <2>1. PICK m \in Msg : <<e, m>> \in Out /\ mine = {m}
    BY <1>6
  <2>2. SetToSeq(mine) = <<m>>
    BY <2>1, SetToSeqSmall
  <2>. QED  BY <1>2, <1>3, <1>4, <2>1, <2>2
<1>. QED  BY <1>1, <1>5, <1>6

\* A timer or the main process writes.
LEMMA SendFlow ==
  ASSUME NEW Out, Letters(Out), Send(Out)
  PROVE  \E r, W : /\ r \notin End /\ W \in [End -> Seq(Msg)] /\ Flow(r, W)
                   /\ \A e \in End : /\ \A m \in ToSet(W[e]) : <<e, m>> \in Out
                                     /\ W[e] = Written(e, Out)
<1>1. PICK r : r \notin End
  BY NoSetContainsEverything
<1>. DEFINE W == [e \in End |-> Written(e, Out)]
<1>2. W \in [End -> Seq(Msg)]
  BY WrittenFacts
<1>3. Flow(r, W)
  BY <1>1 DEF Flow, Send
<1>4. \A e \in End : \A m \in ToSet(W[e]) : <<e, m>> \in Out
  <2>1. \A e \in End : W[e] = <<>> \/ \E m \in Msg : <<e, m>> \in Out /\ W[e] = <<m>>
    BY WrittenFacts
  <2>. QED  BY <2>1, ToSetSmall
<1>. QED  BY <1>1, <1>2, <1>3, <1>4

\* A callback reads a message and writes.
LEMMA ReadFlow ==
  ASSUME NEW c \in Conn, NEW n \in Ends(c), NEW Out, Letters(Out), ReadAndSend(n, c, Out)
  PROVE  \E W : /\ W \in [End -> Seq(Msg)] /\ Flow(<<c, Other(c, n)>>, W)
                /\ \A e \in End : /\ \A m \in ToSet(W[e]) : <<e, m>> \in Out
                                  /\ W[e] = Written(e, Out)
<1>. DEFINE W == [e \in End |-> Written(e, Out)]
<1>1. W \in [End -> Seq(Msg)]
  BY WrittenFacts
<1>2. Flow(<<c, Other(c, n)>>, W)
  BY DEF Flow, ReadAndSend
<1>3. \A e \in End : \A m \in ToSet(W[e]) : <<e, m>> \in Out
  <2>1. \A e \in End : W[e] = <<>> \/ \E m \in Msg : <<e, m>> \in Out /\ W[e] = <<m>>
    BY WrittenFacts
  <2>. QED  BY <2>1, ToSetSmall
<1>. QED  BY <1>1, <1>2, <1>3

-----------------------------------------------------------------------------
(***************************************************************************)
(* What keeps the parts of the invariant that speak of messages.           *)
(***************************************************************************)

\* Nodes learn of blocks, and do not join anew.
Growth ==
  /\ height <= height'
  /\ \A n \in Node : Careful(n)' => Careful(n) /\ num[n] <= num'[n]

\* A step keeps what is under way right if what it writes is right.
LEMMA ContentsKept ==
  ASSUME NInv, TypedVars', Growth,
         \A e \in End : \A m \in ToSet(chan'[e]) : m \in ToSet(chan[e]) \/ Right(e, m)'
  PROVE  Contents'
<1>1. ASSUME NEW e \in End, NEW m \in ToSet(chan[e]) PROVE Right(e, m)'
  <2>1. Right(e, m) /\ m \in Msg
    <3>1. chan[e] \in Seq(Msg)
      BY DEF NInv, Typed, TypedChan
    <3>. QED  BY <3>1, ToSetFacts DEF NInv, Contents
  <2>2. e[2] \in Node /\ Far(e)[2] \in Node
    BY EndFacts
  <2>3. height \in Nat /\ height' \in Nat /\ num \in [Node -> Nat] /\ num' \in [Node -> Nat]
    BY DEF NInv, Typed, TypedVars
  <2>4. MaxHeight \in Nat /\ BLOCK_CHUNK \in Nat
    BY NetworkAssumption
  <2>5. /\ m.t \in {"set_num_blocks", "set_block", "get_block_num", "get_blocks"} => m.num \in Nat
        /\ m.t = "get_blocks" => m.chunk \in Nat
        /\ m.t = "set_blocks" => m.blocks \subseteq Nat
    BY <2>1, <2>4 DEF Msg, Number
  <2>6. /\ m.t \in {"set_block", "set_num_blocks"} => m.num <= height'
        /\ m.t = "set_blocks" => m.blocks \subseteq 1..height'
    BY <2>1, <2>3, <2>5 DEF Right, Growth
  <2>7. /\ Careful(e[2])' /\ m.t = "get_block_num" => m.num <= num'[e[2]]
        /\ Careful(e[2])' /\ m.t = "get_blocks" => m.num + m.chunk - 1 <= num'[e[2]]
    BY <2>1, <2>2, <2>3, <2>5 DEF Right, Growth
  <2>8. Careful(Far(e)[2])' /\ m.t = "set_blocks" => \A i \in m.blocks : i <= num'[Far(e)[2]]
    BY <2>1, <2>2, <2>3, <2>5 DEF Right, Growth
  <2>. QED  BY <2>6, <2>7, <2>8 DEF Right, Far
<1>. QED  BY <1>1 DEF Contents

\* A step that reads from a registered connection and closes none.
LEMMA HandshakeKept ==
  ASSUME NInv, UNCHANGED side, NEW W \in [End -> Seq(Msg)], NEW r, Flow(r, W),
         r \in End => chan[r] # <<>> /\ Head(chan[r]).t # "fin" /\ side[Far(r)] = "peer",
         \A e \in End : \A m \in ToSet(W[e]) : m.t # "fin"
  PROVE  Handshake'
<1>1. chan \in [End -> Seq(Msg)]
  BY DEF NInv, Typed, TypedChan
<1>2. \A e \in End : HasFin(e)' <=> HasFin(e)
  <2>1. \A e \in End :
          /\ ToSet(chan'[e]) \subseteq ToSet(chan[e]) \cup ToSet(W[e])
          /\ \A m \in ToSet(chan[e]) : m \in ToSet(chan'[e]) \/ (e = r /\ m = Head(chan[e]))
    BY <1>1, FlowFacts
  <2>. QED  BY <2>1 DEF HasFin
<1>3. \A e \in End : e # r /\ chan[e] # <<>> => chan'[e] # <<>>
  BY <1>1, FlowFacts
<1>4. ASSUME NEW e \in End PROVE Shaken(e)'
  <2>1. Shaken(e) /\ Far(e) \in End /\ Far(Far(e)) = e
    BY EndFacts DEF NInv, Handshake
  <2>2. side[e] = "NODEID" => Far(e) # r
    BY <2>1
  <2>3. side[e] = "NODEID" => chan'[Far(e)] # <<>>
    BY <1>3, <2>1, <2>2 DEF Shaken
  <2>. QED  BY <1>2, <2>1, <2>3 DEF Shaken, Far
<1>5. ASSUME NEW n \in Node PROVE OnePerPeer(n)'
  BY DEF NInv, Handshake, OnePerPeer, Peers
<1>. QED  BY <1>4, <1>5 DEF Handshake

\* A step that neither asks nor answers such a question, and leaves those alone that do.
LEMMA JoiningKept ==
  ASSUME NInv, NEW shift \in [End -> {0, 1}],
         \A e \in End : \A i \in Nat : i \in DOMAIN chan'[e] /\ chan'[e][i].t \in Step =>
            i + shift[e] \in DOMAIN chan[e] /\ chan'[e][i] = chan[e][i + shift[e]],
         \A n \in Node : phase[n] = "num" /\ ~ckNum[n] => phase'[n] = "num" /\ ~ckNum'[n],
         \A d \in End : side[d] = "none" => side'[d] = "none"
  PROVE  Joining'
<1>1. ASSUME NEW e \in End, NEW i \in Nat, StepAt(e, i)'
      PROVE  StepAt(e, i + shift[e]) /\ chan'[e][i] = chan[e][i + shift[e]] /\ i + shift[e] \in Nat
  BY <1>1 DEF StepAt
<1>2. \A n : OnlyBootNode(n) => OnlyBootNode(n)'
  BY DEF OnlyBootNode
<1>3. ASSUME NEW e \in End, NEW i \in Nat, StepAt(e, i)'
      PROVE  /\ e[1][2] = BootNode
             /\ chan'[e][i].t \in {"set_peers", "set_num_blocks"} => e[2] = BootNode
             /\ chan'[e][i].t \in {"get_peers", "get_num_blocks"} => e[2] = e[1][1]
             /\ phase'[e[1][1]] = "num" /\ ~ckNum'[e[1][1]]
             /\ \A f \in End : \A j \in Nat : f[1] = e[1] /\ StepAt(f, j)' => f = e /\ i = j
             /\ chan'[e][i].t \in {"get_peers", "set_peers"} => OnlyBootNode(e[1][1])'
  <2>. DEFINE k == i + shift[e]
  <2>1. StepAt(e, k) /\ chan'[e][i] = chan[e][k] /\ k \in Nat
    BY <1>1, <1>3
  <2>2. /\ e[1][2] = BootNode
        /\ chan[e][k].t \in {"set_peers", "set_num_blocks"} => e[2] = BootNode
        /\ chan[e][k].t \in {"get_peers", "get_num_blocks"} => e[2] = e[1][1]
        /\ phase[e[1][1]] = "num" /\ ~ckNum[e[1][1]]
        /\ \A f \in End : \A j \in Nat : f[1] = e[1] /\ StepAt(f, j) => f = e /\ k = j
        /\ chan[e][k].t \in {"get_peers", "set_peers"} => OnlyBootNode(e[1][1])
    BY <2>1 DEF NInv, Joining
  <2>3. e[1][1] \in Node
    BY EndFacts DEF Conn
  <2>4. ASSUME NEW f \in End, NEW j \in Nat, f[1] = e[1], StepAt(f, j)'
        PROVE  f = e /\ i = j
    <3>1. StepAt(f, j + shift[f]) /\ j + shift[f] \in Nat
      BY <1>1, <2>4
    <3>2. f = e /\ i + shift[e] = j + shift[f]
      BY <2>2, <2>4, <3>1
    <3>. QED  BY <3>2
  <2>. HIDE DEF k
  <2>. QED  BY <1>2, <2>1, <2>2, <2>3, <2>4
<1>. QED  BY <1>3 DEF Joining

\* The step reads and writes as the flow says, and no such message is written.
LEMMA FlowJoining ==
  ASSUME NInv, NEW W \in [End -> Seq(Msg)], NEW r, r \in End => chan[r] # <<>>, Flow(r, W),
         \A e \in End : \A m \in ToSet(W[e]) : m.t \notin Step,
         \A n \in Node : phase[n] = "num" /\ ~ckNum[n] => phase'[n] = "num" /\ ~ckNum'[n],
         \A d \in End : side[d] = "none" => side'[d] = "none"
  PROVE  Joining'
<1>. DEFINE shift == [e \in End |-> IF e = r THEN 1 ELSE 0]
<1>1. chan \in [End -> Seq(Msg)]
  BY DEF NInv, Typed, TypedChan
<1>2. shift \in [End -> {0, 1}]
  OBVIOUS
<1>3. ASSUME NEW e \in End, NEW i \in Nat, i \in DOMAIN chan'[e], chan'[e][i].t \in Step
      PROVE  i + shift[e] \in DOMAIN chan[e] /\ chan'[e][i] = chan[e][i + shift[e]]
  <2>1. CameFrom(e, i, r, W)
    <3>1. \A f \in End : \A j \in Nat : j \in DOMAIN chan'[f] => CameFrom(f, j, r, W)
      BY <1>1, FlowFacts
    <3>. QED  BY <1>3, <3>1
  <2>2. ~ (i - Kept(e, r) \in DOMAIN W[e] /\ chan'[e][i] = W[e][i - Kept(e, r)])
    BY <1>3 DEF ToSet
  <2>3. i + 0 = i
    OBVIOUS
  <2>. QED  BY <2>1, <2>2, <2>3 DEF CameFrom
<1>. HIDE DEF shift
<1>. QED  BY <1>2, <1>3, JoiningKept

\* A step that opens and closes no connection, leaves the question of joining nodes
\* alone and writes what is right.
LEMMA QuietFlow ==
  ASSUME NInv, TypedVars', Growth, UNCHANGED side,
         NEW W \in [End -> Seq(Msg)], NEW r, Flow(r, W),
         r \in End => chan[r] # <<>> /\ Head(chan[r]).t # "fin" /\ side[Far(r)] = "peer",
         \A e \in End : \A m \in ToSet(W[e]) : m.t \notin Step /\ m.t # "fin" /\ Right(e, m)',
         \A n \in Node : phase[n] = "num" /\ ~ckNum[n] => phase'[n] = "num" /\ ~ckNum'[n]
  PROVE  TypedChan' /\ Contents' /\ Joining' /\ Handshake'
<1>1. chan \in [End -> Seq(Msg)]
  BY DEF NInv, Typed, TypedChan
<1>2. /\ chan' \in [End -> Seq(Msg)]
      /\ \A e \in End : ToSet(chan'[e]) \subseteq ToSet(chan[e]) \cup ToSet(W[e])
  BY <1>1, FlowFacts
<1>3. Contents'
  BY <1>2, ContentsKept
<1>4. Joining'
  BY FlowJoining
<1>5. Handshake'
  BY HandshakeKept
<1>. QED  BY <1>2, <1>3, <1>4, <1>5 DEF TypedChan

\* The same of a callback that reads a message from a registered connection.
LEMMA QuietRead ==
  ASSUME NInv, TypedVars', Growth, UNCHANGED side,
         NEW c \in Conn, NEW n \in Ends(c), NEW t, t # "fin", Reads(n, c, t),
         NEW Out, Letters(Out), ReadAndSend(n, c, Out),
         \A o \in Out : o[2].t \notin Step /\ o[2].t # "fin" /\ Right(o[1], o[2])',
         \A x \in Node : phase[x] = "num" /\ ~ckNum[x] => phase'[x] = "num" /\ ~ckNum'[x]
  PROVE  TypedChan' /\ Contents' /\ Joining' /\ Handshake'
<1>. DEFINE r == <<c, Other(c, n)>>
<1>1. PICK W : /\ W \in [End -> Seq(Msg)] /\ Flow(r, W)
               /\ \A e \in End : \A m \in ToSet(W[e]) : <<e, m>> \in Out
  BY ReadFlow
<1>2. \A e \in End : \A m \in ToSet(W[e]) : m.t \notin Step /\ m.t # "fin" /\ Right(e, m)'
  <2>1. ASSUME NEW e \in End, NEW m \in ToSet(W[e])
        PROVE  m.t \notin Step /\ m.t # "fin" /\ Right(e, m)'
    <3>. DEFINE o == <<e, m>>
    <3>1. o \in Out
      BY <1>1, <2>1
    <3>2. o[2].t \notin Step /\ o[2].t # "fin" /\ Right(o[1], o[2])'
      BY <3>1
    <3>3. o[1] = e /\ o[2] = m
      OBVIOUS
    <3>4. \A d : d = e => (Right(d, o[2])' => Right(e, m)')
      BY <3>3
    <3>. QED  BY <3>2, <3>3, <3>4
  <2>. QED  BY <2>1
<1>3. chan[r] # <<>> /\ Head(chan[r]).t # "fin" /\ side[Far(r)] = "peer"
  <2>1. Far(r) = <<c, n>>
    BY EndFacts
  <2>. QED  BY <2>1 DEF Reads, CanRead, Incoming
<1>. HIDE DEF r
<1>. QED  BY <1>1, <1>2, <1>3, QuietFlow

\* The same of a timer, or of the main process.
LEMMA QuietSend ==
  ASSUME NInv, TypedVars', Growth, UNCHANGED side, NEW Out, Letters(Out), Send(Out),
         \A o \in Out : o[2].t \notin Step /\ o[2].t # "fin" /\ Right(o[1], o[2])',
         \A x \in Node : phase[x] = "num" /\ ~ckNum[x] => phase'[x] = "num" /\ ~ckNum'[x]
  PROVE  TypedChan' /\ Contents' /\ Joining' /\ Handshake'
<1>1. PICK r, W : /\ r \notin End /\ W \in [End -> Seq(Msg)] /\ Flow(r, W)
                  /\ \A e \in End : \A m \in ToSet(W[e]) : <<e, m>> \in Out
  BY SendFlow
<1>2. \A e \in End : \A m \in ToSet(W[e]) : m.t \notin Step /\ m.t # "fin" /\ Right(e, m)'
  BY <1>1
<1>. QED  BY <1>1, <1>2, QuietFlow

\* The numbers that wait.
LEMMA QueriesKept ==
  ASSUME NInv, TypedVars', Growth,
         \A e \in End : \A i \in queries'[e] :
            i \in queries[e] \/ (i <= height' /\ (Careful(Far(e)[2])' => i <= num'[Far(e)[2]]))
  PROVE  Queries'
<1>1. ASSUME NEW e \in End, NEW i \in queries[e]
      PROVE  i <= height' /\ (Careful(Far(e)[2])' => i <= num'[Far(e)[2]])
  <2>1. Far(e)[2] \in Node /\ i \in Nat
    BY EndFacts DEF NInv, Typed, TypedVars, Number
  <2>2. height \in Nat /\ height' \in Nat /\ num \in [Node -> Nat] /\ num' \in [Node -> Nat]
    BY DEF NInv, Typed, TypedVars
  <2>3. i <= height /\ (Careful(Far(e)[2]) => i <= num[Far(e)[2]])
    BY DEF NInv, Queries
  <2>. QED  BY <2>1, <2>2, <2>3 DEF Growth
<1>2. \A e \in End : Far(e)' = Far(e)
  BY DEF Far
<1>. QED  BY <1>1, <1>2 DEF Queries

\* A node whose store is left alone.
LEMMA HoldsKept ==
  ASSUME NInv, TypedVars', Growth, over \subseteq over', NEW n \in Node,
         num'[n] = num[n], served'[n] = served[n], blocks'[n] = blocks[n],
         phase'[n] \in {"tx", "run"} => phase[n] \in {"tx", "run"},
         retry'[n] \subseteq retry[n] \cup {i \in Number : i <= num[n]}
  PROVE  Holds(n)'
<1>1. Holds(n)
  BY DEF NInv, Stores
<1>2. height \in Nat /\ height' \in Nat /\ height <= height'
  BY DEF NInv, Typed, TypedVars, Growth
<1>3. blocks'[n] \subseteq 1..height'
  BY <1>1, <1>2 DEF Holds
<1>4. Careful(n)' => Careful(n)
  BY DEF Growth
<1>. QED  BY <1>1, <1>3, <1>4 DEF Holds

\* A message of the question of a joining node is read, and at most one is written, into
\* the same connection: there is no other.
LEMMA StepMoved ==
  ASSUME NInv, NEW r \in End, chan[r] # <<>>, StepAt(r, 1),
         NEW W \in [End -> Seq(Msg)], Flow(r, W), NEW f \in End, f[1] = r[1],
         \A e \in End : \A i \in DOMAIN W[e] : W[e][i].t \in Step => e = f /\ i = 1,
         \A d \in End : d[1][1] # r[1][1] /\ side[d] = "none" => side'[d] = "none",
         \A x \in Node : x # r[1][1] /\ phase[x] = "num" /\ ~ckNum[x]
                            => phase'[x] = "num" /\ ~ckNum'[x],
         \A i \in DOMAIN W[f] : W[f][i].t \in Step =>
            /\ W[f][i].t \in {"set_peers", "set_num_blocks"} => f[2] = BootNode
            /\ W[f][i].t \in {"get_peers", "get_num_blocks"} => f[2] = f[1][1]
            /\ phase'[f[1][1]] = "num" /\ ~ckNum'[f[1][1]]
            /\ W[f][i].t \in {"get_peers", "set_peers"} => OnlyBootNode(f[1][1])'
  PROVE  Joining'
<1>1. chan \in [End -> Seq(Msg)] /\ chan' \in [End -> Seq(Msg)]
  <2>1. chan \in [End -> Seq(Msg)]
    BY DEF NInv, Typed, TypedChan
  <2>. QED  BY <2>1, FlowFacts
<1>2. /\ r[1][2] = BootNode
      /\ \A e \in End : \A j \in Nat : e[1] = r[1] /\ StepAt(e, j) => r = e /\ 1 = j
  BY DEF NInv, Joining
<1>3. \A x : x # r[1][1] /\ OnlyBootNode(x) => OnlyBootNode(x)'
  BY DEF OnlyBootNode
<1>. DEFINE Old(e, i) == StepAt(e, i) /\ e[1] # r[1] /\ chan'[e][i] = chan[e][i]
            New(e, i) == e = f /\ i = Kept(f, r) + 1 /\ 1 \in DOMAIN W[f] /\ chan'[f][i] = W[f][1]
<1>4. ASSUME NEW e \in End, NEW i \in Nat, StepAt(e, i)'
      PROVE  Old(e, i) \/ New(e, i)
  <2>1. i \in DOMAIN chan'[e] /\ chan'[e][i].t \in Step /\ i # 0
    BY <1>1, <1>4 DEF StepAt
  <2>2. CameFrom(e, i, r, W)
    <3>1. \A d \in End : \A j \in Nat : j \in DOMAIN chan'[d] => CameFrom(d, j, r, W)
      BY <1>1, FlowFacts
    <3>. QED  BY <2>1, <3>1
  <2>3. CASE i \in DOMAIN chan[e] /\ e # r /\ chan'[e][i] = chan[e][i]
    BY <1>2, <2>1, <2>3 DEF StepAt
  <2>4. CASE i + 1 \in DOMAIN chan[e] /\ e = r /\ chan'[e][i] = chan[e][i + 1]
    <3>1. StepAt(r, i + 1)
      BY <2>1, <2>4 DEF StepAt
    <3>2. \A j \in Nat : StepAt(r, j) => 1 = j
      BY <1>2
    <3>3. i + 1 \in Nat
      OBVIOUS
    <3>4. 1 = i + 1
      BY <3>1, <3>2, <3>3
    <3>. QED  BY <2>1, <3>4
  <2>5. CASE i - Kept(e, r) \in DOMAIN W[e] /\ chan'[e][i] = W[e][i - Kept(e, r)]
    <3>1. e = f /\ i - Kept(e, r) = 1
      BY <2>1, <2>5
    <3>2. Kept(e, r) \in Int
      BY <1>1 DEF Kept
    <3>3. i = Kept(f, r) + 1
      BY <3>1, <3>2
    <3>. QED  BY <2>5, <3>1, <3>3
  <2>. QED  BY <2>2, <2>3, <2>4, <2>5 DEF CameFrom
<1>5. ASSUME NEW e \in End, NEW i \in Nat, StepAt(e, i)'
      PROVE  /\ e[1][2] = BootNode
             /\ chan'[e][i].t \in {"set_peers", "set_num_blocks"} => e[2] = BootNode
             /\ chan'[e][i].t \in {"get_peers", "get_num_blocks"} => e[2] = e[1][1]
             /\ phase'[e[1][1]] = "num" /\ ~ckNum'[e[1][1]]
             /\ \A d \in End : \A j \in Nat : d[1] = e[1] /\ StepAt(d, j)' => d = e /\ i = j
             /\ chan'[e][i].t \in {"get_peers", "set_peers"} => OnlyBootNode(e[1][1])'
  <2>0. e[1] = <<e[1][1], e[1][2]>> /\ e[1][1] \in Node /\ r[1] = <<r[1][1], r[1][2]>>
    BY EndFacts DEF Conn
  <2>1. CASE Old(e, i)
    <3>1. /\ e[1][2] = BootNode
          /\ chan[e][i].t \in {"set_peers", "set_num_blocks"} => e[2] = BootNode
          /\ chan[e][i].t \in {"get_peers", "get_num_blocks"} => e[2] = e[1][1]
          /\ phase[e[1][1]] = "num" /\ ~ckNum[e[1][1]]
          /\ \A d \in End : \A j \in Nat : d[1] = e[1] /\ StepAt(d, j) => d = e /\ i = j
          /\ chan[e][i].t \in {"get_peers", "set_peers"} => OnlyBootNode(e[1][1])
      BY <2>1 DEF NInv, Joining
    <3>2. e[1][1] # r[1][1]
      <4>1. \A x, y \in Conn : x[1] = y[1] /\ x[2] = y[2] => x = y
        BY DEF Conn
      <4>2. e[1] \in Conn /\ r[1] \in Conn
        BY EndFacts
      <4>3. e[1] # r[1] /\ e[1][2] = r[1][2]
        BY <1>2, <2>1, <3>1
      <4>4. e[1][1] = r[1][1] => FALSE
        BY <4>1, <4>2, <4>3
      <4>. QED  BY <4>4
    <3>3. \A d \in End : \A j \in Nat : d[1] = e[1] /\ StepAt(d, j)' => d = e /\ i = j
      <4>1. ASSUME NEW d \in End, NEW j \in Nat, d[1] = e[1], StepAt(d, j)' PROVE StepAt(d, j)
        <5>1. ~New(d, j)
          BY <2>1, <4>1
        <5>. QED  BY <1>4, <4>1, <5>1
      <4>. QED  BY <3>1, <4>1
    <3>4. phase'[e[1][1]] = "num" /\ ~ckNum'[e[1][1]]
      BY <2>0, <3>1, <3>2
    <3>. QED  BY <1>3, <2>1, <3>1, <3>2, <3>3, <3>4
  <2>2. CASE New(e, i)
    <3>1. W[f][1].t \in Step /\ e = f
      BY <1>5, <2>2 DEF StepAt
    <3>2. \A d \in End : \A j \in Nat : d[1] = e[1] /\ StepAt(d, j)' => d = e /\ i = j
      <4>1. ASSUME NEW d \in End, NEW j \in Nat, d[1] = e[1], StepAt(d, j)' PROVE New(d, j)
        <5>1. ~Old(d, j)
          BY <2>2, <4>1
        <5>. QED  BY <1>4, <4>1, <5>1
      <4>. QED  BY <2>2, <4>1
    <3>. QED  BY <1>2, <2>2, <3>1, <3>2
  <2>. QED  BY <1>4, <1>5, <2>1, <2>2
<1>. QED  BY <1>5 DEF Joining

\* Which node reads such a message, from whom, and when.
LEMMA StepRead ==
  ASSUME NInv, NEW c \in Conn, NEW n \in Ends(c), NEW t \in Step, Reads(n, c, t)
  PROVE  /\ <<c, Other(c, n)>> \in End /\ StepAt(<<c, Other(c, n)>>, 1)
         /\ chan[<<c, Other(c, n)>>] # <<>> /\ Incoming(n, c) \in Msg /\ Incoming(n, c).t = t
         /\ Incoming(n, c) \in ToSet(chan[<<c, Other(c, n)>>])
         /\ c[2] = BootNode /\ c[1] \in Node /\ phase[c[1]] = "num" /\ ~ckNum[c[1]]
         /\ t \in {"get_peers", "get_num_blocks"} => n = BootNode
         /\ t \in {"set_peers", "set_num_blocks"} => n = c[1]
         /\ t \in {"get_peers", "set_peers"} => OnlyBootNode(c[1])
<1>. DEFINE r == <<c, Other(c, n)>>
<1>1. r \in End /\ r[1] = c /\ r[2] = Other(c, n)
  BY EndFacts
<1>2. chan[r] # <<>> /\ Incoming(n, c) = Head(chan[r]) /\ Incoming(n, c).t = t
  BY DEF Reads, CanRead, Incoming
<1>3. chan[r] \in Seq(Msg)
  BY <1>1 DEF NInv, Typed, TypedChan
<1>. HIDE DEF r
<1>4. Head(chan[r]) = chan[r][1] /\ 1 \in DOMAIN chan[r] /\ Head(chan[r]) \in ToSet(chan[r])
      /\ Head(chan[r]) \in Msg
  BY <1>2, <1>3, ToSetFacts
<1>5. StepAt(r, 1)
  BY <1>2, <1>4 DEF StepAt
<1>6. /\ c[2] = BootNode
      /\ chan[r][1].t \in {"set_peers", "set_num_blocks"} => Other(c, n) = BootNode
      /\ chan[r][1].t \in {"get_peers", "get_num_blocks"} => Other(c, n) = c[1]
      /\ phase[c[1]] = "num" /\ ~ckNum[c[1]]
      /\ chan[r][1].t \in {"get_peers", "set_peers"} => OnlyBootNode(c[1])
  BY <1>1, <1>5 DEF NInv, Joining
<1>7. c[1] \in Node /\ c[1] # c[2]
  BY DEF Conn
<1>8. Other(c, n) = BootNode => n = c[1]
  BY <1>6, <1>7 DEF Other, Ends
<1>9. Other(c, n) = c[1] => n = BootNode
  BY <1>6, <1>7 DEF Other, Ends
<1>. QED  BY <1>1, <1>2, <1>4, <1>5, <1>6, <1>7, <1>8, <1>9 DEF r

\* A callback that answers such a message, or ends the exchange, and dials nobody.
LEMMA StepAnswered ==
  ASSUME NInv, TypedVars', Growth, UNCHANGED side,
         NEW c \in Conn, NEW n \in Ends(c), NEW t \in Step, Reads(n, c, t),
         NEW Out, Letters(Out), ReadAndSend(n, c, Out),
         \A o \in Out : o[1] = <<c, n>> /\ o[2].t # "fin" /\ Right(o[1], o[2])',
         \A x \in Node : x # c[1] /\ phase[x] = "num" /\ ~ckNum[x]
                            => phase'[x] = "num" /\ ~ckNum'[x],
         \A o \in Out : o[2].t \in Step =>
            /\ o[2].t \in {"set_peers", "set_num_blocks"} => n = BootNode
            /\ o[2].t \in {"get_peers", "get_num_blocks"} => n = c[1]
            /\ phase'[c[1]] = "num" /\ ~ckNum'[c[1]]
            /\ o[2].t \in {"get_peers", "set_peers"} => OnlyBootNode(c[1])'
  PROVE  TypedChan' /\ Contents' /\ Joining' /\ Handshake'
<1>. DEFINE r == <<c, Other(c, n)>>
            f == <<c, n>>
<1>1. PICK W : /\ W \in [End -> Seq(Msg)] /\ Flow(r, W)
               /\ \A e \in End : /\ \A m \in ToSet(W[e]) : <<e, m>> \in Out
                                 /\ W[e] = Written(e, Out)
  BY ReadFlow
<1>2. r \in End /\ r[1] = c /\ StepAt(r, 1) /\ chan[r] # <<>> /\ Head(chan[r]).t = t
  BY StepRead DEF Incoming
<1>3. f \in End /\ f[1] = c /\ f[2] = n /\ Far(r) = f /\ side[f] = "peer"
  BY EndFacts DEF Reads
<1>. HIDE DEF r, f
<1>4. \A e \in End : \A m \in ToSet(W[e]) :
        e = f /\ m.t # "fin" /\ Right(e, m)' /\ <<e, m>> \in Out
  <2>1. ASSUME NEW e \in End, NEW m \in ToSet(W[e])
        PROVE  e = f /\ m.t # "fin" /\ Right(e, m)' /\ <<e, m>> \in Out
    <3>. DEFINE o == <<e, m>>
    <3>1. o \in Out /\ o[1] = e /\ o[2] = m
      BY <1>1, <2>1
    <3>2. o[1] = f /\ o[2].t # "fin" /\ Right(o[1], o[2])'
      BY <3>1 DEF f
    <3>3. \A d : d = e => (Right(d, o[2])' => Right(e, m)')
      BY <3>1
    <3>. QED  BY <3>1, <3>2, <3>3
  <2>. QED  BY <2>1
<1>5. chan \in [End -> Seq(Msg)]
  BY DEF NInv, Typed, TypedChan
<1>6. /\ chan' \in [End -> Seq(Msg)]
      /\ \A e \in End : ToSet(chan'[e]) \subseteq ToSet(chan[e]) \cup ToSet(W[e])
  BY <1>1, <1>2, <1>5, FlowFacts
<1>7. Contents'
  BY <1>4, <1>6, ContentsKept
<1>8. Handshake'
  <2>1. Head(chan[r]).t # "fin"
    BY <1>2 DEF Step
  <2>. QED  BY <1>1, <1>2, <1>3, <1>4, <2>1, HandshakeKept
<1>9. \A i \in DOMAIN W[f] : i = 1 /\ W[f][i] \in ToSet(W[f])
  <2>1. W[f] = <<>> \/ \E m \in Msg : W[f] = <<m>>
    <3>1. W[f] = Written(f, Out)
      BY <1>1, <1>3
    <3>2. \A e \in End : Written(e, Out) = <<>> \/ \E m \in Msg : Written(e, Out) = <<m>>
      <4>1. ASSUME NEW e \in End
            PROVE  Written(e, Out) = <<>> \/ \E m \in Msg : <<e, m>> \in Out /\ Written(e, Out) = <<m>>
        BY ONLY WrittenFacts, Letters(Out), e \in End
      <4>. QED  BY <4>1
    <3>. QED  BY <1>3, <3>1, <3>2
  <2>. QED  BY <2>1 DEF ToSet
<1>10. \A e \in End : \A i \in DOMAIN W[e] : W[e][i].t \in Step => e = f /\ i = 1
  <2>1. \A e \in End : \A i \in DOMAIN W[e] : W[e][i] \in ToSet(W[e])
    BY DEF ToSet
  <2>. QED  BY <1>4, <1>9, <2>1
<1>11. \A i \in DOMAIN W[f] : W[f][i].t \in Step =>
          /\ W[f][i].t \in {"set_peers", "set_num_blocks"} => f[2] = BootNode
          /\ W[f][i].t \in {"get_peers", "get_num_blocks"} => f[2] = f[1][1]
          /\ phase'[f[1][1]] = "num" /\ ~ckNum'[f[1][1]]
          /\ W[f][i].t \in {"get_peers", "set_peers"} => OnlyBootNode(f[1][1])'
  <2>1. \A i \in DOMAIN W[f] : <<f, W[f][i]>> \in Out
    BY <1>3, <1>4, <1>9
  <2>2. \A m : <<f, m>> \in Out /\ m.t \in Step =>
          /\ m.t \in {"set_peers", "set_num_blocks"} => n = BootNode
          /\ m.t \in {"get_peers", "get_num_blocks"} => n = c[1]
          /\ phase'[c[1]] = "num" /\ ~ckNum'[c[1]]
          /\ m.t \in {"get_peers", "set_peers"} => OnlyBootNode(c[1])'
    OBVIOUS
  <2>3. OnlyBootNode(f[1][1])' <=> OnlyBootNode(c[1])'
    BY <1>3
  <2>. QED  BY <1>3, <2>1, <2>2, <2>3
<1>12. Joining'
  <2>1. \A d \in End : d[1][1] # r[1][1] /\ side[d] = "none" => side'[d] = "none"
    OBVIOUS
  <2>2. \A x \in Node : x # r[1][1] /\ phase[x] = "num" /\ ~ckNum[x]
                           => phase'[x] = "num" /\ ~ckNum'[x]
    BY <1>2
  <2>3. f[1] = r[1]
    BY <1>2, <1>3
  <2>. QED  BY <1>1, <1>2, <1>3, <1>10, <1>11, <2>1, <2>2, <2>3, StepMoved
<1>. QED  BY <1>6, <1>7, <1>8, <1>12 DEF TypedChan

\* A step that changes nothing but channels, the pool and what waits for the main process.
LEMMA StoreKept ==
  ASSUME NInv, TypedVars',
         UNCHANGED <<side, phase, ckNum, num, served, blocks, retry, queries, height, over>>
  PROVE  Growth /\ Queries' /\ Stores' /\ Phases'
<1>1. Growth
  <2>1. height <= height' /\ \A n \in Node : num[n] <= num'[n]
    BY DEF NInv, Typed, TypedVars
  <2>2. \A n \in Node : Careful(n)' => Careful(n)
    BY DEF Careful, Running
  <2>. QED  BY <2>1, <2>2 DEF Growth
<1>2. Queries'
  BY <1>1, QueriesKept
<1>3. \A n \in Node : Holds(n)'
  <2>1. \A n \in Node : retry'[n] \subseteq retry[n] \cup {i \in Number : i <= num[n]}
    OBVIOUS
  <2>. QED  BY <1>1, <2>1, HoldsKept
<1>4. Phases'
  BY DEF NInv, Phases
<1>. QED  BY <1>1, <1>2, <1>3, <1>4 DEF Stores

\* One message to one end, and none.
LEMMA FewLetters ==
  /\ Letters({})
  /\ \A e \in End : \A m \in Msg : Letters({<<e, m>>})
<1>1. Letters({})
  BY DEF Letters
<1>2. ASSUME NEW e \in End, NEW m \in Msg PROVE Letters({<<e, m>>})
  <2>1. {<<e, m>>} \subseteq End \X Msg
    OBVIOUS
  <2>. QED  BY <2>1 DEF Letters
<1>. QED  BY <1>1, <1>2

\* Peers are nodes.
LEMMA KnownNodes ==
  \A n \in Node : /\ Peers(n) \subseteq Conn /\ Known(n) \subseteq Node
                  /\ \A c \in Peers(n) : n \in Ends(c) /\ side[<<c, n>>] = "peer"
<1>1. \A c \in Conn : Ends(c) \subseteq Node /\ \A n \in Node : Other(c, n) \in Node
  BY DEF Conn, Ends, Other
<1>. QED  BY <1>1 DEF Peers, Known

-----------------------------------------------------------------------------
(***************************************************************************)
(* The actions: the question for peers and for the number of blocks.       *)
(***************************************************************************)

\* The bootstrap node names its peers.
LEMMA GetPeersNInv ==
  ASSUME NInv, NEW c \in Conn, NEW n \in Ends(c), GetPeers(n, c)
  PROVE  NInv'
<1>0. PICK m : m = [t |-> "set_peers", peers |-> Known(n)]
  OBVIOUS
<1>. DEFINE Out == {<<<<c, n>>, m>>}
<1>1. TypedVars'
  BY DEF NInv, Typed, TypedVars, GetPeers, loops, store, asked, world
<1>2. /\ UNCHANGED <<side, phase, ckNum, num, served, blocks, retry, queries, height, over>>
      /\ Reads(n, c, "get_peers") /\ ReadAndSend(n, c, Out)
  BY <1>0 DEF GetPeers, loops, store, asked, world
<1>3. Growth /\ Queries' /\ Stores' /\ Phases'
  BY <1>1, <1>2, StoreKept
<1>4. m \in Msg /\ <<c, n>> \in End
  BY <1>0, EndFacts, KnownNodes DEF Msg
<1>5. n = BootNode /\ OnlyBootNode(c[1]) /\ phase[c[1]] = "num" /\ ~ckNum[c[1]]
  BY <1>2, StepRead DEF Step
<1>6. m.t = "set_peers" /\ Right(<<c, n>>, m)'
  BY <1>0 DEF Right
<1>7. OnlyBootNode(c[1])'
  BY <1>2, <1>5 DEF OnlyBootNode
<1>8. "get_peers" \in Step
  BY DEF Step
<1>9. Letters(Out)
  BY <1>4, FewLetters
<1>10. \A o \in Out : o[1] = <<c, n>> /\ o[2] = m
  OBVIOUS
<1>11. \A o \in Out : o[1] = <<c, n>> /\ o[2].t # "fin" /\ Right(o[1], o[2])'
  <2>1. ASSUME NEW o \in Out PROVE o[1] = <<c, n>> /\ o[2].t # "fin" /\ Right(o[1], o[2])'
    <3>1. o[1] = <<c, n>> /\ o[2] = m
      BY <1>10
    <3>2. Right(o[1], o[2])'
      BY <1>6, <3>1 DEF Right
    <3>. QED  BY <1>6, <3>1, <3>2
  <2>. QED  BY <2>1
<1>. HIDE DEF Out
<1>12. TypedChan' /\ Contents' /\ Joining' /\ Handshake'
  BY <1>1, <1>2, <1>3, <1>5, <1>6, <1>7, <1>8, <1>9, <1>10, <1>11, StepAnswered
<1>. QED  BY <1>1, <1>3, <1>12 DEF NInv, Typed

\* A node says how many blocks it has.
LEMMA GetNumBlocksNInv ==
  ASSUME NInv, NEW c \in Conn, NEW n \in Ends(c), GetNumBlocks(n, c)
  PROVE  NInv'
<1>0. PICK m : m = [t |-> "set_num_blocks", num |-> num[n]]
  OBVIOUS
<1>. DEFINE Out == {<<<<c, n>>, m>>}
<1>1. TypedVars'
  BY DEF NInv, Typed, TypedVars, GetNumBlocks, loops, store, asked, world
<1>2. /\ UNCHANGED <<side, phase, ckNum, num, served, blocks, retry, queries, height, over>>
      /\ Reads(n, c, "get_num_blocks") /\ ReadAndSend(n, c, Out)
  BY <1>0 DEF GetNumBlocks, loops, store, asked, world
<1>3. Growth /\ Queries' /\ Stores' /\ Phases'
  BY <1>1, <1>2, StoreKept
<1>4. m \in Msg /\ <<c, n>> \in End /\ num[n] <= height
  <2>1. n \in Node /\ num \in [Node -> 0..height] /\ height \in 0..MaxHeight
    BY EndFacts DEF NInv, Typed, TypedVars
  <2>2. num[n] \in 0..MaxHeight /\ num[n] <= height
    BY <2>1, NetworkAssumption
  <2>. QED  BY <1>0, <2>2, EndFacts DEF Msg
<1>5. n = BootNode /\ phase[c[1]] = "num" /\ ~ckNum[c[1]]
  BY <1>2, StepRead DEF Step
<1>6. m.t = "set_num_blocks" /\ Right(<<c, n>>, m)'
  BY <1>0, <1>2, <1>4 DEF Right
<1>8. "get_num_blocks" \in Step
  BY DEF Step
<1>9. Letters(Out)
  BY <1>4, FewLetters
<1>10. \A o \in Out : o[1] = <<c, n>> /\ o[2] = m
  OBVIOUS
<1>11. \A o \in Out : o[1] = <<c, n>> /\ o[2].t # "fin" /\ Right(o[1], o[2])'
  <2>1. ASSUME NEW o \in Out PROVE o[1] = <<c, n>> /\ o[2].t # "fin" /\ Right(o[1], o[2])'
    <3>1. o[1] = <<c, n>> /\ o[2] = m
      BY <1>10
    <3>2. Right(o[1], o[2])'
      BY <1>6, <3>1 DEF Right
    <3>. QED  BY <1>6, <3>1, <3>2
  <2>. QED  BY <2>1
<1>. HIDE DEF Out
<1>12. TypedChan' /\ Contents' /\ Joining' /\ Handshake'
  BY <1>1, <1>2, <1>3, <1>5, <1>6, <1>8, <1>9, <1>10, <1>11, StepAnswered
<1>. QED  BY <1>1, <1>3, <1>12 DEF NInv, Typed

\* A joining node counts on more blocks only before it has asked for any.
LEMMA SetNumBlocksNInv ==
  ASSUME NInv, NEW c \in Conn, NEW n \in Ends(c), SetNumBlocks(n, c)
  PROVE  NInv'
<1>. DEFINE told == Incoming(n, c).num
<1>1. /\ Reads(n, c, "set_num_blocks") /\ ReadAndSend(n, c, {})
      /\ UNCHANGED <<side, phase, txPool, chunks, retry, served, blocks, queries, taken, poolq,
                     height, fragile, over>>
      /\ num' = [num EXCEPT ![n] = IF Bootstrap(n) /\ told > @ THEN told ELSE @]
      /\ ckNum' = [ckNum EXCEPT ![n] = @ \/ Bootstrap(n)]
  BY DEF SetNumBlocks, asked, world
<1>2. "set_num_blocks" \in Step
  BY DEF Step
<1>3. /\ n = c[1] /\ n \in Node /\ phase[n] = "num"
      /\ Incoming(n, c) \in Msg /\ Incoming(n, c).t = "set_num_blocks"
      /\ <<c, Other(c, n)>> \in End /\ Incoming(n, c) \in ToSet(chan[<<c, Other(c, n)>>])
  BY <1>1, <1>2, StepRead, EndFacts DEF Step
<1>4. told \in 0..height
  <2>1. Right(<<c, Other(c, n)>>, Incoming(n, c))
    BY <1>3 DEF NInv, Contents
  <2>. QED  BY <1>3, <2>1, NetworkAssumption DEF Right, Msg
<1>5. num \in [Node -> 0..height] /\ served \in [Node -> 0..height] /\ height \in Nat
  BY DEF NInv, Typed, TypedVars
<1>. HIDE DEF told
<1>6. num' \in [Node -> 0..height]
  BY <1>1, <1>4, <1>5
<1>7. TypedVars'
  <2>1. ckNum' \in [Node -> BOOLEAN]
    BY <1>1, <1>3 DEF NInv, Typed, TypedVars, Bootstrap
  <2>. QED  BY <1>1, <1>6, <2>1 DEF NInv, Typed, TypedVars
<1>8. \A x \in Node : num[x] <= num'[x] /\ (x # n => num'[x] = num[x])
  BY <1>1, <1>4, <1>5
<1>9. \A x \in Node : Careful(x)' => Careful(x)
  BY <1>1 DEF Careful, Running
<1>10. Growth
  BY <1>1, <1>5, <1>8, <1>9 DEF Growth
<1>12. \A x \in Node : /\ ckNum[x] => ckNum'[x]
                       /\ x # n => ckNum'[x] = ckNum[x]
  BY <1>1 DEF NInv, Typed, TypedVars
<1>13. TypedChan' /\ Contents' /\ Joining' /\ Handshake'
  BY <1>1, <1>2, <1>3, <1>7, <1>10, <1>12, FewLetters, StepAnswered
<1>14. Queries'
  BY <1>1, <1>7, <1>10, QueriesKept
<1>15. Stores'
  <2>1. ASSUME NEW x \in Node PROVE Holds(x)'
    <3>1. CASE x # n
      <4>1. retry'[x] \subseteq retry[x] \cup {i \in Number : i <= num[x]}
        BY <1>1
      <4>. QED  BY <1>1, <1>7, <1>8, <1>10, <3>1, <4>1, HoldsKept
    <3>2. CASE x = n
      <4>1. Holds(n) /\ blocks \in [Node -> SUBSET Number] /\ retry \in [Node -> SUBSET Number]
        BY <1>3 DEF NInv, Typed, TypedVars, Stores
      <4>2. num[n] <= num'[n] /\ num[n] \in Nat /\ num'[n] \in Nat /\ served[n] \in Nat
        BY <1>3, <1>5, <1>6, <1>8
      <4>3. ~(phase[n] \in {"tx", "run"}) /\ blocks[n] \subseteq Nat /\ retry[n] \subseteq Nat
        BY <1>3, <4>1 DEF Number
      <4>4. Careful(n) => /\ served[n] <= num'[n]
                          /\ blocks[n] \subseteq served[n] + 1 .. num'[n]
                          /\ \A i \in retry[n] : i <= num'[n]
        BY <4>1, <4>2, <4>3 DEF Holds
      <4>. QED  BY <1>1, <1>9, <3>2, <4>1, <4>3, <4>4, <1>3 DEF Holds
    <3>. QED  BY <3>1, <3>2
  <2>. QED  BY <2>1 DEF Stores
<1>16. Phases'
  BY <1>1, <1>3, <1>12 DEF NInv, Phases
<1>. QED  BY <1>7, <1>13, <1>14, <1>15, <1>16 DEF NInv, Typed

\* The dialled connections of a joining node are new ones.
LEMMA SetPeersDials ==
  ASSUME NInv, NEW c \in Conn, NEW n \in Ends(c), Reads(n, c, "set_peers"),
         NEW dial, dial = {<<n, p>> : p \in {q \in Incoming(n, c).peers \ (Known(n) \cup {n}) : Bootstrap(n)}}
  PROVE  /\ n = c[1] /\ Bootstrap(n) /\ c \notin dial
         /\ \A d \in dial : /\ d \in Conn /\ d[1] = n
                            /\ \A e \in End : e[1] = d => side[e] = "none"
<1>1. "set_peers" \in Step
  BY DEF Step
<1>2. /\ n = c[1] /\ n \in Node /\ phase[n] = "num" /\ OnlyBootNode(n) /\ c[2] = BootNode
      /\ Incoming(n, c) \in Msg /\ Incoming(n, c).t = "set_peers"
  <2>1. /\ c[2] = BootNode /\ c[1] \in Node /\ phase[c[1]] = "num" /\ n = c[1]
        /\ Incoming(n, c) \in Msg /\ Incoming(n, c).t = "set_peers"
    BY <1>1, StepRead
  <2>2. OnlyBootNode(c[1])
    BY <1>1, StepRead
  <2>. QED  BY <2>1, <2>2
<1>3. Incoming(n, c).peers \subseteq Node
  BY <1>2 DEF Msg
<1>4. Bootstrap(n)
  BY <1>2 DEF Bootstrap
<1>5. BootNode \in Known(n)
  <2>1. c \in Peers(n)
    BY DEF Peers, Reads
  <2>2. Other(c, n) = BootNode
    BY <1>2 DEF Other
  <2>. QED  BY <2>1, <2>2 DEF Known
<1>6. n # BootNode
  BY <1>2 DEF Conn
<1>7. ASSUME NEW d \in dial
      PROVE  d \in Conn /\ d[1] = n /\ d[2] # BootNode
  BY <1>2, <1>3, <1>5, <1>6 DEF Conn
<1>8. \A d \in dial : \A e \in End : e[1] = d => side[e] = "none"
  BY <1>2, <1>7 DEF OnlyBootNode
<1>. QED  BY <1>2, <1>4, <1>7, <1>8

\* A joining node dials the peers of the bootstrap node.
LEMMA SetPeersNInv ==
  ASSUME NInv, NEW c \in Conn, NEW n \in Ends(c), SetPeers(n, c)
  PROVE  NInv'
<1>0. PICK dial : dial = {<<n, p>> : p \in {q \in Incoming(n, c).peers \ (Known(n) \cup {n}) : Bootstrap(n)}}
  OBVIOUS
<1>. DEFINE hello == {<<e, Plain("nodeid")>> : e \in {x \in End : x[1] \in dial}}
            ask == {<<e, Plain("get_num_blocks")>> : e \in {x \in {<<c, n>>} : Bootstrap(n)}}
            f == <<c, n>>
            r == <<c, Other(c, n)>>
<1>1. /\ Reads(n, c, "set_peers")
      /\ side' = [e \in End |-> IF e[1] \in dial THEN "NODEID" ELSE side[e]]
      /\ ReadAndSend(n, c, hello \cup ask)
      /\ UNCHANGED <<phase, ckNum, txPool, chunks, retry, num, served, blocks,
                     queries, taken, poolq, height, fragile, over>>
  BY <1>0 DEF SetPeers, loops, store, asked, world
<1>2. /\ n = c[1] /\ Bootstrap(n) /\ c \notin dial
      /\ \A d \in dial : d \in Conn /\ d[1] = n /\ \A e \in End : e[1] = d => side[e] = "none"
  BY <1>0, <1>1, SetPeersDials
<1>3. PICK Out : Out = hello \cup {<<f, Plain("get_num_blocks")>>}
  OBVIOUS
<1>4. ReadAndSend(n, c, Out)
  <2>1. ask = {<<f, Plain("get_num_blocks")>>}
    BY <1>2
  <2>. QED  BY <1>1, <1>3, <2>1
<1>5. /\ r \in End /\ r[1] = c /\ StepAt(r, 1) /\ chan[r] # <<>> /\ Head(chan[r]).t = "set_peers"
      /\ f \in End /\ f[1] = c /\ f[2] = n /\ Far(r) = f /\ side[f] = "peer"
      /\ phase[n] = "num" /\ ~ckNum[n] /\ n \in Node /\ n # BootNode
  <2>1. "set_peers" \in Step
    BY DEF Step
  <2>2. /\ r \in End /\ StepAt(r, 1) /\ chan[r] # <<>> /\ Head(chan[r]).t = "set_peers"
        /\ phase[n] = "num" /\ ~ckNum[n]
    BY <1>1, <1>2, <2>1, StepRead DEF Incoming
  <2>. QED  BY <1>1, <1>2, <2>2, EndFacts DEF Reads, Conn
<1>. HIDE DEF f, r
<1>6. /\ Plain("nodeid") \in Msg /\ Plain("get_num_blocks") \in Msg
      /\ Plain("nodeid").t = "nodeid" /\ Plain("get_num_blocks").t = "get_num_blocks"
  BY DEF Plain, Msg
<1>7. \A o \in Out : \/ \E e \in End : e[1] \in dial /\ o = <<e, Plain("nodeid")>>
                     \/ o = <<f, Plain("get_num_blocks")>>
  BY <1>3
<1>8. Letters(Out)
  BY <1>2, <1>5, <1>6, <1>7 DEF Letters
<1>9. \A e \in End : e[1] \in dial => <<e, Plain("nodeid")>> \in Out
  BY <1>3
<1>. HIDE DEF hello, ask
<1>10. PICK W : /\ W \in [End -> Seq(Msg)] /\ Flow(r, W)
                /\ \A e \in End : /\ \A m \in ToSet(W[e]) : <<e, m>> \in Out
                                  /\ W[e] = Written(e, Out)
  BY <1>4, <1>8, ReadFlow DEF r
<1>11. \A e \in End : \A m \in ToSet(W[e]) :
          \/ e[1] \in dial /\ m.t = "nodeid"
          \/ e = f /\ m.t = "get_num_blocks"
  <2>1. \A e \in End : \A m : <<e, m>> \in Out =>
          \/ e[1] \in dial /\ m.t = "nodeid"
          \/ e = f /\ m.t = "get_num_blocks"
    BY <1>6, <1>7
  <2>. QED  BY <1>10, <2>1
<1>12. TypedVars'
  <2>1. side' \in [End -> {"none", "NODEID", "peer", "closed"}]
    BY <1>1 DEF NInv, Typed, TypedVars
  <2>. QED  BY <1>1, <2>1 DEF NInv, Typed, TypedVars
<1>13. Growth
  <2>1. height <= height' /\ \A x \in Node : num[x] <= num'[x]
    BY <1>1 DEF NInv, Typed, TypedVars
  <2>2. \A x \in Node : Careful(x)' => Careful(x)
    BY <1>1 DEF Careful, Running
  <2>. QED  BY <2>1, <2>2 DEF Growth
<1>14. chan \in [End -> Seq(Msg)]
  BY DEF NInv, Typed, TypedChan
<1>15. /\ chan' \in [End -> Seq(Msg)]
       /\ \A e \in End :
            /\ ToSet(chan'[e]) \subseteq ToSet(chan[e]) \cup ToSet(W[e])
            /\ ToSet(W[e]) \subseteq ToSet(chan'[e])
            /\ \A m \in ToSet(chan[e]) : m \in ToSet(chan'[e]) \/ (e = r /\ m = Head(chan[e]))
            /\ e # r /\ chan[e] # <<>> => chan'[e] # <<>>
  <2>1. r \in End => chan[r] # <<>>
    BY <1>5
  <2>2. W \in [End -> Seq(Msg)] /\ Flow(r, W)
    BY <1>10
  <2>3. /\ chan' \in [End -> Seq(Msg)]
        /\ \A e \in End :
             /\ ToSet(chan'[e]) \subseteq ToSet(chan[e]) \cup ToSet(W[e])
             /\ ToSet(W[e]) \subseteq ToSet(chan'[e])
             /\ \A m \in ToSet(chan[e]) : m \in ToSet(chan'[e]) \/ (e = r /\ m = Head(chan[e]))
             /\ e # r /\ chan[e] # <<>> => chan'[e] # <<>>
             /\ \A i \in Nat : i \in DOMAIN chan'[e] => CameFrom(e, i, r, W)
    BY ONLY <1>14, <2>1, <2>2, FlowFacts
  <2>. QED  BY ONLY <2>3
<1>16. Contents'
  <2>1. \A e \in End : \A m \in ToSet(W[e]) : Right(e, m)'
    BY <1>11 DEF Right
  <2>. QED  BY <1>12, <1>13, <1>15, <2>1, ContentsKept
<1>17. Joining'
  <2>1. \A d \in End : d[1][1] # r[1][1] /\ side[d] = "none" => side'[d] = "none"
    BY <1>1, <1>2, <1>5
  <2>2. \A x \in Node : x # r[1][1] /\ phase[x] = "num" /\ ~ckNum[x]
                           => phase'[x] = "num" /\ ~ckNum'[x]
    BY <1>1
  <2>3. \A e \in End : W[e] = <<>> \/ \E m \in Msg : W[e] = <<m>>
    <3>1. \A e \in End : Written(e, Out) = <<>> \/ \E m \in Msg : Written(e, Out) = <<m>>
      <4>1. ASSUME NEW e \in End
            PROVE  Written(e, Out) = <<>> \/ \E m \in Msg : <<e, m>> \in Out /\ Written(e, Out) = <<m>>
        BY ONLY WrittenFacts, <1>8, e \in End
      <4>. QED  BY <4>1
    <3>. QED  BY <1>10, <3>1
  <2>4. \A e \in End : \A i \in DOMAIN W[e] : i = 1 /\ W[e][i] \in ToSet(W[e])
    BY <2>3 DEF ToSet
  <2>5. \A e \in End : \A i \in DOMAIN W[e] : W[e][i].t \in Step => e = f /\ i = 1
    BY <1>11, <2>4 DEF Step
  <2>6. \A i \in DOMAIN W[f] : W[f][i].t = "get_num_blocks"
    BY <1>2, <1>5, <1>11, <2>4
  <2>7. phase'[f[1][1]] = "num" /\ ~ckNum'[f[1][1]] /\ f[2] = f[1][1] /\ f[1] = r[1]
    BY <1>1, <1>2, <1>5
  <2>8. \A i \in DOMAIN W[f] : W[f][i].t \in Step =>
            /\ W[f][i].t \in {"set_peers", "set_num_blocks"} => f[2] = BootNode
            /\ W[f][i].t \in {"get_peers", "get_num_blocks"} => f[2] = f[1][1]
            /\ phase'[f[1][1]] = "num" /\ ~ckNum'[f[1][1]]
            /\ W[f][i].t \in {"get_peers", "set_peers"} => OnlyBootNode(f[1][1])'
    BY <2>6, <2>7
  <2>. QED  BY <1>5, <1>10, <2>1, <2>2, <2>5, <2>7, <2>8, StepMoved
<1>18. Handshake'
  <2>1. \A e \in End : HasFin(e)' <=> HasFin(e)
    <3>1. \A e \in End : \A m \in ToSet(W[e]) : m.t # "fin"
      BY <1>11
    <3>. QED  BY <1>5, <1>15, <3>1 DEF HasFin
  <2>2. \A e \in End : e[1] \in dial => chan'[e] # <<>>
    <3>1. ASSUME NEW e \in End, e[1] \in dial PROVE chan'[e] # <<>>
      <4>1. ~Gone(e)
        <5>1. Far(e) \in End /\ Far(e)[1] = e[1] /\ Far(e) = <<e[1], Other(e[1], e[2])>>
          BY EndFacts DEF Far
        <5>. QED  BY <1>2, <3>1, <5>1 DEF Gone
      <4>2. W[e] = <<Plain("nodeid")>>
        <5>1. Written(e, Out) = <<Plain("nodeid")>>
          BY <1>8, <1>9, <3>1, <4>1, WrittenFacts
        <5>. QED  BY <1>10, <5>1
      <4>3. Plain("nodeid") \in ToSet(chan'[e])
        BY <1>15, <4>2, ToSetSmall
      <4>. QED  BY <4>3, ToSetSmall
    <3>. QED  BY <3>1
  <2>3. ASSUME NEW e \in End PROVE Shaken(e)'
    <3>1. Shaken(e) /\ Far(e) \in End /\ Far(Far(e)) = e /\ Far(e)[1] = e[1]
      BY EndFacts DEF NInv, Handshake
    <3>2. CASE e[1] \in dial
      <4>1. side'[e] = "NODEID" /\ side'[Far(e)] = "NODEID" /\ chan'[Far(e)] # <<>>
        BY <1>1, <2>2, <3>1, <3>2
      <4>2. HasFin(e) => HasFin(Far(e))
        BY <1>2, <3>1, <3>2 DEF Shaken
      <4>. QED  BY <2>1, <3>1, <4>1, <4>2 DEF Shaken, Far
    <3>3. CASE e[1] \notin dial
      <4>1. side'[e] = side[e] /\ side'[Far(e)] = side[Far(e)]
        BY <1>1, <3>1, <3>3
      <4>2. side[e] = "NODEID" => Far(e) # r
        BY <1>5, <3>1
      <4>3. side[e] = "NODEID" => chan'[Far(e)] # <<>>
        BY <1>15, <3>1, <4>2 DEF Shaken
      <4>. QED  BY <2>1, <3>1, <4>1, <4>3 DEF Shaken, Far
    <3>. QED  BY <3>2, <3>3
  <2>4. \A x \in Node : Peers(x)' = Peers(x)
    <3>1. \A e \in End : side'[e] = "peer" <=> side[e] = "peer"
      BY <1>1, <1>2
    <3>2. \A x : \A d \in Conn : x \in Ends(d) => <<d, x>> \in End
      BY EndFacts
    <3>. QED  BY <3>1, <3>2 DEF Peers
  <2>5. \A x \in Node : OnePerPeer(x)'
    BY <2>4 DEF NInv, Handshake, OnePerPeer
  <2>. QED  BY <2>3, <2>5 DEF Handshake
<1>19. Queries'
  BY <1>1, <1>12, <1>13, QueriesKept
<1>20. Stores'
  <2>1. \A x \in Node : retry'[x] \subseteq retry[x] \cup {i \in Number : i <= num[x]}
    BY <1>1
  <2>. QED  BY <1>1, <1>12, <1>13, <2>1, HoldsKept DEF Stores
<1>21. Phases'
  <2>1. \A x \in Node : phase[x] = "off" => \A d \in End : d[1][1] = x => side'[d] = side[d]
    BY <1>1, <1>2, <1>5
  <2>. QED  BY <1>1, <2>1 DEF NInv, Phases
<1>. QED  BY <1>12, <1>15, <1>16, <1>17, <1>18, <1>19, <1>20, <1>21 DEF NInv, Typed, TypedChan

-----------------------------------------------------------------------------
(***************************************************************************)
(* The actions: connections.                                               *)
(***************************************************************************)

\* A node dials the bootstrap node and asks for its peers.
LEMMA StartNInv ==
  ASSUME NInv, NEW n \in Node, Start(n)
  PROVE  NInv'
<1>. DEFINE c == <<n, BootNode>>
            a == <<c, n>>
            b == <<c, BootNode>>
<1>1. /\ phase[n] = "off" /\ phase' = [phase EXCEPT ![n] = "num"]
      /\ side' = [e \in End |-> IF e[1] = c THEN "NODEID" ELSE side[e]]
      /\ chan' = [chan EXCEPT ![a] = <<Plain("nodeid"), Plain("get_peers")>>,
                              ![b] = <<Plain("nodeid")>>]
      /\ UNCHANGED <<ckNum, txPool, chunks, retry, num, served, blocks,
                     queries, taken, poolq, height, fragile, over>>
  BY DEF Start, store, asked, world
<1>2. n # BootNode /\ ~ckNum[n] /\ \A d \in End : d[1][1] = n => side[d] = "none"
  BY <1>1 DEF NInv, Phases
<1>3. c \in Conn /\ a \in End /\ b \in End /\ a # b /\ Far(a) = b /\ Far(b) = a
      /\ \A e \in End : e[1] = c => e = a \/ e = b
  <2>1. c \in Conn /\ n \in Ends(c) /\ BootNode \in Ends(c) /\ Other(c, n) = BootNode
    BY <1>2, NetworkAssumption DEF Conn, Ends, Other
  <2>2. a \in End /\ b \in End /\ Far(a) = b /\ Far(b) = a
    BY <2>1, EndFacts
  <2>3. \A e \in End : e[1] = c => e = a \/ e = Far(a)
    BY <2>2, EndFacts
  <2>. QED  BY <1>2, <2>1, <2>2, <2>3
<1>4. a[1] = c /\ b[1] = c /\ a[2] = n /\ b[2] = BootNode /\ c[1] = n /\ c[2] = BootNode
  OBVIOUS
<1>5. \A e \in End : e[1][1] = n /\ e[1][2] = BootNode => e[1] = c
  BY EndFacts DEF Conn
<1>. HIDE DEF a, b, c
<1>6. /\ Plain("nodeid") \in Msg /\ Plain("get_peers") \in Msg
      /\ Plain("nodeid").t = "nodeid" /\ Plain("get_peers").t = "get_peers"
  BY DEF Plain, Msg
<1>7. chan \in [End -> Seq(Msg)]
  BY DEF NInv, Typed, TypedChan
<1>8. /\ chan'[a] = <<Plain("nodeid"), Plain("get_peers")>> /\ chan'[b] = <<Plain("nodeid")>>
      /\ \A e \in End : e[1] # c => chan'[e] = chan[e]
  BY <1>1, <1>3, <1>4, <1>7
<1>9. chan' \in [End -> Seq(Msg)]
  <2>1. <<Plain("nodeid"), Plain("get_peers")>> \in Seq(Msg) /\ <<Plain("nodeid")>> \in Seq(Msg)
    BY <1>6
  <2>. QED  BY <1>1, <1>7, <2>1
<1>10. \A e \in {a, b} : \A i \in DOMAIN chan'[e] :
         /\ chan'[e][i].t \in {"nodeid", "get_peers"}
         /\ chan'[e][i].t \in Step => e = a /\ i = 2 /\ chan'[e][i].t = "get_peers"
  <2>1. \A i \in DOMAIN chan'[a] : (i = 1 /\ chan'[a][i].t = "nodeid") \/ (i = 2 /\ chan'[a][i].t = "get_peers")
    BY <1>6, <1>8
  <2>2. \A i \in DOMAIN chan'[b] : chan'[b][i].t = "nodeid"
    BY <1>6, <1>8
  <2>. QED  BY <2>1, <2>2 DEF Step
<1>11. TypedVars'
  <2>1. side' \in [End -> {"none", "NODEID", "peer", "closed"}]
    BY <1>1 DEF NInv, Typed, TypedVars
  <2>2. phase' \in [Node -> {"off", "num", "blocks", "tx", "run", "dead"}]
    BY <1>1 DEF NInv, Typed, TypedVars
  <2>. QED  BY <1>1, <2>1, <2>2 DEF NInv, Typed, TypedVars
<1>12. /\ phase \in [Node -> {"off", "num", "blocks", "tx", "run", "dead"}]
       /\ \A x \in Node : phase'[x] = IF x = n THEN "num" ELSE phase[x]
  BY <1>1 DEF NInv, Typed, TypedVars
<1>13. Growth
  <2>1. height <= height' /\ \A x \in Node : num[x] <= num'[x]
    BY <1>1 DEF NInv, Typed, TypedVars
  <2>2. \A x \in Node : Careful(x)' => Careful(x)
    BY <1>1, <1>12 DEF Careful, Running
  <2>. QED  BY <2>1, <2>2 DEF Growth
<1>14. Contents'
  <2>1. ASSUME NEW e \in End, NEW m \in ToSet(chan'[e]) PROVE m \in ToSet(chan[e]) \/ Right(e, m)'
    <3>1. CASE e[1] # c
      BY <1>8, <2>1, <3>1
    <3>2. CASE e[1] = c
      <4>1. m.t \in {"nodeid", "get_peers"}
        BY <1>3, <1>10, <2>1, <3>2 DEF ToSet
      <4>. QED  BY <4>1 DEF Right
    <3>. QED  BY <3>1, <3>2
  <2>. QED  BY <1>11, <1>13, <2>1, ContentsKept
<1>15. Joining'
  <2>1. ASSUME NEW e \in End, NEW i \in Nat, StepAt(e, i)'
        PROVE  \/ e = a /\ i = 2 /\ chan'[e][i].t = "get_peers"
               \/ e[1] # c /\ StepAt(e, i) /\ chan'[e][i] = chan[e][i]
    BY <1>3, <1>8, <1>10, <2>1 DEF StepAt
  <2>2. ASSUME NEW e \in End, NEW i \in Nat, StepAt(e, i)'
        PROVE  /\ e[1][2] = BootNode
               /\ chan'[e][i].t \in {"set_peers", "set_num_blocks"} => e[2] = BootNode
               /\ chan'[e][i].t \in {"get_peers", "get_num_blocks"} => e[2] = e[1][1]
               /\ phase'[e[1][1]] = "num" /\ ~ckNum'[e[1][1]]
               /\ \A f \in End : \A j \in Nat : f[1] = e[1] /\ StepAt(f, j)' => f = e /\ i = j
               /\ chan'[e][i].t \in {"get_peers", "set_peers"} => OnlyBootNode(e[1][1])'
    <3>1. CASE e = a /\ i = 2 /\ chan'[e][i].t = "get_peers"
      <4>1. OnlyBootNode(n)'
        BY <1>1, <1>2, <1>4 DEF OnlyBootNode
      <4>2. \A f \in End : \A j \in Nat : f[1] = e[1] /\ StepAt(f, j)' => f = e /\ i = j
        BY <1>4, <2>1, <3>1
      <4>. QED  BY <1>1, <1>2, <1>4, <1>12, <3>1, <4>1, <4>2
    <3>2. CASE e[1] # c /\ StepAt(e, i) /\ chan'[e][i] = chan[e][i]
      <4>1. /\ e[1][2] = BootNode
            /\ chan[e][i].t \in {"set_peers", "set_num_blocks"} => e[2] = BootNode
            /\ chan[e][i].t \in {"get_peers", "get_num_blocks"} => e[2] = e[1][1]
            /\ phase[e[1][1]] = "num" /\ ~ckNum[e[1][1]]
            /\ \A f \in End : \A j \in Nat : f[1] = e[1] /\ StepAt(f, j) => f = e /\ i = j
            /\ chan[e][i].t \in {"get_peers", "set_peers"} => OnlyBootNode(e[1][1])
        BY <3>2 DEF NInv, Joining
      <4>2. e[1][1] # n /\ e[1][1] \in Node
        BY <1>5, <3>2, <4>1, EndFacts DEF Conn
      <4>3. OnlyBootNode(e[1][1]) => OnlyBootNode(e[1][1])'
        BY <1>1, <1>4, <4>2 DEF OnlyBootNode
      <4>4. \A f \in End : \A j \in Nat : f[1] = e[1] /\ StepAt(f, j)' => f = e /\ i = j
        BY <1>4, <2>1, <3>2, <4>1
      <4>. QED  BY <1>1, <1>12, <3>2, <4>1, <4>2, <4>3, <4>4
    <3>. QED  BY <2>1, <2>2, <3>1, <3>2
  <2>. QED  BY <2>2 DEF Joining
<1>16. Handshake'
  <2>1. \A e \in End : e[1] # c => (HasFin(e)' <=> HasFin(e))
    BY <1>8 DEF HasFin
  <2>2. ~HasFin(a)' /\ ~HasFin(b)' /\ chan'[a] # <<>> /\ chan'[b] # <<>>
    BY <1>8, <1>10 DEF HasFin, ToSet
  <2>3. ASSUME NEW e \in End PROVE Shaken(e)'
    <3>1. Shaken(e) /\ Far(e) \in End /\ Far(e)[1] = e[1] /\ Far(Far(e)) = e
      BY EndFacts DEF NInv, Handshake
    <3>2. CASE e[1] = c
      <4>1. side'[e] = "NODEID" /\ side'[Far(e)] = "NODEID" /\ chan'[Far(e)] # <<>> /\ ~HasFin(e)'
        BY <1>1, <1>3, <2>2, <3>1, <3>2
      <4>. QED  BY <4>1 DEF Shaken, Far
    <3>3. CASE e[1] # c
      <4>1. side'[e] = side[e] /\ side'[Far(e)] = side[Far(e)] /\ chan'[Far(e)] = chan[Far(e)]
        BY <1>1, <1>8, <3>1, <3>3
      <4>. QED  BY <2>1, <3>1, <3>3, <4>1 DEF Shaken, Far
    <3>. QED  BY <3>2, <3>3
  <2>4. \A x \in Node : Peers(x)' = Peers(x)
    <3>1. \A e \in End : side'[e] = "peer" <=> side[e] = "peer"
      BY <1>1, <1>2, <1>4
    <3>2. \A x : \A d \in Conn : x \in Ends(d) => <<d, x>> \in End
      BY EndFacts
    <3>. QED  BY <3>1, <3>2 DEF Peers
  <2>5. \A x \in Node : OnePerPeer(x)'
    BY <2>4 DEF NInv, Handshake, OnePerPeer
  <2>. QED  BY <2>3, <2>5 DEF Handshake
<1>17. Queries'
  BY <1>1, <1>11, <1>13, QueriesKept
<1>18. Stores'
  <2>1. \A x \in Node : retry'[x] \subseteq retry[x] \cup {i \in Number : i <= num[x]}
    BY <1>1
  <2>2. \A x \in Node : phase'[x] \in {"tx", "run"} => phase[x] \in {"tx", "run"}
    BY <1>12
  <2>. QED  BY <1>1, <1>11, <1>13, <2>1, <2>2, HoldsKept DEF Stores
<1>19. Phases'
  BY <1>1, <1>2, <1>4, <1>12 DEF NInv, Phases
<1>. QED  BY <1>9, <1>11, <1>14, <1>15, <1>16, <1>17, <1>18, <1>19 DEF NInv, Typed, TypedChan

\* A step that only cuts channels, or writes that an end is closed.
LEMMA CutKept ==
  ASSUME NInv, chan' \in [End -> Seq(Msg)],
         \A e \in End : \A i \in DOMAIN chan'[e] :
            \/ chan'[e][i].t = "fin"
            \/ i \in DOMAIN chan[e] /\ chan'[e][i] = chan[e][i],
         \A d \in End : side[d] = "none" => side'[d] = "none",
         side' \in [End -> {"none", "NODEID", "peer", "closed"}],
         queries' \in [End -> SUBSET Number], \A e \in End : queries'[e] \subseteq queries[e],
         fragile' \subseteq fragile,
         UNCHANGED <<loops, store, taken, poolq, height, over>>
  PROVE  Typed' /\ Contents' /\ Queries' /\ Stores' /\ Joining' /\ Phases'
<1>1. UNCHANGED <<phase, ckNum, txPool, chunks, retry, num, served, blocks, taken, poolq,
                  height, over>>
  BY DEF loops, store
<1>2. TypedVars'
  BY <1>1 DEF NInv, Typed, TypedVars
<1>3. Growth
  <2>1. height <= height' /\ \A x \in Node : num[x] <= num'[x]
    BY <1>1 DEF NInv, Typed, TypedVars
  <2>2. \A x \in Node : Careful(x)' => Careful(x)
    BY <1>1 DEF Careful, Running
  <2>. QED  BY <2>1, <2>2 DEF Growth
<1>4. Contents'
  <2>1. ASSUME NEW e \in End, NEW m \in ToSet(chan'[e]) PROVE m \in ToSet(chan[e]) \/ Right(e, m)'
    <3>1. m.t = "fin" \/ m \in ToSet(chan[e])
      BY <2>1 DEF ToSet
    <3>2. m.t = "fin" => Right(e, m)'
      BY DEF Right
    <3>. QED  BY <3>1, <3>2
  <2>. QED  BY <1>2, <1>3, <2>1, ContentsKept
<1>5. Joining'
  <2>. DEFINE shift == [e \in End |-> 0]
  <2>1. shift \in [End -> {0, 1}] /\ \A e \in End : \A i \in Nat : i + shift[e] = i
    OBVIOUS
  <2>2. \A e \in End : \A i \in Nat : i \in DOMAIN chan'[e] /\ chan'[e][i].t \in Step =>
            i + shift[e] \in DOMAIN chan[e] /\ chan'[e][i] = chan[e][i + shift[e]]
    <3>1. \A e \in End : \A i \in Nat : i \in DOMAIN chan'[e] /\ chan'[e][i].t \in Step =>
            i \in DOMAIN chan[e] /\ chan'[e][i] = chan[e][i]
      BY DEF Step
    <3>. HIDE DEF shift
    <3>. QED  BY <2>1, <3>1
  <2>. HIDE DEF shift
  <2>. QED  BY <1>1, <2>1, <2>2, JoiningKept
<1>6. Queries'
  BY <1>2, <1>3, QueriesKept
<1>7. Stores'
  <2>1. \A x \in Node : retry'[x] \subseteq retry[x] \cup {i \in Number : i <= num[x]}
    BY <1>1
  <2>. QED  BY <1>1, <1>2, <1>3, <2>1, HoldsKept DEF Stores
<1>8. Phases'
  BY <1>1 DEF NInv, Phases
<1>. QED  BY <1>2, <1>4, <1>5, <1>6, <1>7, <1>8 DEF Typed, TypedChan

\* The node id of a node that is not known yet registers the connection.
LEMMA NodeIdNewNInv ==
  ASSUME NInv, NEW c \in Conn, NEW n \in Ends(c), NodeId(n, c), Other(c, n) \notin Known(n)
  PROVE  NInv'
<1>. DEFINE f == <<c, n>>
            r == <<c, Other(c, n)>>
<1>1. /\ side[f] = "NODEID" /\ chan[r] # <<>> /\ Head(chan[r]).t = "nodeid"
      /\ side' = [side EXCEPT ![f] = "peer"] /\ ReadAndSend(n, c, {})
      /\ UNCHANGED <<loops, store, taken, poolq, queries, fragile, height, over>>
  BY DEF NodeId, CanRead, Incoming, asked, world
<1>2. UNCHANGED <<phase, ckNum, txPool, chunks, retry, num, served, blocks, taken, poolq,
                  height, over, queries, fragile>>
  BY <1>1 DEF loops, store
<1>3. f \in End /\ r \in End /\ Far(f) = r /\ Far(r) = f /\ f # r /\ n \in Node
  BY EndFacts
<1>4. f[1] = c /\ f[2] = n
  OBVIOUS
<1>5. PICK W : /\ W \in [End -> Seq(Msg)] /\ Flow(r, W)
               /\ \A e \in End : \A m \in ToSet(W[e]) : <<e, m>> \in {}
  <2>1. PICK Out : Out = {}
    OBVIOUS
  <2>2. Letters(Out) /\ ReadAndSend(n, c, Out)
    BY <1>1, <2>1, FewLetters
  <2>3. PICK W : /\ W \in [End -> Seq(Msg)] /\ Flow(r, W)
                 /\ \A e \in End : /\ \A m \in ToSet(W[e]) : <<e, m>> \in Out
                                   /\ W[e] = Written(e, Out)
    BY <2>2, ReadFlow
  <2>. QED  BY <2>1, <2>3
<1>. HIDE DEF f, r
<1>6. chan \in [End -> Seq(Msg)] /\ side \in [End -> {"none", "NODEID", "peer", "closed"}]
  BY DEF NInv, Typed, TypedChan, TypedVars
<1>7. /\ chan' \in [End -> Seq(Msg)]
      /\ \A e \in End :
           /\ ToSet(chan'[e]) \subseteq ToSet(chan[e]) \cup ToSet(W[e])
           /\ \A m \in ToSet(chan[e]) : m \in ToSet(chan'[e]) \/ (e = r /\ m = Head(chan[e]))
           /\ e # r /\ chan[e] # <<>> => chan'[e] # <<>>
  BY <1>1, <1>5, <1>6, FlowFacts
<1>8. /\ side' \in [End -> {"none", "NODEID", "peer", "closed"}]
      /\ side'[f] = "peer" /\ \A e \in End : e # f => side'[e] = side[e]
  BY <1>1, <1>3, <1>6
<1>9. TypedVars'
  BY <1>2, <1>8 DEF NInv, Typed, TypedVars
<1>10. Growth
  <2>1. height <= height' /\ \A x \in Node : num[x] <= num'[x]
    BY <1>2 DEF NInv, Typed, TypedVars
  <2>2. \A x \in Node : Careful(x)' => Careful(x)
    BY <1>2 DEF Careful, Running
  <2>. QED  BY <2>1, <2>2 DEF Growth
<1>11. \A e \in End : \A m \in ToSet(W[e]) : FALSE
  BY <1>5
<1>12. Contents'
  BY <1>7, <1>9, <1>10, <1>11, ContentsKept
<1>13. \A d \in End : side[d] = "none" => side'[d] = "none"
  BY <1>1, <1>8
<1>14. Joining'
  BY <1>1, <1>2, <1>5, <1>11, <1>13, FlowJoining
<1>15. \A e \in End : HasFin(e)' <=> HasFin(e)
  BY <1>1, <1>7, <1>11 DEF HasFin
<1>16. ASSUME NEW e \in End PROVE Shaken(e)'
  <2>1. Shaken(e) /\ Far(e) \in End /\ Far(Far(e)) = e
    BY EndFacts DEF NInv, Handshake
  <2>2. CASE e = f
    BY <1>1, <1>3, <1>8, <1>15, <2>1, <2>2 DEF Shaken, Far
  <2>3. CASE e # f
    <3>1. side[e] = "NODEID" => chan'[Far(e)] # <<>>
      BY <1>3, <1>7, <2>1, <2>3 DEF Shaken
    <3>2. side'[e] = side[e] /\ (side[e] = "none" => side'[Far(e)] = "none")
      BY <1>1, <1>8, <2>1, <2>3 DEF Shaken
    <3>3. side[Far(e)] = "closed" <=> side'[Far(e)] = "closed"
      BY <1>1, <1>8, <2>1
    <3>. QED  BY <1>15, <2>1, <3>1, <3>2, <3>3 DEF Shaken, Far
  <2>. QED  BY <2>2, <2>3
<1>17. ASSUME NEW x \in Node PROVE OnePerPeer(x)'
  <2>1. \A d \in Conn : x \in Ends(d) => <<d, x>> \in End /\ (d # c \/ x # n => <<d, x>> # f)
    <3>1. \A d \in Conn : x \in Ends(d) => <<d, x>> \in End
      BY EndFacts
    <3>2. \A d : d # c \/ x # n => <<d, x>> # f
      BY DEF f
    <3>. QED  BY <3>1, <3>2
  <2>2. \A d \in Peers(x)' : d \in Peers(x) \/ (d = c /\ x = n)
    BY <1>8, <2>1 DEF Peers
  <2>3. \A d \in Peers(n) : Other(d, n) # Other(c, n)
    BY DEF Known
  <2>4. OnePerPeer(x)
    BY DEF NInv, Handshake
  <2>. QED  BY <2>2, <2>3, <2>4 DEF OnePerPeer
<1>18. Handshake'
  BY <1>16, <1>17 DEF Handshake
<1>19. Queries'
  BY <1>2, <1>9, <1>10, QueriesKept
<1>20. Stores'
  <2>1. \A x \in Node : retry'[x] \subseteq retry[x] \cup {i \in Number : i <= num[x]}
    BY <1>2
  <2>. QED  BY <1>2, <1>9, <1>10, <2>1, HoldsKept DEF Stores
<1>21. Phases'
  BY <1>2, <1>13 DEF NInv, Phases
<1>. QED  BY <1>7, <1>9, <1>12, <1>14, <1>18, <1>19, <1>20, <1>21 DEF NInv, Typed, TypedChan

\* Registrations that are only withdrawn stay one per peer.
LEMMA OnePerPeerCut ==
  ASSUME NInv, \A e \in End : side'[e] = "peer" => side[e] = "peer"
  PROVE  \A x \in Node : OnePerPeer(x)'
<1>1. \A x : \A d \in Conn : x \in Ends(d) => <<d, x>> \in End
  BY EndFacts
<1>2. \A x \in Node : Peers(x)' \subseteq Peers(x)
  BY <1>1 DEF Peers
<1>. QED  BY <1>2 DEF NInv, Handshake, OnePerPeer

\* An end closes: nothing more comes from the other end, and if that one is not closed
\* itself the channel to it ends with the note.
LEMMA ClosedHandshake ==
  ASSUME NInv, NEW f \in End, side[f] \in {"NODEID", "peer"},
         side' = [side EXCEPT ![f] = "closed"],
         chan'[Far(f)] = <<>>,
         side[Far(f)] = "closed" \/ HasFin(f)',
         \A e \in End : e[1] # f[1] => chan'[e] = chan[e]
  PROVE  Handshake'
<1>. DEFINE r == Far(f)
<1>1. /\ r \in End /\ Far(r) = f /\ f # r /\ \A e \in End : e[1] = f[1] => e = f \/ e = r
      /\ \A e \in End : Far(e) \in End /\ Far(e)[1] = e[1]
  BY EndFacts
<1>2. side \in [End -> {"none", "NODEID", "peer", "closed"}]
  BY DEF NInv, Typed, TypedVars
<1>3. side'[f] = "closed" /\ \A e \in End : e # f => side'[e] = side[e]
  BY <1>2
<1>4. chan'[r] = <<>> /\ (side[r] = "closed" \/ HasFin(f)')
  OBVIOUS
<1>. HIDE DEF r
<1>5. ~HasFin(r)'
  BY <1>4, ToSetSmall DEF HasFin
<1>6. HasFin(f)' => chan'[f] # <<>>
  BY ToSetSmall DEF HasFin
<1>7. \A e \in End : e[1] # f[1] => (HasFin(e)' <=> HasFin(e))
  BY DEF HasFin
<1>8. ASSUME NEW e \in End PROVE Shaken(e)'
  <2>1. Shaken(e) /\ Far(e) \in End /\ Far(e)[1] = e[1] /\ Shaken(r)
    BY <1>1 DEF NInv, Handshake
  <2>2. CASE e = f
    <3>1. Far(e) = r
      BY <2>2 DEF r
    <3>. QED  BY <1>1, <1>3, <1>4, <1>5, <2>2, <3>1 DEF Shaken, Far
  <2>3. CASE e = r
    <3>1. Far(e) = f /\ side[r] # "none"
      BY <1>1, <2>1, <2>3 DEF Shaken
    <3>2. side'[r] = "NODEID" => chan'[f] # <<>>
      BY <1>1, <1>3, <1>4, <1>6
    <3>. QED  BY <1>1, <1>3, <1>5, <2>3, <3>1, <3>2 DEF Shaken, Far
  <2>4. CASE e[1] # f[1]
    <3>1. Far(e) # f /\ e # f
      BY <2>1, <2>4
    <3>2. side'[e] = side[e] /\ side'[Far(e)] = side[Far(e)] /\ chan'[Far(e)] = chan[Far(e)]
      BY <1>3, <2>1, <2>4, <3>1
    <3>. QED  BY <1>7, <2>1, <2>4, <3>2 DEF Shaken, Far
  <2>. QED  BY <1>1, <2>2, <2>3, <2>4
<1>9. \A x \in Node : OnePerPeer(x)'
  <2>1. \A e \in End : side'[e] = "peer" => side[e] = "peer"
    BY <1>3
  <2>. QED  BY <2>1, OnePerPeerCut
<1>. QED  BY <1>8, <1>9 DEF Handshake

\* A further connection to a known node is closed.
LEMMA NodeIdKnownNInv ==
  ASSUME NInv, NEW c \in Conn, NEW n \in Ends(c), NodeId(n, c), Other(c, n) \in Known(n)
  PROVE  NInv'
<1>. DEFINE f == <<c, n>>
            r == <<c, Other(c, n)>>
<1>0. PICK w : w = Written(f, {<<f, Plain("fin")>>})
  OBVIOUS
<1>1. /\ side[f] = "NODEID" /\ side' = [side EXCEPT ![f] = "closed"]
      /\ chan' = [chan EXCEPT ![r] = <<>>, ![f] = @ \o w]
      /\ UNCHANGED <<loops, store, taken, poolq, queries, fragile, height, over>>
  BY <1>0 DEF NodeId, Close, asked, world
<1>2. f \in End /\ r \in End /\ Far(f) = r /\ f # r
      /\ \A e \in End : e[1] = c => e = f \/ e = r
  <2>1. f \in End /\ r \in End /\ Far(f) = r /\ f # r
    BY EndFacts
  <2>2. \A e \in End : e[1] = f[1] => e = f \/ e = Far(f)
    BY <2>1, EndFacts
  <2>. QED  BY <2>1, <2>2
<1>3. f[1] = c /\ r[1] = c /\ Gone(f) = (side[r] = "closed")
  BY DEF Gone
<1>. HIDE DEF f, r
<1>4. Plain("fin") \in Msg /\ Plain("fin").t = "fin"
  BY DEF Plain, Msg
<1>5. (w = <<>> /\ side[r] = "closed") \/ w = <<Plain("fin")>>
  <2>0. PICK Out : Out = {<<f, Plain("fin")>>}
    OBVIOUS
  <2>. DEFINE mine == {o[2] : o \in {x \in Out : x[1] = f}}
  <2>1. mine = {Plain("fin")}
    <3>1. \A o : o \in Out <=> o = <<f, Plain("fin")>>
      BY <2>0
    <3>2. <<f, Plain("fin")>>[1] = f /\ <<f, Plain("fin")>>[2] = Plain("fin")
      OBVIOUS
    <3>. QED  BY <3>1, <3>2
  <2>2. w = IF Gone(f) THEN <<>> ELSE SetToSeq(mine)
    <3>1. w = Written(f, Out)
      BY <1>0, <2>0
    <3>. QED  BY <3>1 DEF Written
  <2>. HIDE DEF mine
  <2>. QED  BY <1>3, <2>1, <2>2, SetToSeqSmall
<1>6. chan \in [End -> Seq(Msg)] /\ side \in [End -> {"none", "NODEID", "peer", "closed"}]
  BY DEF NInv, Typed, TypedChan, TypedVars
<1>7. chan'[r] = <<>> /\ chan'[f] = chan[f] \o w
      /\ \A e \in End : e[1] # c => chan'[e] = chan[e]
  BY <1>1, <1>2, <1>3, <1>6
<1>8. w \in Seq(Msg) /\ chan[f] \in Seq(Msg)
  <2>1. <<>> \in Seq(Msg) /\ <<Plain("fin")>> \in Seq(Msg)
    BY <1>4
  <2>. QED  BY <1>2, <1>5, <1>6, <2>1
<1>9. chan' \in [End -> Seq(Msg)]
  <2>1. chan[f] \o w \in Seq(Msg) /\ <<>> \in Seq(Msg)
    BY <1>8
  <2>2. \A e \in End : chan'[e] = IF e = f THEN chan[f] \o w ELSE IF e = r THEN <<>> ELSE chan[e]
    BY <1>2, <1>3, <1>7
  <2>3. chan' = [e \in End |-> chan'[e]]
    BY <1>1, <1>6
  <2>4. \A e \in End : chan'[e] \in Seq(Msg)
    BY <1>6, <2>1, <2>2
  <2>. QED  BY <2>3, <2>4
<1>10. \A e \in End : \A i \in DOMAIN chan'[e] :
            \/ chan'[e][i].t = "fin"
            \/ i \in DOMAIN chan[e] /\ chan'[e][i] = chan[e][i]
  <2>1. \A i \in DOMAIN (chan[f] \o w) :
            \/ (chan[f] \o w)[i].t = "fin"
            \/ i \in DOMAIN chan[f] /\ (chan[f] \o w)[i] = chan[f][i]
    <3>1. CASE w = <<>>
      BY <1>8, <3>1
    <3>2. CASE w = <<Plain("fin")>>
      BY <1>4, <1>8, <3>2
    <3>. QED  BY <1>5, <3>1, <3>2
  <2>2. ASSUME NEW e \in End, NEW i \in DOMAIN chan'[e]
        PROVE  chan'[e][i].t = "fin" \/ (i \in DOMAIN chan[e] /\ chan'[e][i] = chan[e][i])
    <3>1. CASE e = f
      BY <1>7, <2>1, <2>2, <3>1
    <3>2. CASE e = r
      BY <1>7, <2>2, <3>2
    <3>3. CASE e[1] # c
      BY <1>7, <2>2, <3>3
    <3>. QED  BY <1>2, <3>1, <3>2, <3>3
  <2>. QED  BY <2>2
<1>11. /\ side' \in [End -> {"none", "NODEID", "peer", "closed"}]
       /\ \A d \in End : side[d] = "none" => side'[d] = "none"
  BY <1>1, <1>6
<1>12. Typed' /\ Contents' /\ Queries' /\ Stores' /\ Joining' /\ Phases'
  <2>1. queries' \in [End -> SUBSET Number] /\ \A e \in End : queries'[e] \subseteq queries[e]
    BY <1>1 DEF NInv, Typed, TypedVars
  <2>2. fragile' \subseteq fragile /\ UNCHANGED <<loops, store, taken, poolq, height, over>>
    BY <1>1
  <2>. QED  BY <1>9, <1>10, <1>11, <2>1, <2>2, CutKept
<1>13. Handshake'
  <2>1. side[r] = "closed" \/ HasFin(f)'
    <3>1. ASSUME w = <<Plain("fin")>> PROVE HasFin(f)'
      <4>1. ToSet(chan'[f]) = ToSet(chan[f]) \cup ToSet(w)
        BY <1>7, <1>8, ToSetFacts
      <4>2. Plain("fin") \in ToSet(chan'[f])
        BY <3>1, <4>1, ToSetSmall
      <4>. QED  BY <1>4, <4>2 DEF HasFin
    <3>. QED  BY <1>5, <3>1
  <2>. QED  BY <1>1, <1>2, <1>3, <1>7, <2>1, ClosedHandshake
<1>. QED  BY <1>12, <1>13 DEF NInv

\* The other end has closed, or the connection is broken.
LEMMA ConnectionLostNInv ==
  ASSUME NInv, NEW c \in Conn, NEW n \in Ends(c), ConnectionLost(n, c)
  PROVE  NInv'
<1>. DEFINE f == <<c, n>>
            r == <<c, Other(c, n)>>
<1>1. /\ side[f] \in {"NODEID", "peer"} /\ chan[r] # <<>> /\ Head(chan[r]).t = "fin"
      /\ side' = [side EXCEPT ![f] = "closed"]
      /\ chan' = [chan EXCEPT ![r] = <<>>]
      /\ queries' = [queries EXCEPT ![f] = {}]
      /\ UNCHANGED <<loops, store, taken, poolq, fragile, height, over>>
  BY DEF ConnectionLost, CanRead, Incoming, world
<1>2. f \in End /\ r \in End /\ Far(f) = r /\ Far(r) = f /\ f # r
  BY EndFacts
<1>3. f[1] = c /\ r[1] = c
  OBVIOUS
<1>. HIDE DEF f, r
<1>4. chan \in [End -> Seq(Msg)] /\ side \in [End -> {"none", "NODEID", "peer", "closed"}]
      /\ queries \in [End -> SUBSET Number]
  BY DEF NInv, Typed, TypedChan, TypedVars
<1>5. chan'[r] = <<>> /\ \A e \in End : e # r => chan'[e] = chan[e]
  BY <1>1, <1>2, <1>4
<1>6. chan' \in [End -> Seq(Msg)]
  <2>1. <<>> \in Seq(Msg)
    OBVIOUS
  <2>. QED  BY <1>1, <1>4, <2>1
<1>7. \A e \in End : \A i \in DOMAIN chan'[e] : i \in DOMAIN chan[e] /\ chan'[e][i] = chan[e][i]
  BY <1>5
<1>8. /\ side' \in [End -> {"none", "NODEID", "peer", "closed"}]
      /\ \A d \in End : side[d] = "none" => side'[d] = "none"
  BY <1>1, <1>4
<1>9. Typed' /\ Contents' /\ Queries' /\ Stores' /\ Joining' /\ Phases'
  <2>1. queries' \in [End -> SUBSET Number] /\ \A e \in End : queries'[e] \subseteq queries[e]
    BY <1>1, <1>4
  <2>2. fragile' \subseteq fragile /\ UNCHANGED <<loops, store, taken, poolq, height, over>>
    BY <1>1
  <2>. QED  BY <1>6, <1>7, <1>8, <2>1, <2>2, CutKept
<1>10. Handshake'
  <2>1. HasFin(r)
    BY <1>1, <1>2, <1>4, ToSetFacts DEF HasFin
  <2>2. Shaken(r)
    BY <1>2 DEF NInv, Handshake
  <2>3. side[r] = "closed" \/ HasFin(f)
    BY <1>1, <1>2, <2>1, <2>2 DEF Shaken
  <2>4. HasFin(f) => HasFin(f)'
    BY <1>2, <1>5 DEF HasFin
  <2>5. \A e \in End : e[1] # f[1] => chan'[e] = chan[e]
    BY <1>3, <1>5
  <2>. QED  BY <1>1, <1>2, <1>5, <2>3, <2>4, <2>5, ClosedHandshake
<1>. QED  BY <1>9, <1>10 DEF NInv

\* The network breaks a connection: both ends will learn of it.
LEMMA BreakNInv ==
  ASSUME NInv, NEW c \in Conn, Break(c)
  PROVE  NInv'
<1>1. /\ \A n \in Ends(c) : side[<<c, n>>] \in {"NODEID", "peer"}
      /\ chan' = [e \in End |-> IF e[1] = c THEN <<Plain("fin")>> ELSE chan[e]]
      /\ fragile' = fragile \ {c}
      /\ UNCHANGED <<side, loops, store, queries, taken, poolq, height, over>>
  BY DEF Break, asked
<1>2. Plain("fin") \in Msg /\ Plain("fin").t = "fin"
  BY DEF Plain, Msg
<1>3. chan \in [End -> Seq(Msg)] /\ side \in [End -> {"none", "NODEID", "peer", "closed"}]
      /\ queries \in [End -> SUBSET Number]
  BY DEF NInv, Typed, TypedChan, TypedVars
<1>4. chan' \in [End -> Seq(Msg)]
  <2>1. <<Plain("fin")>> \in Seq(Msg)
    BY <1>2
  <2>. QED  BY <1>1, <1>3, <2>1
<1>5. \A e \in End : \A i \in DOMAIN chan'[e] :
            \/ chan'[e][i].t = "fin"
            \/ i \in DOMAIN chan[e] /\ chan'[e][i] = chan[e][i]
  <2>1. \A i \in DOMAIN <<Plain("fin")>> : <<Plain("fin")>>[i].t = "fin"
    BY <1>2
  <2>. QED  BY <1>1, <2>1
<1>6. Typed' /\ Contents' /\ Queries' /\ Stores' /\ Joining' /\ Phases'
  <2>1. /\ \A d \in End : side[d] = "none" => side'[d] = "none"
        /\ side' \in [End -> {"none", "NODEID", "peer", "closed"}]
        /\ queries' \in [End -> SUBSET Number] /\ \A e \in End : queries'[e] \subseteq queries[e]
        /\ fragile' \subseteq fragile /\ UNCHANGED <<loops, store, taken, poolq, height, over>>
    BY <1>1, <1>3
  <2>. QED  BY <1>4, <1>5, <2>1, CutKept
<1>7. ASSUME NEW e \in End PROVE Shaken(e)'
  <2>1. Shaken(e) /\ Far(e) \in End /\ Far(e)[1] = e[1] /\ e = <<e[1], e[2]>> /\ e[2] \in Ends(e[1])
        /\ Far(e) = <<e[1], Far(e)[2]>> /\ Far(e)[2] \in Ends(e[1])
    BY EndFacts DEF NInv, Handshake
  <2>2. CASE e[1] = c
    <3>1. side[e] \in {"NODEID", "peer"} /\ side[Far(e)] \in {"NODEID", "peer"}
      BY <1>1, <2>1, <2>2
    <3>2. chan'[Far(e)] = <<Plain("fin")>> /\ chan'[e] = <<Plain("fin")>>
      BY <1>1, <2>1, <2>2
    <3>3. HasFin(Far(e))' /\ chan'[Far(e)] # <<>>
      BY <1>2, <3>2, ToSetSmall DEF HasFin, Far
    <3>. QED  BY <1>1, <3>1, <3>3 DEF Shaken, Far
  <2>3. CASE e[1] # c
    <3>1. chan'[e] = chan[e] /\ chan'[Far(e)] = chan[Far(e)]
      BY <1>1, <2>1, <2>3
    <3>. QED  BY <1>1, <2>1, <3>1 DEF Shaken, HasFin, Far
  <2>. QED  BY <2>2, <2>3
<1>8. \A x \in Node : OnePerPeer(x)'
  BY <1>1, OnePerPeerCut
<1>. QED  BY <1>6, <1>7, <1>8 DEF NInv, Handshake

-----------------------------------------------------------------------------
(***************************************************************************)
(* The actions: blocks, and questions for them.                            *)
(***************************************************************************)

\* What is read is a message, and right.
LEMMA IncomingRight ==
  ASSUME NInv, NEW c \in Conn, NEW n \in Ends(c), CanRead(n, c)
  PROVE  /\ <<c, Other(c, n)>> \in End /\ <<c, n>> \in End /\ n \in Node /\ Other(c, n) \in Node
         /\ Far(<<c, Other(c, n)>>) = <<c, n>> /\ Far(<<c, n>>) = <<c, Other(c, n)>>
         /\ Incoming(n, c) \in Msg
         /\ Right(<<c, Other(c, n)>>, Incoming(n, c))
<1>. DEFINE r == <<c, Other(c, n)>>
<1>1. r \in End /\ Far(r) = <<c, n>> /\ <<c, n>> \in End /\ Far(<<c, n>>) = r
  BY EndFacts
<1>2. n \in Node /\ Other(c, n) \in Node
  BY EndFacts
<1>3. chan[r] # <<>> /\ Incoming(n, c) = Head(chan[r])
  BY DEF CanRead, Incoming
<1>4. chan[r] \in Seq(Msg)
  BY <1>1 DEF NInv, Typed, TypedChan
<1>. HIDE DEF r
<1>5. Head(chan[r]) \in ToSet(chan[r]) /\ Head(chan[r]) \in Msg
  BY <1>3, <1>4, ToSetFacts
<1>6. Right(r, Head(chan[r]))
  BY <1>1, <1>5 DEF NInv, Contents
<1>. QED  BY <1>1, <1>2, <1>3, <1>5, <1>6 DEF r

\* A node that reads or sends, and whose phases stay.
LEMMA SamePhases ==
  ASSUME NInv, TypedVars', UNCHANGED <<phase, over, height>>,
         \A x \in Node : num[x] <= num'[x]
  PROVE  Growth
<1>1. height <= height'
  BY DEF NInv, Typed, TypedVars
<1>2. \A x \in Node : Careful(x)' => Careful(x)
  BY DEF Careful, Running
<1>. QED  BY <1>1, <1>2 DEF Growth

\* The next block arrives.
LEMMA SetBlockNInv ==
  ASSUME NInv, NEW c \in Conn, NEW n \in Ends(c), SetBlock(n, c)
  PROVE  NInv'
<1>0. PICK b : b = Incoming(n, c).num
  OBVIOUS
<1>1. /\ Reads(n, c, "set_block") /\ ReadAndSend(n, c, {})
      /\ UNCHANGED <<side, phase, ckNum, txPool, chunks, retry, served, queries, taken, poolq,
                     height, fragile, over>>
      /\ \/ /\ b = num[n] + 1
            /\ blocks' = [blocks EXCEPT ![n] = @ \cup {b}]
            /\ num' = [num EXCEPT ![n] = @ + 1]
         \/ UNCHANGED <<blocks, num>>
  BY <1>0 DEF SetBlock, loops, asked, world
<1>2. n \in Node /\ b \in 1..height
  <2>1. Right(<<c, Other(c, n)>>, Incoming(n, c)) /\ Incoming(n, c) \in Msg /\ n \in Node
    BY <1>1, IncomingRight DEF Reads
  <2>2. Incoming(n, c).t = "set_block"
    BY <1>1 DEF Reads
  <2>3. b \in Number /\ b <= height
    BY <1>0, <2>1, <2>2 DEF Right, Msg
  <2>. QED  BY <2>1, <2>3 DEF Number
<1>3. /\ num \in [Node -> 0..height] /\ served \in [Node -> 0..height]
      /\ height \in 0..MaxHeight /\ MaxHeight \in Nat
      /\ blocks \in [Node -> SUBSET Number] /\ retry \in [Node -> SUBSET Number]
  BY NetworkAssumption DEF NInv, Typed, TypedVars
<1>4. /\ \A x \in Node : num[x] <= num'[x] /\ (x # n => num'[x] = num[x] /\ blocks'[x] = blocks[x])
      /\ num' \in [Node -> 0..height] /\ blocks' \in [Node -> SUBSET Number]
  <2>1. CASE UNCHANGED <<blocks, num>>
    BY <1>3, <2>1
  <2>2. CASE /\ b = num[n] + 1
             /\ blocks' = [blocks EXCEPT ![n] = @ \cup {b}]
             /\ num' = [num EXCEPT ![n] = @ + 1]
    <3>1. b \in Number /\ num[n] + 1 \in 0..height
      BY <1>2, <1>3, <2>2 DEF Number
    <3>2. num' \in [Node -> 0..height]
      BY <1>3, <2>2, <3>1
    <3>3. blocks' \in [Node -> SUBSET Number]
      BY <1>3, <2>2, <3>1
    <3>4. \A x \in Node : num[x] <= num'[x] /\ (x # n => num'[x] = num[x])
      BY <1>3, <2>2
    <3>5. \A x \in Node : x # n => blocks'[x] = blocks[x]
      BY <1>3, <2>2
    <3>. QED  BY <3>2, <3>3, <3>4, <3>5
  <2>. QED  BY <1>1, <2>1, <2>2
<1>5. TypedVars'
  BY <1>1, <1>4 DEF NInv, Typed, TypedVars
<1>6. Growth
  BY <1>1, <1>4, <1>5, SamePhases
<1>7. TypedChan' /\ Contents' /\ Joining' /\ Handshake'
  BY <1>1, <1>5, <1>6, FewLetters, QuietRead
<1>8. Queries'
  BY <1>1, <1>5, <1>6, QueriesKept
<1>9. ASSUME NEW x \in Node PROVE Holds(x)'
  <2>1. CASE x # n \/ UNCHANGED <<blocks, num>>
    <3>1. retry'[x] \subseteq retry[x] \cup {i \in Number : i <= num[x]}
      BY <1>1
    <3>. QED  BY <1>1, <1>4, <1>5, <1>6, <2>1, <3>1, HoldsKept
  <2>2. CASE x = n /\ b = num[n] + 1 /\ blocks' = [blocks EXCEPT ![n] = @ \cup {b}]
             /\ num' = [num EXCEPT ![n] = @ + 1]
    <3>1. Holds(n)
      BY <1>2 DEF NInv, Stores
    <3>2. num'[n] = num[n] + 1 /\ blocks'[n] = blocks[n] \cup {b}
      BY <1>2, <1>3, <2>2
    <3>3. num[n] \in Nat /\ served[n] \in Nat /\ blocks[n] \subseteq Nat /\ retry[n] \subseteq Nat
      BY <1>2, <1>3 DEF Number
    <3>4. Careful(n) => /\ served[n] <= num'[n]
                        /\ blocks'[n] \subseteq served[n] + 1 .. num'[n]
                        /\ \A i \in retry[n] : i <= num'[n]
      BY <2>2, <3>1, <3>2, <3>3 DEF Holds
    <3>5. served[n] + 1 .. num[n] \subseteq blocks[n] => served[n] + 1 .. num'[n] \subseteq blocks'[n]
      BY <2>2, <3>2, <3>3
    <3>6. Careful(n)' <=> Careful(n)
      BY <1>1 DEF Careful, Running
    <3>. QED  BY <1>1, <1>2, <2>2, <3>1, <3>2, <3>4, <3>5, <3>6 DEF Holds
  <2>. QED  BY <1>1, <2>1, <2>2
<1>10. Phases'
  BY <1>1 DEF NInv, Phases
<1>. QED  BY <1>5, <1>7, <1>8, <1>9, <1>10 DEF NInv, Typed, Stores

\* Blocks arrive that were asked for.
LEMMA SetBlocksNInv ==
  ASSUME NInv, NEW c \in Conn, NEW n \in Ends(c), SetBlocks(n, c)
  PROVE  NInv'
<1>0. PICK new : new = IF Bootstrap(n) THEN {b \in Incoming(n, c).blocks : b > served[n]} ELSE {}
  OBVIOUS
<1>1. /\ Reads(n, c, "set_blocks") /\ ReadAndSend(n, c, {})
      /\ UNCHANGED <<side, phase, ckNum, txPool, chunks, retry, num, served, queries, taken, poolq,
                     height, fragile, over>>
      /\ blocks' = [blocks EXCEPT ![n] = @ \cup new]
  <2>1. blocks' = [blocks EXCEPT ![n] = blocks[n] \cup new]
    BY <1>0 DEF SetBlocks
  <2>. QED  BY <2>1 DEF SetBlocks, loops, asked, world
<1>2. /\ num \in [Node -> 0..height] /\ served \in [Node -> 0..height]
      /\ height \in 0..MaxHeight /\ MaxHeight \in Nat
      /\ blocks \in [Node -> SUBSET Number]
  BY NetworkAssumption DEF NInv, Typed, TypedVars
<1>3. n \in Node /\ \A b \in new : b \in 1..height /\ b > served[n] /\ (Careful(n) => b <= num[n])
  <2>1. /\ Right(<<c, Other(c, n)>>, Incoming(n, c)) /\ Incoming(n, c) \in Msg /\ n \in Node
        /\ Far(<<c, Other(c, n)>>) = <<c, n>>
    BY <1>1, IncomingRight DEF Reads
  <2>2. Incoming(n, c).t = "set_blocks"
    BY <1>1 DEF Reads
  <2>. QED  BY <1>0, <2>1, <2>2 DEF Right
<1>4. blocks'[n] = blocks[n] \cup new /\ \A x \in Node : x # n => blocks'[x] = blocks[x]
  BY <1>1, <1>2, <1>3
<1>5. TypedVars'
  <2>1. new \subseteq Number
    BY <1>2, <1>3 DEF Number
  <2>2. blocks' \in [Node -> SUBSET Number]
    BY <1>1, <1>2, <2>1
  <2>. QED  BY <1>1, <2>2 DEF NInv, Typed, TypedVars
<1>6. Growth
  <2>1. \A x \in Node : num[x] <= num'[x]
    BY <1>1, <1>2
  <2>. QED  BY <1>1, <1>5, <2>1, SamePhases
<1>7. TypedChan' /\ Contents' /\ Joining' /\ Handshake'
  BY <1>1, <1>5, <1>6, FewLetters, QuietRead
<1>8. Queries'
  BY <1>1, <1>5, <1>6, QueriesKept
<1>9. ASSUME NEW x \in Node PROVE Holds(x)'
  <2>1. CASE x # n
    <3>1. retry'[x] \subseteq retry[x] \cup {i \in Number : i <= num[x]}
      BY <1>1
    <3>. QED  BY <1>1, <1>4, <1>5, <1>6, <2>1, <3>1, HoldsKept
  <2>2. CASE x = n
    <3>1. Holds(n)
      BY <1>3 DEF NInv, Stores
    <3>2. num[n] \in Nat /\ served[n] \in Nat
      BY <1>2, <1>3
    <3>3. blocks'[n] \subseteq 1..height
      BY <1>3, <1>4, <3>1 DEF Holds
    <3>4. Careful(n) => blocks'[n] \subseteq served[n] + 1 .. num[n]
      BY <1>3, <1>4, <3>1, <3>2 DEF Holds
    <3>5. served[n] + 1 .. num[n] \subseteq blocks[n] => served[n] + 1 .. num[n] \subseteq blocks'[n]
      BY <1>4
    <3>6. Careful(n)' <=> Careful(n)
      BY <1>1 DEF Careful, Running
    <3>. QED  BY <1>1, <2>2, <3>1, <3>3, <3>4, <3>5, <3>6 DEF Holds
  <2>. QED  BY <2>1, <2>2
<1>10. Phases'
  BY <1>1 DEF NInv, Phases
<1>. QED  BY <1>5, <1>7, <1>8, <1>9, <1>10 DEF NInv, Typed, Stores

\* A question for blocks: what the asker may ask for, it may be sent.
LEMMA QueryNInv ==
  ASSUME NInv, NEW c \in Conn, NEW n \in Ends(c),
         NEW t \in {"get_block_num", "get_blocks"}, Reads(n, c, t),
         NEW wanted, wanted \subseteq Number,
         \A b \in wanted : Careful(Other(c, n)) => b <= num[Other(c, n)],
         Query(n, c, wanted)
  PROVE  NInv'
<1>. DEFINE f == <<c, n>>
            o == Other(c, n)
<1>0. PICK forMain, here :
         /\ forMain = {b \in wanted : b <= served[n] /\ ~Bootstrap(n)}
         /\ here = {b \in wanted \ forMain : b <= num[n] /\ b \in blocks[n]}
  OBVIOUS
<1>. DEFINE m == [t |-> "set_blocks", blocks |-> here]
<1>1. PICK Out : Out = IF here = {} THEN {} ELSE {<<f, m>>}
  OBVIOUS
<1>2. /\ queries' = [queries EXCEPT ![f] = @ \cup forMain] /\ ReadAndSend(n, c, Out)
      /\ UNCHANGED <<side, phase, ckNum, txPool, chunks, retry, num, served, blocks, taken, poolq,
                     height, fragile, over>>
  BY <1>0, <1>1 DEF Query, loops, store, world
<1>3. f \in End /\ Far(f) = <<c, o>> /\ n \in Node /\ o \in Node
  BY EndFacts
<1>4. f[2] = n /\ <<c, o>>[2] = o
  OBVIOUS
<1>5. /\ num \in [Node -> 0..height] /\ served \in [Node -> 0..height]
      /\ height \in 0..MaxHeight /\ MaxHeight \in Nat
      /\ blocks \in [Node -> SUBSET Number] /\ queries \in [End -> SUBSET Number]
  BY NetworkAssumption DEF NInv, Typed, TypedVars
<1>6. forMain \subseteq Number /\ \A b \in forMain : b <= height /\ (Careful(o) => b <= num[o])
  <2>1. forMain \subseteq wanted /\ \A b \in forMain : b <= served[n]
    BY <1>0
  <2>2. served[n] \in 0..height /\ height \in Nat /\ wanted \subseteq Nat
    BY <1>3, <1>5 DEF Number
  <2>3. \A b \in forMain : b <= height
    BY <2>1, <2>2
  <2>4. \A b \in forMain : Careful(o) => b <= num[o]
    BY <2>1
  <2>. QED  BY <2>1, <2>3, <2>4
<1>7. here \subseteq 1..height /\ here \subseteq Number /\ \A b \in here : Careful(o) => b <= num[o]
  <2>1. blocks[n] \subseteq 1..height
    BY <1>3 DEF NInv, Stores, Holds
  <2>. QED  BY <1>0, <2>1
<1>. HIDE DEF f, o
<1>8. TypedVars'
  <2>1. queries' \in [End -> SUBSET Number]
    BY <1>2, <1>5, <1>6
  <2>. QED  BY <1>2, <2>1 DEF NInv, Typed, TypedVars
<1>9. Growth
  <2>1. \A x \in Node : num[x] <= num'[x]
    BY <1>2, <1>5
  <2>. QED  BY <1>2, <1>8, <2>1, SamePhases
<1>10. \A x : Careful(x)' <=> Careful(x)
  BY <1>2 DEF Careful, Running
<1>11. m \in Msg /\ m.t = "set_blocks" /\ m.blocks = here
  BY <1>7 DEF Msg
<1>12. Right(f, m)'
  BY <1>2, <1>3, <1>4, <1>7, <1>10, <1>11 DEF Right
<1>. HIDE DEF m
<1>13. Letters(Out)
  BY <1>1, <1>3, <1>11, FewLetters
<1>14. \A p \in Out : p[2].t \notin Step /\ p[2].t # "fin" /\ Right(p[1], p[2])'
  <2>1. ASSUME NEW p \in Out PROVE p[2].t \notin Step /\ p[2].t # "fin" /\ Right(p[1], p[2])'
    <3>1. p[1] = f /\ p[2] = m
      BY <1>1, <2>1
    <3>2. Right(p[1], p[2])'
      BY <1>12, <3>1 DEF Right
    <3>. QED  BY <1>11, <3>1, <3>2 DEF Step
  <2>. QED  BY <2>1
<1>15. TypedChan' /\ Contents' /\ Joining' /\ Handshake'
  <2>1. \A x \in Node : phase[x] = "num" /\ ~ckNum[x] => phase'[x] = "num" /\ ~ckNum'[x]
    BY <1>2
  <2>2. t # "fin"
    OBVIOUS
  <2>. QED  BY <1>2, <1>8, <1>9, <1>13, <1>14, <2>1, <2>2, QuietRead
<1>16. Queries'
  <2>1. ASSUME NEW e \in End, NEW i \in queries'[e]
        PROVE  i \in queries[e] \/ (i <= height' /\ (Careful(Far(e)[2])' => i <= num'[Far(e)[2]]))
    <3>1. i \in queries[e] \/ (e = f /\ i \in forMain)
      BY <1>2, <1>5, <2>1
    <3>2. CASE e = f /\ i \in forMain
      <4>1. Far(e)[2] = o
        BY <1>3, <1>4, <3>2
      <4>2. Careful(Far(e)[2])' => Careful(o)
        BY <1>10, <4>1
      <4>. QED  BY <1>2, <1>6, <3>2, <4>1, <4>2
    <3>. QED  BY <3>1, <3>2
  <2>. QED  BY <1>8, <1>9, <2>1, QueriesKept
<1>17. Stores'
  <2>1. \A x \in Node : retry'[x] \subseteq retry[x] \cup {i \in Number : i <= num[x]}
    BY <1>2
  <2>. QED  BY <1>2, <1>8, <1>9, <2>1, HoldsKept DEF Stores
<1>18. Phases'
  BY <1>2 DEF NInv, Phases
<1>. QED  BY <1>8, <1>15, <1>16, <1>17, <1>18 DEF NInv, Typed

\* One block is asked for.
LEMMA GetBlockNumNInv ==
  ASSUME NInv, NEW c \in Conn, NEW n \in Ends(c), GetBlockNum(n, c)
  PROVE  NInv'
<1>0. PICK b : b = Incoming(n, c).num
  OBVIOUS
<1>1. Reads(n, c, "get_block_num") /\ Query(n, c, {b})
  BY <1>0 DEF GetBlockNum
<1>2. Right(<<c, Other(c, n)>>, Incoming(n, c)) /\ Incoming(n, c) \in Msg
  BY <1>1, IncomingRight DEF Reads
<1>3. Incoming(n, c).t = "get_block_num"
  BY <1>1 DEF Reads
<1>4. {b} \subseteq Number
  BY <1>0, <1>2, <1>3 DEF Msg
<1>5. \A x \in {b} : Careful(Other(c, n)) => x <= num[Other(c, n)]
  BY <1>0, <1>2, <1>3 DEF Right
<1>. QED  BY <1>1, <1>4, <1>5, QueryNInv

\* A chunk of blocks is asked for.
LEMMA GetBlocksNInv ==
  ASSUME NInv, NEW c \in Conn, NEW n \in Ends(c), GetBlocks(n, c)
  PROVE  NInv'
<1>0. PICK m, wanted : m = Incoming(n, c) /\ wanted = {b \in Number : m.num <= b /\ b < m.num + m.chunk}
  OBVIOUS
<1>1. Reads(n, c, "get_blocks") /\ Query(n, c, wanted)
  BY <1>0 DEF GetBlocks
<1>2. Right(<<c, Other(c, n)>>, m) /\ m \in Msg /\ Other(c, n) \in Node
  BY <1>0, <1>1, IncomingRight DEF Reads
<1>3. m.t = "get_blocks"
  BY <1>0, <1>1 DEF Reads
<1>4. m.num \in Number /\ m.chunk \in 0..BLOCK_CHUNK /\ wanted \subseteq Number
  BY <1>0, <1>2, <1>3 DEF Msg
<1>5. Careful(Other(c, n)) => m.num + m.chunk - 1 <= num[Other(c, n)]
  BY <1>2, <1>3 DEF Right
<1>6. num[Other(c, n)] \in Int
  BY <1>2 DEF NInv, Typed, TypedVars
<1>7. \A b \in wanted : Careful(Other(c, n)) => b <= num[Other(c, n)]
  BY <1>0, <1>4, <1>5, <1>6, NetworkAssumption DEF Number
<1>. QED  BY <1>1, <1>4, <1>7, QueryNInv

\* The pool is asked for.
LEMMA GetTxPoolNInv ==
  ASSUME NInv, NEW c \in Conn, NEW n \in Ends(c), GetTxPool(n, c)
  PROVE  NInv'
<1>1. /\ UNCHANGED <<side, phase, ckNum, txPool, chunks, num, served, blocks, retry, queries,
                     taken, height, fragile, over>>
      /\ Reads(n, c, "get_tx_pool") /\ ReadAndSend(n, c, {})
      /\ poolq' = [poolq EXCEPT ![n] = IF Bootstrap(n) THEN @ ELSE @ \cup {c}]
  BY DEF GetTxPool, loops, store, world
<1>2. TypedVars'
  <2>1. poolq' \in [Node -> SUBSET Conn]
    BY <1>1 DEF NInv, Typed, TypedVars
  <2>. QED  BY <1>1, <2>1 DEF NInv, Typed, TypedVars
<1>3. Growth /\ Queries' /\ Stores' /\ Phases'
  BY <1>1, <1>2, StoreKept
<1>4. TypedChan' /\ Contents' /\ Joining' /\ Handshake'
  BY <1>1, <1>2, <1>3, FewLetters, QuietRead
<1>. QED  BY <1>2, <1>3, <1>4 DEF NInv, Typed

\* The pool arrives.
LEMMA SetTxPoolNInv ==
  ASSUME NInv, NEW c \in Conn, NEW n \in Ends(c), SetTxPool(n, c)
  PROVE  NInv'
<1>1. /\ UNCHANGED <<side, phase, ckNum, chunks, num, served, blocks, retry, queries,
                     taken, poolq, height, fragile, over>>
      /\ Reads(n, c, "set_tx_pool") /\ ReadAndSend(n, c, {})
      /\ txPool' = [txPool EXCEPT ![n] = @ \/ Bootstrap(n)]
  BY DEF SetTxPool, store, asked, world
<1>2. TypedVars'
  <2>1. txPool' \in [Node -> BOOLEAN]
    BY <1>1 DEF NInv, Typed, TypedVars, Bootstrap
  <2>. QED  BY <1>1, <2>1 DEF NInv, Typed, TypedVars
<1>3. Growth /\ Queries' /\ Stores' /\ Phases'
  BY <1>1, <1>2, StoreKept
<1>4. TypedChan' /\ Contents' /\ Joining' /\ Handshake'
  BY <1>1, <1>2, <1>3, FewLetters, QuietRead
<1>. QED  BY <1>2, <1>3, <1>4 DEF NInv, Typed

-----------------------------------------------------------------------------
(***************************************************************************)
(* The actions: the main process.                                          *)
(***************************************************************************)

\* A step that writes nothing.
LEMMA QuietStill ==
  ASSUME NInv, TypedVars', Growth, UNCHANGED <<side, chan>>,
         \A x \in Node : phase[x] = "num" /\ ~ckNum[x] => phase'[x] = "num" /\ ~ckNum'[x]
  PROVE  TypedChan' /\ Contents' /\ Joining' /\ Handshake'
<1>1. Contents'
  BY ContentsKept
<1>2. Joining'
  <2>. DEFINE shift == [e \in End |-> 0]
  <2>1. shift \in [End -> {0, 1}] /\ \A e \in End : \A i \in Nat : i + shift[e] = i
    OBVIOUS
  <2>. HIDE DEF shift
  <2>2. \A e \in End : \A i \in Nat : i \in DOMAIN chan'[e] /\ chan'[e][i].t \in Step =>
            i + shift[e] \in DOMAIN chan[e] /\ chan'[e][i] = chan[e][i + shift[e]]
    BY <2>1
  <2>. QED  BY <2>1, <2>2, JoiningKept
<1>3. Handshake'
  BY DEF NInv, Handshake, Shaken, OnePerPeer, HasFin, Far, Peers
<1>. QED  BY <1>1, <1>2, <1>3 DEF NInv, Typed, TypedChan

\* The main process takes the next block.
LEMMA GetBlockNInv ==
  ASSUME NInv, NEW n \in Node, GetBlock(n)
  PROVE  NInv'
<1>1. /\ Running(n) /\ served[n] + 1 \in blocks[n]
      /\ served' = [served EXCEPT ![n] = @ + 1]
      /\ UNCHANGED <<side, chan, phase, ckNum, txPool, chunks, retry, num, blocks, queries,
                     taken, poolq, height, fragile, over>>
  BY DEF GetBlock, links, loops, asked, world
<1>2. /\ num \in [Node -> 0..height] /\ served \in [Node -> 0..height] /\ height \in 0..MaxHeight
      /\ blocks[n] \subseteq 1..height
  BY DEF NInv, Typed, TypedVars, Stores, Holds
<1>3. TypedVars'
  <2>1. served' \in [Node -> 0..height]
    BY <1>1, <1>2
  <2>. QED  BY <1>1, <2>1 DEF NInv, Typed, TypedVars
<1>4. Growth
  <2>1. \A x \in Node : num[x] <= num'[x]
    BY <1>1, <1>2
  <2>. QED  BY <1>1, <1>3, <2>1, SamePhases
<1>5. TypedChan' /\ Contents' /\ Joining' /\ Handshake'
  BY <1>1, <1>3, <1>4, QuietStill
<1>6. Queries'
  BY <1>1, <1>3, <1>4, QueriesKept
<1>7. ASSUME NEW x \in Node PROVE Holds(x)'
  <2>1. CASE x # n
    <3>1. /\ retry'[x] \subseteq retry[x] \cup {i \in Number : i <= num[x]}
          /\ served'[x] = served[x]
      BY <1>1, <1>2, <2>1
    <3>. QED  BY <1>1, <1>3, <1>4, <2>1, <3>1, HoldsKept
  <2>2. CASE x = n
    <3>1. Holds(n) /\ ~Careful(n)' /\ served'[n] = served[n] + 1
      BY <1>1, <1>2 DEF NInv, Stores, Careful, Running
    <3>2. served'[n] + 1 .. num[n] \subseteq served[n] + 1 .. num[n]
      BY <1>2, <3>1
    <3>. QED  BY <1>1, <2>2, <3>1, <3>2 DEF Holds
  <2>. QED  BY <2>1, <2>2
<1>8. Phases'
  BY <1>1 DEF NInv, Phases
<1>. QED  BY <1>3, <1>5, <1>6, <1>7, <1>8 DEF NInv, Typed, Stores

\* The main process takes the numbers that are asked for.
LEMMA GetBlockQueriesNInv ==
  ASSUME NInv, NEW n \in Node, GetBlockQueries(n)
  PROVE  NInv'
<1>0. PICK all : all = UNION {queries[e] : e \in {x \in End : x[2] = n}}
  OBVIOUS
<1>1. /\ UNCHANGED <<side, chan, phase, ckNum, txPool, chunks, num, served, blocks, retry, queries,
                     poolq, height, fragile, over>>
      /\ taken' = [taken EXCEPT ![n] = all]
  BY <1>0 DEF GetBlockQueries, links, loops, store, world
<1>2. TypedVars'
  <2>1. all \subseteq Number
    BY <1>0 DEF NInv, Typed, TypedVars
  <2>2. taken' \in [Node -> SUBSET Number]
    BY <1>1, <2>1 DEF NInv, Typed, TypedVars
  <2>. QED  BY <1>1, <2>2 DEF NInv, Typed, TypedVars
<1>3. Growth /\ Queries' /\ Stores' /\ Phases'
  BY <1>1, <1>2, StoreKept
<1>4. TypedChan' /\ Contents' /\ Joining' /\ Handshake'
  BY <1>1, <1>2, <1>3, QuietStill
<1>. QED  BY <1>2, <1>3, <1>4 DEF NInv, Typed

\* The main process answers for blocks.
LEMMA AnswerBlockQueriesNInv ==
  ASSUME NInv, NEW n \in Node, AnswerBlockQueries(n)
  PROVE  NInv'
<1>. DEFINE part(e) == [t |-> "set_blocks", blocks |-> queries[e] \cap taken[n]]
<1>0. PICK asking : asking = {e \in End : e[2] = n /\ queries[e] # {}}
  OBVIOUS
<1>1. PICK Out : Out = {<<e, part(e)>> : e \in asking}
  OBVIOUS
<1>2. /\ Send(Out)
      /\ queries' = [e \in End |-> IF e \in asking THEN queries[e] \ taken[n] ELSE queries[e]]
      /\ taken' = [taken EXCEPT ![n] = {}]
      /\ UNCHANGED <<side, phase, ckNum, txPool, chunks, retry, num, served, blocks, poolq,
                     height, fragile, over>>
  BY <1>0, <1>1 DEF AnswerBlockQueries, loops, store, world
<1>3. /\ queries \in [End -> SUBSET Number] /\ taken \in [Node -> SUBSET Number]
      /\ num \in [Node -> 0..height] /\ height \in 0..MaxHeight /\ MaxHeight \in Nat
  BY NetworkAssumption DEF NInv, Typed, TypedVars
<1>4. TypedVars'
  <2>1. queries' \in [End -> SUBSET Number] /\ taken' \in [Node -> SUBSET Number]
    BY <1>2, <1>3
  <2>. QED  BY <1>2, <2>1 DEF NInv, Typed, TypedVars
<1>5. Growth
  <2>1. \A x \in Node : num[x] <= num'[x]
    BY <1>2, <1>3
  <2>. QED  BY <1>2, <1>4, <2>1, SamePhases
<1>6. \A e \in End : \A i \in queries'[e] : i \in queries[e]
  BY <1>2
<1>7. Queries'
  BY <1>4, <1>5, <1>6, QueriesKept
<1>8. Stores'
  <2>1. \A x \in Node : retry'[x] \subseteq retry[x] \cup {i \in Number : i <= num[x]}
    BY <1>2
  <2>. QED  BY <1>2, <1>4, <1>5, <2>1, HoldsKept DEF Stores
<1>9. Phases'
  BY <1>2 DEF NInv, Phases
<1>10. \A o \in Out : /\ o = <<o[1], o[2]>> /\ o[1] \in End /\ o[2].t = "set_blocks" /\ o[2] \in Msg
                      /\ o[2].blocks \subseteq queries[o[1]]
  BY <1>0, <1>1, <1>3 DEF Msg
<1>11. Letters(Out)
  <2>1. ASSUME NEW o \in Out, NEW p \in Out, o[1] = p[1] PROVE o = p
    <3>1. PICK e \in asking : o = <<e, part(e)>>
      BY <1>1
    <3>2. PICK f \in asking : p = <<f, part(f)>>
      BY <1>1
    <3>. HIDE DEF part
    <3>3. e = f
      BY <2>1, <3>1, <3>2
    <3>. QED  BY <3>1, <3>2, <3>3
  <2>2. Out \subseteq End \X Msg
    <3>1. \A o \in Out : o = <<o[1], o[2]>> /\ o[1] \in End /\ o[2] \in Msg
      BY <1>10
    <3>. QED  BY <3>1
  <2>. QED  BY <2>1, <2>2 DEF Letters
<1>12. \A o \in Out : o[2].t \notin Step /\ o[2].t # "fin" /\ Right(o[1], o[2])'
  <2>1. ASSUME NEW o \in Out PROVE Right(o[1], o[2])'
    <3>1. \A i \in o[2].blocks : i \in Nat /\ i >= 1 /\ i <= height
                                 /\ (Careful(Far(o[1])[2]) => i <= num[Far(o[1])[2]])
      <4>1. o[1] \in End /\ o[2].blocks \subseteq queries[o[1]]
        BY <1>10
      <4>2. \A i \in queries[o[1]] : i <= height /\ (Careful(Far(o[1])[2]) => i <= num[Far(o[1])[2]])
        BY <4>1 DEF NInv, Queries
      <4>3. queries[o[1]] \subseteq 1..MaxHeight
        BY <1>3, <4>1 DEF Number
      <4>. QED  BY <1>3, <4>1, <4>2, <4>3
    <3>2. o[2].blocks \subseteq 1..height
      BY <1>3, <3>1
    <3>3. Careful(Far(o[1])[2])' <=> Careful(Far(o[1])[2])
      BY <1>2 DEF Careful, Running, Far
    <3>4. o[2].t = "set_blocks"
      BY <1>10
    <3>. QED  BY <1>2, <3>1, <3>2, <3>3, <3>4 DEF Right, Far
  <2>. QED  BY <1>10, <2>1 DEF Step
<1>13. TypedChan' /\ Contents' /\ Joining' /\ Handshake'
  BY <1>2, <1>4, <1>5, <1>11, <1>12, QuietSend
<1>. QED  BY <1>4, <1>7, <1>8, <1>9, <1>13 DEF NInv, Typed

\* The main process answers for the pool.
LEMMA AnswerTxPoolQueryNInv ==
  ASSUME NInv, NEW n \in Node, AnswerTxPoolQuery(n)
  PROVE  NInv'
<1>0. PICK Out : Out = {<<<<c, n>>, Plain("set_tx_pool")>> : c \in poolq[n] \cap Peers(n)}
  OBVIOUS
<1>1. /\ UNCHANGED <<side, phase, ckNum, txPool, chunks, num, served, blocks, retry, queries,
                     taken, height, fragile, over>>
      /\ poolq' = [poolq EXCEPT ![n] = {}] /\ Send(Out)
  BY <1>0 DEF AnswerTxPoolQuery, loops, store, world
<1>2. TypedVars'
  <2>1. poolq' \in [Node -> SUBSET Conn]
    BY <1>1 DEF NInv, Typed, TypedVars
  <2>. QED  BY <1>1, <2>1 DEF NInv, Typed, TypedVars
<1>3. Growth /\ Queries' /\ Stores' /\ Phases'
  BY <1>1, <1>2, StoreKept
<1>4. Plain("set_tx_pool") \in Msg /\ Plain("set_tx_pool").t = "set_tx_pool"
  BY DEF Plain, Msg
<1>5. \A c \in Peers(n) : <<c, n>> \in End
  BY EndFacts, KnownNodes
<1>6. \A o \in Out : o = <<o[1], o[2]>> /\ o[1] \in End /\ o[2] = Plain("set_tx_pool")
  BY <1>0, <1>5
<1>7. Letters(Out)
  BY <1>4, <1>6 DEF Letters
<1>8. \A o \in Out : o[2].t \notin Step /\ o[2].t # "fin" /\ Right(o[1], o[2])'
  <2>1. ASSUME NEW o \in Out PROVE Right(o[1], o[2])'
    <3>1. o[2].t = "set_tx_pool"
      BY <1>4, <1>6
    <3>. QED  BY <3>1 DEF Right
  <2>. QED  BY <1>4, <1>6, <2>1 DEF Step
<1>9. TypedChan' /\ Contents' /\ Joining' /\ Handshake'
  BY <1>1, <1>2, <1>3, <1>7, <1>8, QuietSend
<1>. QED  BY <1>2, <1>3, <1>9 DEF NInv, Typed

\* The signer has created the next block: it held every block before it.
LEMMA BroadcastBlockNInv ==
  ASSUME NInv, NEW n \in Node, BroadcastBlock(n)
  PROVE  NInv'
<1>0. PICK h : h = height + 1
  OBVIOUS
<1>. DEFINE m == [t |-> "set_block", num |-> h]
<1>1. PICK Out : Out = {<<<<c, n>>, m>> : c \in Peers(n)}
  OBVIOUS
<1>2. /\ Running(n) /\ served[n] = height /\ height < MaxHeight /\ height' = h
      /\ num' = [num EXCEPT ![n] = @ + 1] /\ served' = [served EXCEPT ![n] = @ + 1]
      /\ Send(Out)
      /\ UNCHANGED <<side, phase, ckNum, txPool, chunks, retry, blocks, queries, taken, poolq,
                     fragile, over>>
  BY <1>0, <1>1 DEF BroadcastBlock, loops, asked
<1>3. /\ num \in [Node -> 0..height] /\ served \in [Node -> 0..height]
      /\ height \in 0..MaxHeight /\ MaxHeight \in Nat
  BY NetworkAssumption DEF NInv, Typed, TypedVars
<1>4. h \in 0..MaxHeight /\ h \in Number /\ height <= h
  BY <1>0, <1>2, <1>3 DEF Number
<1>5. TypedVars'
  <2>1. num' \in [Node -> 0..h] /\ served' \in [Node -> 0..h]
    BY <1>0, <1>2, <1>3
  <2>. QED  BY <1>2, <1>4, <2>1 DEF NInv, Typed, TypedVars
<1>6. Growth
  <2>1. \A x \in Node : num[x] <= num'[x]
    BY <1>2, <1>3
  <2>2. \A x : Careful(x)' => Careful(x)
    BY <1>2 DEF Careful, Running
  <2>. QED  BY <1>2, <1>4, <2>1, <2>2 DEF Growth
<1>7. m \in Msg /\ m.t = "set_block" /\ m.num = h
  BY <1>4 DEF Msg
<1>8. \A c \in Peers(n) : <<c, n>> \in End
  BY EndFacts, KnownNodes
<1>. HIDE DEF m
<1>9. \A o \in Out : o = <<o[1], o[2]>> /\ o[1] \in End /\ o[2] = m
  BY <1>1, <1>8
<1>10. Letters(Out)
  BY <1>7, <1>9 DEF Letters
<1>11. \A o \in Out : o[2].t \notin Step /\ o[2].t # "fin" /\ Right(o[1], o[2])'
  <2>1. ASSUME NEW o \in Out PROVE Right(o[1], o[2])'
    <3>1. o[2].t = "set_block" /\ o[2].num <= height'
      BY <1>2, <1>3, <1>4, <1>7, <1>9
    <3>. QED  BY <3>1 DEF Right
  <2>. QED  BY <1>7, <1>9, <2>1 DEF Step
<1>12. TypedChan' /\ Contents' /\ Joining' /\ Handshake'
  BY <1>2, <1>5, <1>6, <1>10, <1>11, QuietSend
<1>13. Queries'
  BY <1>2, <1>5, <1>6, QueriesKept
<1>14. ASSUME NEW x \in Node PROVE Holds(x)'
  <2>1. CASE x # n
    <3>1. /\ retry'[x] \subseteq retry[x] \cup {i \in Number : i <= num[x]}
          /\ served'[x] = served[x] /\ num'[x] = num[x]
      BY <1>2, <1>3, <2>1
    <3>. QED  BY <1>2, <1>5, <1>6, <2>1, <3>1, HoldsKept
  <2>2. CASE x = n
    <3>1. Holds(n) /\ ~Careful(n)' /\ served'[n] = height + 1 /\ num'[n] = num[n] + 1
      BY <1>2, <1>3 DEF NInv, Stores, Careful, Running
    <3>2. served'[n] + 1 .. num'[n] = {}
      BY <1>3, <3>1
    <3>3. 1..height \subseteq 1..h
      BY <1>3, <1>4
    <3>. QED  BY <1>2, <2>2, <3>1, <3>2, <3>3 DEF Holds
  <2>. QED  BY <2>1, <2>2
<1>15. Phases'
  BY <1>2 DEF NInv, Phases
<1>. QED  BY <1>5, <1>12, <1>13, <1>14, <1>15 DEF NInv, Typed, Stores

-----------------------------------------------------------------------------
(***************************************************************************)
(* The actions: the timers.                                                *)
(***************************************************************************)

\* Questions to peers that are chosen for each.
LEMMA QuietAsk ==
  ASSUME NInv, TypedVars', Growth, UNCHANGED side, NEW n \in Node,
         NEW messages, messages \subseteq Msg, IsFiniteSet(messages),
         NEW from, AskPeers(n, messages, from),
         \A m \in messages : /\ m.t \notin Step /\ m.t # "fin"
                             /\ \A e \in End : e[2] = n => Right(e, m)',
         \A x \in Node : phase[x] = "num" /\ ~ckNum[x] => phase'[x] = "num" /\ ~ckNum'[x]
  PROVE  TypedChan' /\ Contents' /\ Joining' /\ Handshake'
<1>1. PICK r : r \notin End
  BY NoSetContainsEverything
<1>2. PICK to \in [messages -> from] :
        chan' = [e \in End |-> chan[e] \o SetToSeq({m \in messages : e = <<to[m], n>>})]
  BY DEF AskPeers
<1>. DEFINE mine(e) == {m \in messages : e = <<to[m], n>>}
            W == [e \in End |-> SetToSeq(mine(e))]
<1>3. \A e : mine(e) \subseteq messages /\ (mine(e) # {} => e[2] = n)
  OBVIOUS
<1>4. Flow(r, W)
  BY <1>1, <1>2 DEF Flow
<1>. HIDE DEF mine
<1>5. \A e \in End : W[e] \in Seq(Msg) /\ ToSet(W[e]) \subseteq mine(e)
  <2>1. ASSUME NEW e \in End PROVE W[e] \in Seq(Msg) /\ ToSet(W[e]) \subseteq mine(e)
    <3>1. IsFiniteSet(mine(e))
      BY <1>3, FS_Subset
    <3>2. SetToSeq(mine(e)) \in Seq(mine(e))
      BY <3>1, SetToSeqOK
    <3>3. ToSet(SetToSeq(mine(e))) \subseteq mine(e)
      BY <3>2, ToSetFacts
    <3>4. mine(e) \subseteq Msg
      BY <1>3
    <3>5. SetToSeq(mine(e)) \in Seq(Msg)
      BY <3>2, <3>4
    <3>. QED  BY <3>3, <3>5
  <2>. QED  BY <2>1
<1>6. W \in [End -> Seq(Msg)]
  BY <1>5
<1>7. \A e \in End : \A m \in ToSet(W[e]) : m.t \notin Step /\ m.t # "fin" /\ Right(e, m)'
  <2>1. ASSUME NEW e \in End, NEW m \in ToSet(W[e])
        PROVE  m.t \notin Step /\ m.t # "fin" /\ Right(e, m)'
    <3>1. m \in messages /\ e[2] = n
      BY <1>3, <1>5
    <3>. QED  BY <3>1
  <2>. QED  BY <2>1
<1>. HIDE DEF W
<1>. QED  BY <1>1, <1>4, <1>6, <1>7, QuietFlow

\* One question to one peer.
LEMMA QuietAskOne ==
  ASSUME NInv, TypedVars', Growth, UNCHANGED side, NEW n \in Node,
         NEW m \in Msg, m.t \notin Step, m.t # "fin", RandomPeer(n, m),
         \A e \in End : e[2] = n => Right(e, m)',
         \A x \in Node : phase[x] = "num" /\ ~ckNum[x] => phase'[x] = "num" /\ ~ckNum'[x]
  PROVE  TypedChan' /\ Contents' /\ Joining' /\ Handshake'
<1>1. PICK c \in Peers(n) : Send({<<<<c, n>>, m>>})
  BY DEF RandomPeer, IdlePeers
<1>2. PICK e : e = <<c, n>>
  OBVIOUS
<1>3. e \in End /\ e[2] = n
  BY <1>2, EndFacts, KnownNodes
<1>4. PICK Out : Out = {<<e, m>>}
  OBVIOUS
<1>5. Letters(Out) /\ Send(Out)
  BY <1>1, <1>2, <1>3, <1>4, FewLetters
<1>6. Right(e, m)'
  BY <1>3
<1>7. \A o \in Out : o[2].t \notin Step /\ o[2].t # "fin" /\ Right(o[1], o[2])'
  <2>1. ASSUME NEW o \in Out PROVE o[2].t \notin Step /\ o[2].t # "fin" /\ Right(o[1], o[2])'
    <3>1. o[1] = e /\ o[2] = m
      BY <1>4
    <3>2. Right(o[1], o[2])'
      BY <1>6, <3>1 DEF Right
    <3>. QED  BY <3>1, <3>2
  <2>. QED  BY <2>1
<1>. QED  BY <1>5, <1>7, QuietSend

\* Numbers are few.
LEMMA NumbersFinite == \A S : S \subseteq Number => IsFiniteSet(S)
<1>1. IsFiniteSet(Number)
  BY FS_Interval, NetworkAssumption DEF Number
<1>. QED  BY <1>1, FS_Subset

\* Messages that ask for single blocks.
LEMMA BlockNumMsgs ==
  ASSUME NEW S, S \subseteq Number
  PROVE  /\ {GetBlockNumMsg(i) : i \in S} \subseteq Msg /\ IsFiniteSet({GetBlockNumMsg(i) : i \in S})
         /\ \A i \in S : GetBlockNumMsg(i) \in Msg
         /\ \A i : GetBlockNumMsg(i).t = "get_block_num" /\ GetBlockNumMsg(i).num = i
<1>1. \A i \in S : GetBlockNumMsg(i) \in Msg
  BY DEF GetBlockNumMsg, Msg
<1>2. IsFiniteSet({GetBlockNumMsg(i) : i \in S})
  <2>. DEFINE f == [i \in S |-> GetBlockNumMsg(i)]
              T == {GetBlockNumMsg(i) : i \in S}
  <2>1. IsFiniteSet(S)
    BY NumbersFinite
  <2>2. f \in Surjection(S, T)
    BY DEF Surjection
  <2>. HIDE DEF f, T
  <2>. QED  BY <2>1, <2>2, FS_Surjection DEF T
<1>3. \A i : GetBlockNumMsg(i).t = "get_block_num" /\ GetBlockNumMsg(i).num = i
  BY DEF GetBlockNumMsg
<1>. QED  BY <1>1, <1>2, <1>3

\* A running node asks for the blocks that the table knows of.
LEMMA CheckDhtNInv ==
  ASSUME NInv, NEW n \in Node, CheckDht(n)
  PROVE  NInv'
<1>0. PICK S : S = num[n] + 1 .. height
  OBVIOUS
<1>1. PICK messages : messages = {GetBlockNumMsg(x) : x \in S}
  OBVIOUS
<1>2. /\ UNCHANGED <<side, phase, ckNum, txPool, chunks, num, served, blocks, retry, queries,
                     taken, poolq, height, fragile, over>>
      /\ Running(n) /\ AskPeers(n, messages, IdlePeers(n))
  BY <1>0, <1>1 DEF CheckDht, loops, store, asked, world
<1>3. TypedVars'
  BY <1>2 DEF NInv, Typed, TypedVars
<1>4. Growth /\ Queries' /\ Stores' /\ Phases'
  BY <1>2, <1>3, StoreKept
<1>5. S \subseteq Number
  <2>1. num[n] \in Nat /\ height \in 0..MaxHeight /\ MaxHeight \in Nat
    BY NetworkAssumption DEF NInv, Typed, TypedVars
  <2>. QED  BY ONLY <1>0, <2>1 DEF Number
<1>6. messages \subseteq Msg /\ IsFiniteSet(messages)
  BY <1>1, <1>5, BlockNumMsgs
<1>7. \A m \in messages : m.t = "get_block_num"
  BY <1>1, <1>5, BlockNumMsgs
<1>8. ~Careful(n)'
  BY <1>2 DEF Careful, Running
<1>9. \A m \in messages : /\ m.t \notin Step /\ m.t # "fin"
                          /\ \A e \in End : e[2] = n => Right(e, m)'
  <2>1. ASSUME NEW m \in messages, NEW e \in End, e[2] = n PROVE Right(e, m)'
    <3>1. ~Careful(e[2])'
      BY <1>8, <2>1
    <3>. QED  BY <1>7, <3>1 DEF Right
  <2>. QED  BY <1>7, <2>1 DEF Step
<1>10. TypedChan' /\ Contents' /\ Joining' /\ Handshake'
  BY <1>2, <1>3, <1>4, <1>6, <1>9, QuietAsk
<1>. QED  BY <1>3, <1>4, <1>10 DEF NInv, Typed

\* A joining node asks again for the blocks of a chunk that it still misses.
LEMMA CheckBlocksNInv ==
  ASSUME NInv, NEW n \in Node, NEW i \in Number, CheckBlocks(n, i)
  PROVE  NInv'
<1>0. PICK S : S = IF Peers(n) = {} THEN {}
                   ELSE {x \in i .. i + BLOCK_CHUNK - 1 : x <= num[n] /\ x \notin blocks[n]}
  OBVIOUS
<1>1. PICK messages : messages = {GetBlockNumMsg(x) : x \in S}
  OBVIOUS
<1>2. /\ UNCHANGED <<side, phase, ckNum, txPool, num, served, blocks, queries,
                     taken, poolq, height, fragile, over>>
      /\ chunks' = [chunks EXCEPT ![n] = @ \ {i}] /\ retry' = [retry EXCEPT ![n] = @ \cup S]
      /\ AskPeers(n, messages, IdlePeers(n))
  BY <1>0, <1>1 DEF CheckBlocks, store, asked, world
<1>3. /\ num \in [Node -> 0..height] /\ height \in 0..MaxHeight /\ MaxHeight \in Nat
      /\ retry \in [Node -> SUBSET Number] /\ chunks \in [Node -> SUBSET Number]
      /\ BLOCK_CHUNK \in Nat
  BY NetworkAssumption DEF NInv, Typed, TypedVars
<1>4. S \subseteq Number /\ \A x \in S : x <= num[n]
  <2>1. i \in 1..MaxHeight /\ num[n] \in 0..MaxHeight
    BY <1>3 DEF Number
  <2>. QED  BY <1>0, <1>3, <2>1 DEF Number
<1>5. TypedVars'
  <2>1. retry' \in [Node -> SUBSET Number] /\ chunks' \in [Node -> SUBSET Number]
    BY <1>2, <1>3, <1>4
  <2>. QED  BY <1>2, <2>1 DEF NInv, Typed, TypedVars
<1>6. Growth
  <2>1. \A x \in Node : num[x] <= num'[x]
    BY <1>2, <1>3
  <2>. QED  BY <1>2, <1>5, <2>1, SamePhases
<1>7. messages \subseteq Msg /\ IsFiniteSet(messages)
  BY <1>1, <1>4, BlockNumMsgs
<1>8. \A m \in messages : m.t = "get_block_num" /\ m.num <= num[n]
  <2>1. \A x \in S : GetBlockNumMsg(x).t = "get_block_num" /\ GetBlockNumMsg(x).num = x
    BY <1>4, BlockNumMsgs
  <2>. QED  BY <1>1, <1>4, <2>1
<1>9. \A m \in messages : /\ m.t \notin Step /\ m.t # "fin"
                          /\ \A e \in End : e[2] = n => Right(e, m)'
  <2>1. ASSUME NEW m \in messages, NEW e \in End, e[2] = n PROVE Right(e, m)'
    BY <1>2, <1>8, <2>1 DEF Right
  <2>. QED  BY <1>8, <2>1 DEF Step
<1>10. TypedChan' /\ Contents' /\ Joining' /\ Handshake'
  <2>1. \A x \in Node : phase[x] = "num" /\ ~ckNum[x] => phase'[x] = "num" /\ ~ckNum'[x]
    BY <1>2
  <2>. QED  BY <1>2, <1>5, <1>6, <1>7, <1>9, <2>1, QuietAsk
<1>11. Queries'
  BY <1>2, <1>5, <1>6, QueriesKept
<1>12. Stores'
  <2>1. \A x \in Node : retry'[x] \subseteq retry[x] \cup {y \in Number : y <= num[x]}
    BY <1>2, <1>3, <1>4
  <2>. QED  BY <1>2, <1>5, <1>6, <2>1, HoldsKept DEF Stores
<1>13. Phases'
  BY <1>2 DEF NInv, Phases
<1>. QED  BY <1>5, <1>10, <1>11, <1>12, <1>13 DEF NInv, Typed

\* A joining node asks once more for a block, or has it.
LEMMA CheckBlockNInv ==
  ASSUME NInv, NEW n \in Node, NEW i \in Number, CheckBlock(n, i)
  PROVE  NInv'
<1>1. /\ UNCHANGED <<side, phase, ckNum, txPool, chunks, num, served, blocks, queries,
                     taken, poolq, height, fragile, over>>
      /\ i \in retry[n]
      /\ \/ RandomPeer(n, GetBlockNumMsg(i)) /\ UNCHANGED retry
         \/ retry' = [retry EXCEPT ![n] = @ \ {i}] /\ UNCHANGED chan
  BY DEF CheckBlock, store, asked, world
<1>2. num \in [Node -> 0..height] /\ retry \in [Node -> SUBSET Number]
  BY DEF NInv, Typed, TypedVars
<1>3. retry' \in [Node -> SUBSET Number] /\ \A x \in Node : retry'[x] \subseteq retry[x]
  BY <1>1, <1>2
<1>4. TypedVars'
  BY <1>1, <1>3 DEF NInv, Typed, TypedVars
<1>5. Growth
  <2>1. \A x \in Node : num[x] <= num'[x]
    BY <1>1, <1>2
  <2>. QED  BY <1>1, <1>4, <2>1, SamePhases
<1>6. \A x \in Node : phase[x] = "num" /\ ~ckNum[x] => phase'[x] = "num" /\ ~ckNum'[x]
  BY <1>1
<1>7. TypedChan' /\ Contents' /\ Joining' /\ Handshake'
  <2>1. CASE UNCHANGED chan
    BY <1>1, <1>4, <1>5, <1>6, <2>1, QuietStill
  <2>2. CASE RandomPeer(n, GetBlockNumMsg(i))
    <3>1. PICK m : m = GetBlockNumMsg(i)
      OBVIOUS
    <3>2. m \in Msg /\ m.t = "get_block_num" /\ m.num = i
      <4>1. {i} \subseteq Number
        OBVIOUS
      <4>. QED  BY <3>1, <4>1, BlockNumMsgs
    <3>3. Careful(n) => i <= num[n]
      BY <1>1 DEF NInv, Stores, Holds
    <3>4. Careful(n)' <=> Careful(n)
      BY <1>1 DEF Careful, Running
    <3>5. ASSUME NEW e \in End, e[2] = n PROVE Right(e, m)'
      <4>1. Careful(e[2])' => i <= num'[e[2]]
        BY <1>1, <3>3, <3>4, <3>5
      <4>. QED  BY <3>2, <4>1 DEF Right
    <3>6. m.t \notin Step /\ m.t # "fin" /\ RandomPeer(n, m)
      BY <2>2, <3>1, <3>2 DEF Step
    <3>7. UNCHANGED side
      BY <1>1
    <3>. QED  BY <1>4, <1>5, <1>6, <3>2, <3>5, <3>6, <3>7, QuietAskOne
  <2>. QED  BY <1>1, <2>1, <2>2
<1>8. Queries'
  BY <1>1, <1>4, <1>5, QueriesKept
<1>9. Stores'
  <2>1. \A x \in Node : retry'[x] \subseteq retry[x] \cup {y \in Number : y <= num[x]}
    BY <1>3
  <2>. QED  BY <1>1, <1>4, <1>5, <2>1, HoldsKept DEF Stores
<1>10. Phases'
  BY <1>1 DEF NInv, Phases
<1>. QED  BY <1>4, <1>7, <1>8, <1>9, <1>10 DEF NInv, Typed

\* A joining node knows the number of blocks and asks for all, in chunks; it is careful
\* as long as the last chunk is not too large.
LEMMA CheckNumBlocksNInv ==
  ASSUME NInv, NEW n \in Node, CheckNumBlocks(n)
  PROVE  NInv'
<1>0. PICK first : first = IF Peers(n) = {} THEN {} ELSE FirstOfChunk(n)
  OBVIOUS
<1>. DEFINE msg(i) == [t |-> "get_blocks", num |-> i, chunk |-> ChunkSize(n, i)]
<1>1. PICK messages : messages = {msg(i) : i \in first}
  OBVIOUS
<1>2. /\ UNCHANGED <<side, ckNum, txPool, retry, num, served, blocks, queries,
                     taken, poolq, height, fragile>>
      /\ phase[n] = "num" /\ ckNum[n] /\ phase' = [phase EXCEPT ![n] = "blocks"]
      /\ chunks' = [chunks EXCEPT ![n] = first]
      /\ AskPeers(n, messages, Peers(n))
      /\ over' = over \cup {n : i \in {x \in first : x + ChunkSize(n, x) - 1 > num[n]}}
  BY <1>0, <1>1 DEF CheckNumBlocks, store, asked
<1>3. /\ num \in [Node -> 0..height] /\ served \in [Node -> 0..height]
      /\ height \in 0..MaxHeight /\ MaxHeight \in Nat
      /\ phase \in [Node -> {"off", "num", "blocks", "tx", "run", "dead"}]
      /\ chunks \in [Node -> SUBSET Number] /\ over \subseteq Node
      /\ BLOCK_CHUNK \in Nat \ {0}
  BY NetworkAssumption DEF NInv, Typed, TypedVars
<1>4. first \subseteq Number /\ \A i : ChunkSize(n, i) \in 0..BLOCK_CHUNK
  <2>1. first \subseteq served[n] + 1 .. num[n]
    BY <1>0 DEF FirstOfChunk
  <2>2. served[n] \in Nat /\ num[n] \in 0..MaxHeight
    BY <1>3
  <2>3. first \subseteq Number
    BY <1>3, <2>1, <2>2 DEF Number
  <2>4. num[n] % BLOCK_CHUNK \in 0..BLOCK_CHUNK
    BY <1>3, <2>2
  <2>5. BLOCK_CHUNK \in 0..BLOCK_CHUNK
    BY <1>3
  <2>. QED  BY <2>3, <2>4, <2>5 DEF ChunkSize
<1>5. \A i \in first : n \notin over' => i + ChunkSize(n, i) - 1 <= num[n]
  <2>1. ASSUME NEW i \in first, i + ChunkSize(n, i) - 1 > num[n] PROVE n \in over'
    BY <1>2, <2>1
  <2>2. \A i \in first : i + ChunkSize(n, i) - 1 \in Int /\ num[n] \in Int
    BY <1>3, <1>4 DEF Number
  <2>. QED  BY <2>1, <2>2
<1>6. /\ \A x \in Node : phase'[x] = IF x = n THEN "blocks" ELSE phase[x]
      /\ phase' \in [Node -> {"off", "num", "blocks", "tx", "run", "dead"}]
      /\ over \subseteq over' /\ over' \subseteq Node
  BY <1>2, <1>3
<1>7. TypedVars'
  <2>1. chunks' \in [Node -> SUBSET Number]
    BY <1>2, <1>3, <1>4
  <2>. QED  BY <1>2, <1>6, <2>1 DEF NInv, Typed, TypedVars
<1>8. Growth
  <2>1. height <= height' /\ \A x \in Node : num[x] <= num'[x]
    BY <1>2, <1>3
  <2>2. \A x \in Node : Careful(x)' => Careful(x)
    BY <1>2, <1>6 DEF Careful, Running
  <2>. QED  BY <2>1, <2>2 DEF Growth
<1>9. \A i \in first : /\ msg(i) \in Msg /\ msg(i).t = "get_blocks" /\ msg(i).num = i
                       /\ msg(i).chunk = ChunkSize(n, i)
  <2>1. \A i \in Number : \A k \in 0..BLOCK_CHUNK : [t |-> "get_blocks", num |-> i, chunk |-> k] \in Msg
    BY DEF Msg
  <2>2. \A i \in first : msg(i) \in Msg
    BY <1>4, <2>1
  <2>. QED  BY <2>2
<1>10. messages \subseteq Msg /\ IsFiniteSet(messages)
  <2>. DEFINE f == [i \in first |-> msg(i)]
  <2>1. IsFiniteSet(first)
    BY <1>4, NumbersFinite
  <2>2. f \in Surjection(first, messages)
    BY <1>1 DEF Surjection
  <2>3. IsFiniteSet(messages)
    <3>. HIDE DEF f, msg
    <3>. QED  BY <2>1, <2>2, FS_Surjection
  <2>4. messages \subseteq Msg
    <3>. HIDE DEF msg
    <3>. QED  BY <1>1, <1>9
  <2>. QED  BY <2>3, <2>4
<1>11. \A m \in messages : m.t = "get_blocks" /\ (n \notin over' => m.num + m.chunk - 1 <= num[n])
  <2>. HIDE DEF msg
  <2>. QED  BY <1>1, <1>5, <1>9
<1>12. \A m \in messages : /\ m.t \notin Step /\ m.t # "fin"
                           /\ \A e \in End : e[2] = n => Right(e, m)'
  <2>1. ASSUME NEW m \in messages, NEW e \in End, e[2] = n PROVE Right(e, m)'
    <3>1. Careful(e[2])' => m.num + m.chunk - 1 <= num'[e[2]]
      BY <1>2, <1>11, <2>1 DEF Careful
    <3>. QED  BY <1>11, <3>1 DEF Right
  <2>. QED  BY <1>11, <2>1 DEF Step
<1>13. TypedChan' /\ Contents' /\ Joining' /\ Handshake'
  <2>1. \A x \in Node : phase[x] = "num" /\ ~ckNum[x] => phase'[x] = "num" /\ ~ckNum'[x]
    BY <1>2, <1>6
  <2>2. UNCHANGED side
    BY <1>2
  <2>. QED  BY <1>2, <1>7, <1>8, <1>10, <1>12, <2>1, <2>2, QuietAsk
<1>14. Queries'
  BY <1>2, <1>7, <1>8, QueriesKept
<1>15. Stores'
  <2>1. \A x \in Node : /\ retry'[x] \subseteq retry[x] \cup {y \in Number : y <= num[x]}
                        /\ phase'[x] \in {"tx", "run"} => phase[x] \in {"tx", "run"}
    BY <1>2, <1>6
  <2>. QED  BY <1>2, <1>6, <1>7, <1>8, <2>1, HoldsKept DEF Stores
<1>16. Phases'
  BY <1>2, <1>6 DEF NInv, Phases
<1>. QED  BY <1>7, <1>13, <1>14, <1>15, <1>16 DEF NInv, Typed

\* A step that may change the phase of a node that joins, and ask for the pool.
LEMMA PhaseStep ==
  ASSUME NInv, NEW n \in Node, NEW p \in {"tx", "run", "dead"},
         phase[n] \in {"blocks", "tx"}, p = "run" => phase[n] = "tx",
         p = "tx" => phase[n] = "tx" \/ (n \notin over => served[n] + 1 .. num[n] \subseteq blocks[n]),
         phase' = [phase EXCEPT ![n] = p],
         RandomPeer(n, Plain("get_tx_pool")) \/ UNCHANGED chan,
         UNCHANGED <<side, ckNum, txPool, chunks, retry, store, asked, world>>
  PROVE  NInv'
<1>1. UNCHANGED <<side, ckNum, txPool, chunks, retry, num, served, blocks, queries, taken, poolq,
                  height, fragile, over>>
  BY DEF store, asked, world
<1>2. /\ num \in [Node -> 0..height]
      /\ phase \in [Node -> {"off", "num", "blocks", "tx", "run", "dead"}]
      /\ height \in Nat
  BY DEF NInv, Typed, TypedVars
<1>3. /\ \A x \in Node : phase'[x] = IF x = n THEN p ELSE phase[x]
      /\ phase' \in [Node -> {"off", "num", "blocks", "tx", "run", "dead"}]
  BY <1>2
<1>4. TypedVars'
  BY <1>1, <1>3 DEF NInv, Typed, TypedVars
<1>5. Growth
  <2>1. height <= height' /\ \A x \in Node : num[x] <= num'[x]
    BY <1>1, <1>2
  <2>2. \A x \in Node : Careful(x)' => Careful(x)
    BY <1>1, <1>3 DEF Careful, Running
  <2>. QED  BY <2>1, <2>2 DEF Growth
<1>6. \A x \in Node : phase[x] = "num" /\ ~ckNum[x] => phase'[x] = "num" /\ ~ckNum'[x]
  BY <1>1, <1>3
<1>7. TypedChan' /\ Contents' /\ Joining' /\ Handshake'
  <2>1. CASE UNCHANGED chan
    BY <1>1, <1>4, <1>5, <1>6, <2>1, QuietStill
  <2>2. CASE RandomPeer(n, Plain("get_tx_pool"))
    <3>1. /\ Plain("get_tx_pool") \in Msg /\ Plain("get_tx_pool").t = "get_tx_pool"
      BY DEF Plain, Msg
    <3>2. \A e \in End : e[2] = n => Right(e, Plain("get_tx_pool"))'
      BY <3>1 DEF Right
    <3>3. Plain("get_tx_pool").t \notin Step /\ Plain("get_tx_pool").t # "fin"
      BY <3>1 DEF Step
    <3>4. UNCHANGED side
      BY <1>1
    <3>. QED  BY <1>4, <1>5, <1>6, <2>2, <3>1, <3>2, <3>3, <3>4, QuietAskOne
  <2>. QED  BY <2>1, <2>2
<1>8. Queries'
  BY <1>1, <1>4, <1>5, QueriesKept
<1>9. ASSUME NEW x \in Node PROVE Holds(x)'
  <2>1. Holds(x)
    BY DEF NInv, Stores
  <2>2. Careful(x)' => Careful(x)
    BY <1>5 DEF Growth
  <2>3. x \notin over /\ phase'[x] \in {"tx", "run"} => served[x] + 1 .. num[x] \subseteq blocks[x]
    BY <1>3, <2>1 DEF Holds
  <2>. QED  BY <1>1, <2>1, <2>2, <2>3 DEF Holds
<1>10. Phases'
  BY <1>1, <1>3 DEF NInv, Phases
<1>. QED  BY <1>4, <1>7, <1>8, <1>9, <1>10 DEF NInv, Typed, Stores

\* As many blocks as are missing, and none that is not: all of them.
LEMMA CountedAll ==
  ASSUME NInv, NEW n \in Node, phase[n] = "blocks", n \notin over,
         Cardinality(blocks[n]) = num[n] - served[n]
  PROVE  served[n] + 1 .. num[n] \subseteq blocks[n]
<1>1. blocks[n] \subseteq served[n] + 1 .. num[n] /\ served[n] <= num[n]
  BY DEF NInv, Stores, Holds, Careful, Running
<1>2. served[n] \in Nat /\ num[n] \in Nat
  BY DEF NInv, Typed, TypedVars
<1>. DEFINE all == served[n] + 1 .. num[n]
<1>3. IsFiniteSet(all) /\ Cardinality(all) = num[n] - served[n]
  <2>1. served[n] + 1 \in Int /\ num[n] \in Int
    BY <1>2
  <2>2. IsFiniteSet(all)
        /\ Cardinality(all) = IF served[n] + 1 > num[n] THEN 0 ELSE num[n] - (served[n] + 1) + 1
    BY <2>1, FS_Interval
  <2>. QED  BY <1>1, <1>2, <2>2
<1>. HIDE DEF all
<1>4. blocks[n] \subseteq all
  BY <1>1 DEF all
<1>5. Cardinality(blocks[n]) = Cardinality(all)
  BY <1>3
<1>6. blocks[n] = all
  BY <1>3, <1>4, <1>5, FS_Subset
<1>. QED  BY <1>6 DEF all

\* A joining node has counted its blocks.
LEMMA CheckAllBlocksNInv ==
  ASSUME NInv, NEW n \in Node, CheckAllBlocks(n)
  PROVE  NInv'
<1>1. PICK p \in {"tx", "dead"} :
        /\ phase[n] = "blocks" /\ Cardinality(blocks[n]) = num[n] - served[n]
        /\ phase' = [phase EXCEPT ![n] = p]
        /\ RandomPeer(n, Plain("get_tx_pool")) \/ UNCHANGED chan
        /\ UNCHANGED <<side, ckNum, txPool, chunks, retry, store, asked, world>>
  BY DEF CheckAllBlocks
<1>2. n \notin over => served[n] + 1 .. num[n] \subseteq blocks[n]
  BY <1>1, CountedAll
<1>. QED  BY <1>1, <1>2, PhaseStep

\* A joining node has the pool, or asks for it again.
LEMMA CheckTxNInv ==
  ASSUME NInv, NEW n \in Node, CheckTx(n)
  PROVE  NInv'
<1>1. PICK p \in {"tx", "run", "dead"} :
        /\ phase[n] = "tx"
        /\ phase' = [phase EXCEPT ![n] = p]
        /\ RandomPeer(n, Plain("get_tx_pool")) \/ UNCHANGED chan
        /\ UNCHANGED <<side, ckNum, txPool, chunks, retry, store, asked, world>>
  <2>1. phase = [phase EXCEPT ![n] = phase[n]]
    BY DEF NInv, Typed, TypedVars
  <2>. QED  BY <2>1 DEF CheckTx
<1>. QED  BY <1>1, PhaseStep

-----------------------------------------------------------------------------
(***************************************************************************)
(* The theorems.                                                           *)
(***************************************************************************)

\* The system may start where its situations say.
LEMMA InitNInv == Init => NInv
<1>. SUFFICES ASSUME Init PROVE NInv
  OBVIOUS
<1>1. PICK s \in Situation :
        /\ side = [e \in End |-> IF e[1][1] \in s.joined /\ e[1][2] = BootNode
                                 THEN "peer" ELSE "none"]
        /\ chan = [e \in End |-> <<>>]
        /\ phase = [n \in Node |-> IF n \in s.joined THEN "run" ELSE "off"]
        /\ ckNum = [n \in Node |-> n \in s.joined \ {BootNode}]
        /\ txPool = [n \in Node |-> n \in s.joined \ {BootNode}]
        /\ num = s.last /\ served = s.last
        /\ blocks = [n \in Node |-> {}] /\ chunks = [n \in Node |-> {}]
        /\ retry = [n \in Node |-> {}] /\ queries = [e \in End |-> {}]
        /\ taken = [n \in Node |-> {}] /\ poolq = [n \in Node |-> {}]
        /\ height = s.last[BootNode] /\ fragile = s.fragile /\ over = {}
  BY DEF Init
<1>2. /\ BootNode \in Node /\ MaxHeight \in Nat /\ BootNode \in s.joined
      /\ s.joined \subseteq Node /\ s.last \in [Node -> Nat] /\ s.fragile \subseteq Node \X Node
      /\ \A n \in Node : s.last[n] <= s.last[BootNode]
      /\ s.last[BootNode] <= MaxHeight
      /\ \A c \in s.fragile : c[1] # c[2] /\ c[1] # BootNode
  BY NetworkAssumption
<1>3. TypedVars
  <2>1. num \in [Node -> 0..height] /\ served \in [Node -> 0..height] /\ height \in 0..MaxHeight
    <3>1. \A n \in Node : s.last[n] \in 0..s.last[BootNode]
      BY <1>2
    <3>. QED  BY <1>1, <1>2, <3>1
  <2>2. fragile \subseteq Conn
    BY <1>1, <1>2 DEF Conn
  <2>3. /\ side \in [End -> {"none", "NODEID", "peer", "closed"}]
        /\ phase \in [Node -> {"off", "num", "blocks", "tx", "run", "dead"}]
        /\ blocks \in [Node -> SUBSET Number] /\ chunks \in [Node -> SUBSET Number]
        /\ retry \in [Node -> SUBSET Number] /\ taken \in [Node -> SUBSET Number]
        /\ queries \in [End -> SUBSET Number] /\ poolq \in [Node -> SUBSET Conn]
        /\ over \subseteq Node
    BY <1>1
  <2>4. ckNum \in [Node -> BOOLEAN] /\ txPool \in [Node -> BOOLEAN]
    BY <1>1
  <2>. QED  BY <2>1, <2>2, <2>3, <2>4 DEF TypedVars
<1>4. TypedChan
  <2>1. <<>> \in Seq(Msg)
    OBVIOUS
  <2>. QED  BY <1>1, <2>1 DEF TypedChan
<1>5. Contents
  BY <1>1, ToSetSmall DEF Contents
<1>6. Queries
  BY <1>1 DEF Queries
<1>7. Stores
  <2>1. ASSUME NEW n \in Node PROVE Holds(n)
    <3>1. blocks[n] = {} /\ retry[n] = {} /\ num[n] = s.last[n] /\ served[n] = s.last[n]
      BY <1>1
    <3>2. s.last[n] \in Nat
      BY <1>2
    <3>3. s.last[n] + 1 .. s.last[n] = {}
      BY <3>2
    <3>. QED  BY <3>1, <3>2, <3>3 DEF Holds
  <2>. QED  BY <2>1 DEF Stores
<1>8. Joining
  <2>1. \A e \in End : \A i \in Nat : ~StepAt(e, i)
    BY <1>1 DEF StepAt
  <2>. QED  BY <2>1 DEF Joining
<1>9. Phases
  <2>1. \A n \in Node : phase[n] = "off" => ~ckNum[n]
    BY <1>1
  <2>2. \A n \in Node : phase[n] = "off" => \A d \in End : d[1][1] = n => side[d] = "none"
    BY <1>1
  <2>3. \A n \in Node : phase[n] \notin {"blocks", "tx"}
    BY <1>1
  <2>4. phase[BootNode] = "run"
    BY <1>1, <1>2
  <2>. QED  BY <2>1, <2>2, <2>3, <2>4 DEF Phases
<1>10. Handshake
  <2>1. ASSUME NEW e \in End PROVE Shaken(e)
    <3>1. Far(e) \in End /\ Far(e)[1] = e[1]
      BY EndFacts
    <3>2. ~HasFin(e)
      BY <1>1, ToSetSmall DEF HasFin
    <3>3. side[e] \in {"none", "peer"} /\ side[Far(e)] = side[e]
      BY <1>1, <3>1
    <3>. QED  BY <3>2, <3>3 DEF Shaken
  <2>2. ASSUME NEW n \in Node PROVE OnePerPeer(n)
    <3>1. ASSUME NEW c \in Peers(n) PROVE c[2] = BootNode
      <4>1. c \in Conn /\ n \in Ends(c) /\ side[<<c, n>>] = "peer"
        BY <3>1 DEF Peers
      <4>2. <<c, n>> \in End
        BY <4>1, EndFacts
      <4>3. <<c, n>>[1] = c
        OBVIOUS
      <4>. QED  BY <1>1, <4>1, <4>2, <4>3
    <3>2. ASSUME NEW c \in Peers(n), NEW d \in Peers(n), Other(c, n) = Other(d, n)
          PROVE  c = d
      <4>1. c \in Conn /\ d \in Conn /\ n \in Ends(c) /\ n \in Ends(d)
        BY DEF Peers
      <4>2. c[2] = BootNode /\ d[2] = BootNode
        BY <3>1
      <4>3. c = <<c[1], c[2]>> /\ d = <<d[1], d[2]>>
        BY <4>1 DEF Conn
      <4>4. c[1] = d[1]
        BY <3>2, <4>1, <4>2 DEF Other, Ends
      <4>. QED  BY <4>2, <4>3, <4>4
    <3>. QED  BY <3>2 DEF OnePerPeer
  <2>. QED  BY <2>1, <2>2 DEF Handshake
<1>. QED  BY <1>3, <1>4, <1>5, <1>6, <1>7, <1>8, <1>9, <1>10 DEF NInv, Typed

\* Every action keeps the invariant.
LEMMA NextNInv == NInv /\ [Next]_vars => NInv'
<1>. SUFFICES ASSUME NInv, [Next]_vars PROVE NInv'
  OBVIOUS
<1>1. CASE UNCHANGED vars
  <2>1. /\ UNCHANGED <<side, chan, phase, ckNum, txPool, chunks, retry, num, served, blocks>>
        /\ UNCHANGED <<queries, taken, poolq, height, fragile, over>>
    BY <1>1 DEF vars, links, loops, store, asked, world
  <2>2. TypedVars'
    BY <2>1 DEF NInv, Typed, TypedVars
  <2>3. Growth /\ Queries' /\ Stores' /\ Phases'
    BY <2>1, <2>2, StoreKept
  <2>4. TypedChan' /\ Contents' /\ Joining' /\ Handshake'
    BY <2>1, <2>2, <2>3, QuietStill
  <2>. QED  BY <2>2, <2>3, <2>4 DEF NInv, Typed
<1>2. ASSUME NEW n \in Node,
             Start(n) \/ CheckNumBlocks(n) \/ CheckAllBlocks(n) \/ CheckTx(n)
             \/ CheckDht(n) \/ BroadcastBlock(n) \/ Main(n)
      PROVE  NInv'
  <2>1. CASE Start(n)
    BY <2>1, StartNInv
  <2>2. CASE CheckNumBlocks(n)
    BY <2>2, CheckNumBlocksNInv
  <2>3. CASE CheckAllBlocks(n)
    BY <2>3, CheckAllBlocksNInv
  <2>4. CASE CheckTx(n)
    BY <2>4, CheckTxNInv
  <2>5. CASE CheckDht(n)
    BY <2>5, CheckDhtNInv
  <2>6. CASE BroadcastBlock(n)
    BY <2>6, BroadcastBlockNInv
  <2>7. CASE GetBlock(n)
    BY <2>7, GetBlockNInv
  <2>8. CASE GetBlockQueries(n)
    BY <2>8, GetBlockQueriesNInv
  <2>9. CASE AnswerBlockQueries(n)
    BY <2>9, AnswerBlockQueriesNInv
  <2>10. CASE AnswerTxPoolQuery(n)
    BY <2>10, AnswerTxPoolQueryNInv
  <2>. QED  BY <1>2, <2>1, <2>2, <2>3, <2>4, <2>5, <2>6, <2>7, <2>8, <2>9, <2>10 DEF Main
<1>3. ASSUME NEW n \in Node, NEW i \in Number, CheckBlocks(n, i) \/ CheckBlock(n, i)
      PROVE  NInv'
  BY <1>3, CheckBlocksNInv, CheckBlockNInv
<1>4. ASSUME NEW c \in Conn, NEW n \in Ends(c), Read(n, c)
      PROVE  NInv'
  <2>1. CASE NodeId(n, c)
    BY <2>1, NodeIdNewNInv, NodeIdKnownNInv
  <2>2. CASE ConnectionLost(n, c)
    BY <2>2, ConnectionLostNInv
  <2>3. CASE GetPeers(n, c)
    BY <2>3, GetPeersNInv
  <2>4. CASE SetPeers(n, c)
    BY <2>4, SetPeersNInv
  <2>5. CASE GetNumBlocks(n, c)
    BY <2>5, GetNumBlocksNInv
  <2>6. CASE SetNumBlocks(n, c)
    BY <2>6, SetNumBlocksNInv
  <2>7. CASE SetBlock(n, c)
    BY <2>7, SetBlockNInv
  <2>8. CASE SetBlocks(n, c)
    BY <2>8, SetBlocksNInv
  <2>9. CASE GetBlockNum(n, c)
    BY <2>9, GetBlockNumNInv
  <2>10. CASE GetBlocks(n, c)
    BY <2>10, GetBlocksNInv
  <2>11. CASE GetTxPool(n, c)
    BY <2>11, GetTxPoolNInv
  <2>12. CASE SetTxPool(n, c)
    BY <2>12, SetTxPoolNInv
  <2>. QED  BY <1>4, <2>1, <2>2, <2>3, <2>4, <2>5, <2>6, <2>7, <2>8, <2>9, <2>10, <2>11, <2>12 DEF Read
<1>5. ASSUME NEW c \in Conn, Break(c)
      PROVE  NInv'
  BY <1>5, BreakNInv
<1>. QED  BY <1>1, <1>2, <1>3, <1>4, <1>5 DEF Next

\* NInv holds in every state: the channels, timers and stores of all nodes fit together
\* as it says (network.py, dataReceived and the looping calls).
THEOREM NetworkInvariant == Spec => []NInv
<1>1. Init => NInv
  BY InitNInv
<1>2. NInv /\ [Next]_vars => NInv'
  BY NextNInv
<1>. QED  BY <1>1, <1>2, PTL DEF Spec

\* Every variable has its type: no channel ever holds anything but the messages of the
\* protocol, and nobody counts more blocks than the network has.
THEOREM NetworkTypeOK == Spec => []TypeOK
<1>1. NInv => TypeOK
  <2>. SUFFICES ASSUME NInv PROVE TypeOK
    OBVIOUS
  <2>1. \A e \in End : \A i \in DOMAIN chan[e] : chan[e][i] \in Msg
    BY DEF NInv, Typed, TypedChan
  <2>2. TypedVars
    BY DEF NInv, Typed
  <2>. QED  BY <2>1, <2>2 DEF TypeOK, TypedVars
<1>. QED  BY <1>1, NetworkInvariant, PTL

\* A node that has joined without asking past its last block holds every block between
\* the last that its main process took and the last that it knows of, whatever order
\* the answers came in (network.py:381-390, 265-281).
THEOREM NetworkNoGap == Spec => []NoGap
<1>1. NInv => NoGap
  BY DEF NInv, Stores, Holds, NoGap, Running
<1>. QED  BY <1>1, NetworkInvariant, PTL

\* Two nodes with nothing under way between them have registered each other on the same
\* connection, and on one at most (network.py:62-88).
THEOREM NetworkPeersMutual == Spec => []PeersMutual
<1>1. NInv => PeersMutual
  <2>. SUFFICES ASSUME NInv, NEW n \in Node, NEW m \in Node, n # m,
                       NEW between, between = {c \in Conn : Ends(c) = {n, m}},
                       \A c \in between : chan[<<c, n>>] = <<>> /\ chan[<<c, m>>] = <<>>
                PROVE  /\ between \cap Peers(n) = between \cap Peers(m)
                       /\ Cardinality(between \cap Peers(n)) <= 1
    BY DEF PeersMutual
  <2>1. ASSUME NEW c \in between
        PROVE  /\ c \in Conn /\ n \in Ends(c) /\ m \in Ends(c) /\ Other(c, n) = m
               /\ <<c, n>> \in End /\ <<c, m>> \in End
               /\ Far(<<c, n>>) = <<c, m>> /\ Far(<<c, m>>) = <<c, n>>
    <3>1. c \in Conn /\ n \in Ends(c) /\ m \in Ends(c)
      OBVIOUS
    <3>2. Other(c, n) = m /\ Other(c, m) = n
      BY <3>1 DEF Ends, Other
    <3>. QED  BY <3>1, <3>2, EndFacts
  <2>2. ASSUME NEW c \in between
        PROVE  side[<<c, n>>] = "peer" <=> side[<<c, m>>] = "peer"
    <3>. DEFINE e == <<c, n>>
                f == <<c, m>>
    <3>1. e \in End /\ f \in End /\ Far(e) = f /\ Far(f) = e
      BY <2>1
    <3>2. chan[e] = <<>> /\ chan[f] = <<>>
      OBVIOUS
    <3>. HIDE DEF e, f
    <3>3. ~HasFin(e) /\ ~HasFin(f)
      BY <3>2, ToSetSmall DEF HasFin
    <3>4. Shaken(e) /\ Shaken(f) /\ side \in [End -> {"none", "NODEID", "peer", "closed"}]
      BY <3>1 DEF NInv, Handshake, Typed, TypedVars
    <3>5. side[e] = "peer" <=> side[f] = "peer"
      BY <3>1, <3>2, <3>3, <3>4 DEF Shaken
    <3>. QED  BY <3>5 DEF e, f
  <2>3. between \cap Peers(n) = between \cap Peers(m)
    BY <2>1, <2>2 DEF Peers
  <2>4. \A c, d \in between \cap Peers(n) : c = d
    <3>1. OnePerPeer(n)
      BY DEF NInv, Handshake
    <3>. QED  BY <2>1, <3>1 DEF OnePerPeer
  <2>5. Cardinality(between \cap Peers(n)) <= 1
    <3>. DEFINE S == between \cap Peers(n)
    <3>. HIDE DEF S
    <3>1. \A c, d \in S : c = d
      BY <2>4 DEF S
    <3>2. ASSUME S = {} PROVE Cardinality(S) <= 1
      <4>1. Cardinality(S) = 0
        BY <3>2, FS_EmptySet
      <4>. QED  BY <4>1
    <3>3. ASSUME NEW c \in S PROVE Cardinality(S) <= 1
      <4>1. S = {c}
        BY <3>1, <3>3
      <4>2. Cardinality(S) = 1
        BY <4>1, FS_Singleton
      <4>. QED  BY <4>2
    <3>. QED  BY <3>2, <3>3 DEF S
  <2>. QED  BY <2>3, <2>5
<1>. QED  BY <1>1, NetworkInvariant, PTL
=============================================================================
