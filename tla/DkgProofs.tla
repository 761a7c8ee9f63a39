----------------------------- MODULE DkgProofs -----------------------------
(***************************************************************************)
(* The renewal of the group key, proved for any number of nodes, members   *)
(* and restarts.  The inductive invariant DInv says of each node what its  *)
(* Consensus object holds in each stage of the renewal (NodeOK), and of    *)
(* what is on its way that contributions are of a generation there was,    *)
(* that a share of block 0 is signed with the old key and one of block 1   *)
(* with the key and the random number of the signer's block, unless        *)
(* something excuses it, and that a copy of block 1 carries that key, or   *)
(* the old one if its creator had not triggered.                           *)
(***************************************************************************)
EXTENDS Dkg, FoldProofs

\* The node of the member that should sign block 1.
SignerNode == CHOOSE n \in Node : Signer \in Addrs[n]

\* What the invariant of one node depends on of the others: the histories, how often
\* contributions were generated, and whether the signer has block 1 with the new key,
\* and which.
Hist ==
  [cut |-> cut, ahead |-> ahead, alone |-> {n \in Node : Alone(n)}, restarts |-> restarts,
   gen |-> generated,
   created |-> IF main[SignerNode].block_num = 1 /\ SignerNode \notin ahead THEN 1 ELSE 0,
   key |-> consensus[SignerNode].group_key]

Ids(n) == Addrs[n] \cap New
KeyUpTo(gen) == {v \in [New -> Nat] : \A a \in New : v[a] \in 1..gen[a]}
\* Contributions received, and not.
UpTo(gen) == {v \in [New -> Nat] : \A a \in New : v[a] \in 0..gen[a]}

\* A node may have secret keys of another key than the group's, or sign another
\* random number.
MixedAt(n, gen) == (\E a \in New : gen[a] > 1) /\ Cardinality(Addrs[n] \cap New) > 1
Excused(h) ==
  h.cut # {} \/ h.ahead # {} \/ h.alone # {} \/ \E n \in Node : MixedAt(n, h.gen)

ShareOK(s, h) ==
  /\ s.block_number \in {0, 1}
  /\ s.block_number = 0 => s.key = OldKey /\ s.source \in Old /\ s.random = 0
  /\ s.block_number = 1 =>
       /\ s.source \in New \/ h.ahead # {}
       /\ (h.created = 1 /\ s.key = h.key /\ s.random = 1) \/ Excused(h)

\* The contributions t that the members of node n have, their secret keys k and the
\* group key g: a member that has all contributions has its secret key, and the group
\* key is that of a member that has all.
Full(t, id) == \A a \in New : t[id][a] # 0
Table(t, k, g, n, gen) ==
  /\ t \in [Ids(n) -> UpTo(gen)]
  /\ \A id \in Ids(n) : Full(t, id) => id \in DOMAIN k /\ k[id] = t[id]
  /\ \/ g = OldKey /\ \A id \in Ids(n) : ~Full(t, id)
     \/ \E id \in Ids(n) : Full(t, id) /\ g = t[id]
TableOK(c, n, h) == Table(c.received, c.secretKeys, c.group_key, n, h.gen)

MainOK(m) ==
  m \in [at : {"bootstrap", "loop"} \cup Reasons, block_num : {0, 1}, last_random_no : {0, 1},
         dkg_on : BOOLEAN, exit_from_dkg : BOOLEAN, in_dkg_group : BOOLEAN,
         create_shares : BOOLEAN, due : BOOLEAN, served : BOOLEAN]

IsConsensus(c) ==
  c = [members |-> c.members, own_ids |-> c.own_ids, received |-> c.received,
       secretKeys |-> c.secretKeys, group_key |-> c.group_key,
       previous_group_key |-> c.previous_group_key, shares |-> c.shares,
       verified |-> c.verified, random |-> c.random, next_signer |-> c.next_signer,
       raised |-> c.raised]

\* The shares of the round: fewer than THRESHOLD before the group signature is
\* there, and all of the round.
RoundOK(c, num, h) ==
  /\ c.verified \in BOOLEAN /\ IsFiniteSet(c.shares) /\ Cardinality(c.shares) <= THRESHOLD
  /\ c.raised = "no" /\ ~c.verified => Cardinality(c.shares) < THRESHOLD
  /\ ~c.verified => \A s \in c.shares : ShareOK(s, h) /\ s.block_number = num
  /\ num = 0 => c.random \in {0, 1}

ConsensusOK(n, c, h) ==
  /\ IsConsensus(c)
  /\ c.members \subseteq Old \cup New /\ c.own_ids \subseteq Addrs[n] \cap (Old \cup New)
  /\ c.secretKeys = [a \in DOMAIN c.secretKeys |-> c.secretKeys[a]]
  /\ c.previous_group_key = OldKey
  /\ c.group_key = OldKey \/ c.group_key \in KeyUpTo(h.gen)

\* Before the trigger.
Waiting(m) ==
  /\ m.block_num = 0 /\ ~m.dkg_on /\ ~m.exit_from_dkg
  /\ m.at \notin {"group key", "bootstrap signature"}
\* From the trigger to block 1.
Renewing(m) == m.dkg_on \/ m.exit_from_dkg

KeysFit(n, c, h) ==
  \/ n \in h.cut
  \/ MixedAt(n, h.gen)
  \/ \A a \in c.own_ids \cap DOMAIN c.secretKeys : c.secretKeys[a] = c.group_key

WaitingOK(n, m, c, h) ==
  Waiting(m) =>
    /\ c.group_key = OldKey /\ KeysFit(n, c, h)
    /\ c.members = Old \/ h.restarts > 0 \/ h.ahead # {}

RenewingOK(n, m, c, h) ==
  Renewing(m) =>
    /\ m.block_num = 0 /\ ~(m.dkg_on /\ m.exit_from_dkg) /\ m.at # "bootstrap"
    /\ c.verified /\ c.members = New /\ c.own_ids = Ids(n)
    /\ m.in_dkg_group <=> Ids(n) # {}
    /\ m.exit_from_dkg => m.in_dkg_group /\ all_node_dkgs_finished(c)
    /\ m.in_dkg_group => TableOK(c, n, h)
    /\ ~m.in_dkg_group => c.group_key = OldKey

DoneOK(n, m, c, h) ==
  m.block_num = 1 =>
    /\ m.served
    /\ m.last_random_no = 0 => h.alone # {}
    /\ c.members = New \/ n \in Fresh \/ h.restarts > 0 \/ h.ahead # {}
    /\ KeysFit(n, c, h)
    /\ n \notin h.ahead => h.created = 1 /\ c.group_key = h.key

\* Block 0, and the nodes past block 1 with the old key.
HeadOK(n, m, c, h) ==
  /\ m.block_num = 0 => m.last_random_no = 0
  /\ n \in h.ahead => m.block_num = 1 /\ c.group_key = OldKey

StartOK(n, m, c, h) ==
  m.at = "bootstrap" =>
    /\ c.verified /\ (n \in Fresh \/ h.restarts > 0)
    /\ c.own_ids \cap DOMAIN c.secretKeys = {}

StopOK(n, m, c, h) ==
  /\ m.at \in {"bootstrap", "loop"} => c.raised = "no"
  /\ m.at = "group key" => (\E a \in New : h.gen[a] > 1) \/ h.ahead # {}
  /\ m.at = "invalid signature" => Excused(h)
  /\ m.at = "unknown source" =>
       \/ m.exit_from_dkg /\ m.block_num = 0
       \/ n \in Fresh /\ m.block_num = 1
       \/ h.restarts > 0 \/ h.ahead # {}
  /\ m.at = "unowned IP" => Holder[c.next_signer] = Nobody
  /\ m.at = "bootstrap signature" => h.alone # {}

NodeOK(n, m, c, h) ==
  /\ MainOK(m)
  /\ ConsensusOK(n, c, h)
  /\ RoundOK(c, m.block_num, h)
  /\ WaitingOK(n, m, c, h)
  /\ RenewingOK(n, m, c, h)
  /\ DoneOK(n, m, c, h)
  /\ HeadOK(n, m, c, h)
  /\ StartOK(n, m, c, h)
  /\ StopOK(n, m, c, h)

ContribOK(s, gen) == s.source \in New /\ s.to \in New /\ s.contrib \in 1..gen[s.source]

\* Block 1 with the new key comes from the signer, one with the old key from a node
\* that is ahead, and one with the old random number from a node alone.
BlockOK(b, h) ==
  /\ b.random \in {0, 1}
  /\ b.random = 0 => h.alone # {}
  /\ \/ b.group_pubkey = OldKey /\ h.ahead # {}
     \/ /\ h.created = 1 /\ b.group_pubkey = h.key /\ h.key \in KeyUpTo(h.gen)
        /\ b.signer = Signer

\* The variables are functions, and the counters and histories have their types.
Shapes ==
  /\ main = [n \in Node |-> main[n]] /\ consensus = [n \in Node |-> consensus[n]]
  /\ bls_shares = [n \in Node |-> bls_shares[n]] /\ bls_future = [n \in Node |-> bls_future[n]]
  /\ dkg_shares = [n \in Node |-> dkg_shares[n]] /\ blocks = [n \in Node |-> blocks[n]]
  /\ restarts \in Nat /\ expired \in BOOLEAN /\ generated \in [New -> Nat]
  /\ lost \subseteq Node /\ cut \subseteq Node /\ ahead \subseteq Node
  /\ \A n \in Node : main[n].at \in {"timeout", "block timeout"} => expired

Nodes == \A n \in Node : NodeOK(n, main[n], consensus[n], Hist)

\* What is on its way.
SharesOK ==
  \A n \in Node :
    /\ \A s \in bls_shares[n] : ShareOK(s, Hist)
    /\ \A s \in bls_future[n] : ShareOK(s, Hist) /\ s.block_number = 1
ContribsOK == \A n \in Node : \A s \in dkg_shares[n] : ContribOK(s, generated)
BlocksOK == \A n \in Node : \A b \in blocks[n] : BlockOK(b, Hist)

DInv == Shapes /\ Nodes /\ SharesOK /\ ContribsOK /\ BlocksOK

-----------------------------------------------------------------------------
(* The operators of the Consensus object *)

ShareFold == INSTANCE FoldProofs
  WITH op <- LAMBDA c, d, s : IF d.raised = "no" THEN store_share(d, s, c) ELSE d
ContribFold == INSTANCE FoldProofs WITH op <- LAMBDA c, d, s : verify_dkg_contribution(d, s)

\* The object c with other shares.
With(c, sh, v, x, w) ==
  [members |-> c.members, own_ids |-> c.own_ids, received |-> c.received,
   secretKeys |-> c.secretKeys, group_key |-> c.group_key,
   previous_group_key |-> c.previous_group_key, shares |-> sh, verified |-> v,
   random |-> x, next_signer |-> c.next_signer, raised |-> w]

\* No exception, or one of the exceptions of store_share.
Raised == {"no", "unknown source", "invalid signature"}

\* What storing the shares S, one by one, makes of the object c when lr is the last
\* random number: more shares, and the group signature or an exception.
Grown(c, d, S, lr) ==
  /\ d = With(c, d.shares, d.verified, d.random, d.raised)
  /\ d.shares \subseteq c.shares \cup S /\ IsFiniteSet(d.shares)
  /\ d.verified \in BOOLEAN /\ Cardinality(d.shares) <= THRESHOLD
  /\ d.random = c.random \/ \E s \in S : d.random = s.block_number + 1
  /\ d.raised = "no" /\ ~d.verified => Cardinality(d.shares) < THRESHOLD
  /\ d.raised \in Raised
  /\ c.verified => d.verified /\ d.raised # "invalid signature"
  /\ d.raised = "unknown source" => \E s \in S : s.source \notin c.members
  /\ d.raised = "invalid signature" =>
       \E s \in c.shares \cup S : s.key # c.group_key \/ s.random # lr

\* The fields of an object with other shares.
LEMMA WithFields ==
  ASSUME NEW c, NEW sh, NEW v, NEW x, NEW w, NEW d, d = With(c, sh, v, x, w)
  PROVE  /\ d.shares = sh /\ d.verified = v /\ d.random = x /\ d.raised = w
         /\ d.members = c.members /\ d.own_ids = c.own_ids /\ d.received = c.received
         /\ d.secretKeys = c.secretKeys /\ d.group_key = c.group_key
         /\ d.previous_group_key = c.previous_group_key /\ d.next_signer = c.next_signer
         /\ d = With(c, d.shares, d.verified, d.random, d.raised)
         /\ IsConsensus(d)
         /\ \A sh2, v2, x2, w2 : With(d, sh2, v2, x2, w2) = With(c, sh2, v2, x2, w2)
<1>1. /\ d.shares = sh /\ d.verified = v /\ d.random = x /\ d.raised = w
      /\ d.members = c.members /\ d.own_ids = c.own_ids /\ d.received = c.received
      /\ d.secretKeys = c.secretKeys /\ d.group_key = c.group_key
      /\ d.previous_group_key = c.previous_group_key /\ d.next_signer = c.next_signer
  BY DEF With
<1>2. d = With(c, d.shares, d.verified, d.random, d.raised)
  BY <1>1
<1>3. IsConsensus(d)
  BY <1>1 DEF IsConsensus, With
<1>4. ASSUME NEW sh2, NEW v2, NEW x2, NEW w2
      PROVE  With(d, sh2, v2, x2, w2) = With(c, sh2, v2, x2, w2)
  BY <1>1 DEF With
<1>. QED  BY <1>1, <1>2, <1>3, <1>4

\* An object is itself with its own shares.
LEMMA WithSelf ==
  ASSUME NEW c, IsConsensus(c)
  PROVE  c = With(c, c.shares, c.verified, c.random, c.raised)
BY DEF With, IsConsensus

\* The fields that storing shares leaves alone.
LEMMA GrownKeeps ==
  ASSUME NEW c, NEW d, NEW S, NEW lr, Grown(c, d, S, lr)
  PROVE  /\ IsConsensus(d) /\ d.members = c.members /\ d.own_ids = c.own_ids
         /\ d.received = c.received /\ d.secretKeys = c.secretKeys
         /\ d.group_key = c.group_key /\ d.previous_group_key = c.previous_group_key
         /\ d.next_signer = c.next_signer
         /\ \A sh, v, x, w : With(d, sh, v, x, w) = With(c, sh, v, x, w)
<1>1. PICK sh, v, x, w : d = With(c, sh, v, x, w)
  BY DEF Grown
<1>. QED  BY <1>1, WithFields

\* store_share stores one of the shares.
LEMMA StoreShareOK ==
  ASSUME NEW c, NEW d, NEW S, NEW lr, Grown(c, d, S, lr), d.raised = "no", NEW s \in S
  PROVE  Grown(c, store_share(d, s, lr), S, lr)
<1>. DEFINE e == store_share(d, s, lr)
            got == d.shares \cup {s}
            full == Cardinality(got) >= THRESHOLD
            valid == \A t \in got : t.key = d.group_key /\ t.random = lr
<1>0. /\ IsConsensus(d) /\ d.members = c.members /\ d.group_key = c.group_key
      /\ \A sh, v, x, w : With(d, sh, v, x, w) = With(c, sh, v, x, w)
  BY GrownKeeps
<1>1. CASE s.source \notin d.members
  <2>1. e = [d EXCEPT !.raised = "unknown source"]
    BY <1>1 DEF store_share
  <2>2. PICK sh, v, x, y, w :
          sh = d.shares /\ v = d.verified /\ x = d.random /\ y = d.raised /\ w = "unknown source"
    OBVIOUS
  <2>3. d = With(c, sh, v, x, y)
    BY <2>2 DEF Grown
  <2>4. e = With(c, sh, v, x, w)
    <3>1. e = [d EXCEPT !.raised = w]
      BY <2>1, <2>2
    <3>. QED  BY ONLY <2>3, <3>1 DEF With
  <2>. HIDE DEF e
  <2>5. /\ e.shares = sh /\ e.verified = v /\ e.random = x /\ e.raised = w
        /\ e = With(c, e.shares, e.verified, e.random, e.raised)
    BY <2>4, WithFields
  <2>6. \E t \in S : t.source \notin c.members
    BY <1>0, <1>1
  <2>7. Grown(c, e, S, lr)
    BY <2>2, <2>5, <2>6 DEF Grown, Raised
  <2>. QED  BY <2>7 DEF e
<1>2. CASE s.source \in d.members /\ (d.verified \/ \E t \in d.shares : t.source = s.source)
  BY <1>2 DEF store_share
<1>3. CASE s.source \in d.members /\ ~(d.verified \/ \E t \in d.shares : t.source = s.source)
  <2>1. e = [d EXCEPT !.shares = got, !.verified = full /\ valid,
                      !.random = IF full /\ valid THEN s.block_number + 1 ELSE @,
                      !.raised = IF full /\ ~valid THEN "invalid signature" ELSE @]
    BY <1>3 DEF store_share
  <2>2. PICK v \in BOOLEAN : v = (full /\ valid)
    OBVIOUS
  <2>3. PICK w : w = IF full /\ ~valid THEN "invalid signature" ELSE "no"
    OBVIOUS
  <2>4. PICK x : x = IF full /\ valid THEN s.block_number + 1 ELSE d.random
    OBVIOUS
  <2>5. e = [d EXCEPT !.shares = got, !.verified = v, !.random = x, !.raised = w]
    <3>. HIDE DEF got, full, valid
    <3>. QED  BY <2>1, <2>2, <2>3, <2>4
  <2>6. /\ e.shares = got /\ e.verified = v /\ e.random = x /\ e.raised = w
        /\ e = With(c, e.shares, e.verified, e.random, e.raised)
    <3>. HIDE DEF got, full, valid, e
    <3>1. e = With(c, got, v, x, w)
      <4>1. PICK a, b, f, g : d = With(c, a, b, f, g)
        BY DEF Grown
      <4>. QED  BY <2>5, <4>1 DEF With
    <3>2. PICK T, q, bv : T = got /\ q = e /\ bv = v
      OBVIOUS
    <3>3. q = With(c, T, bv, x, w)
      BY <3>1, <3>2
    <3>4. /\ q.shares = T /\ q.verified = bv /\ q.random = x /\ q.raised = w
          /\ q = With(c, q.shares, q.verified, q.random, q.raised)
      <4>1. /\ q.shares = T /\ q.verified = bv /\ q.random = x /\ q.raised = w
        BY ONLY <3>3 DEF With
      <4>. QED  BY ONLY <3>3, <4>1
    <3>. QED  BY ONLY <3>2, <3>4
  <2>7. /\ IsFiniteSet(got) /\ Cardinality(got) \in Nat
        /\ Cardinality(got) <= THRESHOLD
        /\ ~full => Cardinality(got) < THRESHOLD
    <3>1. IsFiniteSet(d.shares) /\ Cardinality(d.shares) < THRESHOLD /\ s \notin d.shares
      BY <1>3 DEF Grown
    <3>2. IsFiniteSet(got) /\ Cardinality(got) = Cardinality(d.shares) + 1
          /\ Cardinality(d.shares) \in Nat
      BY <3>1, FS_AddElement, FS_CardinalityType
    <3>3. THRESHOLD \in Nat
      BY DkgAssumption
    <3>. HIDE DEF got
    <3>. QED  BY <3>1, <3>2, <3>3
  <2>8. got \subseteq c.shares \cup S
    BY DEF Grown
  <2>9. ~c.verified
    BY <1>3 DEF Grown
  <2>10. ~valid => \E t \in c.shares \cup S : t.key # c.group_key \/ t.random # lr
    BY <1>0, <2>8
  <2>11. w \in {"no", "invalid signature"} /\ (w = "no" /\ ~v => ~full) /\ (w # "no" => ~valid)
    <3>. HIDE DEF full, valid
    <3>. QED  BY <2>2, <2>3
  <2>12. x = c.random \/ \E t \in S : x = t.block_number + 1
    <3>. HIDE DEF full, valid
    <3>. QED  BY <2>4 DEF Grown
  <2>. HIDE DEF e, got, full, valid
  <2>13. e.raised = "invalid signature"
         => \E t \in c.shares \cup S : t.key # c.group_key \/ t.random # lr
    BY <2>6, <2>10, <2>11
  <2>14. e.raised = "no" /\ ~e.verified => Cardinality(e.shares) < THRESHOLD
    BY <2>6, <2>7, <2>11
  <2>15. e.shares \subseteq c.shares \cup S /\ IsFiniteSet(e.shares)
         /\ e.verified \in BOOLEAN /\ Cardinality(e.shares) <= THRESHOLD
    BY <2>2, <2>6, <2>7, <2>8
  <2>16. e.raised \in {"no", "invalid signature"}
         /\ (e.random = c.random \/ \E t \in S : e.random = t.block_number + 1)
    BY <2>6, <2>11, <2>12
  <2>17. Grown(c, e, S, lr)
    BY <2>6, <2>9, <2>13, <2>14, <2>15, <2>16 DEF Grown, Raised
  <2>. QED  BY <2>17 DEF e
<1>. QED  BY <1>1, <1>2, <1>3

\* The shares of an object, with none added.
LEMMA GrownSelf ==
  ASSUME NEW c, IsConsensus(c), c.raised = "no", c.verified \in BOOLEAN,
         IsFiniteSet(c.shares), Cardinality(c.shares) <= THRESHOLD,
         ~c.verified => Cardinality(c.shares) < THRESHOLD, NEW S, NEW lr
  PROVE  Grown(c, c, S, lr)
<1>1. c = With(c, c.shares, c.verified, c.random, c.raised)
  BY WithSelf
<1>. QED  BY <1>1 DEF Grown, Raised

\* create_shares stores the shares it makes.
LEMMA CreateSharesOK ==
  ASSUME NEW c, NEW lr, NEW num, Grown(c, c, new_shares(c, lr, num), lr), IsFiniteSet(c.own_ids)
  PROVE  Grown(c, create_shares(c, lr, num), new_shares(c, lr, num), lr)
<1>. DEFINE S == new_shares(c, lr, num)
            X == {c.random} \cup {s.block_number + 1 : s \in S}
            U == { With(c, x[1], x[2], x[3], x[4]) :
                     x \in (SUBSET (c.shares \cup S)) \X BOOLEAN \X X \X Raised }
            D == { d \in U : Grown(c, d, S, lr) }
<1>1. IsFiniteSet(S)
  <2>. DEFINE I == c.own_ids \cap DOMAIN c.secretKeys
  <2>1. IsFiniteSet(I)
    BY FS_Subset
  <2>. DEFINE f == [a \in I |-> [source |-> a, key |-> c.secretKeys[a], random |-> lr,
                                 block_number |-> num]]
  <2>2. f \in Surjection(I, S)
    BY DEF new_shares, Surjection
  <2>. HIDE DEF S, I, f
  <2>. QED  BY <2>1, <2>2, FS_Surjection
<1>2. ASSUME NEW d, Grown(c, d, S, lr) PROVE d \in D
  <2>. HIDE DEF S
  <2>1. PICK x : x = <<d.shares, d.verified, d.random, d.raised>>
    OBVIOUS
  <2>2. d.random \in X
    BY <1>2 DEF Grown
  <2>. HIDE DEF X
  <2>3. x \in (SUBSET (c.shares \cup S)) \X BOOLEAN \X X \X Raised
    BY <1>2, <2>1, <2>2 DEF Grown
  <2>4. d = With(c, x[1], x[2], x[3], x[4])
    BY <1>2, <2>1 DEF Grown
  <2>. QED  BY <1>2, <2>3, <2>4
<1>3. \A d \in D : Grown(c, d, S, lr)
  <2>. HIDE DEF S, U
  <2>. QED  OBVIOUS
<1>. HIDE DEF D, S, U
<1>4. ShareFold!Closed(lr, D, S)
  <2>1. ASSUME NEW d \in D, NEW s \in S
        PROVE  (IF d.raised = "no" THEN store_share(d, s, lr) ELSE d) \in D
    BY <1>2, <1>3, StoreShareOK
  <2>. QED  BY <2>1 DEF ShareFold!Closed
<1>5. c \in D
  BY <1>2 DEF S
<1>6. ShareFold!SetFold(lr, c, S) \in D
  <2>1. ShareFold!IsFiniteSet(S)
    BY <1>1 DEF IsFiniteSet, ShareFold!IsFiniteSet
  <2>. QED  BY <1>4, <1>5, <2>1, ShareFold!SetFoldIn
<1>7. create_shares(c, lr, num) = ShareFold!SetFold(lr, c, S)
  BY DEF create_shares, S, ShareFold!SetFold, FoldSet, MapThenFoldSet, ShareFold!FoldSet,
         ShareFold!MapThenFoldSet
<1>. QED  BY <1>3, <1>6, <1>7 DEF S

\* The object c with another table, other secret keys and another group key.
Keyed(c, t, k, g) ==
  [members |-> c.members, own_ids |-> c.own_ids, received |-> t, secretKeys |-> k,
   group_key |-> g, previous_group_key |-> c.previous_group_key, shares |-> c.shares,
   verified |-> c.verified, random |-> c.random, next_signer |-> c.next_signer,
   raised |-> c.raised]

\* The secret keys of some of the addresses I, out of R.
Secrets(I, R) == UNION { [J -> R] : J \in SUBSET I }

\* The fields of such an object.
LEMMA KeyedFields ==
  ASSUME NEW c, NEW t, NEW k, NEW g, NEW d, d = Keyed(c, t, k, g)
  PROVE  /\ d.received = t /\ d.secretKeys = k /\ d.group_key = g
         /\ d.members = c.members /\ d.own_ids = c.own_ids
         /\ d.previous_group_key = c.previous_group_key
         /\ d.shares = c.shares /\ d.verified = c.verified /\ d.raised = c.raised
         /\ d.random = c.random /\ d.next_signer = c.next_signer
         /\ d = Keyed(c, d.received, d.secretKeys, d.group_key)
         /\ IsConsensus(d)
         /\ \A x, y, z : Keyed(d, x, y, z) = Keyed(c, x, y, z)
<1>1. /\ d.received = t /\ d.secretKeys = k /\ d.group_key = g
      /\ d.members = c.members /\ d.own_ids = c.own_ids
      /\ d.previous_group_key = c.previous_group_key
      /\ d.shares = c.shares /\ d.verified = c.verified /\ d.raised = c.raised
      /\ d.random = c.random /\ d.next_signer = c.next_signer
  BY DEF Keyed
<1>2. d = Keyed(c, d.received, d.secretKeys, d.group_key)
  BY <1>1
<1>3. IsConsensus(d)
  BY <1>1 DEF IsConsensus, Keyed
<1>4. ASSUME NEW x, NEW y, NEW z PROVE Keyed(d, x, y, z) = Keyed(c, x, y, z)
  BY <1>1 DEF Keyed
<1>. QED  BY <1>1, <1>2, <1>3, <1>4

\* An object is itself with its own table and keys.
LEMMA KeyedSelf ==
  ASSUME NEW c, IsConsensus(c)
  PROVE  c = Keyed(c, c.received, c.secretKeys, c.group_key)
BY DEF Keyed, IsConsensus

\* A secret key more.
LEMMA SecretAdded ==
  ASSUME NEW I, NEW R, NEW k \in Secrets(I, R), NEW a \in I, NEW v \in R
  PROVE  LET j == with_key(k, a, v) IN
         /\ j \in Secrets(I, R) /\ a \in DOMAIN j /\ j[a] = v
         /\ \A x \in DOMAIN k : x \in DOMAIN j /\ (x # a => j[x] = k[x])
<1>. DEFINE j == with_key(k, a, v)
<1>1. PICK J \in SUBSET I : k \in [J -> R]
  BY DEF Secrets
<1>2. j = [x \in J \cup {a} |-> IF x = a THEN v ELSE k[x]]
  BY <1>1 DEF with_key
<1>3. j \in [(J \cup {a}) -> R] /\ J \cup {a} \in SUBSET I
  BY <1>1, <1>2
<1>4. j \in Secrets(I, R)
  BY <1>3 DEF Secrets
<1>. QED  BY <1>1, <1>2, <1>4

\* With a contribution of every member there is a key.
LEMMA FullKey ==
  ASSUME NEW gen \in [New -> Nat], NEW v \in UpTo(gen), \A a \in New : v[a] # 0
  PROVE  v \in KeyUpTo(gen)
<1>1. v \in [New -> Nat]
  BY DEF UpTo
<1>2. ASSUME NEW a \in New PROVE v[a] \in 1..gen[a]
  <2>1. v[a] \in 0..gen[a] /\ v[a] # 0 /\ gen[a] \in Nat
    BY DEF UpTo
  <2>. QED  BY <2>1
<1>. QED  BY <1>1, <1>2 DEF KeyUpTo

\* One contribution more: verify_dkg_contribution keeps the table right.
LEMMA ContributionOK ==
  ASSUME NEW n \in Node, NEW h, NEW c, IsConsensus(c), TableOK(c, n, h),
         NEW I, Ids(n) \subseteq I, NEW R, KeyUpTo(h.gen) \subseteq R, c.secretKeys \in Secrets(I, R),
         h.gen \in [New -> Nat], NEW s, s.to \in Ids(n), ContribOK(s, h.gen)
  PROVE  \E t, k, g :
           /\ verify_dkg_contribution(c, s) = Keyed(c, t, k, g)
           /\ Table(t, k, g, n, h.gen) /\ k \in Secrets(I, R)
<1>. DEFINE e == verify_dkg_contribution(c, s)
            d == [c EXCEPT !.received[s.to][s.source] = s.contrib]
<1>1. PICK t, k, g, id, a, v :
        /\ t = c.received /\ k = c.secretKeys /\ g = c.group_key
        /\ id = s.to /\ a = s.source /\ v = s.contrib
  OBVIOUS
<1>2. /\ Table(t, k, g, n, h.gen) /\ k \in Secrets(I, R) /\ c = Keyed(c, t, k, g)
      /\ id \in Ids(n) /\ a \in New /\ v \in 1..h.gen[a]
  BY <1>1, KeyedSelf DEF TableOK, ContribOK
<1>3. CASE t[id][a] # 0
  <2>1. e = c
    BY <1>1, <1>3 DEF verify_dkg_contribution
  <2>. QED  BY <1>2, <2>1
<1>4. CASE t[id][a] = 0
  <2>. DEFINE u == [t EXCEPT ![id][a] = v]
  <2>1. /\ u \in [Ids(n) -> UpTo(h.gen)]
        /\ \A i \in Ids(n) : i # id => u[i] = t[i]
        /\ ~Full(t, id)
    <3>1. t \in [Ids(n) -> UpTo(h.gen)]
      BY <1>2 DEF Table
    <3>2. v \in Nat /\ v \in 0..h.gen[a]
      BY <1>2
    <3>3. ~Full(t, id)
      BY <1>2, <1>4 DEF Full
    <3>4. t[id] \in [New -> Nat] /\ \A x \in New : t[id][x] \in 0..h.gen[x]
      BY <1>2, <3>1 DEF UpTo
    <3>5. PICK q, w : q = t[id] /\ w = [q EXCEPT ![a] = v]
      OBVIOUS
    <3>6. w \in UpTo(h.gen)
      <4>1. w \in [New -> Nat]
        BY <3>2, <3>4, <3>5
      <4>2. \A x \in New : w[x] \in 0..h.gen[x]
        BY <3>2, <3>4, <3>5
      <4>. QED  BY <4>1, <4>2 DEF UpTo
    <3>7. u = [t EXCEPT ![id] = w]
      BY <3>5
    <3>8. u \in [Ids(n) -> UpTo(h.gen)] /\ \A i \in Ids(n) : i # id => u[i] = t[i]
      <4>. HIDE DEF u
      <4>. QED  BY <1>2, <3>1, <3>6, <3>7
    <3>. QED  BY <3>3, <3>8
  <2>2. d = Keyed(c, u, k, g)
    <3>1. PICK x : x = Keyed(c, t, k, g) /\ x = c
      BY <1>2
    <3>2. x.received = t
      BY <3>1 DEF Keyed
    <3>3. d = [x EXCEPT !.received[id][a] = v]
      BY <1>1, <3>1
    <3>4. d = [x EXCEPT !.received = u]
      BY <3>2, <3>3
    <3>. HIDE DEF u, d
    <3>. QED  BY <3>1, <3>4 DEF Keyed
  <2>3. /\ d.received = u
        /\ allSharesReceived(d, id) <=> Full(u, id)
        /\ \A x, y, z : Keyed(d, x, y, z) = Keyed(c, x, y, z)
    <3>. HIDE DEF u, d
    <3>1. d.received = u /\ \A x, y, z : Keyed(d, x, y, z) = Keyed(c, x, y, z)
      BY <2>2, KeyedFields
    <3>. QED  BY <3>1 DEF allSharesReceived, Full
  <2>4. \A i \in Ids(n) : i # id => (Full(u, i) <=> Full(t, i))
    <3>. HIDE DEF u
    <3>. QED  BY <2>1 DEF Full
  <2>5. CASE Full(u, id)
    <3>. DEFINE j == with_key(k, id, u[id])
    <3>1. e = [d EXCEPT !.secretKeys = with_key(@, id, u[id]), !.group_key = u[id]]
      <4>1. c.received[s.to][s.source] = 0
        BY <1>1, <1>4
      <4>2. allSharesReceived(d, s.to) /\ d.received = u
        BY <1>1, <2>3, <2>5
      <4>3. e = [d EXCEPT !.secretKeys = with_key(@, s.to, d.received[s.to]),
                          !.group_key = d.received[s.to]]
        BY <4>1, <4>2 DEF verify_dkg_contribution
      <4>. HIDE DEF e, d, u
      <4>. QED  BY <1>1, <4>2, <4>3
    <3>2. e = Keyed(c, u, j, u[id])
      <4>. HIDE DEF e, d, u
      <4>1. PICK w : w = u[id]
        OBVIOUS
      <4>2. PICK x : x = Keyed(c, u, k, g) /\ x = d
        BY <2>2
      <4>3. x.secretKeys = k
        BY <4>2 DEF Keyed
      <4>4. PICK q : q = with_key(k, id, w)
        OBVIOUS
      <4>5. e = [x EXCEPT !.secretKeys = q, !.group_key = w]
        BY <3>1, <4>1, <4>2, <4>3, <4>4
      <4>6. PICK y1, y2, y3, y4, y5, y6, y7, y8 :
              /\ y1 = c.members /\ y2 = c.own_ids /\ y3 = c.previous_group_key
              /\ y4 = c.shares /\ y5 = c.verified /\ y6 = c.raised
              /\ y7 = c.random /\ y8 = c.next_signer
        OBVIOUS
      <4>7. x = [members |-> y1, own_ids |-> y2, received |-> u, secretKeys |-> k,
                 group_key |-> g, previous_group_key |-> y3, shares |-> y4,
                 verified |-> y5, random |-> y7, next_signer |-> y8, raised |-> y6]
        BY <4>2, <4>6 DEF Keyed
      <4>8. e = [members |-> y1, own_ids |-> y2, received |-> u, secretKeys |-> q,
                 group_key |-> w, previous_group_key |-> y3, shares |-> y4,
                 verified |-> y5, random |-> y7, next_signer |-> y8, raised |-> y6]
        BY <4>5, <4>7
      <4>9. e = Keyed(c, u, q, w)
        BY <4>6, <4>8 DEF Keyed
      <4>. QED  BY <4>1, <4>4, <4>9
    <3>3. u[id] \in KeyUpTo(h.gen)
      <4>. HIDE DEF u
      <4>1. u[id] \in UpTo(h.gen) /\ \A x \in New : u[id][x] # 0
        BY <1>2, <2>1, <2>5 DEF Full
      <4>. QED  BY <4>1, FullKey
    <3>4. /\ j \in Secrets(I, R) /\ id \in DOMAIN j /\ j[id] = u[id]
          /\ \A x \in DOMAIN k : x \in DOMAIN j /\ (x # id => j[x] = k[x])
      <4>1. u[id] \in R /\ id \in I
        BY <1>2, <3>3
      <4>. HIDE DEF u
      <4>2. PICK w : w = u[id]
        OBVIOUS
      <4>. QED  BY <1>2, <4>1, <4>2, SecretAdded
    <3>5. Table(u, j, u[id], n, h.gen)
      <4>. HIDE DEF u, j
      <4>1. \A i \in Ids(n) : Full(u, i) => i \in DOMAIN j /\ j[i] = u[i]
        BY <1>2, <2>1, <2>4, <3>4 DEF Table
      <4>. QED  BY <1>2, <2>1, <2>5, <4>1 DEF Table
    <3>. QED  BY <3>2, <3>4, <3>5
  <2>6. CASE ~Full(u, id)
    <3>1. e = d
      <4>1. c.received[s.to][s.source] = 0
        BY <1>1, <1>4
      <4>2. ~allSharesReceived(d, s.to)
        BY <1>1, <2>3, <2>6
      <4>. QED  BY <4>1, <4>2 DEF verify_dkg_contribution
    <3>2. Table(u, k, g, n, h.gen)
      <4>. HIDE DEF u
      <4>1. \A i \in Ids(n) : Full(u, i) => i # id /\ Full(t, i) /\ u[i] = t[i]
        BY <2>1, <2>4, <2>6
      <4>2. \A i \in Ids(n) : Full(u, i) => i \in DOMAIN k /\ k[i] = u[i]
        BY <1>2, <4>1 DEF Table
      <4>3. \/ g = OldKey /\ \A i \in Ids(n) : ~Full(u, i)
            \/ \E i \in Ids(n) : Full(u, i) /\ g = u[i]
        <5>1. CASE g = OldKey /\ \A i \in Ids(n) : ~Full(t, i)
          BY <4>1, <5>1
        <5>2. CASE \E i \in Ids(n) : Full(t, i) /\ g = t[i]
          BY <2>1, <2>4, <5>2
        <5>. QED  BY <1>2, <5>1, <5>2 DEF Table
      <4>. QED  BY <2>1, <4>2, <4>3 DEF Table
    <3>. QED  BY <1>2, <2>2, <3>1, <3>2
  <2>. QED  BY <2>5, <2>6
<1>. QED  BY <1>3, <1>4

\* A complete table has a key of generations there were, and so has the node.
LEMMA TableKey ==
  ASSUME NEW n \in Node, NEW h, NEW t, NEW k, NEW g, Table(t, k, g, n, h.gen),
         h.gen \in [New -> Nat]
  PROVE  /\ \A id \in Ids(n) : Full(t, id) => t[id] \in KeyUpTo(h.gen)
         /\ g = OldKey \/ g \in KeyUpTo(h.gen)
<1>1. ASSUME NEW id \in Ids(n), Full(t, id) PROVE t[id] \in KeyUpTo(h.gen)
  <2>1. t[id] \in UpTo(h.gen) /\ \A a \in New : t[id][a] # 0
    BY <1>1 DEF Table, Full
  <2>. QED  BY <2>1, FullKey
<1>. QED  BY <1>1 DEF Table

\* The contributions of some members to some.
LEMMA ContributionsOK ==
  ASSUME NEW n \in Node, NEW to \in SUBSET New, NEW gen,
         \A a \in Ids(n) : gen[a] \in Nat \ {0}
  PROVE  /\ IsFiniteSet(Contributions(Ids(n), to, gen))
         /\ \A s \in Contributions(Ids(n), to, gen) : ContribOK(s, gen) /\ s.to \in to
<1>. DEFINE S == Contributions(Ids(n), to, gen)
            P == Ids(n) \X to
            f == [p \in P |-> [source |-> p[1], to |-> p[2], contrib |-> gen[p[1]]]]
<1>1. Ids(n) \subseteq New
  BY DEF Ids
<1>2. IsFiniteSet(P)
  <2>1. IsFiniteSet(Ids(n)) /\ IsFiniteSet(to)
    BY <1>1, DkgAssumption, FS_Subset
  <2>. QED  BY <2>1, FS_Product
<1>3. f \in Surjection(P, S)
  <2>1. S = { [source |-> a, to |-> b, contrib |-> gen[a]] : a \in Ids(n), b \in to }
    BY DEF Contributions
  <2>2. ASSUME NEW p \in P PROVE f[p] \in S
    BY <2>1
  <2>3. ASSUME NEW s \in S PROVE \E p \in P : f[p] = s
    <3>1. PICK a \in Ids(n), b \in to : s = [source |-> a, to |-> b, contrib |-> gen[a]]
      BY <2>1
    <3>2. <<a, b>> \in P /\ f[<<a, b>>] = s
      BY <3>1
    <3>. QED  BY <3>2
  <2>4. f = [p \in P |-> f[p]]
    OBVIOUS
  <2>. HIDE DEF S, P, f
  <2>5. f \in [P -> S]
    BY <2>2, <2>4
  <2>. QED  BY <2>3, <2>5 DEF Surjection
<1>4. IsFiniteSet(S)
  <2>. HIDE DEF S, P, f
  <2>. QED  BY <1>2, <1>3, FS_Surjection
<1>5. ASSUME NEW s \in S PROVE ContribOK(s, gen) /\ s.to \in to
  <2>1. PICK a \in Ids(n), b \in to : s = [source |-> a, to |-> b, contrib |-> gen[a]]
    BY DEF Contributions
  <2>2. s.source = a /\ s.to = b /\ s.contrib = gen[a] /\ gen[a] \in 1..gen[a]
    BY <2>1
  <2>. QED  BY <1>1, <2>2 DEF ContribOK
<1>. QED  BY <1>4, <1>5

\* new_dkg: a table with the node's own contributions.
LEMMA NewDkgOK ==
  ASSUME NEW n \in Node, NEW h, NEW c, ConsensusOK(n, c, h), c.group_key = OldKey,
         h.gen \in [New -> Nat], \A a \in Ids(n) : h.gen[a] # 0
  PROVE  LET d == new_dkg(c, Ids(n), h.gen) IN
         /\ ConsensusOK(n, d, h) /\ TableOK(d, n, h)
         /\ d.members = New /\ d.own_ids = Ids(n)
         /\ d.shares = c.shares /\ d.verified = c.verified /\ d.raised = c.raised
         /\ d.random = c.random /\ d.next_signer = c.next_signer
<1>. DEFINE t0 == [id \in Ids(n) |-> [a \in New |-> 0]]
            S == Contributions(Ids(n), Ids(n), h.gen)
            I == DOMAIN c.secretKeys \cup Ids(n)
            R == { c.secretKeys[a] : a \in DOMAIN c.secretKeys } \cup KeyUpTo(h.gen)
            U == [Ids(n) -> UpTo(h.gen)] \X Secrets(I, R) \X ({OldKey} \cup KeyUpTo(h.gen))
<1>0. Ids(n) \subseteq New
  BY DEF Ids
<1>1. PICK base :
        base = [members |-> New, own_ids |-> Ids(n), received |-> t0,
                secretKeys |-> c.secretKeys, group_key |-> OldKey,
                previous_group_key |-> OldKey, shares |-> c.shares,
                verified |-> c.verified, random |-> c.random, next_signer |-> c.next_signer,
                raised |-> c.raised]
  OBVIOUS
<1>2. /\ base.members = New /\ base.own_ids = Ids(n) /\ base.received = t0
      /\ base.secretKeys = c.secretKeys /\ base.group_key = OldKey
      /\ base.previous_group_key = OldKey /\ base.shares = c.shares
      /\ base.verified = c.verified /\ base.raised = c.raised
      /\ base.random = c.random /\ base.next_signer = c.next_signer
  BY <1>1
<1>3. [c EXCEPT !.previous_group_key = c.group_key, !.members = New, !.own_ids = Ids(n),
                !.received = t0] = base
  <2>1. PICK e, o, x1, k, g, p, x2, y, z, rr, ns :
          c = [members |-> e, own_ids |-> o, received |-> x1, secretKeys |-> k, group_key |-> g,
               previous_group_key |-> p, shares |-> x2, verified |-> y, random |-> rr,
               next_signer |-> ns, raised |-> z]
    BY DEF ConsensusOK, IsConsensus
  <2>2. k = c.secretKeys /\ g = OldKey /\ x2 = c.shares /\ y = c.verified /\ z = c.raised
        /\ rr = c.random /\ ns = c.next_signer
    BY <2>1
  <2>. HIDE DEF t0
  <2>3. PICK N, J, u : N = New /\ J = Ids(n) /\ u = t0
    OBVIOUS
  <2>4. PICK f :
          f = [c EXCEPT !.previous_group_key = g, !.members = N, !.own_ids = J, !.received = u]
    OBVIOUS
  <2>5. f = [members |-> N, own_ids |-> J, received |-> u, secretKeys |-> k, group_key |-> g,
             previous_group_key |-> g, shares |-> x2, verified |-> y, random |-> rr,
             next_signer |-> ns, raised |-> z]
    BY ONLY <2>1, <2>4
  <2>6. f = base
    BY <1>1, <2>2, <2>3, <2>5
  <2>. QED  BY <2>2, <2>3, <2>4, <2>6
<1>4. c.secretKeys \in Secrets(I, R)
  <2>1. c.secretKeys \in [DOMAIN c.secretKeys -> R]
    BY DEF ConsensusOK
  <2>2. DOMAIN c.secretKeys \in SUBSET I
    OBVIOUS
  <2>. QED  BY <2>1, <2>2 DEF Secrets
<1>5. Table(t0, c.secretKeys, OldKey, n, h.gen)
  <2>1. t0 \in [Ids(n) -> UpTo(h.gen)]
    BY DEF UpTo
  <2>2. \A id \in Ids(n) : ~Full(t0, id)
    BY DkgAssumption DEF Full
  <2>. HIDE DEF t0
  <2>. QED  BY <2>1, <2>2 DEF Table
<1>. HIDE DEF t0, S, I, R
<1>. DEFINE D == { d \in { Keyed(base, x[1], x[2], x[3]) : x \in U } :
                     TableOK(d, n, h) /\ d.secretKeys \in Secrets(I, R) }
<1>6. ASSUME NEW t, NEW k, NEW g, Table(t, k, g, n, h.gen), k \in Secrets(I, R)
      PROVE  Keyed(base, t, k, g) \in D
  <2>1. PICK d : d = Keyed(base, t, k, g)
    OBVIOUS
  <2>2. d.received = t /\ d.secretKeys = k /\ d.group_key = g
    BY <2>1, KeyedFields
  <2>3. g \in {OldKey} \cup KeyUpTo(h.gen)
    BY <1>6, TableKey
  <2>4. t \in [Ids(n) -> UpTo(h.gen)]
    BY <1>6 DEF Table
  <2>5. PICK x : x = <<t, k, g>>
    OBVIOUS
  <2>6. x \in U /\ d = Keyed(base, x[1], x[2], x[3])
    BY <1>6, <2>1, <2>3, <2>4, <2>5
  <2>7. TableOK(d, n, h)
    BY <1>6, <2>2 DEF TableOK
  <2>8. d \in D
    BY <1>6, <2>2, <2>6, <2>7
  <2>. QED  BY <2>1, <2>8
<1>7. ASSUME NEW d \in D
      PROVE  /\ TableOK(d, n, h) /\ d.secretKeys \in Secrets(I, R) /\ IsConsensus(d)
             /\ d.members = New /\ d.own_ids = Ids(n) /\ d.previous_group_key = OldKey
             /\ d.shares = c.shares /\ d.verified = c.verified /\ d.raised = c.raised
             /\ d.random = c.random /\ d.next_signer = c.next_signer
             /\ \A x, y, z : Keyed(d, x, y, z) = Keyed(base, x, y, z)
  <2>1. TableOK(d, n, h) /\ d.secretKeys \in Secrets(I, R)
    <3>. HIDE DEF U
    <3>. QED  OBVIOUS
  <2>2. PICK t, k, g : d = Keyed(base, t, k, g)
    <3>. HIDE DEF U
    <3>. QED  OBVIOUS
  <2>3. /\ IsConsensus(d) /\ d.members = base.members /\ d.own_ids = base.own_ids
        /\ d.previous_group_key = base.previous_group_key
        /\ d.shares = base.shares /\ d.verified = base.verified /\ d.raised = base.raised
        /\ d.random = base.random /\ d.next_signer = base.next_signer
    BY ONLY <2>2, KeyedFields
  <2>4. \A x, y, z : Keyed(d, x, y, z) = Keyed(base, x, y, z)
    BY ONLY <2>2, KeyedFields
  <2>. QED  BY <1>2, <2>1, <2>3, <2>4
<1>. HIDE DEF D, U
<1>8. IsFiniteSet(S) /\ \A s \in S : ContribOK(s, h.gen) /\ s.to \in Ids(n)
  <2>1. \A a \in Ids(n) : h.gen[a] \in Nat \ {0}
    BY <1>0
  <2>. QED  BY <1>0, <2>1, ContributionsOK DEF S
<1>9. ContribFold!Closed(0, D, S)
  <2>1. ASSUME NEW d \in D, NEW s \in S PROVE verify_dkg_contribution(d, s) \in D
    <3>1. Ids(n) \subseteq I /\ KeyUpTo(h.gen) \subseteq R
      BY DEF I, R
    <3>2. /\ IsConsensus(d) /\ TableOK(d, n, h) /\ d.secretKeys \in Secrets(I, R)
          /\ \A x, y, z : Keyed(d, x, y, z) = Keyed(base, x, y, z)
      BY <1>7
    <3>3. PICK t, k, g :
            /\ verify_dkg_contribution(d, s) = Keyed(d, t, k, g)
            /\ Table(t, k, g, n, h.gen) /\ k \in Secrets(I, R)
      BY <1>8, <3>1, <3>2, ContributionOK
    <3>4. verify_dkg_contribution(d, s) = Keyed(base, t, k, g)
      BY <3>2, <3>3
    <3>. QED  BY <1>6, <3>3, <3>4
  <2>. QED  BY <2>1 DEF ContribFold!Closed
<1>10. base \in D
  <2>1. base = Keyed(base, t0, c.secretKeys, OldKey)
    BY <1>1, <1>2 DEF Keyed
  <2>2. Keyed(base, t0, c.secretKeys, OldKey) \in D
    BY <1>4, <1>5, <1>6
  <2>. QED  BY <2>1, <2>2
<1>11. ContribFold!SetFold(0, base, S) \in D
  <2>1. ContribFold!IsFiniteSet(S)
    BY <1>8 DEF IsFiniteSet, ContribFold!IsFiniteSet
  <2>. QED  BY <1>9, <1>10, <2>1, ContribFold!SetFoldIn
<1>12. new_dkg(c, Ids(n), h.gen) = ContribFold!SetFold(0, base, S)
  BY <1>3 DEF new_dkg, S, t0, ContribFold!SetFold, FoldSet, MapThenFoldSet,
              ContribFold!FoldSet, ContribFold!MapThenFoldSet
<1>13. PICK d : d = new_dkg(c, Ids(n), h.gen) /\ d \in D
  BY <1>11, <1>12
<1>14. /\ TableOK(d, n, h) /\ d.secretKeys \in Secrets(I, R) /\ IsConsensus(d)
       /\ d.members = New /\ d.own_ids = Ids(n) /\ d.previous_group_key = OldKey
       /\ d.shares = c.shares /\ d.verified = c.verified /\ d.raised = c.raised
       /\ d.random = c.random /\ d.next_signer = c.next_signer
  BY <1>7, <1>13
<1>15. ConsensusOK(n, d, h)
  <2>1. d.secretKeys = [a \in DOMAIN d.secretKeys |-> d.secretKeys[a]]
    <3>1. PICK J \in SUBSET I : d.secretKeys \in [J -> R]
      BY <1>14 DEF Secrets
    <3>. QED  BY <3>1
  <2>2. d.group_key = OldKey \/ d.group_key \in KeyUpTo(h.gen)
    BY <1>14, TableKey DEF TableOK
  <2>3. d.members \subseteq Old \cup New /\ d.own_ids \subseteq Addrs[n] \cap (Old \cup New)
    BY <1>14 DEF Ids
  <2>. QED  BY <1>14, <2>1, <2>2, <2>3 DEF ConsensusOK
<1>. QED  BY <1>13, <1>14, <1>15

-----------------------------------------------------------------------------
(***************************************************************************)
(* What holds of a node is not lost when there are more restarts, more     *)
(* contributions, more nodes cut off, ahead or alone, and when the signer  *)
(* creates block 1.                                                        *)
(***************************************************************************)
Later(h, h2) ==
  /\ h.cut \subseteq h2.cut /\ h.ahead \subseteq h2.ahead /\ h.alone \subseteq h2.alone
  /\ h.restarts \in Nat /\ h2.restarts \in Nat /\ h.restarts <= h2.restarts
  /\ h.gen \in [New -> Nat] /\ h2.gen \in [New -> Nat] /\ \A a \in New : h.gen[a] <= h2.gen[a]
  /\ h.created = 1 => h2.created = 1 /\ h2.key = h.key

\* A node excused stays excused, and keys of generations there were stay such.
LEMMA ExcusedLater ==
  ASSUME NEW h, NEW h2, Later(h, h2)
  PROVE  /\ \A n : MixedAt(n, h.gen) => MixedAt(n, h2.gen)
         /\ (\E a \in New : h.gen[a] > 1) => \E a \in New : h2.gen[a] > 1
         /\ Excused(h) => Excused(h2)
         /\ h.restarts > 0 => h2.restarts > 0
         /\ h.ahead # {} => h2.ahead # {}
         /\ h.alone # {} => h2.alone # {}
         /\ KeyUpTo(h.gen) \subseteq KeyUpTo(h2.gen) /\ UpTo(h.gen) \subseteq UpTo(h2.gen)
<1>1. PICK g, g2 : g = h.gen /\ g2 = h2.gen
  OBVIOUS
<1>2. g \in [New -> Nat] /\ g2 \in [New -> Nat] /\ \A a \in New : g[a] <= g2[a]
  BY <1>1 DEF Later
<1>3. ASSUME NEW a \in New
      PROVE  /\ g[a] > 1 => g2[a] > 1
             /\ 1..g[a] \subseteq 1..g2[a] /\ 0..g[a] \subseteq 0..g2[a]
  <2>1. g[a] \in Nat /\ g2[a] \in Nat /\ g[a] <= g2[a]
    BY <1>2
  <2>2. ASSUME NEW v \in 0..g[a] PROVE v \in 0..g2[a]
    BY <2>1
  <2>. QED  BY <2>1, <2>2
<1>4. (\E a \in New : g[a] > 1) => \E a \in New : g2[a] > 1
  BY <1>3
<1>5. \A n : MixedAt(n, g) => MixedAt(n, g2)
  BY <1>4 DEF MixedAt
<1>6. h.restarts > 0 => h2.restarts > 0
  BY DEF Later
<1>7. (h.ahead # {} => h2.ahead # {}) /\ (h.alone # {} => h2.alone # {})
      /\ (h.cut # {} => h2.cut # {})
  BY DEF Later
<1>8. Excused(h) => Excused(h2)
  BY <1>1, <1>5, <1>7 DEF Excused
<1>9. KeyUpTo(g) \subseteq KeyUpTo(g2)
  BY <1>3 DEF KeyUpTo
<1>10. UpTo(g) \subseteq UpTo(g2)
  BY <1>3 DEF UpTo
<1>. QED  BY <1>1, <1>4, <1>5, <1>6, <1>7, <1>8, <1>9, <1>10

\* A share stays a share of its round.
LEMMA ShareLater ==
  ASSUME NEW h, NEW h2, Later(h, h2), NEW s, ShareOK(s, h)
  PROVE  ShareOK(s, h2)
<1>1. (Excused(h) => Excused(h2)) /\ (h.ahead # {} => h2.ahead # {})
  BY ExcusedLater
<1>2. h.created = 1 => h2.created = 1 /\ h2.key = h.key
  BY DEF Later
<1>. QED  BY <1>1, <1>2 DEF ShareOK

\* A contribution stays one that was generated.
LEMMA ContribLater ==
  ASSUME NEW h, NEW h2, Later(h, h2), NEW s, ContribOK(s, h.gen)
  PROVE  ContribOK(s, h2.gen)
<1>1. /\ s.source \in New /\ s.to \in New /\ s.contrib \in 1..h.gen[s.source]
      /\ h.gen[s.source] \in Nat /\ h2.gen[s.source] \in Nat
      /\ h.gen[s.source] <= h2.gen[s.source]
  BY DEF ContribOK, Later
<1>2. s.contrib \in 1..h2.gen[s.source]
  BY <1>1
<1>. QED  BY <1>1, <1>2 DEF ContribOK

\* A copy of block 1 stays right.
LEMMA BlockLater ==
  ASSUME NEW h, NEW h2, Later(h, h2), NEW b, BlockOK(b, h)
  PROVE  BlockOK(b, h2)
<1>1. /\ h.ahead # {} => h2.ahead # {}
      /\ h.alone # {} => h2.alone # {}
      /\ KeyUpTo(h.gen) \subseteq KeyUpTo(h2.gen)
  BY ExcusedLater
<1>2. h.created = 1 => h2.created = 1 /\ h2.key = h.key
  BY DEF Later
<1>. QED  BY <1>1, <1>2 DEF BlockOK

\* A table stays right.
LEMMA TableLater ==
  ASSUME NEW h, NEW h2, Later(h, h2), NEW n \in Node, NEW c, TableOK(c, n, h)
  PROVE  TableOK(c, n, h2)
<1>1. UpTo(h.gen) \subseteq UpTo(h2.gen)
  BY ExcusedLater
<1>2. PICK I, U, U2 : I = Ids(n) /\ U = UpTo(h.gen) /\ U2 = UpTo(h2.gen)
  OBVIOUS
<1>3. [I -> U] \subseteq [I -> U2]
  BY <1>1, <1>2
<1>. QED  BY <1>2, <1>3 DEF TableOK, Table

\* A node stays right, unless it is ahead now and was not before.
LEMMA NodeLater ==
  ASSUME NEW h, NEW h2, Later(h, h2), NEW n \in Node, n \in h2.ahead => n \in h.ahead,
         NEW m, NEW c, NodeOK(n, m, c, h)
  PROVE  NodeOK(n, m, c, h2)
<1>0. /\ MixedAt(n, h.gen) => MixedAt(n, h2.gen)
      /\ (\E a \in New : h.gen[a] > 1) => \E a \in New : h2.gen[a] > 1
      /\ Excused(h) => Excused(h2)
      /\ h.restarts > 0 => h2.restarts > 0
      /\ h.ahead # {} => h2.ahead # {}
      /\ h.alone # {} => h2.alone # {}
      /\ KeyUpTo(h.gen) \subseteq KeyUpTo(h2.gen)
      /\ h.cut \subseteq h2.cut /\ h.ahead \subseteq h2.ahead
      /\ h.created = 1 => h2.created = 1 /\ h2.key = h.key
  BY ExcusedLater DEF Later
<1>1. MainOK(m)
  BY DEF NodeOK
<1>2. ConsensusOK(n, c, h2)
  BY <1>0 DEF NodeOK, ConsensusOK
<1>3. RoundOK(c, m.block_num, h2)
  <2>1. RoundOK(c, m.block_num, h)
    BY DEF NodeOK
  <2>2. \A s \in c.shares : ShareOK(s, h) => ShareOK(s, h2)
    BY ShareLater
  <2>. QED  BY <2>1, <2>2 DEF RoundOK
<1>. DEFINE fit == KeysFit(n, c, h)
            fit2 == KeysFit(n, c, h2)
<1>4. fit => fit2
  BY <1>0 DEF KeysFit
<1>5. WaitingOK(n, m, c, h2)
  <2>1. WaitingOK(n, m, c, h)
    BY DEF NodeOK
  <2>. QED  BY <1>0, <1>4, <2>1 DEF WaitingOK
<1>6. RenewingOK(n, m, c, h2)
  <2>1. TableOK(c, n, h) => TableOK(c, n, h2)
    BY TableLater
  <2>2. RenewingOK(n, m, c, h)
    BY DEF NodeOK
  <2>. QED  BY <2>1, <2>2 DEF RenewingOK
<1>7. DoneOK(n, m, c, h2)
  <2>1. DoneOK(n, m, c, h)
    BY DEF NodeOK
  <2>. QED  BY <1>0, <1>4, <2>1 DEF DoneOK
<1>8. HeadOK(n, m, c, h2)
  <2>1. HeadOK(n, m, c, h)
    BY DEF NodeOK
  <2>. QED  BY <2>1 DEF HeadOK
<1>9. StartOK(n, m, c, h2)
  <2>1. StartOK(n, m, c, h)
    BY DEF NodeOK
  <2>. QED  BY <1>0, <2>1 DEF StartOK
<1>10. StopOK(n, m, c, h2)
  <2>1. StopOK(n, m, c, h)
    BY DEF NodeOK
  <2>. QED  BY <1>0, <2>1 DEF StopOK
<1>. QED  BY <1>1, <1>2, <1>3, <1>5, <1>6, <1>7, <1>8, <1>9, <1>10 DEF NodeOK

-----------------------------------------------------------------------------
(* What the steps of a node make of it *)

\* The main loop after an exception of the Consensus object, or none.
LEMMA StoppedOK ==
  ASSUME NEW m, MainOK(m), NEW c, c.raised \in Raised, NEW x, x = Stopped(m, c)
  PROVE  /\ MainOK(x)
         /\ x.block_num = m.block_num /\ x.last_random_no = m.last_random_no
         /\ x.dkg_on = m.dkg_on /\ x.exit_from_dkg = m.exit_from_dkg
         /\ x.in_dkg_group = m.in_dkg_group /\ x.create_shares = m.create_shares
         /\ x.due = m.due /\ x.served = m.served
         /\ c.raised = "no" => x = m
         /\ c.raised # "no" => x.at = c.raised
<1>1. CASE c.raised = "no"
  BY <1>1 DEF Stopped
<1>2. CASE c.raised # "no"
  <2>1. PICK w : w = c.raised
    OBVIOUS
  <2>2. x = [m EXCEPT !.at = w] /\ w \in Reasons
    BY <1>2, <2>1 DEF Stopped, Raised, Reasons
  <2>. QED  BY <1>2, <2>1, <2>2 DEF MainOK
<1>. QED  BY <1>1, <1>2

\* The main loop after the share section.
LEMMA AfterSharesOK ==
  ASSUME NEW m, MainOK(m), NEW c, c.raised \in Raised, c.verified \in BOOLEAN,
         NEW x, x = AfterShares(m, c)
  PROVE  /\ MainOK(x)
         /\ x.block_num = m.block_num /\ x.last_random_no = m.last_random_no
         /\ x.dkg_on = m.dkg_on /\ x.exit_from_dkg = m.exit_from_dkg
         /\ x.in_dkg_group = m.in_dkg_group /\ x.create_shares = m.create_shares
         /\ x.served = m.served
         /\ c.raised = "no" => x.at = m.at
         /\ c.raised # "no" => x.at = c.raised
<1>1. PICK v \in BOOLEAN : v = (m.block_num = 0 /\ ~m.exit_from_dkg /\ c.verified)
  OBVIOUS
<1>2. PICK y : y = [m EXCEPT !.due = v]
  OBVIOUS
<1>3. x = Stopped(y, c)
  BY <1>1, <1>2 DEF AfterShares
<1>4. /\ MainOK(y) /\ y.at = m.at
      /\ y.block_num = m.block_num /\ y.last_random_no = m.last_random_no
      /\ y.dkg_on = m.dkg_on /\ y.exit_from_dkg = m.exit_from_dkg
      /\ y.in_dkg_group = m.in_dkg_group /\ y.create_shares = m.create_shares
      /\ y.served = m.served
  BY <1>2 DEF MainOK
<1>. QED  BY <1>3, <1>4, StoppedOK

\* An object that has stored shares keeps what it was, but for the round.
LEMMA GrownConsensus ==
  ASSUME NEW n \in Node, NEW h, NEW c, ConsensusOK(n, c, h), NEW d, NEW S, NEW lr,
         Grown(c, d, S, lr)
  PROVE  ConsensusOK(n, d, h)
BY GrownKeeps DEF ConsensusOK

\* The round of an object that has stored shares of the round.
LEMMA GrownRound ==
  ASSUME NEW c, NEW num, NEW h, RoundOK(c, num, h), NEW d, NEW S, NEW lr,
         Grown(c, d, S, lr), \A s \in S : ShareOK(s, h) /\ s.block_number = num
  PROVE  RoundOK(d, num, h)
<1>1. ~d.verified => ~c.verified
  BY DEF Grown
<1>2. ~d.verified => \A s \in d.shares : ShareOK(s, h) /\ s.block_number = num
  BY <1>1 DEF Grown, RoundOK
<1>3. ASSUME num = 0 PROVE d.random \in {0, 1}
  <2>1. CASE d.random = c.random
    BY <1>3, <2>1 DEF RoundOK
  <2>2. CASE d.random # c.random
    <3>1. PICK s \in S : d.random = s.block_number + 1
      BY <2>2 DEF Grown
    <3>2. s.block_number = 0
      BY <1>3
    <3>. QED  BY <3>1, <3>2
  <2>. QED  BY <2>1, <2>2
<1>. QED  BY <1>2, <1>3 DEF Grown, RoundOK

\* A node of the main loop stores shares of its round: without a DKG going on, it
\* stops for the reasons StopOK gives or not at all.
LEMMA StoreSharesOK ==
  ASSUME NEW n \in Node, NEW m, NEW c, NEW h, NodeOK(n, m, c, h),
         m.at = "loop", ~m.dkg_on,
         NEW d, NEW S, Grown(c, d, S, m.last_random_no),
         \A s \in S : ShareOK(s, h) /\ s.block_number = m.block_num,
         NEW x, x = AfterShares(m, d)
  PROVE  NodeOK(n, x, d, h)
<1>1. /\ MainOK(m) /\ ConsensusOK(n, c, h) /\ RoundOK(c, m.block_num, h)
      /\ WaitingOK(n, m, c, h) /\ RenewingOK(n, m, c, h) /\ DoneOK(n, m, c, h)
      /\ HeadOK(n, m, c, h) /\ StopOK(n, m, c, h)
  BY DEF NodeOK
<1>2. /\ d.members = c.members /\ d.own_ids = c.own_ids /\ d.received = c.received
      /\ d.secretKeys = c.secretKeys /\ d.group_key = c.group_key
  BY GrownKeeps
<1>3. /\ MainOK(x)
      /\ x.block_num = m.block_num /\ x.last_random_no = m.last_random_no
      /\ x.dkg_on = m.dkg_on /\ x.exit_from_dkg = m.exit_from_dkg
      /\ x.in_dkg_group = m.in_dkg_group /\ x.served = m.served
      /\ d.raised = "no" => x.at = m.at
      /\ d.raised # "no" => x.at = d.raised
  <2>1. d.raised \in Raised /\ d.verified \in BOOLEAN
    BY DEF Grown
  <2>2. MainOK(m)
    BY <1>1
  <2>. QED  BY ONLY <2>1, <2>2, x = AfterShares(m, d), AfterSharesOK
<1>4. ConsensusOK(n, d, h)
  BY <1>1, GrownConsensus
<1>5. RoundOK(d, x.block_num, h)
  BY <1>1, <1>3, GrownRound
<1>6. x.at \in {"loop", "unknown source", "invalid signature"} /\ (x.at = "loop" => d.raised = "no")
      /\ (x.at # "loop" => x.at = d.raised)
  BY <1>3 DEF Grown, Raised
<1>7. WaitingOK(n, x, d, h)
  <2>1. Waiting(x) => Waiting(m)
    BY <1>3 DEF Waiting
  <2>2. KeysFit(n, d, h) <=> KeysFit(n, c, h)
    BY <1>2 DEF KeysFit
  <2>. QED  BY <1>1, <1>2, <2>1, <2>2 DEF WaitingOK
<1>8. RenewingOK(n, x, d, h)
  <2>1. TableOK(d, n, h) <=> TableOK(c, n, h)
    BY <1>2 DEF TableOK
  <2>2. all_node_dkgs_finished(d) <=> all_node_dkgs_finished(c)
    BY <1>2 DEF all_node_dkgs_finished, allSharesReceived
  <2>3. c.verified => d.verified
    BY DEF Grown
  <2>4. x.at # "bootstrap"
    BY <1>6
  <2>. QED  BY <1>1, <1>2, <1>3, <2>1, <2>2, <2>3, <2>4 DEF RenewingOK, Renewing
<1>9. DoneOK(n, x, d, h)
  <2>1. KeysFit(n, d, h) <=> KeysFit(n, c, h)
    BY <1>2 DEF KeysFit
  <2>. QED  BY <1>1, <1>2, <1>3, <2>1 DEF DoneOK
<1>10. HeadOK(n, x, d, h)
  BY <1>1, <1>2, <1>3 DEF HeadOK
<1>11. StartOK(n, x, d, h)
  BY <1>6 DEF StartOK
<1>12. ASSUME d.raised = "unknown source"
       PROVE  \/ m.exit_from_dkg /\ m.block_num = 0
              \/ n \in Fresh /\ m.block_num = 1
              \/ h.restarts > 0 \/ h.ahead # {}
  <2>1. PICK s \in S : s.source \notin c.members
    BY <1>12 DEF Grown
  <2>2. ShareOK(s, h) /\ s.block_number = m.block_num
    BY <2>1
  <2>3. CASE m.block_num = 0
    <3>1. s.source \in Old
      BY <2>2, <2>3 DEF ShareOK
    <3>2. CASE m.exit_from_dkg
      BY <2>3, <3>2
    <3>3. CASE ~m.exit_from_dkg
      <4>1. Waiting(m)
        BY <2>3, <3>3 DEF Waiting
      <4>. QED  BY <1>1, <2>1, <3>1, <4>1 DEF WaitingOK
    <3>. QED  BY <3>2, <3>3
  <2>4. CASE m.block_num = 1
    <3>1. s.source \in New \/ h.ahead # {}
      BY <2>2, <2>4 DEF ShareOK
    <3>. QED  BY <1>1, <2>1, <2>4, <3>1 DEF DoneOK
  <2>. QED  BY <1>1, <2>3, <2>4 DEF MainOK
<1>13. ASSUME d.raised = "invalid signature" PROVE Excused(h)
  <2>1. ~c.verified
    BY <1>13 DEF Grown
  <2>2. PICK s \in c.shares \cup S : s.key # c.group_key \/ s.random # m.last_random_no
    BY <1>13 DEF Grown
  <2>3. ShareOK(s, h) /\ s.block_number = m.block_num
    BY <1>1, <2>1, <2>2 DEF RoundOK
  <2>4. CASE m.block_num = 0
    <3>1. s.key = OldKey /\ s.random = 0
      BY <2>3, <2>4 DEF ShareOK
    <3>2. Waiting(m)
      BY <1>1, <2>1, <2>4 DEF Waiting, RenewingOK, Renewing
    <3>3. m.last_random_no = 0
      BY <1>1, <2>4 DEF HeadOK
    <3>. QED  BY <1>1, <2>2, <3>1, <3>2, <3>3 DEF WaitingOK
  <2>5. CASE m.block_num = 1
    <3>1. (s.key = h.key /\ s.random = 1) \/ Excused(h)
      BY <2>3, <2>5 DEF ShareOK
    <3>2. CASE n \in h.ahead \/ m.last_random_no = 0
      BY <1>1, <2>5, <3>2 DEF DoneOK, Excused
    <3>3. CASE n \notin h.ahead /\ m.last_random_no # 0
      <4>1. c.group_key = h.key /\ m.last_random_no = 1
        BY <1>1, <2>5, <3>3 DEF DoneOK, MainOK
      <4>. QED  BY <2>2, <3>1, <4>1
    <3>. QED  BY <3>2, <3>3
  <2>. QED  BY <1>1, <2>4, <2>5 DEF MainOK
<1>14. StopOK(n, x, d, h)
  BY <1>3, <1>6, <1>12, <1>13 DEF StopOK
<1>. QED  BY <1>3, <1>4, <1>5, <1>7, <1>8, <1>9, <1>10, <1>11, <1>14 DEF NodeOK

\* A node whose members have all contributions has secret keys that fit its group key,
\* unless they are of different generations.
LEMMA FinishedKeysFit ==
  ASSUME NEW n \in Node, NEW h, h.gen \in [New -> Nat], NEW c, TableOK(c, n, h),
         c.own_ids = Ids(n), all_node_dkgs_finished(c)
  PROVE  KeysFit(n, c, h)
<1>. DEFINE t == c.received
<1>1. /\ \A id \in Ids(n) : Full(t, id)
      /\ \A id \in Ids(n) : c.secretKeys[id] = t[id] /\ t[id] \in KeyUpTo(h.gen)
  <2>1. \A id \in Ids(n) : Full(t, id)
    BY DEF all_node_dkgs_finished, allSharesReceived, Full
  <2>2. \A id \in Ids(n) : Full(t, id) => t[id] \in KeyUpTo(h.gen)
    BY TableKey DEF TableOK
  <2>. QED  BY <2>1, <2>2 DEF TableOK, Table
<1>. HIDE DEF t
<1>2. SUFFICES ASSUME ~MixedAt(n, h.gen), NEW a \in Ids(n) PROVE c.secretKeys[a] = c.group_key
  BY DEF KeysFit
<1>3. PICK id \in Ids(n) : c.group_key = t[id]
  BY <1>1 DEF TableOK, Table, t
<1>4. CASE ~\E x \in New : h.gen[x] > 1
  <2>1. PICK g, v, w : g = h.gen /\ v = t[a] /\ w = t[id]
    OBVIOUS
  <2>2. ASSUME NEW x \in New PROVE v[x] = w[x]
    <3>1. v[x] \in 1..g[x] /\ w[x] \in 1..g[x] /\ g[x] \in Nat /\ ~(g[x] > 1)
      BY <1>1, <1>4, <2>1 DEF KeyUpTo
    <3>. QED  BY <3>1
  <2>3. v \in [New -> Nat] /\ w \in [New -> Nat]
    BY <1>1, <2>1 DEF KeyUpTo
  <2>4. v = w
    BY <2>2, <2>3
  <2>. QED  BY <1>1, <1>3, <2>1, <2>4
<1>5. CASE \E x \in New : h.gen[x] > 1
  <2>1. Cardinality(Ids(n)) <= 1 /\ IsFiniteSet(Ids(n))
    <3>1. IsFiniteSet(Ids(n))
      BY DkgAssumption, FS_Subset DEF Ids
    <3>2. Cardinality(Ids(n)) \in Nat
      BY <3>1, FS_CardinalityType
    <3>3. ~(Cardinality(Ids(n)) > 1)
      BY <1>2, <1>5 DEF MixedAt, Ids
    <3>. QED  BY <3>1, <3>2, <3>3
  <2>2. a = id
    <3>1. SUFFICES ASSUME a # id PROVE FALSE
      OBVIOUS
    <3>2. {a} \subseteq Ids(n) /\ id \notin {a} /\ IsFiniteSet({a}) /\ Cardinality({a}) = 1
      BY <3>1, FS_Singleton
    <3>3. Cardinality({a} \cup {id}) = 2
      <4>1. PICK T : T = {a}
        OBVIOUS
      <4>2. Cardinality(T \cup {id}) = Cardinality(T) + 1
        BY <3>2, <4>1, FS_AddElement
      <4>. QED  BY <3>2, <4>1, <4>2
    <3>4. Cardinality({a} \cup {id}) <= Cardinality(Ids(n))
      BY <2>1, FS_Subset
    <3>5. Cardinality(Ids(n)) \in Nat
      BY <2>1, FS_CardinalityType
    <3>. QED  BY <2>1, <3>3, <3>4, <3>5
  <2>. QED  BY <1>1, <1>3, <2>2
<1>. QED  BY <1>4, <1>5

\* The object at the beginning of a round.
LEMMA ResetOK ==
  ASSUME NEW c, IsConsensus(c)
  PROVE  reset_bls(c) = With(c, {}, FALSE, c.random, c.raised)
<1>1. PICK e, o, t, k, g, p, x, y, rr, ns, z :
        c = [members |-> e, own_ids |-> o, received |-> t, secretKeys |-> k, group_key |-> g,
             previous_group_key |-> p, shares |-> x, verified |-> y, random |-> rr,
             next_signer |-> ns, raised |-> z]
  BY DEF IsConsensus
<1>2. PICK f : f = [c EXCEPT !.shares = {}, !.verified = FALSE]
  OBVIOUS
<1>3. f = [members |-> e, own_ids |-> o, received |-> t, secretKeys |-> k, group_key |-> g,
           previous_group_key |-> p, shares |-> {}, verified |-> FALSE, random |-> rr,
           next_signer |-> ns, raised |-> z]
  BY ONLY <1>1, <1>2
<1>4. f = With(c, {}, FALSE, c.random, c.raised)
  BY <1>1, <1>3 DEF With
<1>. QED  BY <1>2, <1>4 DEF reset_bls

\* The first shares of a round, of an object that has none: its own.
LEMMA RoundBegins ==
  ASSUME NEW n \in Node, NEW c, IsConsensus(c), c.raised = "no", IsFiniteSet(c.own_ids),
         NEW lr, NEW num
  PROVE  LET f == reset_bls(c) IN
         /\ Grown(f, f, new_shares(c, lr, num), lr)
         /\ Grown(f, create_shares(f, lr, num), new_shares(c, lr, num), lr)
         /\ f = With(c, {}, FALSE, c.random, "no")
<1>1. PICK f : f = reset_bls(c)
  OBVIOUS
<1>2. PICK sh, v, y, w : sh = {} /\ v = FALSE /\ y = c.random /\ w = "no"
  OBVIOUS
<1>3. f = With(c, sh, v, y, w)
  BY <1>1, <1>2, ResetOK
<1>4. /\ f.shares = sh /\ f.verified = v /\ f.raised = w /\ f.own_ids = c.own_ids
      /\ f.secretKeys = c.secretKeys /\ IsConsensus(f)
  BY <1>3, WithFields
<1>5. new_shares(f, lr, num) = new_shares(c, lr, num)
  BY <1>4 DEF new_shares
<1>6. IsFiniteSet(f.shares) /\ Cardinality(f.shares) = 0 /\ 0 < THRESHOLD
  BY <1>2, <1>4, FS_EmptySet, DkgAssumption
<1>7. Grown(f, f, new_shares(f, lr, num), lr)
  <2>1. f.raised = "no" /\ f.verified \in BOOLEAN
    BY <1>2, <1>4
  <2>2. Cardinality(f.shares) <= THRESHOLD /\ Cardinality(f.shares) < THRESHOLD
    BY <1>6, DkgAssumption
  <2>3. PICK S : S = new_shares(f, lr, num)
    OBVIOUS
  <2>4. Grown(f, f, S, lr)
    BY ONLY <1>4, <1>6, <2>1, <2>2, GrownSelf
  <2>. QED  BY <2>3, <2>4
<1>8. Grown(f, create_shares(f, lr, num), new_shares(f, lr, num), lr)
  BY <1>4, <1>7, CreateSharesOK
<1>. QED  BY <1>1, <1>2, <1>3, <1>5, <1>7, <1>8

\* What a correct block 1 makes of a node: it starts the round with its own shares,
\* with keys that fit or that are excused.
LEMMA NextRoundOK ==
  ASSUME NEW n \in Node, NEW h,
         NEW y, MainOK(y), y.at = "loop", y.block_num = 1, ~y.dkg_on, ~y.exit_from_dkg, y.served,
         y.last_random_no = 0 => h.alone # {},
         NEW c, ConsensusOK(n, c, h), c.raised = "no", KeysFit(n, c, h),
         c.members = New \/ n \in Fresh \/ h.restarts > 0 \/ h.ahead # {},
         c.own_ids \subseteq New \/ h.ahead # {},
         n \in h.ahead => c.group_key = OldKey,
         n \notin h.ahead => h.created = 1 /\ c.group_key = h.key,
         NEW d,
         d = IF y.in_dkg_group /\ y.create_shares
             THEN create_shares(reset_bls(c), y.last_random_no, 1) ELSE reset_bls(c),
         NEW x, x = Stopped(y, d)
  PROVE  /\ NodeOK(n, x, d, h) /\ d.group_key = c.group_key
         /\ x.block_num = 1 /\ x.last_random_no = y.last_random_no
         /\ \A s \in new_shares(c, y.last_random_no, 1) : ShareOK(s, h)
<1>. DEFINE lr == y.last_random_no
            S == new_shares(c, y.last_random_no, 1)
<1>1. ASSUME NEW s \in S
      PROVE  ShareOK(s, h) /\ s.block_number = 1 /\ s.source \in c.own_ids /\ s.random = lr
             /\ (s.key = c.group_key \/ Excused(h))
  <2>1. PICK a \in c.own_ids \cap DOMAIN c.secretKeys :
          s = [source |-> a, key |-> c.secretKeys[a], random |-> lr, block_number |-> 1]
    BY DEF new_shares
  <2>2. s.source = a /\ s.key = c.secretKeys[a] /\ s.random = lr /\ s.block_number = 1
    BY <2>1
  <2>3. s.key = c.group_key \/ Excused(h)
    BY <2>2 DEF KeysFit, Excused
  <2>4. a \in New \/ h.ahead # {}
    OBVIOUS
  <2>5. (h.created = 1 /\ s.key = h.key /\ s.random = 1) \/ Excused(h)
    <3>1. CASE n \in h.ahead \/ lr = 0
      BY <3>1 DEF Excused
    <3>2. CASE n \notin h.ahead /\ lr # 0
      BY <2>2, <2>3, <3>2 DEF MainOK
    <3>. QED  BY <3>1, <3>2
  <2>. QED  BY <2>2, <2>3, <2>4, <2>5 DEF ShareOK
<1>. HIDE DEF S
<1>2. IsConsensus(c) /\ IsFiniteSet(c.own_ids)
  <2>1. IsFiniteSet(Old \cup New)
    BY DkgAssumption, FS_Union
  <2>. QED  BY <2>1, FS_Subset DEF ConsensusOK
<1>3. PICK f : f = reset_bls(c)
  OBVIOUS
<1>4. /\ Grown(f, f, S, lr) /\ Grown(f, create_shares(f, lr, 1), S, lr)
      /\ f = With(c, {}, FALSE, c.random, "no")
  BY <1>2, <1>3, RoundBegins DEF S
<1>5. Grown(f, d, S, lr)
  BY <1>3, <1>4
<1>6. /\ f.members = c.members /\ f.own_ids = c.own_ids /\ f.secretKeys = c.secretKeys
      /\ f.group_key = c.group_key /\ f.previous_group_key = c.previous_group_key
      /\ f.shares = {} /\ f.verified = FALSE /\ f.raised = "no" /\ IsConsensus(f)
  <2>1. PICK sh, v, z, w : sh = {} /\ v = FALSE /\ z = c.random /\ w = "no"
    OBVIOUS
  <2>2. f = With(c, sh, v, z, w)
    BY <1>4, <2>1
  <2>3. /\ f.members = c.members /\ f.own_ids = c.own_ids /\ f.secretKeys = c.secretKeys
        /\ f.group_key = c.group_key /\ f.previous_group_key = c.previous_group_key
        /\ f.shares = sh /\ f.verified = v /\ f.raised = w /\ IsConsensus(f)
    BY ONLY <2>2, WithFields
  <2>. QED  BY <2>1, <2>3
<1>7. /\ d.members = c.members /\ d.own_ids = c.own_ids /\ d.secretKeys = c.secretKeys
      /\ d.group_key = c.group_key
  BY <1>5, <1>6, GrownKeeps
<1>8. ConsensusOK(n, d, h)
  <2>1. ConsensusOK(n, f, h)
    BY <1>6 DEF ConsensusOK
  <2>. QED  BY <1>5, <2>1, GrownConsensus
<1>9. RoundOK(d, 1, h)
  <2>1. RoundOK(f, 1, h)
    <3>1. IsFiniteSet(f.shares) /\ Cardinality(f.shares) <= THRESHOLD
          /\ Cardinality(f.shares) < THRESHOLD
      BY <1>4, <1>6 DEF Grown
    <3>2. f.verified \in BOOLEAN /\ ~f.verified /\ \A s \in f.shares : FALSE
      BY ONLY <1>6
    <3>3. PICK num : num = 1
      OBVIOUS
    <3>4. RoundOK(f, num, h)
      BY ONLY <3>1, <3>2, <3>3 DEF RoundOK
    <3>. QED  BY <3>3, <3>4
  <2>. QED  BY <1>1, <1>5, <2>1, GrownRound
<1>10. /\ MainOK(x) /\ x.block_num = 1 /\ x.dkg_on = y.dkg_on /\ x.exit_from_dkg = y.exit_from_dkg
       /\ x.last_random_no = y.last_random_no /\ x.served = y.served
       /\ d.raised = "no" => x = y
       /\ d.raised # "no" => x.at = d.raised
  <2>1. d.raised \in Raised
    BY <1>5 DEF Grown
  <2>. QED  BY ONLY <2>1, MainOK(y), y.block_num = 1, x = Stopped(y, d), StoppedOK
<1>11. /\ x.at \in {"loop", "unknown source", "invalid signature"}
       /\ x.at = "loop" => d.raised = "no"
       /\ x.at # "loop" => x.at = d.raised
  BY <1>5, <1>10 DEF Grown, Raised
<1>12. WaitingOK(n, x, d, h) /\ RenewingOK(n, x, d, h) /\ StartOK(n, x, d, h)
  <2>1. ~x.dkg_on /\ ~x.exit_from_dkg
    BY <1>10
  <2>2. WaitingOK(n, x, d, h)
    <3>1. x.block_num # 0
      BY <1>10
    <3>. QED  BY <3>1 DEF WaitingOK, Waiting
  <2>3. RenewingOK(n, x, d, h)
    BY <2>1 DEF RenewingOK, Renewing
  <2>4. StartOK(n, x, d, h)
    BY <1>11 DEF StartOK
  <2>. QED  BY <2>2, <2>3, <2>4
<1>13. DoneOK(n, x, d, h)
  <2>1. KeysFit(n, d, h)
    BY <1>7 DEF KeysFit
  <2>. QED  BY <1>7, <1>10, <2>1 DEF DoneOK
<1>14. HeadOK(n, x, d, h)
  BY <1>7, <1>10 DEF HeadOK
<1>15. StopOK(n, x, d, h)
  <2>1. d.raised = "invalid signature" => Excused(h)
    BY <1>1, <1>5, <1>6 DEF Grown
  <2>2. ASSUME d.raised = "unknown source"
        PROVE  n \in Fresh \/ h.restarts > 0 \/ h.ahead # {}
    <3>1. PICK s \in S : s.source \notin f.members
      BY <1>5, <2>2 DEF Grown
    <3>2. s.source \in c.own_ids /\ s.source \notin c.members
      BY <1>1, <1>6, <3>1
    <3>. QED  BY <3>2
  <2>. QED  BY <1>10, <1>11, <2>1, <2>2 DEF StopOK
<1>. QED  BY <1>1, <1>7, <1>8, <1>9, <1>10, <1>12, <1>13, <1>14, <1>15 DEF NodeOK, S

-----------------------------------------------------------------------------
(***************************************************************************)
(* A step of the system.  It changes one node, and what is on its way      *)
(* only by messages that are right.                                        *)
(***************************************************************************)
Changed(f, g, n, x) ==
  g = [i \in Node |-> g[i]] /\ g[n] = x /\ \A i \in Node : i # n => g[i] = f[i]

\* Of what is on its way after a step, what was not there before it is right.
NewMessages ==
  /\ bls_shares' = [n \in Node |-> bls_shares'[n]] /\ bls_future' = [n \in Node |-> bls_future'[n]]
  /\ dkg_shares' = [n \in Node |-> dkg_shares'[n]] /\ blocks' = [n \in Node |-> blocks'[n]]
  /\ \A n \in Node :
       /\ \A s \in bls_shares'[n] : s \in bls_shares[n] \/ ShareOK(s, Hist')
       /\ \A s \in bls_future'[n] :
            \/ s \in bls_future[n]
            \/ ShareOK(s, Hist') /\ s.block_number = 1
       /\ \A s \in dkg_shares'[n] : s \in dkg_shares[n] \/ ContribOK(s, generated')
       /\ \A b \in blocks'[n] : b \in blocks[n] \/ BlockOK(b, Hist')

\* The counters and histories after a step, in which node n alone may go ahead.
Counters(n) ==
  /\ restarts' \in Nat /\ restarts <= restarts'
  /\ expired' \in BOOLEAN /\ (expired => expired')
  /\ generated' \in [New -> Nat] /\ \A a \in New : generated[a] <= generated'[a]
  /\ lost' \subseteq Node /\ cut' \subseteq Node /\ cut \subseteq cut'
  /\ ahead \subseteq ahead' /\ ahead' \subseteq ahead \cup {n}

\* The histories of Hist.
LEMMA HistIs ==
  /\ Hist.cut = cut /\ Hist.ahead = ahead /\ Hist.restarts = restarts /\ Hist.gen = generated
  /\ Hist.alone = {n \in Node : Alone(n)}
  /\ Hist.created = (IF main[SignerNode].block_num = 1 /\ SignerNode \notin ahead THEN 1 ELSE 0)
  /\ Hist.key = consensus[SignerNode].group_key
BY DEF Hist

\* The signer is a node.
LEMMA SignerNodeOK == SignerNode \in Node /\ Signer \in Addrs[SignerNode]
<1>1. \E n \in Node : Signer \in Addrs[n]
  BY DkgAssumption DEF Addr
<1>. QED  BY <1>1 DEF SignerNode

\* No other node has the signer's address.
LEMMA OneSigner == \A n \in Node : Signer \in Addrs[n] => n = SignerNode
BY SignerNodeOK, DkgAssumption

\* One value of a function changed.
LEMMA ChangedOK ==
  ASSUME NEW f, f = [i \in Node |-> f[i]], NEW n \in Node, NEW x, NEW g, g = [f EXCEPT ![n] = x]
  PROVE  Changed(f, g, n, x)
BY DEF Changed

\* A node that has block 1 keeps it, its random number and its key, and is not ahead
\* if it was not: what held stays.
LEMMA LaterStep ==
  ASSUME DInv, NEW n \in Node, NEW m, NEW c,
         Changed(main, main', n, m), Changed(consensus, consensus', n, c),
         main[n].block_num = 1 =>
           /\ m.block_num = 1 /\ m.last_random_no = main[n].last_random_no
           /\ c.group_key = consensus[n].group_key /\ ahead' = ahead,
         Counters(n)
  PROVE  Later(Hist, Hist')
<1>1. \A i \in Node : main[i].block_num = 1 =>
        /\ main'[i].block_num = 1 /\ main'[i].last_random_no = main[i].last_random_no
        /\ consensus'[i].group_key = consensus[i].group_key
        /\ i \in ahead' => i \in ahead
  BY DEF Changed, Counters
<1>2. \A i \in Node : Alone(i) => main'[i].block_num = 1 /\ main'[i].last_random_no = 0
  BY <1>1 DEF Alone
<1>3. {i \in Node : Alone(i)} \subseteq {i \in Node : Alone(i)}'
  BY <1>2 DEF Alone
<1>4. Hist.created = 1 => (Hist.created)' = 1 /\ (Hist.key)' = Hist.key
  BY <1>1, SignerNodeOK DEF Hist
<1>5. /\ Hist.cut \subseteq (Hist.cut)' /\ Hist.ahead \subseteq (Hist.ahead)'
      /\ Hist.alone \subseteq (Hist.alone)'
  BY <1>3 DEF Hist, Counters
<1>6. /\ Hist.restarts \in Nat /\ (Hist.restarts)' \in Nat /\ Hist.restarts <= (Hist.restarts)'
      /\ Hist.gen \in [New -> Nat] /\ (Hist.gen)' \in [New -> Nat]
      /\ \A a \in New : Hist.gen[a] <= (Hist.gen)'[a]
  BY DEF Hist, Counters, DInv, Shapes
<1>. QED  BY <1>4, <1>5, <1>6 DEF Later

\* A step that makes of one node something right keeps the invariant.
LEMMA StepOK ==
  ASSUME DInv, NEW n \in Node, NEW m, NEW c,
         Changed(main, main', n, m), Changed(consensus, consensus', n, c),
         Counters(n), Later(Hist, Hist'),
         NodeOK(n, m, c, Hist'), m.at \in {"timeout", "block timeout"} => expired',
         NewMessages
  PROVE  DInv'
<1>0. PICK h, h2 : h = Hist /\ h2 = Hist'
  OBVIOUS
<1>1. Shapes'
  <2>1. \A i \in Node : main'[i].at \in {"timeout", "block timeout"} => expired'
    BY DEF Changed, DInv, Shapes, Counters
  <2>2. ahead' \subseteq Node
    BY DEF DInv, Shapes, Counters
  <2>. QED  BY <2>1, <2>2 DEF Changed, Counters, NewMessages, Shapes
<1>2. Nodes'
  <2>1. ASSUME NEW i \in Node PROVE NodeOK(i, main'[i], consensus'[i], Hist')
    <3>1. CASE i = n
      BY <3>1 DEF Changed
    <3>2. CASE i # n
      <4>1. main'[i] = main[i] /\ consensus'[i] = consensus[i]
        BY <3>2 DEF Changed
      <4>2. NodeOK(i, main[i], consensus[i], h)
        BY <1>0 DEF DInv, Nodes
      <4>3. i \in h2.ahead => i \in h.ahead
        BY <1>0, <3>2 DEF Hist, Counters
      <4>4. Later(h, h2)
        BY <1>0
      <4>5. NodeOK(i, main[i], consensus[i], h2)
        BY ONLY <4>2, <4>3, <4>4, NodeLater, i \in Node
      <4>. QED  BY <1>0, <4>1, <4>5
    <3>. QED  BY <3>1, <3>2
  <2>. QED  BY <2>1 DEF Nodes
<1>3. SharesOK'
  <2>1. \A s : ShareOK(s, Hist) => ShareOK(s, Hist')
    BY ShareLater
  <2>2. SharesOK
    BY DEF DInv
  <2>. QED  BY <2>1, <2>2 DEF SharesOK, NewMessages
<1>4. ContribsOK'
  <2>1. ASSUME NEW s, ContribOK(s, generated) PROVE ContribOK(s, generated')
    <3>1. ContribOK(s, h.gen)
      BY <1>0, <2>1, HistIs
    <3>2. ContribOK(s, h2.gen)
      BY <1>0, <3>1, ContribLater
    <3>3. h2.gen = generated'
      BY <1>0 DEF Hist
    <3>. QED  BY <3>2, <3>3
  <2>2. ContribsOK
    BY DEF DInv
  <2>. QED  BY <2>1, <2>2 DEF ContribsOK, NewMessages
<1>5. BlocksOK'
  <2>1. \A b : BlockOK(b, Hist) => BlockOK(b, Hist')
    BY BlockLater
  <2>2. BlocksOK
    BY DEF DInv
  <2>. QED  BY <2>1, <2>2 DEF BlocksOK, NewMessages
<1>. QED  BY <1>1, <1>2, <1>3, <1>4, <1>5 DEF DInv

-----------------------------------------------------------------------------
(* The initial states *)

\* A fresh node, and a node that has stored its own shares of block 0.
LEMMA FirstObjectOK ==
  ASSUME NEW n \in Node, NEW ip, NEW c,
         c = [members |-> Old, own_ids |-> Addrs[n] \cap Old, received |-> <<>>,
              secretKeys |-> [a \in Addrs[n] \cap Old |-> OldKey], group_key |-> OldKey,
              previous_group_key |-> OldKey, shares |-> {}, verified |-> TRUE, random |-> 0,
              next_signer |-> ip, raised |-> "no"],
         NEW h
  PROVE  /\ ConsensusOK(n, c, h) /\ RoundOK(c, 0, h)
         /\ LET d == create_shares(reset_bls(c), 0, 0) IN
            /\ ConsensusOK(n, d, h) /\ RoundOK(d, 0, h) /\ d.raised = "no"
            /\ d.group_key = OldKey /\ d.members = Old /\ d.own_ids = c.own_ids
            /\ d.secretKeys = c.secretKeys
<1>1. /\ c.members = Old /\ c.own_ids = Addrs[n] \cap Old /\ c.group_key = OldKey
      /\ c.previous_group_key = OldKey /\ c.shares = {} /\ c.verified = TRUE /\ c.raised = "no"
      /\ c.secretKeys = [a \in Addrs[n] \cap Old |-> OldKey] /\ c.random = 0
  OBVIOUS
<1>2. IsConsensus(c)
  BY DEF IsConsensus
<1>3. ConsensusOK(n, c, h)
  BY <1>1, <1>2 DEF ConsensusOK
<1>4. RoundOK(c, 0, h)
  <2>1. IsFiniteSet({}) /\ Cardinality({}) = 0 /\ 0 <= THRESHOLD
    BY FS_EmptySet, DkgAssumption
  <2>. QED  BY <1>1, <2>1 DEF RoundOK
<1>5. IsFiniteSet(c.own_ids)
  BY <1>1, DkgAssumption, FS_Subset
<1>6. PICK f, d, S :
        f = reset_bls(c) /\ d = create_shares(f, 0, 0) /\ S = new_shares(c, 0, 0)
  OBVIOUS
<1>7. Grown(f, f, S, 0) /\ Grown(f, d, S, 0) /\ f = With(c, {}, FALSE, c.random, "no")
  BY ONLY <1>1, <1>2, <1>5, <1>6, n \in Node, RoundBegins
<1>8. /\ f.members = Old /\ f.own_ids = c.own_ids /\ f.secretKeys = c.secretKeys
      /\ f.group_key = OldKey /\ f.previous_group_key = OldKey /\ f.shares = {}
      /\ f.verified = FALSE /\ f.raised = "no" /\ f.random = 0 /\ IsConsensus(f)
  <2>1. PICK sh, v, y, w : sh = {} /\ v = FALSE /\ y = c.random /\ w = "no"
    OBVIOUS
  <2>2. f = With(c, sh, v, y, w)
    BY <1>7, <2>1
  <2>3. /\ f.members = c.members /\ f.own_ids = c.own_ids /\ f.secretKeys = c.secretKeys
        /\ f.group_key = c.group_key /\ f.previous_group_key = c.previous_group_key
        /\ f.shares = sh /\ f.verified = v /\ f.random = y /\ f.raised = w /\ IsConsensus(f)
    BY ONLY <2>2, WithFields
  <2>. QED  BY <1>1, <2>1, <2>3
<1>9. ASSUME NEW s \in S
      PROVE  s.source \in Old /\ s.key = OldKey /\ s.block_number = 0 /\ s.random = 0
  <2>1. PICK a \in c.own_ids \cap DOMAIN c.secretKeys :
          s = [source |-> a, key |-> c.secretKeys[a], random |-> 0, block_number |-> 0]
    BY <1>6 DEF new_shares
  <2>2. a \in Addrs[n] \cap Old /\ c.secretKeys[a] = OldKey
    BY <1>1
  <2>. QED  BY <2>1, <2>2
<1>10. d.raised = "no"
  BY <1>7, <1>8, <1>9 DEF Grown, Raised
<1>11. ConsensusOK(n, d, h)
  <2>1. ConsensusOK(n, f, h)
    BY <1>3, <1>8 DEF ConsensusOK
  <2>. QED  BY <1>7, <2>1, GrownConsensus
<1>12. RoundOK(d, 0, h)
  <2>1. RoundOK(f, 0, h)
    <3>1. IsFiniteSet(f.shares) /\ Cardinality(f.shares) <= THRESHOLD
          /\ Cardinality(f.shares) < THRESHOLD
      BY <1>7, <1>8 DEF Grown
    <3>. QED  BY <1>8, <3>1 DEF RoundOK
  <2>2. \A s \in S : ShareOK(s, h) /\ s.block_number = 0
    BY <1>9 DEF ShareOK
  <2>. QED  BY <1>7, <2>1, <2>2, GrownRound
<1>13. d.group_key = OldKey /\ d.members = Old /\ d.own_ids = c.own_ids
       /\ d.secretKeys = c.secretKeys
  <2>1. PICK lr : lr = 0
    OBVIOUS
  <2>2. Grown(f, d, S, lr)
    BY <1>7, <2>1
  <2>3. d.group_key = f.group_key /\ d.members = f.members /\ d.own_ids = f.own_ids
        /\ d.secretKeys = f.secretKeys
    BY ONLY <2>2, GrownKeeps
  <2>. QED  BY <1>8, <2>3
<1>. QED  BY <1>3, <1>4, <1>6, <1>10, <1>11, <1>12, <1>13

\* The initial states satisfy the invariant.
LEMMA InitOK == Init => DInv
<1>. SUFFICES ASSUME Init PROVE DInv
  OBVIOUS
<1>1. \A n \in Node :
        /\ main[n].at = IF n \in Fresh THEN "bootstrap" ELSE "loop"
        /\ main[n].block_num = 0 /\ main[n].last_random_no = 0
        /\ main[n].dkg_on = FALSE /\ main[n].exit_from_dkg = FALSE
        /\ MainOK(main[n])
  BY DEF Init, MainOK
<1>2. restarts = 0 /\ cut = {} /\ ahead = {}
  BY DEF Init
<1>3. PICK h : h = Hist
  OBVIOUS
<1>4. h.ahead = {} /\ h.restarts = 0
  BY <1>2, <1>3 DEF Hist
<1>5. ASSUME NEW n \in Node PROVE NodeOK(n, main[n], consensus[n], h)
  <2>1. PICK ip : consensus = [i \in Node |->
          LET c == [Blank(ip) EXCEPT !.members = Old, !.own_ids = Addrs[i] \cap Old,
                                     !.secretKeys = [a \in Addrs[i] \cap Old |-> OldKey]]
          IN  IF i \in Fresh THEN c ELSE create_shares(reset_bls(c), 0, 0)]
    BY DEF Init
  <2>2. PICK c :
          c = [members |-> Old, own_ids |-> Addrs[n] \cap Old, received |-> <<>>,
               secretKeys |-> [a \in Addrs[n] \cap Old |-> OldKey], group_key |-> OldKey,
               previous_group_key |-> OldKey, shares |-> {}, verified |-> TRUE, random |-> 0,
               next_signer |-> ip, raised |-> "no"]
    OBVIOUS
  <2>3. c = [Blank(ip) EXCEPT !.members = Old, !.own_ids = Addrs[n] \cap Old,
                              !.secretKeys = [a \in Addrs[n] \cap Old |-> OldKey]]
    <3>1. PICK e, o, t : e = Old /\ o = Addrs[n] \cap Old /\ t = [a \in Addrs[n] \cap Old |-> OldKey]
      OBVIOUS
    <3>2. PICK f : f = [Blank(ip) EXCEPT !.members = e, !.own_ids = o, !.secretKeys = t]
      OBVIOUS
    <3>3. f = [members |-> e, own_ids |-> o, received |-> <<>>, secretKeys |-> t,
               group_key |-> OldKey, previous_group_key |-> OldKey, shares |-> {},
               verified |-> TRUE, random |-> 0, next_signer |-> ip, raised |-> "no"]
      BY ONLY <3>2 DEF Blank
    <3>. QED  BY <2>2, <3>1, <3>2, <3>3
  <2>4. consensus[n] = IF n \in Fresh THEN c ELSE create_shares(reset_bls(c), 0, 0)
    BY <2>1, <2>3
  <2>5. /\ ConsensusOK(n, c, h) /\ RoundOK(c, 0, h)
        /\ LET d == create_shares(reset_bls(c), 0, 0) IN
           /\ ConsensusOK(n, d, h) /\ RoundOK(d, 0, h) /\ d.raised = "no"
           /\ d.group_key = OldKey /\ d.members = Old /\ d.own_ids = c.own_ids
           /\ d.secretKeys = c.secretKeys
    BY ONLY <2>2, n \in Node, FirstObjectOK
  <2>6. c.members = Old /\ c.group_key = OldKey /\ c.raised = "no" /\ c.verified
        /\ c.own_ids = Addrs[n] \cap Old /\ c.secretKeys = [a \in Addrs[n] \cap Old |-> OldKey]
    BY <2>2
  <2>7. PICK x, m : x = consensus[n] /\ m = main[n]
    OBVIOUS
  <2>8. /\ ConsensusOK(n, x, h) /\ RoundOK(x, 0, h) /\ x.raised = "no"
        /\ x.group_key = OldKey /\ x.members = Old
        /\ n \in Fresh => x.verified /\ x.own_ids = {}
        /\ x.secretKeys = [a \in Addrs[n] \cap Old |-> OldKey]
    <3>1. n \in Fresh => Addrs[n] \cap Old = {}
      BY DkgAssumption
    <3>. QED  BY <2>4, <2>5, <2>6, <2>7, <3>1
  <2>9. /\ m.at = (IF n \in Fresh THEN "bootstrap" ELSE "loop") /\ m.block_num = 0
        /\ m.last_random_no = 0 /\ ~m.dkg_on /\ ~m.exit_from_dkg /\ MainOK(m)
    BY <1>1, <2>7
  <2>. HIDE DEF Init
  <2>10. WaitingOK(n, m, x, h)
    BY ONLY <2>8 DEF WaitingOK, KeysFit
  <2>11. RenewingOK(n, m, x, h)
    BY ONLY <2>9 DEF RenewingOK, Renewing
  <2>12. DoneOK(n, m, x, h)
    BY ONLY <2>9 DEF DoneOK
  <2>13. StartOK(n, m, x, h)
    BY ONLY <2>8, <2>9 DEF StartOK
  <2>14. StopOK(n, m, x, h)
    BY ONLY <2>8, <2>9 DEF StopOK
  <2>15. RoundOK(x, m.block_num, h)
    BY ONLY <2>8, <2>9
  <2>16. HeadOK(n, m, x, h)
    BY ONLY <1>4, <2>9 DEF HeadOK
  <2>17. NodeOK(n, m, x, h)
    BY ONLY <2>8, <2>9, <2>10, <2>11, <2>12, <2>13, <2>14, <2>15, <2>16 DEF NodeOK
  <2>. QED  BY <2>7, <2>17
<1>6. Nodes
  BY <1>3, <1>5 DEF Nodes
<1>7. Shapes
  <2>1. \A n \in Node : main[n].at \notin {"timeout", "block timeout"}
    BY <1>1
  <2>2. /\ main = [n \in Node |-> main[n]] /\ consensus = [n \in Node |-> consensus[n]]
        /\ bls_shares = [n \in Node |-> bls_shares[n]]
    BY DEF Init
  <2>3. /\ bls_future = [n \in Node |-> bls_future[n]]
        /\ dkg_shares = [n \in Node |-> dkg_shares[n]] /\ blocks = [n \in Node |-> blocks[n]]
    BY DEF Init
  <2>4. /\ restarts \in Nat /\ expired \in BOOLEAN /\ lost = {} /\ cut = {} /\ ahead = {}
        /\ generated \in [New -> Nat]
    BY DEF Init
  <2>. QED  BY <2>1, <2>2, <2>3, <2>4 DEF Shapes
<1>8. SharesOK
  <2>1. ASSUME NEW n \in Node, NEW s \in bls_shares[n] PROVE ShareOK(s, h)
    <3>1. PICK a \in Old : s = [source |-> a, key |-> OldKey, random |-> 0, block_number |-> 0]
      BY DEF Init
    <3>. QED  BY <3>1 DEF ShareOK
  <2>2. \A n \in Node : bls_future[n] = {}
    BY DEF Init
  <2>. QED  BY <1>3, <2>1, <2>2 DEF SharesOK
<1>9. ContribsOK /\ BlocksOK
  <2>1. \A n \in Node : dkg_shares[n] = {} /\ blocks[n] = {}
    BY DEF Init
  <2>. QED  BY <2>1 DEF ContribsOK, BlocksOK
<1>. QED  BY <1>6, <1>7, <1>8, <1>9 DEF DInv

-----------------------------------------------------------------------------
(* The share section *)

\* A step that leaves alone what is on its way.
LEMMA SameMessages ==
  ASSUME DInv, UNCHANGED <<bls_future, netvars>>
  PROVE  NewMessages
BY DEF DInv, Shapes, NewMessages, netvars

\* The counters and histories of a state.
LEMMA Types ==
  ASSUME DInv
  PROVE  /\ restarts \in Nat /\ restarts <= restarts /\ expired \in BOOLEAN
         /\ generated \in [New -> Nat] /\ \A a \in New : generated[a] <= generated[a]
         /\ lost \subseteq Node /\ cut \subseteq Node /\ ahead \subseteq Node
<1>1. /\ restarts \in Nat /\ expired \in BOOLEAN /\ generated \in [New -> Nat]
      /\ lost \subseteq Node /\ cut \subseteq Node /\ ahead \subseteq Node
  BY DEF DInv, Shapes
<1>2. \A a \in New : generated[a] \in Nat
  BY <1>1
<1>. QED  BY <1>1, <1>2

\* A step that leaves the counters and histories alone.
LEMMA SameCounters ==
  ASSUME DInv, NEW n \in Node, UNCHANGED <<generated, expired, history>>
  PROVE  Counters(n)
BY Types DEF Counters, history

\* A node of the system is right.
LEMMA NodeIsOK ==
  ASSUME DInv, NEW n \in Node
  PROVE  NodeOK(n, main[n], consensus[n], Hist)
BY DEF DInv, Nodes

\* Storing shares of the round keeps the invariant.
LEMMA StoringOK ==
  ASSUME DInv, NEW n \in Node, Running(n), ~main[n].dkg_on,
         NEW d, NEW S, Grown(consensus[n], d, S, main[n].last_random_no),
         \A s \in S : ShareOK(s, Hist) /\ s.block_number = main[n].block_num,
         NEW x, x = AfterShares(main[n], d),
         Changed(main, main', n, x), Changed(consensus, consensus', n, d),
         NewMessages, UNCHANGED <<generated, expired, history>>
  PROVE  DInv'
<1>1. PICK m, c, h, h2 : m = main[n] /\ c = consensus[n] /\ h = Hist /\ h2 = Hist'
  OBVIOUS
<1>2. NodeOK(n, m, c, h)
  BY <1>1, NodeIsOK
<1>3. Grown(c, d, S, m.last_random_no) /\ x = AfterShares(m, d)
      /\ \A s \in S : ShareOK(s, h) /\ s.block_number = m.block_num
  BY <1>1
<1>4. NodeOK(n, x, d, h)
  <2>1. m.at = "loop" /\ ~m.dkg_on
    BY <1>1 DEF Running
  <2>. QED  BY ONLY n \in Node, <1>2, <1>3, <2>1, StoreSharesOK
<1>5. d.raised \in Raised /\ d.verified \in BOOLEAN /\ d.group_key = c.group_key /\ MainOK(m)
  <2>1. d.group_key = c.group_key
    BY ONLY <1>3, GrownKeeps
  <2>. QED  BY <1>2, <1>3, <2>1 DEF Grown, NodeOK
<1>6. /\ x.block_num = m.block_num /\ x.last_random_no = m.last_random_no
      /\ d.raised = "no" => x.at = m.at
      /\ d.raised # "no" => x.at = d.raised
  BY ONLY <1>3, <1>5, AfterSharesOK
<1>7. x.at \notin {"timeout", "block timeout"}
  <2>1. m.at = "loop"
    BY <1>1 DEF Running
  <2>. QED  BY ONLY <1>5, <1>6, <2>1 DEF Raised
<1>8. Counters(n)
  BY SameCounters
<1>9. Later(Hist, Hist')
  <2>1. main[n].block_num = 1 =>
          /\ x.block_num = 1 /\ x.last_random_no = main[n].last_random_no
          /\ d.group_key = consensus[n].group_key /\ ahead' = ahead
    BY <1>1, <1>5, <1>6 DEF history
  <2>. QED  BY <1>8, <2>1, LaterStep
<1>10. NodeOK(n, x, d, Hist')
  <2>1. n \in h2.ahead => n \in h.ahead
    BY <1>1 DEF Hist, history
  <2>2. Later(h, h2)
    BY <1>1, <1>9
  <2>3. NodeOK(n, x, d, h2)
    BY ONLY n \in Node, <1>4, <2>1, <2>2, NodeLater
  <2>. QED  BY <1>1, <2>3
<1>. QED  BY <1>7, <1>8, <1>9, <1>10, StepOK

\* An object that has raised nothing may store shares.
LEMMA GrowsOK ==
  ASSUME NEW n, NEW m, NEW c, NEW h, NodeOK(n, m, c, h), m.at = "loop", NEW S, NEW lr
  PROVE  Grown(c, c, S, lr) /\ c.raised = "no"
<1>1. /\ IsConsensus(c) /\ c.verified \in BOOLEAN /\ IsFiniteSet(c.shares)
      /\ Cardinality(c.shares) <= THRESHOLD
  BY DEF NodeOK, ConsensusOK, RoundOK
<1>2. c.raised = "no"
  BY DEF NodeOK, StopOK
<1>3. ~c.verified => Cardinality(c.shares) < THRESHOLD
  BY <1>2 DEF NodeOK, RoundOK
<1>. QED  BY ONLY <1>1, <1>2, <1>3, GrownSelf

\* A share from the network.
LEMMA ReceiveShareOK ==
  ASSUME DInv, NEW n \in Node, NEW s \in bls_shares[n], ReceiveShare(n, s)
  PROVE  DInv'
<1>1. PICK num, lr, m, c, d, x, h :
        /\ num = main[n].block_num /\ c = consensus[n] /\ m = main[n] /\ lr = m.last_random_no
        /\ d = IF s.block_number = num THEN store_share(c, s, lr) ELSE c
        /\ x = AfterShares(main[n], d) /\ h = Hist
  OBVIOUS
<1>2. /\ Running(n) /\ ~main[n].dkg_on
      /\ consensus' = [consensus EXCEPT ![n] = d]
      /\ main' = [main EXCEPT ![n] = x]
      /\ UNCHANGED <<dkg_cache, generated, dkg_shares, blocks, expired, history>>
  BY <1>1 DEF ReceiveShare
<1>3. /\ bls_shares' = [bls_shares EXCEPT ![n] = bls_shares[n] \ {s}]
      /\ bls_future' = IF s.block_number > num
                       THEN [bls_future EXCEPT ![n] = bls_future[n] \cup {s}] ELSE bls_future
  BY <1>1 DEF ReceiveShare
<1>4. Changed(main, main', n, x) /\ Changed(consensus, consensus', n, d)
  BY <1>2 DEF Changed, DInv, Shapes
<1>5. ShareOK(s, Hist)
  BY DEF DInv, SharesOK
<1>6. PICK S : S = {t \in {s} : s.block_number = num}
  OBVIOUS
<1>7. NodeOK(n, m, c, h) /\ m.at = "loop"
  BY <1>1, <1>2, NodeIsOK DEF Running
<1>8. Grown(c, c, S, lr) /\ c.raised = "no"
  BY ONLY <1>7, GrowsOK
<1>9. Grown(c, d, S, lr)
  <2>1. CASE s.block_number = num
    <3>1. s \in S
      BY <1>6, <2>1
    <3>2. Grown(c, store_share(c, s, lr), S, lr)
      BY ONLY <1>8, <3>1, StoreShareOK
    <3>. QED  BY <1>1, <2>1, <3>2
  <2>2. CASE s.block_number # num
    BY <1>1, <1>8, <2>2
  <2>. QED  BY <2>1, <2>2
<1>10. \A t \in S : ShareOK(t, Hist) /\ t.block_number = main[n].block_num
  BY <1>1, <1>5, <1>6
<1>11. Counters(n)
  BY <1>2, SameCounters
<1>12. Later(Hist, Hist')
  <2>1. d.group_key = c.group_key
    BY <1>9, GrownKeeps
  <2>2. x.block_num = m.block_num /\ x.last_random_no = m.last_random_no
    <3>1. MainOK(m) /\ d.raised \in Raised /\ d.verified \in BOOLEAN
      BY <1>7, <1>9 DEF NodeOK, Grown
    <3>2. x = AfterShares(m, d)
      BY <1>1
    <3>. QED  BY ONLY <3>1, <3>2, AfterSharesOK
  <2>3. main[n].block_num = 1 =>
          /\ x.block_num = 1 /\ x.last_random_no = main[n].last_random_no
          /\ d.group_key = consensus[n].group_key /\ ahead' = ahead
    BY <1>1, <1>2, <2>1, <2>2 DEF history
  <2>. QED  BY <1>4, <1>11, <2>3, LaterStep
<1>13. NewMessages
  <2>1. /\ bls_shares' = [i \in Node |-> bls_shares'[i]]
        /\ \A i \in Node : \A t \in bls_shares'[i] : t \in bls_shares[i]
    BY <1>3 DEF DInv, Shapes
  <2>2. /\ bls_future' = [i \in Node |-> bls_future'[i]]
        /\ \A i \in Node : \A t \in bls_future'[i] :
             t \in bls_future[i] \/ (t = s /\ s.block_number > num)
    BY <1>3 DEF DInv, Shapes
  <2>3. s.block_number > num => ShareOK(s, Hist') /\ s.block_number = 1
    <3>1. num \in {0, 1}
      BY <1>1, <1>7 DEF NodeOK, MainOK
    <3>2. s.block_number > num => s.block_number = 1
      BY <1>5, <3>1 DEF ShareOK
    <3>3. ShareOK(s, Hist')
      BY <1>5, <1>12, ShareLater
    <3>. QED  BY <3>2, <3>3
  <2>4. /\ dkg_shares' = [i \in Node |-> dkg_shares'[i]] /\ blocks' = [i \in Node |-> blocks'[i]]
        /\ dkg_shares' = dkg_shares /\ blocks' = blocks
    BY <1>2 DEF DInv, Shapes
  <2>. QED  BY <2>1, <2>2, <2>3, <2>4 DEF NewMessages
<1>14. Grown(consensus[n], d, S, main[n].last_random_no) /\ x = AfterShares(main[n], d)
  BY <1>1, <1>9
<1>. QED  BY <1>2, <1>4, <1>10, <1>13, <1>14, StoringOK

\* A share of the next block whose time has come.
LEMMA TakeFutureShareOK ==
  ASSUME DInv, NEW n \in Node, NEW s \in bls_future[n], TakeFutureShare(n, s)
  PROVE  DInv'
<1>1. PICK m, c, d, x, lr, h :
        /\ m = main[n] /\ c = consensus[n] /\ lr = m.last_random_no
        /\ d = store_share(c, s, lr) /\ x = AfterShares(main[n], d) /\ h = Hist
  OBVIOUS
<1>2. /\ Running(n) /\ s.block_number = main[n].block_num
      /\ consensus' = [consensus EXCEPT ![n] = d]
      /\ main' = [main EXCEPT ![n] = x]
      /\ bls_future' = [bls_future EXCEPT ![n] = bls_future[n] \ {s}]
      /\ UNCHANGED <<dkg_cache, generated, netvars, expired, history>>
  BY <1>1 DEF TakeFutureShare
<1>3. NodeOK(n, m, c, h) /\ m.at = "loop"
  BY <1>1, <1>2, NodeIsOK DEF Running
<1>4. ShareOK(s, Hist) /\ s.block_number = 1
  BY DEF DInv, SharesOK
<1>5. ~main[n].dkg_on
  BY <1>1, <1>2, <1>3, <1>4 DEF NodeOK, RenewingOK, Renewing
<1>6. PICK S : S = {s}
  OBVIOUS
<1>7. Grown(c, d, S, lr)
  <2>1. Grown(c, c, S, lr) /\ c.raised = "no"
    BY ONLY <1>3, GrowsOK
  <2>2. s \in S
    BY <1>6
  <2>3. Grown(c, store_share(c, s, lr), S, lr)
    BY ONLY <2>1, <2>2, StoreShareOK
  <2>. QED  BY <1>1, <2>3
<1>8. Changed(main, main', n, x) /\ Changed(consensus, consensus', n, d)
  BY <1>2 DEF Changed, DInv, Shapes
<1>9. NewMessages
  <2>1. /\ bls_future' = [i \in Node |-> bls_future'[i]]
        /\ \A i \in Node : bls_future'[i] \subseteq bls_future[i]
    BY <1>2 DEF DInv, Shapes
  <2>. QED  BY <1>2, <2>1 DEF NewMessages, netvars, DInv, Shapes
<1>10. \A t \in S : ShareOK(t, Hist) /\ t.block_number = main[n].block_num
  BY <1>2, <1>4, <1>6
<1>11. Grown(consensus[n], d, S, main[n].last_random_no) /\ x = AfterShares(main[n], d)
  BY <1>1, <1>7
<1>. QED  BY <1>2, <1>5, <1>8, <1>9, <1>10, <1>11, StoringOK

\* A step that changes no node.
LEMMA StillOK ==
  ASSUME DInv, UNCHANGED <<main, consensus, ahead>>, Counters(SignerNode), NewMessages
  PROVE  DInv'
<1>1. PICK n \in Node : n = SignerNode
  BY SignerNodeOK
<1>2. PICK m, c, h, h2 : m = main[n] /\ c = consensus[n] /\ h = Hist /\ h2 = Hist'
  OBVIOUS
<1>3. Changed(main, main', n, m) /\ Changed(consensus, consensus', n, c)
  BY <1>2 DEF Changed, DInv, Shapes
<1>4. Counters(n)
  BY <1>1
<1>5. Later(Hist, Hist')
  BY <1>2, <1>3, <1>4, LaterStep
<1>6. NodeOK(n, m, c, Hist')
  <2>1. NodeOK(n, m, c, h)
    BY <1>2, NodeIsOK
  <2>2. n \in h2.ahead => n \in h.ahead
    BY <1>2 DEF Hist
  <2>3. Later(h, h2)
    BY <1>2, <1>5
  <2>4. NodeOK(n, m, c, h2)
    BY ONLY n \in Node, <2>1, <2>2, <2>3, NodeLater
  <2>. QED  BY <1>2, <2>4
<1>7. m.at \in {"timeout", "block timeout"} => expired'
  BY <1>2 DEF DInv, Shapes, Counters
<1>. QED  BY <1>3, <1>4, <1>5, <1>6, <1>7, StepOK

\* A share thrown away during the DKG.
LEMMA LoseShareOK ==
  ASSUME DInv, NEW n \in Node, NEW s \in bls_shares[n], LoseShare(n, s)
  PROVE  DInv'
<1>1. /\ bls_shares' = [bls_shares EXCEPT ![n] = bls_shares[n] \ {s}] /\ lost' = lost \cup {n}
      /\ UNCHANGED <<main, consensus, dkg_cache, bls_future, generated, dkg_shares, blocks,
                     expired, dropped, cut, ahead, restarts>>
  BY DEF LoseShare
<1>2. NewMessages
  <2>1. /\ bls_shares' = [i \in Node |-> bls_shares'[i]]
        /\ \A i \in Node : bls_shares'[i] \subseteq bls_shares[i]
    BY <1>1 DEF DInv, Shapes
  <2>. QED  BY <1>1, <2>1 DEF NewMessages, DInv, Shapes
<1>3. Counters(SignerNode)
  BY <1>1, Types DEF Counters
<1>. QED  BY <1>1, <1>2, <1>3, StillOK

\* A contribution thrown away before the trigger.
LEMMA DropDkgShareOK ==
  ASSUME DInv, NEW n \in Node, NEW s \in dkg_shares[n], DropDkgShare(n, s)
  PROVE  DInv'
<1>1. /\ dkg_shares' = [dkg_shares EXCEPT ![n] = dkg_shares[n] \ {s}]
      /\ UNCHANGED <<main, consensus, dkg_cache, bls_future, generated, bls_shares, blocks,
                     expired, lost, cut, ahead, restarts>>
  BY DEF DropDkgShare
<1>2. NewMessages
  <2>1. /\ dkg_shares' = [i \in Node |-> dkg_shares'[i]]
        /\ \A i \in Node : dkg_shares'[i] \subseteq dkg_shares[i]
    BY <1>1 DEF DInv, Shapes
  <2>. QED  BY <1>1, <2>1 DEF NewMessages, DInv, Shapes
<1>3. Counters(SignerNode)
  BY <1>1, Types DEF Counters
<1>. QED  BY <1>1, <1>2, <1>3, StillOK

\* The timeout.
LEMMA ExpireOK == DInv /\ Expire => DInv'
<1>. SUFFICES ASSUME DInv, Expire PROVE DInv'
  OBVIOUS
<1>1. /\ expired' = TRUE
      /\ UNCHANGED <<main, consensus, dkg_cache, bls_future, generated, netvars, history>>
  BY DEF Expire
<1>2. NewMessages
  BY <1>1, SameMessages
<1>3. Counters(SignerNode)
  BY <1>1, Types DEF Counters, history
<1>. QED  BY <1>1, <1>2, <1>3, StillOK DEF history

-----------------------------------------------------------------------------
(* Steps that change where the process is *)

\* The main loop with another at, or with block 1 fetched.
Moved(m, x) ==
  /\ MainOK(x) /\ x.at # "bootstrap" /\ m.at \in {"bootstrap", "loop"}
  /\ x.block_num = m.block_num /\ x.last_random_no = m.last_random_no
  /\ x.dkg_on = m.dkg_on /\ x.exit_from_dkg = m.exit_from_dkg
  /\ x.in_dkg_group = m.in_dkg_group /\ (m.served => x.served)

\* Where a node is does not matter to most of what holds of it.
LEMMA AtOK ==
  ASSUME NEW n \in Node, NEW m, NEW c, NEW h, NodeOK(n, m, c, h),
         NEW x, Moved(m, x), StopOK(n, x, c, h)
  PROVE  NodeOK(n, x, c, h)
<1>1. /\ ConsensusOK(n, c, h) /\ RoundOK(c, m.block_num, h)
      /\ WaitingOK(n, m, c, h) /\ RenewingOK(n, m, c, h) /\ DoneOK(n, m, c, h)
      /\ HeadOK(n, m, c, h)
  BY DEF NodeOK
<1>2. RoundOK(c, x.block_num, h) /\ MainOK(x)
  BY <1>1 DEF Moved
<1>3. Waiting(x) => Waiting(m)
  BY DEF Waiting, Moved
<1>4. WaitingOK(n, x, c, h)
  BY <1>1, <1>3 DEF WaitingOK
<1>5. RenewingOK(n, x, c, h)
  BY <1>1 DEF RenewingOK, Renewing, Moved
<1>6. DoneOK(n, x, c, h)
  BY <1>1 DEF DoneOK, Moved
<1>7. HeadOK(n, x, c, h)
  BY <1>1 DEF HeadOK, Moved
<1>8. StartOK(n, x, c, h)
  BY DEF StartOK, Moved
<1>. QED  BY <1>1, <1>2, <1>4, <1>5, <1>6, <1>7, <1>8 DEF NodeOK

\* A step that changes only where the process of a node is.
LEMMA AtStepOK ==
  ASSUME DInv, NEW n \in Node, NEW x, Moved(main[n], x),
         x.at \in {"timeout", "block timeout"} => expired,
         StopOK(n, x, consensus[n], Hist), main' = [main EXCEPT ![n] = x],
         UNCHANGED <<consensus, bls_future, generated, netvars, expired, history>>
  PROVE  DInv'
<1>1. PICK m, c, h, h2 : m = main[n] /\ c = consensus[n] /\ h = Hist /\ h2 = Hist'
  OBVIOUS
<1>2. Changed(main, main', n, x) /\ Changed(consensus, consensus', n, c)
  BY <1>1 DEF Changed, DInv, Shapes
<1>3. NodeOK(n, m, c, h) /\ Moved(m, x) /\ StopOK(n, x, c, h)
  BY <1>1, NodeIsOK
<1>4. NodeOK(n, x, c, h)
  BY ONLY n \in Node, <1>3, AtOK
<1>5. Counters(n)
  BY SameCounters
<1>6. NewMessages
  BY SameMessages
<1>7. Later(Hist, Hist')
  <2>1. main[n].block_num = 1 =>
          /\ x.block_num = 1 /\ x.last_random_no = main[n].last_random_no
          /\ c.group_key = consensus[n].group_key /\ ahead' = ahead
    BY <1>1 DEF Moved, history
  <2>. QED  BY <1>2, <1>5, <2>1, LaterStep
<1>8. NodeOK(n, x, c, Hist')
  <2>1. n \in h2.ahead => n \in h.ahead
    BY <1>1 DEF Hist, history
  <2>2. Later(h, h2)
    BY <1>1, <1>7
  <2>3. NodeOK(n, x, c, h2)
    BY ONLY n \in Node, <1>4, <2>1, <2>2, NodeLater
  <2>. QED  BY <1>1, <2>3
<1>. QED  BY <1>2, <1>5, <1>6, <1>7, <1>8, StepOK

\* The end of a process, or the end of perform_bootstrap.
LEMMA AtChangedOK ==
  ASSUME DInv, NEW n \in Node, main[n].at \in {"bootstrap", "loop"},
         NEW a, a \in {"loop", "timeout", "block timeout", "unowned IP"},
         a \in {"timeout", "block timeout"} => expired,
         a = "unowned IP" => Holder[consensus[n].next_signer] = Nobody,
         main' = [main EXCEPT ![n].at = a],
         UNCHANGED <<consensus, bls_future, generated, netvars, expired, history>>
  PROVE  DInv'
<1>1. PICK m, c, h, x : m = main[n] /\ c = consensus[n] /\ h = Hist /\ x = [m EXCEPT !.at = a]
  OBVIOUS
<1>2. MainOK(m) /\ (m.at \in {"bootstrap", "loop"} => c.raised = "no")
      /\ m.at \in {"bootstrap", "loop"}
  BY <1>1, NodeIsOK DEF NodeOK, StopOK
<1>3. Moved(m, x) /\ x.at = a
  <2>1. a \in Reasons \cup {"loop"} /\ a # "bootstrap"
    BY DEF Reasons
  <2>. QED  BY ONLY <1>1, <1>2, <2>1 DEF Moved, MainOK
<1>4. StopOK(n, x, c, h)
  <2>1. a = "unowned IP" => Holder[c.next_signer] = Nobody
    BY <1>1
  <2>2. a \in {"loop", "timeout", "block timeout", "unowned IP"}
    OBVIOUS
  <2>. QED  BY ONLY <1>2, <1>3, <2>1, <2>2 DEF StopOK
<1>5. main' = [main EXCEPT ![n] = x]
  BY <1>1
<1>. QED  BY <1>1, <1>3, <1>4, <1>5, AtStepOK

\* The timeout of a node outside the group.
LEMMA OutsiderTimeoutOK ==
  ASSUME DInv, NEW n \in Node, OutsiderTimeout(n)
  PROVE  DInv'
<1>1. PICK a : a = "timeout"
  OBVIOUS
<1>2. main[n].at \in {"bootstrap", "loop"} /\ main' = [main EXCEPT ![n].at = a] /\ expired
  BY <1>1 DEF OutsiderTimeout, Running
<1>3. UNCHANGED <<consensus, bls_future, generated, netvars, expired, history>>
  BY DEF OutsiderTimeout
<1>. QED  BY <1>1, <1>2, <1>3, AtChangedOK

\* The timeout of a node that waits for block 1.
LEMMA BlockTimeoutOK ==
  ASSUME DInv, NEW n \in Node, BlockTimeout(n)
  PROVE  DInv'
<1>1. PICK a : a = "block timeout"
  OBVIOUS
<1>2. main[n].at \in {"bootstrap", "loop"} /\ main' = [main EXCEPT ![n].at = a] /\ expired
  BY <1>1 DEF BlockTimeout, Running
<1>3. UNCHANGED <<consensus, bls_future, generated, netvars, expired, history>>
  BY DEF BlockTimeout
<1>. QED  BY <1>1, <1>2, <1>3, AtChangedOK

\* The selected IP has no owner.
LEMMA SignUnownedOK ==
  ASSUME DInv, NEW n \in Node, SignUnowned(n)
  PROVE  DInv'
<1>1. PICK a : a = "unowned IP"
  OBVIOUS
<1>2. main[n].at \in {"bootstrap", "loop"} /\ main' = [main EXCEPT ![n].at = a]
  BY <1>1 DEF SignUnowned, MaySign, Running
<1>3. Holder[consensus[n].next_signer] = Nobody
  <2>1. Signer # Nobody
    BY DkgAssumption
  <2>. QED  BY <2>1 DEF SignUnowned, signing_addr
<1>4. UNCHANGED <<consensus, bls_future, generated, netvars, expired, history>>
  BY DEF SignUnowned
<1>. QED  BY <1>1, <1>2, <1>3, <1>4, AtChangedOK

\* The end of perform_bootstrap.
LEMMA BootstrapEndsOK ==
  ASSUME DInv, NEW n \in Node, BootstrapEnds(n)
  PROVE  DInv'
<1>1. PICK a : a = "loop"
  OBVIOUS
<1>2. main[n].at \in {"bootstrap", "loop"} /\ main' = [main EXCEPT ![n].at = a]
  BY <1>1 DEF BootstrapEnds
<1>3. UNCHANGED <<consensus, bls_future, generated, netvars, expired, history>>
  BY DEF BootstrapEnds
<1>. QED  BY <1>1, <1>2, <1>3, AtChangedOK

-----------------------------------------------------------------------------
(* The DKG sections *)

\* A node between the trigger and block 1.
LEMMA RenewOK ==
  ASSUME NEW n \in Node, NEW h, n \notin h.ahead,
         NEW m, MainOK(m), m.at \in {"loop", "timeout"}, m.block_num = 0, m.last_random_no = 0,
         Renewing(m),
         NEW c, ConsensusOK(n, c, h), RoundOK(c, 0, h), c.raised = "no",
         RenewingOK(n, m, c, h)
  PROVE  NodeOK(n, m, c, h)
<1>1. ~Waiting(m)
  BY DEF Waiting, Renewing
<1>2. WaitingOK(n, m, c, h)
  BY <1>1 DEF WaitingOK
<1>3. DoneOK(n, m, c, h)
  BY DEF DoneOK
<1>4. StartOK(n, m, c, h)
  BY DEF StartOK
<1>5. StopOK(n, m, c, h)
  BY DEF StopOK
<1>6. HeadOK(n, m, c, h)
  BY DEF HeadOK
<1>7. RoundOK(c, m.block_num, h)
  OBVIOUS
<1>. QED  BY <1>2, <1>3, <1>4, <1>5, <1>6, <1>7 DEF NodeOK

\* The end of the DKG of a node.
LEMMA FinishOK ==
  ASSUME NEW n \in Node, NEW h, n \notin h.ahead,
         NEW m, MainOK(m), m.at = "loop", m.block_num = 0, m.last_random_no = 0, m.dkg_on,
         NEW c, ConsensusOK(n, c, h), RoundOK(c, 0, h), c.raised = "no",
         RenewingOK(n, m, c, h), NEW x, x = finish(m, c)
  PROVE  NodeOK(n, x, c, h) /\ x.at = "loop" /\ x.block_num = 0
<1>0. Renewing(m)
  BY DEF Renewing
<1>1. CASE m.in_dkg_group /\ all_node_dkgs_finished(c)
  <2>1. x = [m EXCEPT !.dkg_on = FALSE, !.exit_from_dkg = TRUE]
    BY <1>1 DEF finish
  <2>2. /\ MainOK(x) /\ x.at = "loop" /\ x.block_num = 0 /\ x.last_random_no = 0
        /\ ~x.dkg_on /\ x.exit_from_dkg /\ x.in_dkg_group = m.in_dkg_group
    BY <2>1 DEF MainOK
  <2>3. Renewing(x)
    BY <2>2 DEF Renewing
  <2>4. RenewingOK(n, x, c, h)
    BY <1>0, <1>1, <2>2 DEF RenewingOK
  <2>. QED  BY <2>2, <2>3, <2>4, RenewOK
<1>2. CASE ~(m.in_dkg_group /\ all_node_dkgs_finished(c))
  <2>1. x = m
    BY <1>2 DEF finish
  <2>. QED  BY <1>0, <2>1, RenewOK
<1>. QED  BY <1>1, <1>2

\* An object with another table that is right.
LEMMA KeyedOK ==
  ASSUME NEW n \in Node, NEW h, h.gen \in [New -> Nat], NEW c, ConsensusOK(n, c, h),
         RoundOK(c, 0, h), NEW t, NEW k, NEW g, Table(t, k, g, n, h.gen),
         NEW I, NEW R, k \in Secrets(I, R), NEW e, e = Keyed(c, t, k, g)
  PROVE  ConsensusOK(n, e, h) /\ TableOK(e, n, h) /\ RoundOK(e, 0, h)
<1>1. /\ e.received = t /\ e.secretKeys = k /\ e.group_key = g
      /\ e.members = c.members /\ e.own_ids = c.own_ids
      /\ e.previous_group_key = c.previous_group_key /\ e.random = c.random
      /\ e.shares = c.shares /\ e.verified = c.verified /\ e.raised = c.raised
      /\ IsConsensus(e)
  BY ONLY e = Keyed(c, t, k, g), KeyedFields
<1>2. TableOK(e, n, h)
  BY <1>1 DEF TableOK
<1>3. e.secretKeys = [a \in DOMAIN e.secretKeys |-> e.secretKeys[a]]
  <2>1. PICK J \in SUBSET I : k \in [J -> R]
    BY DEF Secrets
  <2>. QED  BY <1>1, <2>1
<1>4. g = OldKey \/ g \in KeyUpTo(h.gen)
  BY TableKey
<1>5. ConsensusOK(n, e, h)
  BY <1>1, <1>3, <1>4 DEF ConsensusOK
<1>6. RoundOK(e, 0, h)
  BY <1>1 DEF RoundOK
<1>. QED  BY <1>2, <1>5, <1>6

\* A contribution for a member that the node has.
LEMMA VerifyOK ==
  ASSUME NEW n \in Node, NEW h, h.gen \in [New -> Nat], NEW c, ConsensusOK(n, c, h),
         TableOK(c, n, h), RoundOK(c, 0, h), NEW s, s.to \in Ids(n), ContribOK(s, h.gen),
         NEW e, e = verify_dkg_contribution(c, s)
  PROVE  /\ ConsensusOK(n, e, h) /\ TableOK(e, n, h) /\ RoundOK(e, 0, h)
         /\ e.members = c.members /\ e.own_ids = c.own_ids
         /\ e.verified = c.verified /\ e.raised = c.raised
<1>1. PICK I, R :
        /\ I = DOMAIN c.secretKeys \cup Ids(n)
        /\ R = { c.secretKeys[a] : a \in DOMAIN c.secretKeys } \cup KeyUpTo(h.gen)
  OBVIOUS
<1>2. c.secretKeys \in Secrets(I, R)
  <2>1. c.secretKeys \in [DOMAIN c.secretKeys -> R]
    BY <1>1 DEF ConsensusOK
  <2>2. DOMAIN c.secretKeys \in SUBSET I
    BY <1>1
  <2>. QED  BY <2>1, <2>2 DEF Secrets
<1>3. Ids(n) \subseteq I /\ KeyUpTo(h.gen) \subseteq R /\ IsConsensus(c)
  BY <1>1 DEF ConsensusOK
<1>4. PICK t, k, g : e = Keyed(c, t, k, g) /\ Table(t, k, g, n, h.gen) /\ k \in Secrets(I, R)
  BY <1>2, <1>3, ContributionOK
<1>5. ConsensusOK(n, e, h) /\ TableOK(e, n, h) /\ RoundOK(e, 0, h)
  BY <1>4, KeyedOK
<1>6. /\ e.members = c.members /\ e.own_ids = c.own_ids
      /\ e.verified = c.verified /\ e.raised = c.raised
  BY ONLY <1>4, KeyedFields
<1>. QED  BY <1>5, <1>6

\* What a node passes on or sends.
LEMMA SendDkgOK ==
  ASSUME NEW net, net = [i \in Node |-> net[i]], NEW n, NEW msgs, NEW g, g = send_dkg(net, n, msgs)
  PROVE  /\ g = [i \in Node |-> g[i]]
         /\ \A i \in Node : \A s \in g[i] : s \in net[i] \/ s \in msgs
BY DEF send_dkg

\* A contribution from the network.
LEMMA PopDkgShareOK ==
  ASSUME DInv, NEW n \in Node, NEW s \in dkg_shares[n], PopDkgShare(n, s)
  PROVE  DInv'
<1>1. PICK m, c, h, h2 : m = main[n] /\ c = consensus[n] /\ h = Hist /\ h2 = Hist'
  OBVIOUS
<1>2. PICK new \in BOOLEAN, mine \in BOOLEAN :
        (new <=> s \notin dkg_cache[n]) /\ (mine <=> s.to \in c.own_ids)
  <2>1. \E new \in BOOLEAN : new <=> s \notin dkg_cache[n]
    OBVIOUS
  <2>2. \E mine \in BOOLEAN : mine <=> s.to \in c.own_ids
    OBVIOUS
  <2>. QED  BY <2>1, <2>2
<1>3. PICK e : e = IF new /\ mine THEN verify_dkg_contribution(c, s) ELSE c
  OBVIOUS
<1>4. PICK x : x = IF new /\ mine /\ expired /\ ~all_node_dkgs_finished(e)
                   THEN [m EXCEPT !.at = "timeout"] ELSE finish(m, e)
  OBVIOUS
<1>5. PICK rest : rest = [dkg_shares EXCEPT ![n] = dkg_shares[n] \ {s}]
  OBVIOUS
<1>6. /\ Running(n) /\ m.in_dkg_group /\ m.dkg_on
      /\ consensus' = [consensus EXCEPT ![n] = e]
      /\ main' = [main EXCEPT ![n] = x]
  BY <1>1, <1>2, <1>3, <1>4 DEF PopDkgShare
<1>7. /\ dkg_shares' = IF new /\ ~mine THEN send_dkg(rest, n, {s}) ELSE rest
      /\ UNCHANGED <<bls_future, generated, bls_shares, blocks, expired, history>>
  BY <1>1, <1>2, <1>5 DEF PopDkgShare
<1>8. ContribOK(s, h.gen) /\ h.gen \in [New -> Nat] /\ h.gen = generated
  BY <1>1, Types, HistIs DEF DInv, ContribsOK
<1>9. NodeOK(n, m, c, h)
  BY <1>1, NodeIsOK
<1>10. /\ MainOK(m) /\ m.at = "loop" /\ m.block_num = 0 /\ m.last_random_no = 0
       /\ ~m.exit_from_dkg /\ n \notin h.ahead
       /\ ConsensusOK(n, c, h) /\ RoundOK(c, 0, h) /\ c.raised = "no"
       /\ c.verified /\ c.members = New /\ c.own_ids = Ids(n) /\ Ids(n) # {}
       /\ TableOK(c, n, h)
  <2>1. MainOK(m) /\ ConsensusOK(n, c, h) /\ RoundOK(c, m.block_num, h)
        /\ RenewingOK(n, m, c, h) /\ StopOK(n, m, c, h) /\ HeadOK(n, m, c, h)
    BY ONLY <1>9 DEF NodeOK
  <2>2. m.at = "loop"
    BY <1>1, <1>6 DEF Running
  <2>3. Renewing(m)
    BY <1>6 DEF Renewing
  <2>4. m.block_num = 0 /\ ~m.exit_from_dkg /\ c.verified /\ c.members = New
        /\ c.own_ids = Ids(n) /\ Ids(n) # {} /\ TableOK(c, n, h)
    BY ONLY <1>6, <2>1, <2>3 DEF RenewingOK
  <2>5. c.raised = "no"
    BY ONLY <2>1, <2>2 DEF StopOK
  <2>6. m.last_random_no = 0 /\ n \notin h.ahead
    BY ONLY <2>1, <2>4 DEF HeadOK
  <2>. QED  BY <2>1, <2>2, <2>4, <2>5, <2>6
<1>11. /\ ConsensusOK(n, e, h) /\ TableOK(e, n, h) /\ RoundOK(e, 0, h)
       /\ e.members = c.members /\ e.own_ids = c.own_ids
       /\ e.verified = c.verified /\ e.raised = c.raised
  <2>1. CASE new /\ mine
    <3>1. s.to \in Ids(n)
      BY <1>2, <1>10, <2>1
    <3>2. e = verify_dkg_contribution(c, s)
      BY <1>3, <2>1
    <3>3. ContribOK(s, h.gen) /\ h.gen \in [New -> Nat]
      BY <1>8
    <3>4. ConsensusOK(n, c, h) /\ TableOK(c, n, h) /\ RoundOK(c, 0, h)
      BY <1>10
    <3>. QED  BY ONLY n \in Node, <3>1, <3>2, <3>3, <3>4, VerifyOK
  <2>2. CASE ~(new /\ mine)
    BY <1>3, <1>10, <2>2
  <2>. QED  BY <2>1, <2>2
<1>12. RenewingOK(n, m, e, h)
  BY ONLY <1>6, <1>10, <1>11 DEF RenewingOK
<1>13. NodeOK(n, x, e, h) /\ x.at # "block timeout" /\ (x.at = "timeout" => expired)
  <2>0. e.raised = "no"
    BY <1>10, <1>11
  <2>1. CASE new /\ mine /\ expired /\ ~all_node_dkgs_finished(e)
    <3>1. x = [m EXCEPT !.at = "timeout"]
      BY <1>4, <2>1
    <3>2. /\ MainOK(x) /\ x.at = "timeout" /\ x.block_num = 0 /\ x.last_random_no = 0
          /\ x.dkg_on /\ ~x.exit_from_dkg /\ x.in_dkg_group
      BY ONLY <1>6, <1>10, <3>1 DEF MainOK, Reasons
    <3>3. Renewing(x)
      BY <3>2 DEF Renewing
    <3>4. RenewingOK(n, x, e, h)
      BY ONLY <1>6, <1>10, <1>11, <3>2 DEF RenewingOK
    <3>5. NodeOK(n, x, e, h)
      BY ONLY n \in Node, <1>10, <1>11, <2>0, <3>2, <3>3, <3>4, RenewOK
    <3>. QED  BY <2>1, <3>2, <3>5
  <2>2. CASE ~(new /\ mine /\ expired /\ ~all_node_dkgs_finished(e))
    <3>1. x = finish(m, e)
      BY <1>4, <2>2
    <3>2. NodeOK(n, x, e, h) /\ x.at = "loop" /\ x.block_num = 0
      BY ONLY n \in Node, <1>6, <1>10, <1>11, <1>12, <2>0, <3>1, FinishOK
    <3>. QED  BY <3>2
  <2>. QED  BY <2>1, <2>2
<1>14. Changed(main, main', n, x) /\ Changed(consensus, consensus', n, e)
  BY <1>6 DEF Changed, DInv, Shapes
<1>15. Counters(n)
  BY <1>7, SameCounters
<1>16. Later(Hist, Hist')
  <2>1. main[n].block_num # 1
    BY <1>1, <1>10
  <2>. QED  BY <1>14, <1>15, <2>1, LaterStep
<1>17. NodeOK(n, x, e, Hist')
  <2>1. n \in h2.ahead => n \in h.ahead
    BY <1>1, <1>7 DEF Hist, history
  <2>2. Later(h, h2)
    BY <1>1, <1>16
  <2>3. NodeOK(n, x, e, h2)
    BY ONLY n \in Node, <1>13, <2>1, <2>2, NodeLater
  <2>. QED  BY <1>1, <2>3
<1>18. NewMessages
  <2>1. /\ rest = [i \in Node |-> rest[i]]
        /\ \A i \in Node : \A t \in rest[i] : t \in dkg_shares[i]
    BY <1>5 DEF DInv, Shapes
  <2>2. /\ dkg_shares' = [i \in Node |-> dkg_shares'[i]]
        /\ \A i \in Node : \A t \in dkg_shares'[i] : t \in dkg_shares[i] \/ t = s
    <3>1. CASE new /\ ~mine
      <4>1. PICK g, msgs : g = dkg_shares' /\ msgs = {s}
        OBVIOUS
      <4>2. g = send_dkg(rest, n, msgs)
        BY <1>7, <3>1, <4>1
      <4>3. /\ g = [i \in Node |-> g[i]]
            /\ \A i \in Node : \A t \in g[i] : t \in rest[i] \/ t \in msgs
        BY ONLY <2>1, <4>2, SendDkgOK
      <4>. QED  BY <2>1, <4>1, <4>3
    <3>2. CASE ~(new /\ ~mine)
      BY <1>7, <2>1, <3>2
    <3>. QED  BY <3>1, <3>2
  <2>3. ContribOK(s, generated')
    BY <1>7, <1>8
  <2>. QED  BY <1>7, <2>2, <2>3 DEF NewMessages, DInv, Shapes
<1>19. x.at \in {"timeout", "block timeout"} => expired'
  BY <1>7, <1>13
<1>. QED  BY <1>14, <1>15, <1>16, <1>17, <1>18, <1>19, StepOK

\* The trigger.
LEMMA TriggerDkgOK ==
  ASSUME DInv, NEW n \in Node, TriggerDkg(n)
  PROVE  DInv'
<1>1. PICK m, c, ids, h, h2 :
        m = main[n] /\ c = consensus[n] /\ ids = Ids(n) /\ h = Hist /\ h2 = Hist'
  OBVIOUS
<1>2. PICK gen : gen = [a \in New |-> generated[a] + (IF a \in ids THEN 1 ELSE 0)]
  OBVIOUS
<1>3. PICK e : e = IF ids # {} THEN new_dkg(c, ids, gen) ELSE store_ids(c, New)
  OBVIOUS
<1>4. PICK i \in BOOLEAN : i = (ids # {})
  OBVIOUS
<1>5. PICK y : y = [m EXCEPT !.dkg_on = TRUE, !.create_shares = TRUE, !.in_dkg_group = i,
                             !.due = FALSE]
  OBVIOUS
<1>6. PICK x : x = finish(y, e)
  OBVIOUS
<1>7. PICK out : out = Contributions(ids, New \ ids, gen)
  OBVIOUS
<1>8. Running(n) /\ Due(n)
  BY DEF TriggerDkg
<1>9. /\ generated' = gen
      /\ consensus' = [consensus EXCEPT ![n] = e]
      /\ dkg_shares' = send_dkg(dkg_shares, n, out)
  BY <1>1, <1>2, <1>3, <1>7 DEF TriggerDkg, Ids
<1>10. main' = [main EXCEPT ![n] = x]
  BY <1>1, <1>2, <1>3, <1>4, <1>5, <1>6 DEF TriggerDkg, Ids
<1>11. UNCHANGED <<bls_future, bls_shares, blocks, expired, history>>
  BY DEF TriggerDkg
<1>12. /\ gen \in [New -> Nat] /\ \A a \in New : generated[a] <= gen[a]
       /\ \A a \in ids : gen[a] \in Nat \ {0}
  <2>1. generated \in [New -> Nat] /\ ids \subseteq New
    BY <1>1, Types DEF Ids
  <2>2. ASSUME NEW a \in New
        PROVE  gen[a] \in Nat /\ generated[a] <= gen[a] /\ (a \in ids => gen[a] # 0)
    <3>1. generated[a] \in Nat /\ gen[a] = generated[a] + (IF a \in ids THEN 1 ELSE 0)
      BY <1>2, <2>1
    <3>. QED  BY <3>1
  <2>. QED  BY <1>2, <2>1, <2>2
<1>13. Changed(main, main', n, x) /\ Changed(consensus, consensus', n, e)
  BY <1>9, <1>10 DEF Changed, DInv, Shapes
<1>14. Counters(n)
  BY <1>9, <1>11, <1>12, Types DEF Counters, history
<1>15. m.at = "loop" /\ m.block_num = 0 /\ ~m.dkg_on /\ ~m.exit_from_dkg /\ c.verified
       /\ Waiting(m)
  BY <1>1, <1>8 DEF Running, Due, Waiting
<1>16. Later(Hist, Hist')
  <2>1. main[n].block_num # 1
    BY <1>1, <1>15
  <2>. QED  BY <1>13, <1>14, <2>1, LaterStep
<1>17. NodeOK(n, m, c, h2) /\ h2.gen = gen
  <2>1. NodeOK(n, m, c, h)
    BY <1>1, NodeIsOK
  <2>2. n \in h2.ahead => n \in h.ahead
    BY <1>1, <1>11 DEF Hist, history
  <2>3. Later(h, h2)
    BY <1>1, <1>16
  <2>4. NodeOK(n, m, c, h2)
    BY ONLY n \in Node, <2>1, <2>2, <2>3, NodeLater
  <2>5. h2.gen = generated'
    BY <1>1 DEF Hist
  <2>. QED  BY <1>9, <2>4, <2>5
<1>18. /\ MainOK(m) /\ ConsensusOK(n, c, h2) /\ RoundOK(c, 0, h2)
       /\ c.raised = "no" /\ c.group_key = OldKey /\ m.last_random_no = 0 /\ n \notin h2.ahead
  BY ONLY <1>15, <1>17 DEF NodeOK, StopOK, WaitingOK, HeadOK
<1>19. /\ ConsensusOK(n, e, h2) /\ e.members = New /\ e.own_ids = Ids(n)
       /\ e.shares = c.shares /\ e.verified = c.verified /\ e.raised = c.raised
       /\ e.random = c.random /\ (i => TableOK(e, n, h2)) /\ (~i => e.group_key = OldKey)
  <2>1. CASE ids # {}
    <3>1. PICK d : d = new_dkg(c, Ids(n), h2.gen)
      OBVIOUS
    <3>2. /\ ConsensusOK(n, d, h2) /\ TableOK(d, n, h2)
          /\ d.members = New /\ d.own_ids = Ids(n) /\ d.random = c.random
          /\ d.shares = c.shares /\ d.verified = c.verified /\ d.raised = c.raised
      <4>1. h2.gen \in [New -> Nat] /\ \A a \in Ids(n) : h2.gen[a] # 0
        BY <1>1, <1>12, <1>17
      <4>. QED  BY ONLY n \in Node, <1>18, <3>1, <4>1, NewDkgOK
    <3>3. e = d
      BY <1>1, <1>3, <1>17, <2>1, <3>1
    <3>. QED  BY <1>4, <2>1, <3>2, <3>3
  <2>2. CASE ids = {}
    <3>1. PICK z1, z2, z3, z4, z5, z6, z7, z8, z9, z10, z11 :
            c = [members |-> z1, own_ids |-> z2, received |-> z3, secretKeys |-> z4,
                 group_key |-> z5, previous_group_key |-> z6, shares |-> z7,
                 verified |-> z8, random |-> z10, next_signer |-> z11, raised |-> z9]
      BY ONLY <1>18 DEF ConsensusOK, IsConsensus
    <3>2. PICK g, N, J : g = c.group_key /\ N = New /\ J = {}
      OBVIOUS
    <3>3. e = [c EXCEPT !.previous_group_key = g, !.members = N, !.own_ids = J]
      BY <1>3, <2>2, <3>2 DEF store_ids
    <3>4. e = [members |-> N, own_ids |-> J, received |-> z3, secretKeys |-> z4,
               group_key |-> z5, previous_group_key |-> g, shares |-> z7,
               verified |-> z8, random |-> z10, next_signer |-> z11, raised |-> z9]
      BY ONLY <3>1, <3>3
    <3>5. /\ e.members = N /\ e.own_ids = J /\ e.received = z3 /\ e.secretKeys = z4
          /\ e.group_key = z5 /\ e.previous_group_key = g /\ e.shares = z7
          /\ e.verified = z8 /\ e.random = z10 /\ e.next_signer = z11 /\ e.raised = z9
      BY ONLY <3>4
    <3>6. IsConsensus(e)
      BY ONLY <3>4, <3>5 DEF IsConsensus
    <3>7. c.secretKeys = z4 /\ c.group_key = z5 /\ c.shares = z7 /\ c.verified = z8
          /\ c.random = z10 /\ c.raised = z9
      BY ONLY <3>1
    <3>8. ConsensusOK(n, e, h2)
      <4>1. /\ e.members \subseteq Old \cup New
            /\ e.own_ids \subseteq Addrs[n] \cap (Old \cup New)
        BY <3>2, <3>5
      <4>. QED  BY ONLY <1>18, <3>2, <3>5, <3>6, <3>7, <4>1 DEF ConsensusOK
    <3>. QED  BY <1>1, <1>4, <1>18, <2>2, <3>2, <3>5, <3>7, <3>8
  <2>. QED  BY <2>1, <2>2
<1>20. RoundOK(e, 0, h2)
  BY ONLY <1>18, <1>19 DEF RoundOK
<1>21. /\ MainOK(y) /\ y.at = "loop" /\ y.block_num = 0 /\ y.last_random_no = 0
       /\ y.dkg_on /\ ~y.exit_from_dkg /\ y.in_dkg_group = i
  BY ONLY <1>5, <1>15, <1>18, i \in BOOLEAN DEF MainOK
<1>22. RenewingOK(n, y, e, h2)
  <2>1. y.in_dkg_group <=> Ids(n) # {}
    BY <1>1, <1>4, <1>21
  <2>2. y.in_dkg_group => TableOK(e, n, h2)
    BY <1>19, <1>21
  <2>3. e.verified /\ (~y.in_dkg_group => e.group_key = OldKey)
    BY <1>15, <1>19, <1>21
  <2>. QED  BY ONLY <1>19, <1>21, <2>1, <2>2, <2>3 DEF RenewingOK
<1>23. NodeOK(n, x, e, h2) /\ x.at = "loop"
  <2>1. e.raised = "no"
    BY <1>18, <1>19
  <2>. QED  BY ONLY n \in Node, <1>6, <1>18, <1>19, <1>20, <1>21, <1>22, <2>1, FinishOK
<1>24. NodeOK(n, x, e, Hist')
  BY <1>1, <1>23
<1>25. NewMessages
  <2>1. PICK g : g = dkg_shares'
    OBVIOUS
  <2>2. /\ g = [j \in Node |-> g[j]]
        /\ \A j \in Node : \A t \in g[j] : t \in dkg_shares[j] \/ t \in out
    <3>1. PICK f : f = dkg_shares
      OBVIOUS
    <3>2. f = [j \in Node |-> f[j]] /\ g = send_dkg(f, n, out)
      BY <1>9, <2>1, <3>1 DEF DInv, Shapes
    <3>3. /\ g = [j \in Node |-> g[j]]
          /\ \A j \in Node : \A t \in g[j] : t \in f[j] \/ t \in out
      BY ONLY <3>2, SendDkgOK
    <3>. QED  BY <3>1, <3>3
  <2>3. \A t \in out : ContribOK(t, gen)
    <3>1. \A a \in Ids(n) : gen[a] \in Nat \ {0}
      BY <1>1, <1>12
    <3>2. PICK T \in SUBSET New : T = New \ ids
      OBVIOUS
    <3>3. out = Contributions(Ids(n), T, gen)
      BY <1>1, <1>7, <3>2
    <3>4. \A t \in Contributions(Ids(n), T, gen) : ContribOK(t, gen)
      BY ONLY n \in Node, T \in SUBSET New, <3>1, ContributionsOK
    <3>. QED  BY <3>3, <3>4
  <2>4. \A t \in out : ContribOK(t, generated')
    BY <1>9, <2>3
  <2>. QED  BY <1>11, <2>1, <2>2, <2>4 DEF NewMessages, DInv, Shapes
<1>26. x.at \notin {"timeout", "block timeout"}
  BY <1>23
<1>. QED  BY <1>13, <1>14, <1>16, <1>24, <1>25, <1>26, StepOK

-----------------------------------------------------------------------------
(* Block 1 *)

\* Without a second generation of anything there is one key.
LEMMA OneKey ==
  ASSUME NEW gen \in [New -> Nat], ~\E a \in New : gen[a] > 1,
         NEW v \in KeyUpTo(gen), NEW w \in KeyUpTo(gen)
  PROVE  v = w
<1>1. v \in [New -> Nat] /\ w \in [New -> Nat]
  BY DEF KeyUpTo
<1>2. ASSUME NEW a \in New PROVE v[a] = w[a]
  <2>1. v[a] \in 1..gen[a] /\ w[a] \in 1..gen[a] /\ gen[a] \in Nat /\ ~(gen[a] > 1)
    BY DEF KeyUpTo
  <2>. QED  BY <2>1
<1>. QED  BY <1>1, <1>2

\* The old key is not one of those of the new group.
LEMMA OldKeyIsOther == \A gen : OldKey \notin KeyUpTo(gen)
BY DkgAssumption DEF KeyUpTo

\* The group key of a node that has finished is one of generations there were.
LEMMA FinishedKey ==
  ASSUME NEW n \in Node, NEW h, h.gen \in [New -> Nat], NEW c, TableOK(c, n, h),
         c.own_ids = Ids(n), all_node_dkgs_finished(c), Ids(n) # {}
  PROVE  c.group_key \in KeyUpTo(h.gen)
<1>1. \A id \in Ids(n) : Full(c.received, id)
  BY DEF all_node_dkgs_finished, allSharesReceived, Full
<1>2. PICK t, k, g : t = c.received /\ k = c.secretKeys /\ g = c.group_key
  OBVIOUS
<1>3. Table(t, k, g, n, h.gen)
  BY <1>2 DEF TableOK
<1>4. PICK id \in Ids(n) : Full(t, id) /\ g = t[id]
  BY <1>1, <1>2, <1>3 DEF Table
<1>5. t[id] \in KeyUpTo(h.gen)
  BY <1>3, <1>4, TableKey
<1>. QED  BY <1>2, <1>4, <1>5

\* An object with the group key of a block.
LEMMA KeyTaken ==
  ASSUME NEW n \in Node, NEW h, NEW c, ConsensusOK(n, c, h), NEW b, BlockOK(b, h),
         NEW d, d = [c EXCEPT !.group_key = b.group_pubkey]
  PROVE  /\ ConsensusOK(n, d, h)
         /\ d.group_key = b.group_pubkey /\ d.members = c.members /\ d.own_ids = c.own_ids
         /\ d.secretKeys = c.secretKeys /\ d.shares = c.shares /\ d.verified = c.verified
         /\ d.raised = c.raised /\ d.random = c.random
<1>1. PICK z1, z2, z3, z4, z5, z6, z7, z8, z9, z10, z11 :
        c = [members |-> z1, own_ids |-> z2, received |-> z3, secretKeys |-> z4,
             group_key |-> z5, previous_group_key |-> z6, shares |-> z7,
             verified |-> z8, random |-> z10, next_signer |-> z11, raised |-> z9]
  BY DEF ConsensusOK, IsConsensus
<1>2. PICK g : g = b.group_pubkey
  OBVIOUS
<1>3. d = [members |-> z1, own_ids |-> z2, received |-> z3, secretKeys |-> z4,
           group_key |-> g, previous_group_key |-> z6, shares |-> z7,
           verified |-> z8, random |-> z10, next_signer |-> z11, raised |-> z9]
  <2>1. d = [c EXCEPT !.group_key = g]
    BY <1>2
  <2>. QED  BY ONLY <1>1, <2>1
<1>4. /\ d.members = z1 /\ d.own_ids = z2 /\ d.received = z3 /\ d.secretKeys = z4
      /\ d.group_key = g /\ d.previous_group_key = z6 /\ d.shares = z7 /\ d.verified = z8
      /\ d.random = z10 /\ d.next_signer = z11 /\ d.raised = z9
  BY ONLY <1>3
<1>5. /\ c.members = z1 /\ c.own_ids = z2 /\ c.secretKeys = z4 /\ c.previous_group_key = z6
      /\ c.shares = z7 /\ c.verified = z8 /\ c.random = z10 /\ c.raised = z9
  BY ONLY <1>1
<1>6. IsConsensus(d)
  BY ONLY <1>3, <1>4 DEF IsConsensus
<1>7. g = OldKey \/ g \in KeyUpTo(h.gen)
  BY <1>2 DEF BlockOK
<1>8. ConsensusOK(n, d, h)
  BY <1>4, <1>5, <1>6, <1>7 DEF ConsensusOK
<1>. QED  BY <1>2, <1>4, <1>5, <1>8

\* An object with another random number.
LEMMA RandomTaken ==
  ASSUME NEW n \in Node, NEW h, NEW c, ConsensusOK(n, c, h), NEW r,
         NEW d, d = [c EXCEPT !.random = r]
  PROVE  /\ ConsensusOK(n, d, h)
         /\ d.group_key = c.group_key /\ d.members = c.members /\ d.own_ids = c.own_ids
         /\ d.secretKeys = c.secretKeys /\ d.shares = c.shares /\ d.verified = c.verified
         /\ d.raised = c.raised
<1>1. PICK z1, z2, z3, z4, z5, z6, z7, z8, z9, z10, z11 :
        c = [members |-> z1, own_ids |-> z2, received |-> z3, secretKeys |-> z4,
             group_key |-> z5, previous_group_key |-> z6, shares |-> z7,
             verified |-> z8, random |-> z10, next_signer |-> z11, raised |-> z9]
  BY DEF ConsensusOK, IsConsensus
<1>2. d = [members |-> z1, own_ids |-> z2, received |-> z3, secretKeys |-> z4,
           group_key |-> z5, previous_group_key |-> z6, shares |-> z7,
           verified |-> z8, random |-> r, next_signer |-> z11, raised |-> z9]
  BY ONLY <1>1, d = [c EXCEPT !.random = r]
<1>3. /\ d.members = z1 /\ d.own_ids = z2 /\ d.received = z3 /\ d.secretKeys = z4
      /\ d.group_key = z5 /\ d.previous_group_key = z6 /\ d.shares = z7 /\ d.verified = z8
      /\ d.random = r /\ d.next_signer = z11 /\ d.raised = z9
  BY ONLY <1>2
<1>4. /\ c.members = z1 /\ c.own_ids = z2 /\ c.secretKeys = z4 /\ c.group_key = z5
      /\ c.previous_group_key = z6 /\ c.shares = z7 /\ c.verified = z8 /\ c.raised = z9
  BY ONLY <1>1
<1>5. IsConsensus(d)
  BY ONLY <1>2, <1>3 DEF IsConsensus
<1>6. ConsensusOK(n, d, h)
  BY <1>3, <1>4, <1>5 DEF ConsensusOK
<1>. QED  BY <1>3, <1>4, <1>6

\* What the first shares of a round leave alone.
LEMMA NextRoundKey ==
  ASSUME NEW n \in Node, NEW h, NEW c, ConsensusOK(n, c, h), c.raised = "no", NEW lr,
         NEW d, d = create_shares(reset_bls(c), lr, 1) \/ d = reset_bls(c)
  PROVE  d.group_key = c.group_key /\ d.raised \in Raised
<1>1. IsConsensus(c) /\ IsFiniteSet(c.own_ids)
  <2>1. IsFiniteSet(Old \cup New)
    BY DkgAssumption, FS_Union
  <2>. QED  BY <2>1, FS_Subset DEF ConsensusOK
<1>2. PICK f, S : f = reset_bls(c) /\ S = new_shares(c, lr, 1)
  OBVIOUS
<1>3. /\ Grown(f, f, S, lr) /\ Grown(f, create_shares(f, lr, 1), S, lr)
      /\ f = With(c, {}, FALSE, c.random, "no")
  BY <1>1, <1>2, RoundBegins
<1>4. Grown(f, d, S, lr)
  BY <1>2, <1>3
<1>5. d.group_key = f.group_key
  BY ONLY <1>4, GrownKeeps
<1>6. PICK sh, v, z, w : sh = {} /\ v = FALSE /\ z = c.random /\ w = "no"
  OBVIOUS
<1>7. f = With(c, sh, v, z, w)
  BY <1>3, <1>6
<1>8. f.group_key = c.group_key
  BY ONLY <1>7, WithFields
<1>. QED  BY <1>4, <1>5, <1>8 DEF Grown

\* What Stopped leaves alone.
LEMMA StoppedSame ==
  ASSUME NEW y, MainOK(y), y.at = "loop", NEW d, NEW x, x = Stopped(y, d)
  PROVE  /\ x.block_num = y.block_num /\ x.last_random_no = y.last_random_no
         /\ x.at = "loop" \/ x.at = d.raised
<1>1. CASE d.raised = "no"
  BY <1>1 DEF Stopped
<1>2. CASE d.raised # "no"
  <2>1. PICK w : w = d.raised
    OBVIOUS
  <2>2. x = [y EXCEPT !.at = w]
    BY <1>2, <2>1 DEF Stopped
  <2>. QED  BY <2>1, <2>2 DEF MainOK
<1>. QED  BY <1>1, <1>2

\* What a correct block makes of a node: the whole step.
LEMMA NextRoundStep ==
  ASSUME DInv, NEW n \in Node, main[n].block_num = 0,
         NEW h2, h2 = Hist',
         NEW y, MainOK(y), y.at = "loop", ~y.dkg_on, ~y.exit_from_dkg, y.served,
         NEW c, ConsensusOK(n, c, h2), c.raised = "no", KeysFit(n, c, h2),
         c.members = New \/ n \in Fresh \/ h2.restarts > 0 \/ h2.ahead # {},
         c.own_ids \subseteq New \/ h2.ahead # {},
         n \in ahead' => c.group_key = OldKey,
         n \notin ahead' => n = SignerNode \/ (Hist.created = 1 /\ c.group_key = Hist.key),
         NextRound(n, y, c), Counters(n),
         UNCHANGED <<bls_future, dkg_shares>>
  PROVE  /\ Later(Hist, Hist')
         /\ y.last_random_no = 0 => h2.alone # {}
         /\ n = SignerNode /\ n \notin ahead' => h2.created = 1 /\ h2.key = c.group_key
         /\ blocks' = [i \in Node |-> blocks'[i]]
            /\ (\A i \in Node : \A b \in blocks'[i] : b \in blocks[i] \/ BlockOK(b, h2))
              => DInv'
<1>1. PICK lr, d, z, x, out, N :
        /\ lr = y.last_random_no
        /\ d = IF y.in_dkg_group /\ y.create_shares
               THEN create_shares(reset_bls(c), lr, 1) ELSE reset_bls(c)
        /\ z = [y EXCEPT !.block_num = 1] /\ x = Stopped(z, d)
        /\ N = new_shares(c, lr, 1)
        /\ out = IF d.raised # "no" THEN {}
                 ELSE IF y.in_dkg_group /\ y.create_shares THEN N ELSE {}
  OBVIOUS
<1>2. /\ main' = [main EXCEPT ![n] = x] /\ consensus' = [consensus EXCEPT ![n] = d]
      /\ bls_shares' = send(bls_shares, n, out)
  BY <1>1 DEF NextRound
<1>3. /\ MainOK(z) /\ z.at = "loop" /\ z.block_num = 1 /\ ~z.dkg_on /\ ~z.exit_from_dkg
      /\ z.served /\ z.last_random_no = lr
      /\ z.in_dkg_group = y.in_dkg_group /\ z.create_shares = y.create_shares
  BY <1>1 DEF MainOK
<1>4. Changed(main, main', n, x) /\ Changed(consensus, consensus', n, d)
  BY <1>2 DEF Changed, DInv, Shapes
<1>5. d.group_key = c.group_key /\ d.raised \in Raised
  <2>1. d = create_shares(reset_bls(c), lr, 1) \/ d = reset_bls(c)
    BY <1>1
  <2>2. ConsensusOK(n, c, h2) /\ c.raised = "no"
    OBVIOUS
  <2>. QED  BY ONLY n \in Node, <2>1, <2>2, NextRoundKey
<1>6. x.block_num = 1 /\ x.last_random_no = lr /\ (x.at = "loop" \/ x.at = d.raised)
  <2>1. x = Stopped(z, d)
    BY <1>1
  <2>. QED  BY ONLY <1>3, <2>1, StoppedSame
<1>7. Later(Hist, Hist')
  <2>1. main[n].block_num # 1
    OBVIOUS
  <2>. QED  BY <1>4, <2>1, LaterStep
<1>8. lr = 0 => h2.alone # {}
  <2>1. main'[n].block_num = 1 /\ main'[n].last_random_no = lr
    BY <1>4, <1>6 DEF Changed
  <2>2. h2.alone = {i \in Node : Alone(i)'}
    BY DEF Hist
  <2>. QED  BY <2>1, <2>2 DEF Alone
<1>9. n = SignerNode /\ n \notin ahead' => h2.created = 1 /\ h2.key = c.group_key
  <2>1. ASSUME n = SignerNode, n \notin ahead' PROVE h2.created = 1 /\ h2.key = c.group_key
    <3>1. /\ h2.created = (IF main'[SignerNode].block_num = 1 /\ SignerNode \notin ahead'
                           THEN 1 ELSE 0)
          /\ h2.key = consensus'[SignerNode].group_key
      BY DEF Hist, SignerNode
    <3>2. main'[n].block_num = 1 /\ consensus'[n].group_key = c.group_key
      BY <1>4, <1>5, <1>6 DEF Changed
    <3>. QED  BY <2>1, <3>1, <3>2
  <2>. QED  BY <2>1
<1>10. h2.ahead = ahead'
  BY DEF Hist
<1>11. n \notin h2.ahead => h2.created = 1 /\ c.group_key = h2.key
  <2>1. Hist.created = 1 => h2.created = 1 /\ h2.key = Hist.key
    BY <1>7 DEF Later
  <2>. QED  BY <1>9, <1>10, <2>1
<1>12. /\ NodeOK(n, x, d, h2)
       /\ \A s \in N : ShareOK(s, h2)
  <2>1. n \in h2.ahead => c.group_key = OldKey
    BY <1>10
  <2>2. d = IF z.in_dkg_group /\ z.create_shares
            THEN create_shares(reset_bls(c), z.last_random_no, 1) ELSE reset_bls(c)
    BY <1>1, <1>3
  <2>3. x = Stopped(z, d)
    BY <1>1
  <2>4. z.last_random_no = 0 => h2.alone # {}
    BY <1>3, <1>8
  <2>5. /\ ConsensusOK(n, c, h2) /\ c.raised = "no" /\ KeysFit(n, c, h2)
        /\ c.members = New \/ n \in Fresh \/ h2.restarts > 0 \/ h2.ahead # {}
        /\ c.own_ids \subseteq New \/ h2.ahead # {}
    OBVIOUS
  <2>6. NodeOK(n, x, d, h2) /\ \A s \in new_shares(c, z.last_random_no, 1) : ShareOK(s, h2)
    BY ONLY n \in Node, <1>3, <1>11, <2>1, <2>2, <2>3, <2>4, <2>5, NextRoundOK
  <2>. QED  BY <1>1, <1>3, <2>6
<1>13. /\ bls_shares' = [i \in Node |-> bls_shares'[i]]
       /\ \A i \in Node : \A s \in bls_shares'[i] : s \in bls_shares[i] \/ ShareOK(s, h2)
  <2>1. \A s \in out : ShareOK(s, h2)
    BY <1>1, <1>12
  <2>. QED  BY <1>2, <2>1 DEF send
<1>14. ASSUME blocks' = [i \in Node |-> blocks'[i]],
              \A i \in Node : \A b \in blocks'[i] : b \in blocks[i] \/ BlockOK(b, h2)
       PROVE  DInv'
  <2>1. NewMessages
    BY <1>13, <1>14 DEF NewMessages, DInv, Shapes
  <2>2. x.at \notin {"timeout", "block timeout"}
    BY <1>5, <1>6 DEF Raised
  <2>. QED  BY <1>4, <1>7, <1>12, <2>1, <2>2, StepOK
<1>. QED  BY <1>1, <1>7, <1>8, <1>9, <1>14

\* What NodeOK says of a node before the trigger, and of one in the renewal.
LEMMA WaitingNode ==
  ASSUME NEW n \in Node, NEW m, NEW c, NEW h, NodeOK(n, m, c, h), m.block_num = 0,
         ~Renewing(m), m.at \in {"bootstrap", "loop"}
  PROVE  /\ MainOK(m) /\ m.last_random_no = 0 /\ n \notin h.ahead
         /\ ConsensusOK(n, c, h) /\ c.raised = "no" /\ RoundOK(c, 0, h) /\ Waiting(m)
         /\ c.group_key = OldKey /\ KeysFit(n, c, h)
         /\ c.members = Old \/ h.restarts > 0 \/ h.ahead # {}
<1>1. Waiting(m)
  <2>1. m.at \notin {"group key", "bootstrap signature"}
    OBVIOUS
  <2>. QED  BY <2>1 DEF Waiting, Renewing
<1>2. /\ MainOK(m) /\ ConsensusOK(n, c, h) /\ RoundOK(c, m.block_num, h)
      /\ WaitingOK(n, m, c, h) /\ StopOK(n, m, c, h) /\ HeadOK(n, m, c, h)
  BY DEF NodeOK
<1>3. RoundOK(c, 0, h)
  BY <1>2
<1>4. c.raised = "no"
  BY <1>2 DEF StopOK
<1>5. m.last_random_no = 0 /\ n \notin h.ahead
  BY <1>2 DEF HeadOK
<1>. QED  BY <1>1, <1>2, <1>3, <1>4, <1>5 DEF WaitingOK

LEMMA RenewingNode ==
  ASSUME NEW n \in Node, NEW m, NEW c, NEW h, NodeOK(n, m, c, h), Renewing(m), m.at = "loop"
  PROVE  /\ MainOK(m) /\ m.block_num = 0 /\ ~(m.dkg_on /\ m.exit_from_dkg)
         /\ m.last_random_no = 0 /\ n \notin h.ahead
         /\ ConsensusOK(n, c, h) /\ c.raised = "no" /\ RoundOK(c, 0, h)
         /\ c.members = New /\ c.own_ids = Ids(n)
         /\ m.in_dkg_group <=> Ids(n) # {}
         /\ m.exit_from_dkg => m.in_dkg_group /\ all_node_dkgs_finished(c)
         /\ m.in_dkg_group => TableOK(c, n, h)
<1>1. m.block_num = 0 /\ c.raised = "no"
  BY DEF NodeOK, RenewingOK, StopOK
<1>. QED  BY <1>1 DEF NodeOK, RenewingOK, HeadOK

\* The keys of a node fit also when more is excused.
LEMMA KeysFitLater ==
  ASSUME NEW n \in Node, NEW c, NEW h, NEW h2, KeysFit(n, c, h), h2.gen = h.gen,
         h.cut \subseteq h2.cut
  PROVE  KeysFit(n, c, h2)
BY DEF KeysFit

\* A member that has finished the DKG.
LEMMA FinishedNode ==
  ASSUME NEW n \in Node, NEW m, NEW c, NEW h, h.gen \in [New -> Nat], NodeOK(n, m, c, h),
         m.exit_from_dkg, m.at = "loop"
  PROVE  c.group_key \in KeyUpTo(h.gen) /\ KeysFit(n, c, h)
<1>1. Renewing(m)
  BY DEF Renewing
<1>2. TableOK(c, n, h) /\ c.own_ids = Ids(n) /\ all_node_dkgs_finished(c) /\ Ids(n) # {}
  BY <1>1, RenewingNode
<1>3. KeysFit(n, c, h)
  BY ONLY n \in Node, h.gen \in [New -> Nat], <1>2, FinishedKeysFit
<1>4. c.group_key \in KeyUpTo(h.gen)
  BY ONLY n \in Node, h.gen \in [New -> Nat], <1>2, FinishedKey
<1>. QED  BY <1>3, <1>4

\* A node creates block 1: the member chosen, or before the trigger any.
LEMMA CreateBlockOK ==
  ASSUME DInv, NEW n \in Node, CreateBlock(n)
  PROVE  DInv'
<1>1. PICK m, c, h, h2, b, lr, y :
        /\ m = main[n] /\ c = consensus[n] /\ h = Hist /\ h2 = Hist' /\ lr = c.random
        /\ b = [group_pubkey |-> c.group_key, signer |-> signing_addr(n), random |-> c.random]
        /\ y = [m EXCEPT !.exit_from_dkg = FALSE, !.served = TRUE, !.last_random_no = lr]
  OBVIOUS
<1>2. /\ m.at = "loop" /\ m.block_num = 0 /\ ~m.dkg_on
      /\ signing_addr(n) \in Addrs[n]
  BY <1>1 DEF CreateBlock, MaySign, Running
<1>3. NextRound(n, y, c) /\ blocks' = send(blocks, n, {b})
  BY <1>1 DEF CreateBlock
<1>4. /\ ahead' = IF m.exit_from_dkg THEN ahead ELSE ahead \cup {n}
      /\ UNCHANGED <<bls_future, generated, dkg_shares, expired, lost, cut, restarts>>
  BY <1>1 DEF CreateBlock
<1>5. NodeOK(n, m, c, h)
  BY <1>1, NodeIsOK
<1>6. /\ h2.gen = h.gen /\ h2.cut = h.cut /\ h2.restarts = h.restarts /\ h2.ahead = ahead'
      /\ h.ahead = ahead /\ h.gen \in [New -> Nat]
  BY <1>1, <1>4, Types DEF Hist
<1>7. /\ MainOK(m) /\ ConsensusOK(n, c, h) /\ c.raised = "no" /\ RoundOK(c, 0, h)
      /\ n \notin ahead
  <2>1. CASE Renewing(m)
    BY <1>2, <1>5, <1>6, <2>1, RenewingNode
  <2>2. CASE ~Renewing(m)
    BY <1>2, <1>5, <1>6, <2>2, WaitingNode
  <2>. QED  BY <2>1, <2>2
<1>8. lr \in {0, 1}
  BY <1>1, <1>7 DEF RoundOK
<1>9. /\ MainOK(y) /\ y.at = "loop" /\ ~y.dkg_on /\ ~y.exit_from_dkg /\ y.served
      /\ y.last_random_no = lr
  BY ONLY <1>1, <1>2, <1>7, <1>8 DEF MainOK
<1>10. ConsensusOK(n, c, h2)
  BY <1>6, <1>7 DEF ConsensusOK
<1>11. Counters(n)
  BY <1>4, Types DEF Counters
<1>12. ASSUME m.exit_from_dkg
       PROVE  /\ n = SignerNode /\ n \notin ahead' /\ signing_addr(n) = Signer
              /\ c.group_key \in KeyUpTo(h.gen) /\ KeysFit(n, c, h)
              /\ c.members = New /\ c.own_ids \subseteq New
  <2>1. signing_addr(n) = Signer
    BY <1>1, <1>12 DEF signing_addr
  <2>2. n = SignerNode
    BY <1>2, <2>1, OneSigner
  <2>3. c.group_key \in KeyUpTo(h.gen) /\ KeysFit(n, c, h)
    BY <1>2, <1>5, <1>6, <1>12, FinishedNode
  <2>4. c.members = New /\ c.own_ids = Ids(n)
    BY <1>2, <1>5, <1>12, RenewingNode DEF Renewing
  <2>. QED  BY <1>4, <1>7, <1>12, <2>1, <2>2, <2>3, <2>4 DEF Ids
<1>13. ASSUME ~m.exit_from_dkg
       PROVE  n \in ahead' /\ c.group_key = OldKey /\ KeysFit(n, c, h)
  <2>1. ~Renewing(m)
    BY <1>2, <1>13 DEF Renewing
  <2>. QED  BY <1>2, <1>4, <1>5, <1>13, <2>1, WaitingNode
<1>14. /\ KeysFit(n, c, h2)
       /\ c.members = New \/ n \in Fresh \/ h2.restarts > 0 \/ h2.ahead # {}
       /\ c.own_ids \subseteq New \/ h2.ahead # {}
       /\ n \in ahead' => c.group_key = OldKey
       /\ n \notin ahead' => n = SignerNode
  BY <1>6, <1>12, <1>13, KeysFitLater
<1>15. /\ y.last_random_no = 0 => h2.alone # {}
       /\ n = SignerNode /\ n \notin ahead' => h2.created = 1 /\ h2.key = c.group_key
       /\ blocks' = [i \in Node |-> blocks'[i]]
          /\ (\A i \in Node : \A t \in blocks'[i] : t \in blocks[i] \/ BlockOK(t, h2))
            => DInv'
  <2>1. main[n].block_num = 0
    BY <1>1, <1>2
  <2>2. h2 = Hist' /\ UNCHANGED <<bls_future, dkg_shares>>
    BY <1>1, <1>4
  <2>3. NextRound(n, y, c) /\ Counters(n) /\ ConsensusOK(n, c, h2) /\ c.raised = "no"
    BY <1>3, <1>7, <1>10, <1>11
  <2>4. n \notin ahead' => n = SignerNode \/ (Hist.created = 1 /\ c.group_key = Hist.key)
    BY <1>14
  <2>. QED  BY ONLY DInv, n \in Node, <1>9, <1>14, <2>1, <2>2, <2>3, <2>4, NextRoundStep
<1>16. BlockOK(b, h2)
  <2>1. b.random = lr /\ b.group_pubkey = c.group_key /\ b.signer = signing_addr(n)
    BY <1>1
  <2>2. \/ b.group_pubkey = OldKey /\ h2.ahead # {}
        \/ /\ h2.created = 1 /\ b.group_pubkey = h2.key /\ h2.key \in KeyUpTo(h2.gen)
           /\ b.signer = Signer
    <3>1. CASE m.exit_from_dkg
      BY <1>6, <1>12, <1>15, <2>1, <3>1
    <3>2. CASE ~m.exit_from_dkg
      BY <1>6, <1>13, <2>1, <3>2
    <3>. QED  BY <3>1, <3>2
  <2>. QED  BY <1>8, <1>9, <1>15, <2>1, <2>2 DEF BlockOK
<1>17. /\ blocks' = [i \in Node |-> blocks'[i]]
       /\ \A i \in Node : \A t \in blocks'[i] : t \in blocks[i] \/ BlockOK(t, h2)
  BY <1>3, <1>16 DEF send, DInv, Shapes
<1>. QED  BY <1>15, <1>17

\* A block of a key that a member has not computed: one of the old key, or of another
\* generation.
LEMMA OtherKeyExplained ==
  ASSUME NEW h, h.gen \in [New -> Nat], NEW b, BlockOK(b, h), NEW k \in KeyUpTo(h.gen),
         b.group_pubkey # k
  PROVE  (\E a \in New : h.gen[a] > 1) \/ h.ahead # {}
<1>1. PICK gen, v : gen = h.gen /\ v = b.group_pubkey
  OBVIOUS
<1>2. SUFFICES ASSUME h.ahead = {}, ~\E a \in New : gen[a] > 1 PROVE FALSE
  BY <1>1
<1>3. v \in KeyUpTo(gen)
  BY <1>1, <1>2 DEF BlockOK
<1>. QED  BY <1>1, <1>2, <1>3, OneKey

\* A step of a node that keeps it before block 1, or ends it.
LEMMA BeforeBlockOK ==
  ASSUME DInv, NEW n \in Node, main[n].block_num # 1,
         NEW x, NEW d, main' = [main EXCEPT ![n] = x], consensus' = [consensus EXCEPT ![n] = d],
         NEW h2, h2 = Hist', Later(Hist, h2) => NodeOK(n, x, d, h2),
         x.at \notin {"timeout", "block timeout"}, Counters(n),
         UNCHANGED <<bls_future, netvars>>
  PROVE  DInv'
<1>1. Changed(main, main', n, x) /\ Changed(consensus, consensus', n, d)
  BY DEF Changed, DInv, Shapes
<1>2. Later(Hist, Hist')
  BY <1>1, LaterStep
<1>3. NewMessages
  BY SameMessages
<1>. QED  BY <1>1, <1>2, <1>3, StepOK

\* A block from the network.
LEMMA ReceiveBlockOK ==
  ASSUME DInv, NEW n \in Node, NEW b \in blocks[n], ReceiveBlock(n, b)
  PROVE  DInv'
<1>1. PICK p, m, c, over, z, w, y, d, h, h2, lr :
        /\ p = main[n] /\ m = [p EXCEPT !.served = TRUE] /\ c = consensus[n]
        /\ over = [m EXCEPT !.dkg_on = FALSE, !.exit_from_dkg = FALSE]
        /\ z = [over EXCEPT !.at = "group key"] /\ w = [m EXCEPT !.at = "unowned IP"]
        /\ lr = b.random /\ y = [over EXCEPT !.last_random_no = lr]
        /\ d = block_key(m, c, b) /\ h = Hist /\ h2 = Hist'
  OBVIOUS
<1>0. /\ m = [p EXCEPT !.served = TRUE]
      /\ over = [m EXCEPT !.dkg_on = FALSE, !.exit_from_dkg = FALSE]
      /\ z = [over EXCEPT !.at = "group key"] /\ w = [m EXCEPT !.at = "unowned IP"]
      /\ y = [over EXCEPT !.last_random_no = lr]
  BY <1>1
<1>2. p.at = "loop" /\ ~p.served
  BY <1>1 DEF ReceiveBlock, Running
<1>3. UNCHANGED <<dkg_cache, bls_future, generated, dkg_shares, blocks, expired, dropped, lost,
                  restarts>>
  BY DEF ReceiveBlock
<1>4. \/ main' = [main EXCEPT ![n] = m] /\ UNCHANGED <<consensus, bls_shares, cut, ahead>>
      \/ /\ m.exit_from_dkg /\ b.group_pubkey # c.group_key
         /\ main' = [main EXCEPT ![n] = z] /\ UNCHANGED <<consensus, bls_shares, cut, ahead>>
      \/ /\ Holder[c.next_signer] = Nobody
         /\ main' = [main EXCEPT ![n] = w] /\ UNCHANGED <<consensus, bls_shares, cut, ahead>>
      \/ /\ m.exit_from_dkg => b.group_pubkey = c.group_key
         /\ cut' = IF m.dkg_on /\ m.in_dkg_group THEN cut \cup {n} ELSE cut
         /\ NextRound(n, y, d)
         /\ ahead' = IF (m.exit_from_dkg \/ m.dkg_on) /\ b.group_pubkey # OldKey
                     THEN ahead ELSE ahead \cup {n}
      \/ /\ m.exit_from_dkg => b.group_pubkey = c.group_key
         /\ cut' = IF m.dkg_on /\ m.in_dkg_group THEN cut \cup {n} ELSE cut
         /\ ~signer_correct(m, c, b)
         /\ main' = [main EXCEPT ![n] = over] /\ consensus' = [consensus EXCEPT ![n] = d]
         /\ UNCHANGED <<bls_shares, ahead>>
  BY <1>1 DEF ReceiveBlock, key_matches
<1>5. NodeOK(n, p, c, h) /\ BlockOK(b, h) /\ h.gen \in [New -> Nat]
  <2>1. h.gen \in [New -> Nat]
    BY <1>1, Types, HistIs
  <2>2. BlockOK(b, h)
    BY <1>1 DEF DInv, BlocksOK
  <2>. QED  BY <1>1, <2>1, <2>2, NodeIsOK
<1>6. MainOK(p) /\ p.block_num = 0
  BY <1>2, <1>5 DEF NodeOK, DoneOK, MainOK
<1>7. /\ ConsensusOK(n, c, h) /\ c.raised = "no" /\ RoundOK(c, 0, h)
      /\ p.last_random_no = 0 /\ n \notin h.ahead
  <2>1. CASE Renewing(p)
    BY <1>2, <1>5, <2>1, RenewingNode
  <2>2. CASE ~Renewing(p)
    BY <1>2, <1>5, <1>6, <2>2, WaitingNode
  <2>. QED  BY <2>1, <2>2
<1>8. /\ MainOK(m) /\ m.at = "loop" /\ m.block_num = 0 /\ m.last_random_no = 0 /\ m.served
      /\ m.dkg_on = p.dkg_on /\ m.exit_from_dkg = p.exit_from_dkg
      /\ m.in_dkg_group = p.in_dkg_group
  BY ONLY <1>0, <1>2, <1>6, <1>7 DEF MainOK
<1>9. /\ MainOK(over) /\ over.at = "loop" /\ over.block_num = 0 /\ over.last_random_no = 0
      /\ over.served /\ ~over.dkg_on /\ ~over.exit_from_dkg
      /\ over.in_dkg_group = p.in_dkg_group
  BY ONLY <1>0, <1>8 DEF MainOK
<1>10. lr \in {0, 1}
  BY <1>1, <1>5 DEF BlockOK
<1>11. /\ MainOK(y) /\ y.at = "loop" /\ y.served /\ ~y.dkg_on /\ ~y.exit_from_dkg
       /\ y.last_random_no = lr
  <2>1. y = [over EXCEPT !.last_random_no = lr]
    BY <1>1
  <2>. QED  BY ONLY <1>9, <1>10, <2>1 DEF MainOK
<1>12. main[n].block_num = 0
  BY <1>1, <1>6
<1>13. h.ahead = ahead /\ h2.ahead = ahead' /\ h.cut = cut /\ h2.cut = cut'
       /\ h2.gen = h.gen /\ h2.restarts = h.restarts
  BY <1>1, <1>3 DEF Hist
<1>14. CASE /\ main' = [main EXCEPT ![n] = m] /\ UNCHANGED <<consensus, bls_shares, cut, ahead>>
  <2>1. Moved(p, m)
    BY <1>2, <1>6, <1>7, <1>8 DEF Moved
  <2>2. StopOK(n, m, c, h)
    BY ONLY <1>7, <1>8 DEF StopOK
  <2>. QED  BY <1>1, <1>3, <1>8, <1>14, <2>1, <2>2, AtStepOK DEF netvars, history
<1>15. CASE /\ Holder[c.next_signer] = Nobody
            /\ main' = [main EXCEPT ![n] = w] /\ UNCHANGED <<consensus, bls_shares, cut, ahead>>
  <2>1. /\ MainOK(w) /\ w.at = "unowned IP" /\ w.block_num = 0 /\ w.last_random_no = 0
        /\ w.dkg_on = p.dkg_on /\ w.exit_from_dkg = p.exit_from_dkg
        /\ w.in_dkg_group = p.in_dkg_group /\ w.served
    BY ONLY <1>0, <1>8 DEF MainOK, Reasons
  <2>2. Moved(p, w)
    BY <1>2, <1>6, <1>7, <2>1 DEF Moved
  <2>3. StopOK(n, w, c, h)
    BY ONLY <1>15, <2>1 DEF StopOK
  <2>. QED  BY <1>1, <1>3, <1>15, <2>1, <2>2, <2>3, AtStepOK DEF netvars, history
<1>16. CASE /\ m.exit_from_dkg /\ b.group_pubkey # c.group_key
            /\ main' = [main EXCEPT ![n] = z] /\ UNCHANGED <<consensus, bls_shares, cut, ahead>>
  <2>1. /\ MainOK(z) /\ z.at = "group key" /\ z.block_num = 0 /\ z.last_random_no = 0
        /\ ~z.dkg_on /\ ~z.exit_from_dkg
    BY ONLY <1>0, <1>9 DEF MainOK, Reasons
  <2>2. (\E a \in New : h.gen[a] > 1) \/ h.ahead # {}
    <3>1. c.group_key \in KeyUpTo(h.gen)
      BY <1>2, <1>5, <1>8, <1>16, FinishedNode
    <3>. QED  BY <1>5, <1>16, <3>1, OtherKeyExplained
  <2>3. NodeOK(n, z, c, h)
    <3>1. WaitingOK(n, z, c, h) /\ RenewingOK(n, z, c, h)
      BY ONLY <2>1 DEF WaitingOK, Waiting, RenewingOK, Renewing
    <3>2. DoneOK(n, z, c, h) /\ HeadOK(n, z, c, h) /\ StartOK(n, z, c, h)
      <4>1. n \notin h.ahead
        BY <1>7
      <4>2. DoneOK(n, z, c, h)
        <5>1. z.block_num # 1
          <6>1. z.block_num = 0
            BY <2>1
          <6>2. 0 # 1
            OBVIOUS
          <6>. QED  BY ONLY <6>1, <6>2, Zenon
        <5>. QED  BY ONLY <5>1 DEF DoneOK
      <4>3. HeadOK(n, z, c, h)
        BY ONLY <2>1, <4>1 DEF HeadOK
      <4>4. StartOK(n, z, c, h)
        BY ONLY <2>1 DEF StartOK
      <4>. QED  BY <4>2, <4>3, <4>4
    <3>3. StopOK(n, z, c, h)
      BY ONLY <2>1, <2>2 DEF StopOK
    <3>4. RoundOK(c, z.block_num, h)
      BY <1>7, <2>1
    <3>. QED  BY ONLY <1>7, <2>1, <3>1, <3>2, <3>3, <3>4 DEF NodeOK
  <2>4. Later(h, h2) => NodeOK(n, z, c, h2)
    <3>1. n \in h2.ahead => n \in h.ahead
      BY <1>13, <1>16
    <3>. QED  BY ONLY n \in Node, <2>3, <3>1, NodeLater
  <2>5. Counters(n)
    BY <1>3, <1>16, Types DEF Counters
  <2>6. consensus' = [consensus EXCEPT ![n] = c]
    BY <1>1, <1>16 DEF DInv, Shapes
  <2>7. /\ main[n].block_num # 1 /\ main' = [main EXCEPT ![n] = z] /\ h2 = Hist'
        /\ Later(Hist, h2) => NodeOK(n, z, c, h2)
        /\ z.at \notin {"timeout", "block timeout"}
    BY <1>1, <1>12, <1>16, <2>1, <2>4
  <2>8. UNCHANGED <<bls_future, netvars>>
    BY <1>3, <1>16 DEF netvars
  <2>. QED  BY ONLY DInv, n \in Node, <2>5, <2>6, <2>7, <2>8, BeforeBlockOK
<1>17. /\ d = IF m.dkg_on THEN [c EXCEPT !.group_key = b.group_pubkey] ELSE c
       /\ ConsensusOK(n, d, h) /\ d.members = c.members /\ d.own_ids = c.own_ids
       /\ d.secretKeys = c.secretKeys /\ d.shares = c.shares /\ d.verified = c.verified
       /\ d.random = c.random /\ d.raised = c.raised
       /\ d.group_key = IF m.dkg_on THEN b.group_pubkey ELSE c.group_key
  <2>1. d = IF m.dkg_on THEN [c EXCEPT !.group_key = b.group_pubkey] ELSE c
    BY <1>1 DEF block_key
  <2>2. CASE m.dkg_on
    BY <1>5, <1>7, <2>1, <2>2, KeyTaken
  <2>3. CASE ~m.dkg_on
    BY <1>7, <2>1, <2>3
  <2>. QED  BY <2>1, <2>2, <2>3
<1>18. RoundOK(d, 0, h) /\ d.raised = "no"
  BY ONLY <1>7, <1>17 DEF RoundOK
<1>. DEFINE Ended == cut' = IF m.dkg_on /\ m.in_dkg_group THEN cut \cup {n} ELSE cut
<1>19. ASSUME Ended PROVE ConsensusOK(n, d, h2) /\ h.cut \subseteq h2.cut
  BY <1>13, <1>17, <1>19 DEF ConsensusOK
<1>20. ASSUME Ended, m.dkg_on
       PROVE  KeysFit(n, d, h2) /\ d.members = New /\ d.own_ids \subseteq New
  <2>1. /\ c.members = New /\ c.own_ids = Ids(n) /\ (p.in_dkg_group <=> Ids(n) # {})
    BY <1>2, <1>5, <1>8, <1>20, RenewingNode DEF Renewing
  <2>2. CASE m.in_dkg_group
    <3>1. n \in h2.cut
      BY <1>13, <1>20, <2>2
    <3>. QED  BY <1>17, <2>1, <3>1 DEF KeysFit, Ids
  <2>3. CASE ~m.in_dkg_group
    <3>1. d.own_ids = {}
      BY <1>8, <1>17, <2>1, <2>3
    <3>. QED  BY <1>17, <2>1, <3>1 DEF KeysFit
  <2>. QED  BY <2>2, <2>3
<1>21. ASSUME m.exit_from_dkg, b.group_pubkey = c.group_key
       PROVE  /\ KeysFit(n, c, h) /\ c.members = New /\ c.own_ids \subseteq New /\ ~m.dkg_on
              /\ h.created = 1 /\ c.group_key = h.key /\ b.signer = Signer
              /\ b.group_pubkey # OldKey
  <2>1. c.group_key \in KeyUpTo(h.gen) /\ KeysFit(n, c, h)
    BY <1>2, <1>5, <1>8, <1>21, FinishedNode
  <2>2. c.members = New /\ c.own_ids = Ids(n) /\ ~m.dkg_on
    BY <1>2, <1>5, <1>8, <1>21, RenewingNode DEF Renewing
  <2>3. c.group_key # OldKey
    BY <2>1, OldKeyIsOther
  <2>. QED  BY <1>5, <1>21, <2>1, <2>2, <2>3 DEF BlockOK, Ids
<1>22. ASSUME ~m.dkg_on, ~m.exit_from_dkg
       PROVE  c.group_key = OldKey /\ KeysFit(n, c, h)
              /\ (c.members = Old \/ h.restarts > 0 \/ h.ahead # {})
  <2>1. ~Renewing(p)
    BY <1>8, <1>22 DEF Renewing
  <2>. QED  BY <1>2, <1>5, <1>6, <2>1, WaitingNode
<1>23. CASE /\ m.exit_from_dkg => b.group_pubkey = c.group_key
            /\ Ended /\ NextRound(n, y, d)
            /\ ahead' = IF (m.exit_from_dkg \/ m.dkg_on) /\ b.group_pubkey # OldKey
                        THEN ahead ELSE ahead \cup {n}
  <2>1. Counters(n)
    BY <1>3, <1>23, Types DEF Counters
  <2>2. KeysFit(n, d, h2)
    <3>1. CASE m.dkg_on
      BY <1>20, <1>23, <3>1
    <3>2. CASE ~m.dkg_on
      <4>1. KeysFit(n, c, h) /\ d = c
        BY <1>17, <1>21, <1>22, <1>23, <3>2
      <4>. QED  BY <1>13, <1>19, <1>23, <4>1, KeysFitLater
    <3>. QED  BY <3>1, <3>2
  <2>3. /\ d.members = New \/ n \in Fresh \/ h2.restarts > 0 \/ h2.ahead # {}
        /\ d.own_ids \subseteq New \/ h2.ahead # {}
    <3>1. CASE m.dkg_on
      BY <1>20, <1>23, <3>1
    <3>2. CASE ~m.dkg_on /\ m.exit_from_dkg
      BY <1>17, <1>21, <1>23, <3>2
    <3>3. CASE ~m.dkg_on /\ ~m.exit_from_dkg
      BY <1>13, <1>23, <3>3
    <3>. QED  BY <3>1, <3>2, <3>3
  <2>4. n \in ahead' => d.group_key = OldKey
    <3>1. CASE m.dkg_on
      BY <1>7, <1>13, <1>17, <1>23, <3>1
    <3>2. CASE ~m.dkg_on /\ m.exit_from_dkg
      BY <1>7, <1>13, <1>21, <1>23, <3>2
    <3>3. CASE ~m.dkg_on /\ ~m.exit_from_dkg
      BY <1>17, <1>22, <3>3
    <3>. QED  BY <3>1, <3>2, <3>3
  <2>5. n \notin ahead' => Hist.created = 1 /\ d.group_key = Hist.key
    <3>1. CASE m.dkg_on
      <4>1. n \notin ahead' => b.group_pubkey # OldKey
        BY <1>23
      <4>. QED  BY <1>1, <1>5, <1>17, <3>1, <4>1 DEF BlockOK
    <3>2. CASE ~m.dkg_on /\ m.exit_from_dkg
      BY <1>1, <1>17, <1>21, <1>23, <3>2
    <3>3. CASE ~m.dkg_on /\ ~m.exit_from_dkg
      BY <1>23, <3>3
    <3>. QED  BY <3>1, <3>2, <3>3
  <2>6. h2 = Hist' /\ UNCHANGED <<bls_future, dkg_shares>>
    BY <1>1, <1>3
  <2>7. ConsensusOK(n, d, h2) /\ d.raised = "no" /\ NextRound(n, y, d)
    BY <1>18, <1>19, <1>23
  <2>8. n \notin ahead' => n = SignerNode \/ (Hist.created = 1 /\ d.group_key = Hist.key)
    BY <2>5
  <2>9. blocks' = [i \in Node |-> blocks'[i]]
        /\ (\A i \in Node : \A t \in blocks'[i] : t \in blocks[i] \/ BlockOK(t, h2))
          => DInv'
    BY ONLY DInv, n \in Node, <1>11, <1>12, <2>1, <2>2, <2>3, <2>4, <2>6, <2>7, <2>8,
            NextRoundStep
  <2>10. blocks' = [i \in Node |-> blocks'[i]] /\ blocks' = blocks
    BY <1>3 DEF DInv, Shapes
  <2>. QED  BY <2>9, <2>10
<1>24. CASE /\ m.exit_from_dkg => b.group_pubkey = c.group_key
            /\ Ended /\ ~signer_correct(m, c, b)
            /\ main' = [main EXCEPT ![n] = over] /\ consensus' = [consensus EXCEPT ![n] = d]
            /\ UNCHANGED <<bls_shares, ahead>>
  <2>1. Counters(n)
    BY <1>3, <1>24, Types DEF Counters
  <2>2. ~m.exit_from_dkg
    BY <1>21, <1>24 DEF signer_correct
  <2>3. /\ d.group_key = OldKey /\ KeysFit(n, d, h2)
        /\ d.members = Old \/ h2.restarts > 0 \/ h2.ahead # {}
    <3>1. CASE m.dkg_on
      <4>1. b.signer # Signer
        BY <1>24, <3>1 DEF signer_correct
      <4>2. b.group_pubkey = OldKey /\ h.ahead # {}
        BY <1>5, <4>1 DEF BlockOK
      <4>. QED  BY <1>13, <1>17, <1>20, <1>24, <3>1, <4>2
    <3>2. CASE ~m.dkg_on
      <4>1. d = c /\ KeysFit(n, c, h)
        BY <1>17, <1>22, <2>2, <3>2
      <4>2. KeysFit(n, d, h2)
        BY <1>13, <1>19, <1>24, <4>1, KeysFitLater
      <4>. QED  BY <1>13, <1>22, <1>24, <2>2, <3>2, <4>1, <4>2
    <3>. QED  BY <3>1, <3>2
  <2>4. ASSUME Later(h, h2) PROVE NodeOK(n, over, d, h2)
    <3>1. WaitingOK(n, over, d, h2) /\ RenewingOK(n, over, d, h2)
      BY ONLY <1>9, <2>3 DEF WaitingOK, RenewingOK, Renewing
    <3>2. n \notin h2.ahead
      BY <1>7, <1>13, <1>24
    <3>3. DoneOK(n, over, d, h2) /\ HeadOK(n, over, d, h2) /\ StartOK(n, over, d, h2)
      BY ONLY <1>9, <3>2 DEF DoneOK, HeadOK, StartOK
    <3>4. StopOK(n, over, d, h2)
      BY ONLY <1>9, <1>18 DEF StopOK
    <3>5. RoundOK(d, over.block_num, h2)
      <4>1. \A s \in d.shares : ShareOK(s, h) => ShareOK(s, h2)
        BY <2>4, ShareLater
      <4>. QED  BY ONLY <1>9, <1>18, <4>1 DEF RoundOK
    <3>6. ConsensusOK(n, d, h2)
      BY <1>19, <1>24
    <3>. QED  BY ONLY <1>9, <3>1, <3>3, <3>4, <3>5, <3>6 DEF NodeOK
  <2>5. over.at \notin {"timeout", "block timeout"}
    BY <1>9
  <2>6. /\ main[n].block_num # 1 /\ main' = [main EXCEPT ![n] = over] /\ h2 = Hist'
        /\ consensus' = [consensus EXCEPT ![n] = d]
        /\ Later(Hist, h2) => NodeOK(n, over, d, h2)
    BY <1>1, <1>12, <1>24, <2>4
  <2>7. UNCHANGED <<bls_future, netvars>>
    BY <1>3, <1>24 DEF netvars
  <2>. QED  BY ONLY DInv, n \in Node, <2>1, <2>5, <2>6, <2>7, BeforeBlockOK
<1>. QED  BY <1>4, <1>14, <1>15, <1>16, <1>23, <1>24

-----------------------------------------------------------------------------
(* Start *)

\* A block in perform_bootstrap.
LEMMA BootstrapBlockOK ==
  ASSUME DInv, NEW n \in Node, NEW b \in blocks[n], BootstrapBlock(n, b)
  PROVE  DInv'
<1>1. PICK p, c, k, h, h2, r :
        /\ p = main[n] /\ c = consensus[n] /\ h = Hist /\ h2 = Hist'
        /\ k = b.group_pubkey /\ r = b.random
  OBVIOUS
<1>2. PICK m, w, z :
        /\ m = [p EXCEPT !.served = TRUE] /\ w = [m EXCEPT !.at = "bootstrap signature"]
        /\ z = [m EXCEPT !.block_num = 1, !.last_random_no = r]
  OBVIOUS
<1>0. PICK e, f : e = [c EXCEPT !.group_key = k] /\ f = [e EXCEPT !.random = r]
  OBVIOUS
<1>3. p.at = "bootstrap" /\ ~p.served
  BY <1>1 DEF BootstrapBlock
<1>4. UNCHANGED <<dkg_cache, bls_future, generated, netvars, expired, dropped, lost, cut, restarts>>
  BY DEF BootstrapBlock
<1>5. e.previous_group_key = c.previous_group_key
  BY <1>0
<1>6. \/ /\ ~sig_verifies(c.previous_group_key, b)
         /\ main' = [main EXCEPT ![n] = w] /\ consensus' = [consensus EXCEPT ![n] = e]
         /\ UNCHANGED ahead
      \/ /\ main' = [main EXCEPT ![n] = z] /\ consensus' = [consensus EXCEPT ![n] = f]
         /\ sig_verifies(c.previous_group_key, b)
         /\ ahead' = IF k = OldKey THEN ahead \cup {n} ELSE ahead
      \/ /\ b.signer # Signer
         /\ main' = [main EXCEPT ![n] = m] /\ consensus' = [consensus EXCEPT ![n] = e]
         /\ UNCHANGED ahead
  BY <1>0, <1>1, <1>2, <1>5 DEF BootstrapBlock
<1>7. NodeOK(n, p, c, h) /\ BlockOK(b, h)
  <2>1. BlockOK(b, h)
    BY <1>1 DEF DInv, BlocksOK
  <2>. QED  BY <1>1, <2>1, NodeIsOK
<1>8. MainOK(p) /\ p.block_num = 0 /\ ~Renewing(p)
  BY <1>3, <1>7 DEF NodeOK, DoneOK, MainOK, RenewingOK
<1>9. /\ ConsensusOK(n, c, h) /\ c.raised = "no" /\ RoundOK(c, 0, h) /\ c.group_key = OldKey
      /\ c.members = Old \/ h.restarts > 0 \/ h.ahead # {}
      /\ p.last_random_no = 0 /\ n \notin h.ahead /\ Waiting(p)
  BY <1>3, <1>7, <1>8, WaitingNode
<1>10. /\ c.verified /\ (n \in Fresh \/ h.restarts > 0)
       /\ c.own_ids \cap DOMAIN c.secretKeys = {} /\ c.previous_group_key = OldKey
  BY <1>3, <1>7 DEF NodeOK, StartOK, ConsensusOK
<1>11. /\ ConsensusOK(n, e, h) /\ e.group_key = k /\ e.members = c.members
       /\ e.own_ids = c.own_ids /\ e.secretKeys = c.secretKeys /\ e.shares = c.shares
       /\ e.verified = c.verified /\ e.raised = c.raised /\ e.random = c.random
  BY <1>0, <1>1, <1>7, <1>9, KeyTaken
<1>12. /\ ConsensusOK(n, f, h) /\ f.group_key = k /\ f.members = c.members
       /\ f.own_ids = c.own_ids /\ f.secretKeys = c.secretKeys /\ f.shares = c.shares
       /\ f.verified = c.verified /\ f.raised = c.raised
  <2>1. f = [e EXCEPT !.random = r] /\ ConsensusOK(n, e, h)
    BY <1>0, <1>11
  <2>2. /\ ConsensusOK(n, f, h) /\ f.group_key = e.group_key /\ f.members = e.members
        /\ f.own_ids = e.own_ids /\ f.secretKeys = e.secretKeys /\ f.shares = e.shares
        /\ f.verified = e.verified /\ f.raised = e.raised
    BY ONLY n \in Node, <2>1, RandomTaken
  <2>. QED  BY <1>11, <2>2
<1>13. r \in {0, 1} /\ (r = 0 => h.alone # {})
  BY <1>1, <1>7 DEF BlockOK
<1>14. /\ MainOK(m) /\ m.at = "bootstrap" /\ m.block_num = 0 /\ m.last_random_no = 0
       /\ ~m.dkg_on /\ ~m.exit_from_dkg /\ m.served
  <2>1. ~p.dkg_on /\ ~p.exit_from_dkg
    BY <1>8 DEF Renewing
  <2>. QED  BY ONLY <1>2, <1>3, <1>8, <1>9, <2>1 DEF MainOK
<1>15. main[n].block_num # 1
  BY <1>1, <1>8
<1>16. h.ahead = ahead /\ h2.ahead = ahead' /\ h2.restarts = h.restarts /\ h2.cut = h.cut
       /\ h2.gen = h.gen
  BY <1>1, <1>4 DEF Hist
<1>17. UNCHANGED <<bls_future, netvars>> /\ h2 = Hist'
  BY <1>1, <1>4
<1>18. CASE /\ ~sig_verifies(c.previous_group_key, b)
            /\ main' = [main EXCEPT ![n] = w] /\ consensus' = [consensus EXCEPT ![n] = e]
            /\ UNCHANGED ahead
  <2>1. h.alone # {}
    BY <1>1, <1>10, <1>13, <1>18 DEF sig_verifies
  <2>2. /\ MainOK(w) /\ w.at = "bootstrap signature" /\ w.block_num = 0 /\ w.last_random_no = 0
        /\ ~w.dkg_on /\ ~w.exit_from_dkg
    BY ONLY <1>2, <1>14 DEF MainOK, Reasons
  <2>3. NodeOK(n, w, e, h)
    <3>1. w.block_num # 1 /\ n \notin h.ahead
      <4>1. w.block_num = 0 /\ n \notin h.ahead
        BY <1>9, <2>2
      <4>2. 0 # 1
        OBVIOUS
      <4>. QED  BY ONLY <4>1, <4>2, Zenon
    <3>2. DoneOK(n, w, e, h)
      BY ONLY <3>1 DEF DoneOK
    <3>3. HeadOK(n, w, e, h)
      BY ONLY <2>2, <3>1 DEF HeadOK
    <3>4. WaitingOK(n, w, e, h) /\ RenewingOK(n, w, e, h) /\ StartOK(n, w, e, h)
      BY ONLY <2>2 DEF WaitingOK, Waiting, RenewingOK, Renewing, StartOK
    <3>5. StopOK(n, w, e, h)
      BY ONLY <2>1, <2>2 DEF StopOK
    <3>6. RoundOK(e, w.block_num, h)
      BY ONLY <1>9, <1>11, <2>2 DEF RoundOK
    <3>. QED  BY ONLY <1>11, <2>2, <3>2, <3>3, <3>4, <3>5, <3>6 DEF NodeOK
  <2>4. Later(Hist, h2) => NodeOK(n, w, e, h2)
    <3>1. n \in h2.ahead => n \in h.ahead
      BY <1>16, <1>18
    <3>2. Later(h, h2) => NodeOK(n, w, e, h2)
      BY ONLY n \in Node, <2>3, <3>1, NodeLater
    <3>. QED  BY <1>1, <3>2
  <2>5. Counters(n)
    BY <1>4, <1>18, Types DEF Counters
  <2>6. w.at \notin {"timeout", "block timeout"}
    BY <2>2
  <2>. QED  BY ONLY DInv, n \in Node, <1>15, <1>17, <1>18, <2>4, <2>5, <2>6, BeforeBlockOK
<1>19. CASE /\ b.signer # Signer
            /\ main' = [main EXCEPT ![n] = m] /\ consensus' = [consensus EXCEPT ![n] = e]
            /\ UNCHANGED ahead
  <2>1. k = OldKey /\ h.ahead # {}
    BY <1>1, <1>7, <1>19 DEF BlockOK
  <2>2. NodeOK(n, m, e, h)
    <3>1. m.block_num # 1 /\ n \notin h.ahead
      BY <1>9, <1>14
    <3>2. DoneOK(n, m, e, h)
      BY ONLY <3>1 DEF DoneOK
    <3>3. HeadOK(n, m, e, h)
      BY ONLY <1>14, <3>1 DEF HeadOK
    <3>4. KeysFit(n, e, h)
      BY <1>10, <1>11 DEF KeysFit
    <3>5. WaitingOK(n, m, e, h)
      BY <1>11, <2>1, <3>4 DEF WaitingOK
    <3>6. RenewingOK(n, m, e, h)
      BY ONLY <1>14 DEF RenewingOK, Renewing
    <3>7. StartOK(n, m, e, h)
      BY ONLY <1>10, <1>11 DEF StartOK
    <3>8. StopOK(n, m, e, h)
      BY ONLY <1>9, <1>11, <1>14 DEF StopOK
    <3>9. RoundOK(e, m.block_num, h)
      BY ONLY <1>9, <1>11, <1>14 DEF RoundOK
    <3>. QED  BY ONLY <1>11, <1>14, <3>2, <3>3, <3>5, <3>6, <3>7, <3>8, <3>9 DEF NodeOK
  <2>3. Later(Hist, h2) => NodeOK(n, m, e, h2)
    <3>1. n \in h2.ahead => n \in h.ahead
      BY <1>16, <1>19
    <3>2. Later(h, h2) => NodeOK(n, m, e, h2)
      BY ONLY n \in Node, <2>2, <3>1, NodeLater
    <3>. QED  BY <1>1, <3>2
  <2>4. Counters(n)
    BY <1>4, <1>19, Types DEF Counters
  <2>5. m.at \notin {"timeout", "block timeout"}
    BY <1>14
  <2>. QED  BY ONLY DInv, n \in Node, <1>15, <1>17, <1>19, <2>3, <2>4, <2>5, BeforeBlockOK
<1>20. CASE /\ main' = [main EXCEPT ![n] = z] /\ consensus' = [consensus EXCEPT ![n] = f]
            /\ sig_verifies(c.previous_group_key, b)
            /\ ahead' = IF k = OldKey THEN ahead \cup {n} ELSE ahead
  <2>1. r = 1
    BY <1>1, <1>20 DEF sig_verifies
  <2>2. /\ MainOK(z) /\ z.at = "bootstrap" /\ z.block_num = 1 /\ z.last_random_no = 1
        /\ ~z.dkg_on /\ ~z.exit_from_dkg /\ z.served
    BY ONLY <1>2, <1>14, <2>1 DEF MainOK
  <2>3. Counters(n)
    BY <1>4, <1>20, Types DEF Counters
  <2>4. ASSUME Later(h, h2) PROVE NodeOK(n, z, f, h2)
    <3>1. ConsensusOK(n, f, h2)
      BY <1>12, <1>16 DEF ConsensusOK
    <3>2. RoundOK(f, z.block_num, h2)
      <4>1. f.verified /\ f.raised = "no" /\ IsFiniteSet(f.shares)
            /\ Cardinality(f.shares) <= THRESHOLD /\ f.verified \in BOOLEAN
        BY <1>9, <1>10, <1>12 DEF RoundOK
      <4>2. z.block_num # 0
        BY <2>2
      <4>. QED  BY ONLY <4>1, <4>2 DEF RoundOK
    <3>3. WaitingOK(n, z, f, h2) /\ RenewingOK(n, z, f, h2)
      <4>1. z.block_num # 0
        BY <2>2
      <4>. QED  BY ONLY <2>2, <4>1 DEF WaitingOK, Waiting, RenewingOK, Renewing
    <3>4. DoneOK(n, z, f, h2)
      <4>1. KeysFit(n, f, h2)
        BY <1>10, <1>12 DEF KeysFit
      <4>2. n \in Fresh \/ h2.restarts > 0
        BY <1>10, <1>16
      <4>3. n \notin h2.ahead => h2.created = 1 /\ f.group_key = h2.key
        <5>1. ASSUME n \notin h2.ahead PROVE h.created = 1 /\ k = h.key
          <6>1. k # OldKey
            BY <1>16, <1>20, <5>1
          <6>. QED  BY <1>1, <1>7, <6>1 DEF BlockOK
        <5>. QED  BY <1>12, <2>4, <5>1 DEF Later
      <4>. QED  BY <2>2, <4>1, <4>2, <4>3 DEF DoneOK
    <3>5. HeadOK(n, z, f, h2)
      <4>1. n \in h2.ahead => k = OldKey
        BY <1>9, <1>16, <1>20
      <4>. QED  BY <1>12, <2>2, <4>1 DEF HeadOK
    <3>6. StartOK(n, z, f, h2)
      BY <1>10, <1>12, <1>16 DEF StartOK
    <3>7. StopOK(n, z, f, h2)
      BY ONLY <1>9, <1>12, <2>2 DEF StopOK
    <3>. QED  BY ONLY <2>2, <3>1, <3>2, <3>3, <3>4, <3>5, <3>6, <3>7 DEF NodeOK
  <2>5. Later(Hist, h2) => NodeOK(n, z, f, h2)
    BY <1>1, <2>4
  <2>6. z.at \notin {"timeout", "block timeout"}
    BY <2>2
  <2>. QED  BY ONLY DInv, n \in Node, <1>15, <1>17, <1>20, <2>3, <2>5, <2>6, BeforeBlockOK
<1>. QED  BY <1>6, <1>18, <1>19, <1>20

\* A node is stopped and started again before it has block 1.
LEMMA RestartOK ==
  ASSUME DInv, NEW n \in Node, Restart(n)
  PROVE  DInv'
<1>1. PICK ids, h, h2, ip :
        ids = Ids(n) /\ h = Hist /\ h2 = Hist' /\ ip = consensus[n].next_signer
  OBVIOUS
<1>2. PICK i \in BOOLEAN : i = (ids # {})
  OBVIOUS
<1>3. PICK x :
        x = [at |-> "bootstrap", block_num |-> 0, last_random_no |-> 0, dkg_on |-> FALSE,
             exit_from_dkg |-> FALSE, in_dkg_group |-> i, create_shares |-> FALSE,
             due |-> FALSE, served |-> FALSE]
  OBVIOUS
<1>4. PICK e : e = IF ids = {} THEN store_ids(Blank(ip), New) ELSE [Blank(ip) EXCEPT !.own_ids = ids]
  OBVIOUS
<1>5. /\ main[n].block_num = 0 /\ restarts' = restarts + 1
      /\ main' = [main EXCEPT ![n] = x] /\ consensus' = [consensus EXCEPT ![n] = e]
  BY <1>1, <1>2, <1>3, <1>4 DEF Restart, Ids
<1>6. /\ bls_future' = [bls_future EXCEPT ![n] = {}] /\ dkg_shares' = [dkg_shares EXCEPT ![n] = {}]
      /\ bls_shares' = [bls_shares EXCEPT ![n] = {}]
      /\ UNCHANGED <<generated, blocks, expired, dropped, lost, cut, ahead>>
  BY DEF Restart
<1>7. h2.restarts > 0 /\ restarts \in Nat /\ restarts' \in Nat /\ restarts <= restarts'
  <2>1. restarts \in Nat
    BY Types
  <2>2. h2.restarts = restarts'
    BY <1>1 DEF Hist
  <2>. QED  BY <1>5, <2>1, <2>2
<1>8. /\ MainOK(x) /\ x.at = "bootstrap" /\ x.block_num = 0 /\ x.last_random_no = 0
      /\ ~x.dkg_on /\ ~x.exit_from_dkg
  BY ONLY <1>3, i \in BOOLEAN DEF MainOK
<1>9. /\ IsConsensus(e) /\ e.members \subseteq Old \cup New
      /\ e.own_ids \subseteq Addrs[n] \cap (Old \cup New)
      /\ e.secretKeys = <<>> /\ e.group_key = OldKey /\ e.previous_group_key = OldKey
      /\ e.shares = {} /\ e.verified = TRUE /\ e.random = 0 /\ e.raised = "no"
  <2>1. PICK N, J :
          /\ N \subseteq New /\ J \subseteq Ids(n)
          /\ e = [members |-> N, own_ids |-> J, received |-> <<>>, secretKeys |-> <<>>,
                  group_key |-> OldKey, previous_group_key |-> OldKey, shares |-> {},
                  verified |-> TRUE, random |-> 0, next_signer |-> ip, raised |-> "no"]
    <3>1. CASE ids = {}
      <4>1. PICK N, J : N = New /\ J = {}
        OBVIOUS
      <4>2. e = [Blank(ip) EXCEPT !.previous_group_key = Blank(ip).group_key, !.members = N,
                                  !.own_ids = J]
        BY <1>4, <3>1, <4>1 DEF store_ids
      <4>3. e = [members |-> N, own_ids |-> J, received |-> <<>>, secretKeys |-> <<>>,
                 group_key |-> OldKey, previous_group_key |-> OldKey, shares |-> {},
                 verified |-> TRUE, random |-> 0, next_signer |-> ip, raised |-> "no"]
        BY ONLY <4>2 DEF Blank
      <4>4. N \subseteq New /\ J \subseteq Ids(n)
        BY <4>1
      <4>. QED  BY <4>3, <4>4
    <3>2. CASE ids # {}
      <4>1. PICK N, J : N = {} /\ J = ids
        OBVIOUS
      <4>2. e = [Blank(ip) EXCEPT !.own_ids = J]
        BY <1>4, <3>2, <4>1
      <4>3. e = [members |-> {}, own_ids |-> J, received |-> <<>>, secretKeys |-> <<>>,
                 group_key |-> OldKey, previous_group_key |-> OldKey, shares |-> {},
                 verified |-> TRUE, random |-> 0, next_signer |-> ip, raised |-> "no"]
        BY ONLY <4>2 DEF Blank
      <4>4. N \subseteq New /\ J \subseteq Ids(n)
        BY <1>1, <4>1
      <4>. QED  BY <4>1, <4>3, <4>4
    <3>. QED  BY <3>1, <3>2
  <2>2. /\ e.members = N /\ e.own_ids = J /\ e.received = <<>> /\ e.secretKeys = <<>>
        /\ e.group_key = OldKey /\ e.previous_group_key = OldKey /\ e.shares = {}
        /\ e.verified = TRUE /\ e.random = 0 /\ e.next_signer = ip /\ e.raised = "no"
    BY ONLY <2>1
  <2>3. IsConsensus(e)
    BY ONLY <2>1, <2>2 DEF IsConsensus
  <2>. QED  BY <2>1, <2>2, <2>3 DEF Ids
<1>10. DOMAIN e.secretKeys = {} /\ e.secretKeys = [a \in DOMAIN e.secretKeys |-> e.secretKeys[a]]
  BY <1>9
<1>11. Changed(main, main', n, x) /\ Changed(consensus, consensus', n, e)
  BY <1>5 DEF Changed, DInv, Shapes
<1>12. Counters(n)
  BY <1>6, <1>7, Types DEF Counters
<1>13. Later(Hist, Hist')
  <2>1. main[n].block_num # 1
    BY <1>5
  <2>. QED  BY <1>11, <1>12, <2>1, LaterStep
<1>14. n \notin h2.ahead
  <2>1. n \notin h.ahead
    <3>1. NodeOK(n, main[n], consensus[n], h)
      BY <1>1, NodeIsOK
    <3>2. main[n].block_num # 1
      BY <1>5
    <3>. QED  BY <3>1, <3>2 DEF NodeOK, HeadOK
  <2>2. h2.ahead = h.ahead
    BY <1>1, <1>6 DEF Hist
  <2>. QED  BY <2>1, <2>2
<1>15. NodeOK(n, x, e, h2)
  <2>1. ConsensusOK(n, e, h2)
    BY ONLY <1>9, <1>10 DEF ConsensusOK
  <2>2. RoundOK(e, x.block_num, h2)
    <3>1. IsFiniteSet({}) /\ Cardinality({}) = 0 /\ 0 <= THRESHOLD
      BY FS_EmptySet, DkgAssumption
    <3>. QED  BY ONLY <1>9, <3>1 DEF RoundOK
  <2>3. WaitingOK(n, x, e, h2)
    <3>1. KeysFit(n, e, h2)
      BY ONLY <1>10 DEF KeysFit
    <3>. QED  BY ONLY <1>7, <1>9, <3>1 DEF WaitingOK
  <2>4. RenewingOK(n, x, e, h2)
    BY ONLY <1>8 DEF RenewingOK, Renewing
  <2>5. DoneOK(n, x, e, h2)
    <3>1. x.block_num # 1
      BY <1>8
    <3>. QED  BY ONLY <3>1 DEF DoneOK
  <2>6. HeadOK(n, x, e, h2)
    BY ONLY <1>8, <1>14 DEF HeadOK
  <2>7. StartOK(n, x, e, h2)
    BY ONLY <1>7, <1>9, <1>10 DEF StartOK
  <2>8. StopOK(n, x, e, h2)
    BY ONLY <1>8, <1>9 DEF StopOK
  <2>. QED  BY ONLY <1>8, <2>1, <2>2, <2>3, <2>4, <2>5, <2>6, <2>7, <2>8 DEF NodeOK
<1>16. NodeOK(n, x, e, Hist')
  BY <1>1, <1>15
<1>17. NewMessages
  <2>1. /\ bls_future' = [j \in Node |-> bls_future'[j]]
        /\ dkg_shares' = [j \in Node |-> dkg_shares'[j]]
        /\ bls_shares' = [j \in Node |-> bls_shares'[j]]
        /\ \A j \in Node : /\ bls_future'[j] \subseteq bls_future[j]
                           /\ dkg_shares'[j] \subseteq dkg_shares[j]
                           /\ bls_shares'[j] \subseteq bls_shares[j]
    BY <1>6 DEF DInv, Shapes
  <2>. QED  BY <1>6, <2>1 DEF NewMessages, DInv, Shapes
<1>18. x.at \notin {"timeout", "block timeout"}
  BY <1>8
<1>. QED  BY <1>11, <1>12, <1>13, <1>16, <1>17, <1>18, StepOK

-----------------------------------------------------------------------------
(* The theorems *)

\* Every step keeps the invariant.
LEMMA StepKeeps == DInv /\ [Next]_vars => DInv'
<1>. SUFFICES ASSUME DInv, [Next]_vars PROVE DInv'
  OBVIOUS
<1>1. CASE UNCHANGED vars
  <2>1. /\ UNCHANGED <<main, consensus, ahead>> /\ UNCHANGED <<generated, expired, history>>
        /\ UNCHANGED <<bls_future, netvars>>
    BY <1>1 DEF vars, history
  <2>2. Counters(SignerNode)
    BY <2>1, SignerNodeOK, SameCounters
  <2>. QED  BY <2>1, <2>2, SameMessages, StillOK
<1>2. CASE Expire
  BY <1>2, ExpireOK
<1>3. ASSUME NEW n \in Node, NEW s \in bls_shares[n], ReceiveShare(n, s) \/ LoseShare(n, s)
      PROVE  DInv'
  BY <1>3, ReceiveShareOK, LoseShareOK
<1>4. ASSUME NEW n \in Node, NEW s \in bls_future[n], TakeFutureShare(n, s) PROVE DInv'
  BY <1>4, TakeFutureShareOK
<1>5. ASSUME NEW n \in Node, TriggerDkg(n) PROVE DInv'
  BY <1>5, TriggerDkgOK
<1>6. ASSUME NEW n \in Node, NEW s \in dkg_shares[n], PopDkgShare(n, s) \/ DropDkgShare(n, s)
      PROVE  DInv'
  BY <1>6, PopDkgShareOK, DropDkgShareOK
<1>7. ASSUME NEW n \in Node, OutsiderTimeout(n) PROVE DInv'
  BY <1>7, OutsiderTimeoutOK
<1>8. ASSUME NEW n \in Node, BlockTimeout(n) PROVE DInv'
  BY <1>8, BlockTimeoutOK
<1>9. ASSUME NEW n \in Node, CreateBlock(n) PROVE DInv'
  BY <1>9, CreateBlockOK
<1>10. ASSUME NEW n \in Node, SignUnowned(n) PROVE DInv'
  BY <1>10, SignUnownedOK
<1>11. ASSUME NEW n \in Node, NEW b \in blocks[n], ReceiveBlock(n, b) \/ BootstrapBlock(n, b)
       PROVE  DInv'
  BY <1>11, ReceiveBlockOK, BootstrapBlockOK
<1>12. ASSUME NEW n \in Node, BootstrapEnds(n) PROVE DInv'
  BY <1>12, BootstrapEndsOK
<1>13. ASSUME NEW n \in Node, Restart(n) PROVE DInv'
  BY <1>13, RestartOK
<1>. QED  BY <1>1, <1>2, <1>3, <1>4, <1>5, <1>6, <1>7, <1>8, <1>9, <1>10, <1>11, <1>12, <1>13
             DEF Next

\* Whatever the nodes do, in any order: each holds what NodeOK says of its stage of the
\* renewal (blockchaincba.py's main loop and consensus.py), and what is on its way fits
\* the generation, the round and the block it is of, or something recorded excuses it:
\* a node ahead of the renewal, alone, cut off, or with members of two generations.
THEOREM RenewalInvariant == Spec => []DInv
BY InitOK, StepKeeps, PTL DEF Spec

\* The variables have their types, the stages of a DKG exclude each other, a node in
\* the group has the table of its members (consensus.py:183), and no more shares than
\* THRESHOLD are stored (consensus.py:115).
THEOREM RenewalTypeOK == Spec => []TypeOK
<1>1. DInv => TypeOK
  <2>. SUFFICES ASSUME DInv PROVE TypeOK
    OBVIOUS
  <2>1. ASSUME NEW n \in Node, NEW m, m = main[n], NEW c, c = consensus[n]
        PROVE  /\ m.at \in {"bootstrap", "loop"} \cup Reasons /\ m.block_num \in {0, 1}
               /\ m.block_num = 1 => m.served
               /\ ~(m.dkg_on /\ m.exit_from_dkg)
               /\ m.dkg_on /\ m.in_dkg_group => DOMAIN c.received = Addrs[n] \cap New
               /\ c.own_ids \subseteq Addrs[n] /\ c.members \subseteq Old \cup New
               /\ c.group_key = OldKey \/ IsKey(c.group_key)
               /\ c.previous_group_key = OldKey
               /\ Cardinality(c.shares) <= THRESHOLD
    <3>1. NodeOK(n, m, c, Hist)
      BY <2>1, NodeIsOK
    <3>2. m.at \in {"bootstrap", "loop"} \cup Reasons /\ m.block_num \in {0, 1}
      BY ONLY <3>1 DEF NodeOK, MainOK
    <3>3. ~(m.dkg_on /\ m.exit_from_dkg)
      BY ONLY <3>1 DEF NodeOK, RenewingOK, Renewing
    <3>4. m.dkg_on /\ m.in_dkg_group => DOMAIN c.received = Addrs[n] \cap New
      <4>1. m.dkg_on /\ m.in_dkg_group => TableOK(c, n, Hist)
        BY ONLY <3>1 DEF NodeOK, RenewingOK, Renewing
      <4>. QED  BY <4>1 DEF TableOK, Table, Ids
    <3>5. c.own_ids \subseteq Addrs[n] /\ c.members \subseteq Old \cup New
          /\ c.previous_group_key = OldKey
      BY ONLY <3>1 DEF NodeOK, ConsensusOK
    <3>6. c.group_key = OldKey \/ IsKey(c.group_key)
      <4>1. c.group_key = OldKey \/ c.group_key \in KeyUpTo(Hist.gen)
        BY ONLY <3>1 DEF NodeOK, ConsensusOK
      <4>. QED  BY <4>1, HistIs DEF KeyUpTo, IsKey
    <3>7. Cardinality(c.shares) <= THRESHOLD
      BY ONLY <3>1 DEF NodeOK, RoundOK
    <3>8. m.block_num = 1 => m.served
      BY ONLY <3>1 DEF NodeOK, DoneOK
    <3>. QED  BY <3>2, <3>3, <3>4, <3>5, <3>6, <3>7, <3>8
  <2>2. expired \in BOOLEAN /\ lost \cup cut \cup ahead \subseteq Node
    BY DEF DInv, Shapes
  <2>. QED  BY <2>1, <2>2 DEF TypeOK
<1>. QED  BY <1>1, RenewalInvariant, PTL

\* All nodes that have the renewal block have the same group key, whatever was restarted,
\* thrown away or late, but for those that are ahead: they have the one of the old group
\* (blockchaincba.py:219, 245, 346, 536).
THEOREM RenewalOneGroupKey == Spec => []OneGroupKey
<1>1. DInv => OneGroupKey
  <2>. SUFFICES ASSUME DInv, NEW m \in Node, NEW n \in Node,
                       main[m].block_num = 1, main[n].block_num = 1
                PROVE  IF m \in ahead THEN consensus[m].group_key = OldKey
                       ELSE n \notin ahead => consensus[m].group_key = consensus[n].group_key
    BY DEF OneGroupKey
  <2>1. ASSUME NEW i \in Node, main[i].block_num = 1
        PROVE  /\ i \in ahead => consensus[i].group_key = OldKey
               /\ i \notin ahead => consensus[i].group_key = Hist.key
    <3>1. NodeOK(i, main[i], consensus[i], Hist)
      BY NodeIsOK
    <3>2. DoneOK(i, main[i], consensus[i], Hist) /\ HeadOK(i, main[i], consensus[i], Hist)
      BY <3>1 DEF NodeOK
    <3>. QED  BY <2>1, <3>2, HistIs DEF DoneOK, HeadOK
  <2>. QED  BY <2>1
<1>. QED  BY <1>1, RenewalInvariant, PTL

\* After the renewal block the secret keys of a node belong to its group key, but for a
\* member that was cut off (blockchaincba.py:237) and for one with members of different
\* generations (consensus.py:247).
THEOREM RenewalSecretsFitKey == Spec => []SecretsFitKey
<1>1. DInv => SecretsFitKey
  <2>. SUFFICES ASSUME DInv, NEW n \in Node, main[n].block_num = 1
                PROVE  \/ n \in cut
                       \/ Mixed(n)
                       \/ \A a \in consensus[n].own_ids \cap DOMAIN consensus[n].secretKeys :
                            consensus[n].secretKeys[a] = consensus[n].group_key
    BY DEF SecretsFitKey
  <2>1. KeysFit(n, consensus[n], Hist)
    BY NodeIsOK DEF NodeOK, DoneOK
  <2>. QED  BY <2>1, HistIs DEF KeysFit, MixedAt, Mixed, Regenerated
<1>. QED  BY <1>1, RenewalInvariant, PTL

\* A process ends in a renewal for the reasons StopsExplained names only.
THEOREM RenewalStopsExplained == Spec => []StopsExplained
<1>1. DInv => StopsExplained
  <2>. SUFFICES ASSUME DInv, NEW n \in Node
                PROVE  /\ main[n].at = "group key" => Regenerated \/ ahead # {}
                       /\ main[n].at = "invalid signature" =>
                            cut # {} \/ ahead # {} \/ \E m \in Node : Mixed(m) \/ Alone(m)
                       /\ main[n].at = "unknown source" =>
                            \/ main[n].exit_from_dkg /\ main[n].block_num = 0
                            \/ n \in Fresh /\ main[n].block_num = 1
                            \/ restarts > 0 \/ ahead # {}
                       /\ main[n].at \in {"timeout", "block timeout"} => expired
                       /\ main[n].at = "unowned IP" => Holder[consensus[n].next_signer] = Nobody
                       /\ main[n].at = "bootstrap signature" => \E m \in Node : Alone(m)
    BY DEF StopsExplained
  <2>1. StopOK(n, main[n], consensus[n], Hist)
    BY NodeIsOK DEF NodeOK
  <2>2. Hist.alone # {} => \E m \in Node : Alone(m)
    BY HistIs
  <2>3. Excused(Hist) => cut # {} \/ ahead # {} \/ \E m \in Node : Mixed(m) \/ Alone(m)
    BY <2>2, HistIs DEF Excused, MixedAt, Mixed, Regenerated
  <2>4. main[n].at \in {"timeout", "block timeout"} => expired
    BY DEF DInv, Shapes
  <2>. QED  BY <2>1, <2>2, <2>3, <2>4, HistIs DEF StopOK, Regenerated
<1>. QED  BY <1>1, RenewalInvariant, PTL
=============================================================================
