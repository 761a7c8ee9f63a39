------------------------------ MODULE BlsProofs ------------------------------
(***************************************************************************)
(* Proofs about the rounds of the random number, for any number of nodes,  *)
(* keys and blocks.  They need the hypotheses of Rounds, which are those   *)
(* of the program's design and not of its code: blocks and main loops are  *)
(* faster than the block time, and block 0 does not select a node that has *)
(* just been started.                                                      *)
(*                                                                         *)
(* Everything follows from one observation: under them a chain is known by *)
(* its length.  The random number of block k is Rand(k), its signer        *)
(* Elected(Rand(k - 1), k - 1); the invariant says so of the chains, of    *)
(* the blocks and shares under way and of the Consensus objects, and that  *)
(* no node is left behind by more than the block that is under way.        *)
(***************************************************************************)
EXTENDS Bls, FoldProofs

\* The chain of length k.
TheBlock(k) == [random_no |-> Rand(k), signer |-> Elected(Rand(k - 1), k - 1)]
TheChain(k) == [i \in 1..k |-> TheBlock(i)]

-----------------------------------------------------------------------------
(***************************************************************************)
(* The inductive invariant.                                                *)
(***************************************************************************)

\* A share of some round, and a block that some chain may have.
ShareOK(s) ==
  /\ s = [source |-> s.source, signature |-> s.signature, block_number |-> s.block_number]
  /\ s.block_number \in 0..MaxHeight
  /\ s.signature = Rand(s.block_number + 1)

\* Its signer has it.
BlockOK(b) ==
  \E k \in 1..MaxHeight :
    /\ b = [prev |-> TheChain(k - 1), random_no |-> TheBlock(k).random_no,
            signer |-> TheBlock(k).signer]
    /\ b.signer \in Node /\ block_num(b.signer) >= k

\* A Consensus object that has not raised.
IsConsensus(c) ==
  /\ c = [random_no |-> c.random_no, next_signer |-> c.next_signer, shares |-> c.shares,
          verified |-> c.verified, raised |-> c.raised]
  /\ c.verified \in BOOLEAN /\ c.raised = FALSE

\* The shares of one round, that of block k: of each member one, and no more than
\* are needed.
SharesOK(shares, k) ==
  /\ IsFiniteSet(shares) /\ Cardinality(shares) <= THRESHOLD
  /\ \A s \in shares : ShareOK(s) /\ s.block_number = k
  /\ \A s, t \in shares : s.source = t.source => s = t

\* The Consensus object of a node whose chain has length k.
ConsensusOK(c, k) ==
  /\ IsConsensus(c)
  /\ SharesOK(c.shares, k)
  /\ c.next_signer = Elected(Rand(k), k)
  /\ ~c.verified => Cardinality(c.shares) < THRESHOLD

\* The group signature is there, or it is the first block of a fresh node.
RoundOK(n) ==
  LET c == consensus[n] IN
  c.verified => \/ c.random_no = Rand(block_num(n) + 1) /\ Cardinality(c.shares) = THRESHOLD
                \/ n \in Fresh /\ block_num(n) = 0 /\ c.shares = {}

\* The node can follow the next block.
Ready(n) == consensus[n].verified \/ from_bootstrap[n]

Chains ==
  /\ chain = [n \in Node |-> chain[n]]
  /\ \A n \in Node : /\ block_num(n) \in 0..MaxHeight
                     /\ chain[n] = TheChain(block_num(n))
  /\ last_random_no = [n \in Node |-> Rand(block_num(n))]

Objects ==
  /\ consensus = [n \in Node |-> consensus[n]]
  /\ from_bootstrap \in [Node -> BOOLEAN]
  /\ \A n \in Node :
       /\ ConsensusOK(consensus[n], block_num(n))
       /\ RoundOK(n)
       /\ n \in Master => consensus[n].verified
       /\ n \in Fresh /\ block_num(n) = 0 => from_bootstrap[n]

Traffic ==
  /\ share_net = [n \in Node |-> share_net[n]]
  /\ bls_future_shares = [n \in Node |-> bls_future_shares[n]]
  /\ block_net = [n \in Node |-> block_net[n]]
  /\ blocks = [n \in Node |-> blocks[n]]
  /\ \A n \in Node :
       /\ \A s \in share_net[n] \cup bls_future_shares[n] : ShareOK(s)
       /\ \A b \in block_net[n] \cup blocks[n] : BlockOK(b)

\* The P2P process is ahead of the main loop by the blocks it has not handed over.
Process ==
  /\ last_served_block = [n \in Node |-> block_num(n)]
  /\ num_block \in [Node -> 0..MaxHeight]
  /\ \A n \in Node :
       /\ block_num(n) <= num_block[n]
       /\ \E m \in Node : num_block[n] <= block_num(m)
       /\ \A b \in blocks[n] : BlockNumber(b) <= num_block[n]

\* No node is more than a block behind, a node that is behind can follow, and at
\* the block time no node is behind.
Abreast ==
  /\ age \in 0..BLOCK_TIME
  /\ \A m, n \in Node :
       /\ block_num(m) <= block_num(n) + 1
       /\ block_num(n) < block_num(m) => Ready(n)
       /\ age = BLOCK_TIME => block_num(m) = block_num(n) /\ Ready(n)

\* The signer of a block that anybody has, has it.
SignerFirst ==
  \A n \in Node : block_num(n) > 0 =>
    LET k == block_num(n) IN TheBlock(k).signer \in Node /\ block_num(TheBlock(k).signer) >= k

BInv == Chains /\ Objects /\ Traffic /\ Process /\ Abreast /\ SignerFirst

-----------------------------------------------------------------------------
(***************************************************************************)
(* The random numbers, the chains and a round's shares.                    *)
(***************************************************************************)

\* The hash of the group signature over the random number of block k and k is
\* the random number of the next block.
LEMMA RandStep == \A k \in Nat : Message(Rand(k), k) = Rand(k + 1)
<1>. SUFFICES ASSUME NEW k \in Nat PROVE Append(Rand(k), k) = Rand(k + 1)
  BY DEF Message
<1>1. Rand(k) \in Seq(Nat) /\ Len(Rand(k)) = k
  BY DEF Rand
<1>2. Append(Rand(k), k) \in Seq(Nat) /\ Len(Append(Rand(k), k)) = k + 1
  BY <1>1
<1>3. \A i \in 1..(k + 1) : Append(Rand(k), k)[i] = i - 1
  BY <1>1 DEF Rand
<1>. QED  BY <1>2, <1>3 DEF Rand

\* A chain that takes the block that it selects the signer of.
LEMMA ChainStep ==
  \A k \in Nat : /\ Len(TheChain(k)) = k
                 /\ Append(TheChain(k), TheBlock(k + 1)) = TheChain(k + 1)
<1>. SUFFICES ASSUME NEW k \in Nat
              PROVE  /\ Len(TheChain(k)) = k
                     /\ Append(TheChain(k), TheBlock(k + 1)) = TheChain(k + 1)
  OBVIOUS
<1>. DEFINE B == { TheBlock(i) : i \in Nat }
<1>1. \A i \in Nat : TheBlock(i) \in B
  OBVIOUS
<1>. HIDE DEF B
<1>2. TheChain(k) \in Seq(B) /\ Len(TheChain(k)) = k
  BY <1>1 DEF TheChain
<1>3. /\ Append(TheChain(k), TheBlock(k + 1)) \in Seq(B)
      /\ Len(Append(TheChain(k), TheBlock(k + 1))) = k + 1
  BY <1>1, <1>2
<1>4. \A i \in 1..(k + 1) : Append(TheChain(k), TheBlock(k + 1))[i] = TheBlock(i)
  BY <1>2 DEF TheChain
<1>. QED  BY <1>2, <1>3, <1>4 DEF TheChain

\* A share of the round is stored, and with the THRESHOLD-th the group signature
\* verifies: it is never made of shares of different messages.
LEMMA StoreShareOK ==
  ASSUME NEW k \in 0..MaxHeight, NEW c, ConsensusOK(c, k),
         NEW s, ShareOK(s), s.block_number = k
  PROVE  LET d == store_share(c, s, Rand(k + 1)) IN
         /\ ConsensusOK(d, k)
         /\ c.verified => d = c
         /\ ~c.verified /\ d.verified => d.random_no = Rand(k + 1) /\ Cardinality(d.shares) = THRESHOLD
         /\ d.shares = c.shares \/ d.shares = c.shares \cup {s}
         /\ (\A t \in c.shares : t.source # s.source) /\ ~c.verified => d.shares = c.shares \cup {s}
         /\ d.random_no \in {c.random_no, Rand(k + 1)}
<1>. DEFINE d == store_share(c, s, Rand(k + 1))
            got == c.shares \cup {s}
<1>1. CASE c.verified \/ \E t \in c.shares : t.source = s.source
  <2>1. d = c
    BY <1>1 DEF store_share
  <2>. QED  BY <1>1, <2>1
<1>2. CASE ~(c.verified \/ \E t \in c.shares : t.source = s.source)
  <2>0. c = [random_no |-> c.random_no, next_signer |-> c.next_signer, shares |-> c.shares,
             verified |-> c.verified, raised |-> c.raised]
    BY DEF ConsensusOK, IsConsensus
  <2>1. /\ IsFiniteSet(got) /\ Cardinality(got) = Cardinality(c.shares) + 1
        /\ Cardinality(c.shares) \in Nat /\ Cardinality(c.shares) < THRESHOLD
    BY <1>2, FS_AddElement, FS_CardinalityType DEF ConsensusOK, SharesOK
  <2>2. \A t \in got : t.signature = Rand(k + 1)
    BY DEF ConsensusOK, SharesOK, ShareOK
  <2>3. THRESHOLD \in Nat
    BY BlsAssumption
  <2>4. SharesOK(got, k)
    BY <1>2, <2>1, <2>3 DEF ConsensusOK, SharesOK
  <2>5. CASE Cardinality(got) >= THRESHOLD
    <3>1. d = [c EXCEPT !.shares = got, !.verified = TRUE, !.random_no = Rand(k + 1), !.raised = FALSE]
      BY <1>2, <2>2, <2>5 DEF store_share
    <3>2. d = [random_no |-> Rand(k + 1), next_signer |-> c.next_signer,
               shares |-> got, verified |-> TRUE, raised |-> FALSE]
      BY <2>0, <3>1
    <3>3. /\ IsConsensus(d) /\ d.random_no = Rand(k + 1) /\ d.next_signer = c.next_signer
          /\ d.shares = got /\ d.verified = TRUE
      <4>. HIDE DEF d, got
      <4>1. /\ d.random_no = Rand(k + 1) /\ d.next_signer = c.next_signer /\ d.shares = got
            /\ d.verified = TRUE /\ d.raised = FALSE
        BY <3>2
      <4>2. d = [random_no |-> d.random_no, next_signer |-> d.next_signer, shares |-> d.shares,
                 verified |-> d.verified, raised |-> d.raised]
        BY <3>2
      <4>. QED  BY <4>1, <4>2 DEF IsConsensus
    <3>4. Cardinality(got) = THRESHOLD
      BY <2>1, <2>3, <2>5
    <3>. HIDE DEF d
    <3>. QED  BY <1>2, <2>4, <3>3, <3>4 DEF ConsensusOK, d
  <2>6. CASE ~(Cardinality(got) >= THRESHOLD)
    <3>1. d = [c EXCEPT !.shares = got, !.verified = FALSE, !.random_no = c.random_no, !.raised = FALSE]
      BY <1>2, <2>2, <2>6 DEF store_share
    <3>2. d = [random_no |-> c.random_no, next_signer |-> c.next_signer,
               shares |-> got, verified |-> FALSE, raised |-> FALSE]
      BY <2>0, <3>1
    <3>3. /\ IsConsensus(d) /\ d.random_no = c.random_no /\ d.next_signer = c.next_signer
          /\ d.shares = got /\ d.verified = FALSE
      <4>. HIDE DEF d, got
      <4>1. /\ d.random_no = c.random_no /\ d.next_signer = c.next_signer /\ d.shares = got
            /\ d.verified = FALSE /\ d.raised = FALSE
        BY <3>2
      <4>2. d = [random_no |-> d.random_no, next_signer |-> d.next_signer, shares |-> d.shares,
                 verified |-> d.verified, raised |-> d.raised]
        BY <3>2
      <4>. QED  BY <4>1, <4>2 DEF IsConsensus
    <3>4. Cardinality(got) < THRESHOLD
      BY <2>1, <2>3, <2>6
    <3>. HIDE DEF d
    <3>. QED  BY <1>2, <2>4, <3>3, <3>4 DEF ConsensusOK, d
  <2>. QED  BY <2>5, <2>6
<1>. QED  BY <1>1, <1>2

\* The round after block k has just started: only the node's own shares are stored.
RoundStarted(c, n, k) ==
  /\ ConsensusOK(c, k)
  /\ c.verified => c.random_no = Rand(k + 1) /\ Cardinality(c.shares) = THRESHOLD
  /\ Cardinality(Keys[n]) >= THRESHOLD => c.verified

\* The object that has stored the node's own shares: the fold of store_share keeps
\* what each step keeps, and a node with keys enough has the group signature.
LEMMA CreateSharesOK ==
  ASSUME NEW n \in Node, NEW k \in 0..MaxHeight,
         NEW c, ConsensusOK(c, k), c.shares = {}, ~c.verified
  PROVE  RoundStarted(create_shares(c, n, Rand(k), k), n, k)
<1>. DEFINE S == new_shares(n, Rand(k), k)
            P(s) == CHOOSE z \in s : TRUE
            Pick == [s \in SUBSET S |-> P(s)]
            Type == [random_no : {c.random_no, Rand(k + 1)}, next_signer : {c.next_signer},
                     shares : SUBSET S, verified : BOOLEAN, raised : {FALSE}]
            D == { d \in Type : ConsensusOK(d, k) }
            Kept(s, d) == store_share(d, s, Message(Rand(k), k))
            Eq(it) == it = [s \in SUBSET S |-> IF s = {} THEN c ELSE Kept(P(s), it[s \ {P(s)}])]
            Own(d) == d.verified => d.random_no = Rand(k + 1) /\ Cardinality(d.shares) = THRESHOLD
<1>1. /\ \A s \in S : ShareOK(s) /\ s.block_number = k
      /\ \A s, t \in S : s.source = t.source => s = t
      /\ IsFiniteSet(S)
      /\ Cardinality(S) = Cardinality(Keys[n])
  <2>1. Message(Rand(k), k) = Rand(k + 1)
    BY RandStep
  <2>. DEFINE share(m) == [source |-> m, signature |-> Rand(k + 1), block_number |-> k]
              f == [m \in Keys[n] |-> share(m)]
  <2>2. S = { share(m) : m \in Keys[n] }
    BY <2>1 DEF new_shares
  <2>3. \A m \in Keys[n] : share(m) \in S
    BY <2>2
  <2>4. \A s \in S : \E m \in Keys[n] : s = share(m)
    BY <2>2
  <2>5. \A m : share(m).source = m
    OBVIOUS
  <2>6. \A m : ShareOK(share(m)) /\ share(m).block_number = k
    BY DEF ShareOK
  <2>7. f \in Bijection(Keys[n], S)
    <3>. HIDE DEF S, share
    <3>1. f \in Injection(Keys[n], S)
      BY <2>3, <2>5 DEF Injection, IsInjective
    <3>2. f \in Surjection(Keys[n], S)
      BY <2>3, <2>4 DEF Surjection
    <3>. QED  BY <3>1, <3>2 DEF Bijection
  <2>8. IsFiniteSet(Keys[n])
    BY BlsAssumption, FS_Subset
  <2>9. IsFiniteSet(S) /\ Cardinality(S) = Cardinality(Keys[n])
    <3>. HIDE DEF S, f
    <3>. QED  BY <2>7, <2>8, FS_Bijection DEF ExistsBijection
  <2>. HIDE DEF S, share
  <2>. QED  BY <2>4, <2>5, <2>6, <2>9
<1>2. create_shares(c, n, Rand(k), k) = (CHOOSE it : Eq(it))[S]
  BY DEF create_shares, FoldSet, MapThenFoldSet
<1>0. Message(Rand(k), k) = Rand(k + 1)
  BY RandStep
<1>3. \A s \in SUBSET S : s # {} => P(s) \in s /\ P(s) \in S
  OBVIOUS
<1>finite. IsFiniteSet(S)
  BY <1>1
<1>. HIDE DEF S, P
<1>4. \A d \in D, s \in S : Kept(s, d) \in D
  <2>. SUFFICES ASSUME NEW d \in D, NEW s \in S PROVE Kept(s, d) \in D
    OBVIOUS
  <2>. DEFINE e == Kept(s, d)
  <2>0. /\ ConsensusOK(d, k) /\ d.random_no \in {c.random_no, Rand(k + 1)}
        /\ d.shares \in SUBSET S /\ d.next_signer = c.next_signer
    OBVIOUS
  <2>. HIDE DEF D, Type
  <2>1. /\ ConsensusOK(e, k) /\ e.random_no \in {d.random_no, Rand(k + 1)}
        /\ e.shares = d.shares \/ e.shares = d.shares \cup {s}
    BY <1>0, <1>1, <2>0, StoreShareOK
  <2>. HIDE DEF e
  <2>2. /\ e = [random_no |-> e.random_no, next_signer |-> e.next_signer, shares |-> e.shares,
                verified |-> e.verified, raised |-> e.raised]
        /\ e.verified \in BOOLEAN /\ e.raised = FALSE
        /\ e.next_signer = c.next_signer
    BY <2>1 DEF ConsensusOK, IsConsensus
  <2>3. e.random_no \in {c.random_no, Rand(k + 1)} /\ e.shares \in SUBSET S
    BY <2>0, <2>1
  <2>4. e \in Type
    BY <2>2, <2>3 DEF Type
  <2>. QED  BY <2>1, <2>4 DEF e, D
<1>5. c \in D
  <2>1. c = [random_no |-> c.random_no, next_signer |-> c.next_signer, shares |-> c.shares,
             verified |-> c.verified, raised |-> c.raised]
    BY DEF ConsensusOK, IsConsensus
  <2>2. c.verified \in BOOLEAN /\ c.raised = FALSE /\ c.shares \in SUBSET S
    BY DEF ConsensusOK, IsConsensus
  <2>3. c \in Type
    BY <2>1, <2>2
  <2>. QED  BY <2>3
<1>6. \A d \in D : ConsensusOK(d, k)
  OBVIOUS
<1>. HIDE DEF D, Type
<1>7. \E it : Eq(it)
  <2>. DEFINE F == [p \in S \X D |-> Kept(p[1], p[2])]
  <2>1. F \in [S \X D -> D]
    <3>. HIDE DEF Kept
    <3>. QED  BY <1>4
  <2>2. Picks(Pick, S)
    BY <1>3 DEF Picks
  <2>3. \A s \in S, d \in D : F[<<s, d>>] = Kept(s, d)
    <3>. HIDE DEF Kept
    <3>. QED  OBVIOUS
  <2>4. \A s \in SUBSET S : Pick[s] = P(s)
    OBVIOUS
  <2>. HIDE DEF Kept, Pick, F
  <2>5. PICK it \in [SUBSET S -> D] :
          FoldsOver(it, S, c, Pick, F)
    BY <1>finite, <1>5, <2>1, <2>2, FoldExists
  <2>6. \A s \in SUBSET S : it[s] = IF s = {} THEN c ELSE Kept(P(s), it[s \ {P(s)}])
    <3>1. SUFFICES ASSUME NEW s \in SUBSET S
                   PROVE  it[s] = IF s = {} THEN c ELSE Kept(P(s), it[s \ {P(s)}])
      OBVIOUS
    <3>2. it[s] = IF s = {} THEN c ELSE F[<<P(s), it[s \ {P(s)}]>>]
      BY <2>4, <2>5 DEF FoldsOver
    <3>3. s # {} => P(s) \in S /\ it[s \ {P(s)}] \in D
      BY <1>3, <2>5
    <3>. QED  BY <2>3, <3>2, <3>3
  <2>7. it = [s \in SUBSET S |-> IF s = {} THEN c ELSE Kept(P(s), it[s \ {P(s)}])]
    BY <2>5, <2>6
  <2>. QED  BY <2>7
<1>8. PICK it : Eq(it) /\ create_shares(c, n, Rand(k), k) = it[S]
  <2>. HIDE DEF Eq
  <2>. QED  BY <1>2, <1>7
<1>9. it[S] \in D /\ Own(it[S]) /\ (~it[S].verified => it[S].shares = S)
  <2>. DEFINE Good(s) == /\ it[s] \in D /\ it[s].shares \subseteq s /\ Own(it[s])
                         /\ ~it[s].verified => it[s].shares = s
              G == { s \in SUBSET S : Good(s) }
  <2>0. /\ it[{}] = c
        /\ \A s \in SUBSET S : s # {} => it[s] = Kept(P(s), it[s \ {P(s)}])
    <3>. HIDE DEF Kept
    <3>. QED  BY <1>8
  <2>1. {} \in G
    BY <1>5, <2>0
  <2>2. ASSUME NEW s \in SUBSET S, s # {}, s \ {P(s)} \in G PROVE s \in G
    <3>. DEFINE d == it[s \ {P(s)}]
                e == it[s]
    <3>1. e = Kept(P(s), d) /\ P(s) \in s /\ P(s) \in S
      BY <1>3, <2>0, <2>2
    <3>2. Good(s \ {P(s)})
      BY <2>2
    <3>3. /\ d \in D /\ d.shares \subseteq s \ {P(s)} /\ Own(d)
          /\ ~d.verified => d.shares = s \ {P(s)}
      BY <3>2
    <3>4. \A t \in d.shares : t.source # P(s).source
      BY <1>1, <3>1, <3>3
    <3>5. e \in D /\ ConsensusOK(d, k) /\ ShareOK(P(s)) /\ P(s).block_number = k
      <4>. HIDE DEF Kept, d, e
      <4>. QED  BY <1>1, <1>4, <1>6, <3>1, <3>3
    <3>. HIDE DEF d, e, Own, Good
    <3>6. /\ d.verified => e = d
          /\ ~d.verified /\ e.verified => e.random_no = Rand(k + 1) /\ Cardinality(e.shares) = THRESHOLD
          /\ e.shares = d.shares \/ e.shares = d.shares \cup {P(s)}
          /\ ~d.verified => e.shares = d.shares \cup {P(s)}
      BY <1>0, <3>1, <3>4, <3>5, StoreShareOK
    <3>7. Own(e)
      BY <3>3, <3>6 DEF Own
    <3>8. e.shares \subseteq s /\ (~e.verified => e.shares = s)
      BY <3>1, <3>3, <3>6
    <3>. QED  BY <3>5, <3>7, <3>8 DEF e, Good
  <2>3. \A s \in SUBSET S : s # {} => \E x \in s : s \ {x} \in G => s \in G
    <3>. HIDE DEF G
    <3>. QED  BY <1>3, <2>2
  <2>4. S \in G
    <3>. HIDE DEF G
    <3>. QED  BY <1>finite, <2>1, <2>3, SubsetInduct
  <2>. QED  BY <2>4
<1>10. ~it[S].verified => Cardinality(Keys[n]) < THRESHOLD
  BY <1>1, <1>6, <1>9 DEF ConsensusOK
<1>11. Cardinality(Keys[n]) \in Nat /\ THRESHOLD \in Nat
  BY BlsAssumption, FS_Subset, FS_CardinalityType
<1>. QED  BY <1>6, <1>8, <1>9, <1>10, <1>11 DEF RoundStarted

\* An object whose round is reset, with the random number of block k.
LEMMA ResetOK ==
  ASSUME NEW k \in 0..MaxHeight, NEW c,
         c = [random_no |-> Rand(k), next_signer |-> Elected(Rand(k), k), shares |-> {},
              verified |-> FALSE, raised |-> FALSE]
  PROVE  ConsensusOK(c, k) /\ c.shares = {} /\ ~c.verified
<1>1. /\ c.random_no = Rand(k) /\ c.next_signer = Elected(Rand(k), k) /\ c.shares = {}
      /\ c.verified = FALSE /\ c.raised = FALSE
  OBVIOUS
<1>2. c = [random_no |-> c.random_no, next_signer |-> c.next_signer, shares |-> c.shares,
           verified |-> c.verified, raised |-> c.raised]
  OBVIOUS
<1>3. IsConsensus(c)
  BY <1>1, <1>2 DEF IsConsensus
<1>4. SharesOK(c.shares, k) /\ Cardinality(c.shares) < THRESHOLD
  BY <1>1, BlsAssumption, FS_EmptySet DEF SharesOK
<1>. QED  BY <1>1, <1>3, <1>4 DEF ConsensusOK

\* After block k a node that has its random number, or takes it from the block,
\* starts the round of block k.
LEMMA AfterBlockOK ==
  ASSUME NEW n \in Node, NEW k \in 0..MaxHeight, NEW c, IsConsensus(c),
         NEW bootstrap \in BOOLEAN, bootstrap \/ c.random_no = Rand(k)
  PROVE  RoundStarted(after_block(c, n, k, Rand(k), bootstrap), n, k)
<1>. DEFINE d == IF bootstrap THEN [c EXCEPT !.random_no = Rand(k)] ELSE c
            e == calculate_next_signer(d, k)
            f == reset_bls(e)
<1>1. c = [random_no |-> c.random_no, next_signer |-> c.next_signer, shares |-> c.shares,
           verified |-> c.verified, raised |-> c.raised]
  BY DEF IsConsensus
<1>2. d = [random_no |-> Rand(k), next_signer |-> c.next_signer, shares |-> c.shares,
           verified |-> c.verified, raised |-> FALSE]
  <2>1. CASE bootstrap
    <3>1. d = [c EXCEPT !.random_no = Rand(k)]
      BY <2>1
    <3>. HIDE DEF d
    <3>2. d = [random_no |-> Rand(k), next_signer |-> c.next_signer, shares |-> c.shares,
               verified |-> c.verified, raised |-> c.raised]
      BY <1>1, <3>1
    <3>. QED  BY <3>2 DEF IsConsensus
  <2>2. CASE ~bootstrap
    <3>1. d = c /\ c.random_no = Rand(k)
      BY <2>2
    <3>. HIDE DEF d
    <3>2. c.raised = FALSE
      BY DEF IsConsensus
    <3>. QED  BY <1>1, <3>1, <3>2, Zenon
  <2>. QED  BY <2>1, <2>2
<1>3. after_block(c, n, k, Rand(k), bootstrap) = create_shares(f, n, Rand(k), k)
  BY DEF after_block
<1>. HIDE DEF d
<1>4. d.random_no = Rand(k)
  BY <1>2
<1>5. e = [d EXCEPT !.next_signer = Elected(Rand(k), k)]
  BY <1>4 DEF calculate_next_signer
<1>6. e = [random_no |-> Rand(k), next_signer |-> Elected(Rand(k), k), shares |-> c.shares,
           verified |-> c.verified, raised |-> FALSE]
  BY <1>2, <1>5
<1>. HIDE DEF e
<1>7. f = [random_no |-> Rand(k), next_signer |-> Elected(Rand(k), k), shares |-> {},
           verified |-> FALSE, raised |-> FALSE]
  <2>1. f = [e EXCEPT !.shares = {}, !.verified = FALSE]
    BY DEF reset_bls
  <2>. HIDE DEF f
  <2>. QED  BY <1>6, <2>1
<1>. HIDE DEF f
<1>8. ConsensusOK(f, k) /\ f.shares = {} /\ ~f.verified
  BY <1>7, ResetOK
<1>. QED  BY <1>3, <1>8, CreateSharesOK

\* What a node signs after block k is a share of the round of block k.
LEMMA NewSharesOK ==
  ASSUME NEW n \in Node, NEW k \in 0..MaxHeight
  PROVE  \A s \in new_shares(n, Rand(k), k) : ShareOK(s)
<1>1. Message(Rand(k), k) = Rand(k + 1)
  BY RandStep
<1>. QED  BY <1>1 DEF new_shares, ShareOK

\* The chain before the first block, and its random number.
LEMMA Start == Rand(0) = <<>> /\ TheChain(0) = <<>>
BY DEF Rand, TheChain

-----------------------------------------------------------------------------
(***************************************************************************)
(* The invariant holds at the start, and every action keeps it.            *)
(***************************************************************************)

\* Block 0 is on every chain, and the first round has started.
LEMMA InitBInv ==
  ASSUME Rounds, Init
  PROVE  BInv
<1>0. 0 \in 0..MaxHeight
  BY BlsAssumption
<1>1. \A n \in Node : block_num(n) = 0
  BY DEF Init, block_num
<1>2. Chains
  <2>1. \A n \in Node : chain[n] = TheChain(block_num(n))
    BY <1>1, Start DEF Init
  <2>2. last_random_no = [n \in Node |-> Rand(block_num(n))]
    BY <1>1, Start DEF Init
  <2>3. chain = [n \in Node |-> chain[n]]
    BY DEF Init
  <2>. QED  BY <1>0, <1>1, <2>1, <2>2, <2>3 DEF Chains
<1>3. Objects
  <2>. DEFINE c == [random_no |-> <<>>, next_signer |-> Elected(<<>>, 0), shares |-> {},
                    verified |-> TRUE, raised |-> FALSE]
  <2>1. c = [random_no |-> Rand(0), next_signer |-> Elected(Rand(0), 0), shares |-> {},
             verified |-> TRUE, raised |-> FALSE]
    BY Start
  <2>2. consensus = [n \in Node |-> IF n \in Fresh THEN c
                                    ELSE create_shares(reset_bls(c), n, <<>>, 0)]
    BY DEF Init
  <2>. HIDE DEF c
  <2>3. \A n \in Fresh : n \in Node /\ n \notin Master
    BY BlsAssumption
  <2>4. ASSUME NEW n \in Fresh
        PROVE  ConsensusOK(consensus[n], 0) /\ RoundOK(n) /\ consensus[n].verified
    <3>1. consensus[n] = c
      BY <2>2, <2>3
    <3>2. /\ c.next_signer = Elected(Rand(0), 0) /\ c.shares = {}
          /\ c.verified = TRUE /\ c.raised = FALSE
      BY <2>1
    <3>3. c = [random_no |-> c.random_no, next_signer |-> c.next_signer, shares |-> c.shares,
               verified |-> c.verified, raised |-> c.raised]
      BY <2>1
    <3>4. IsConsensus(c)
      BY <3>2, <3>3 DEF IsConsensus
    <3>5. SharesOK(c.shares, 0)
      BY <3>2, BlsAssumption, FS_EmptySet DEF SharesOK
    <3>6. ConsensusOK(c, 0)
      BY <3>2, <3>4, <3>5 DEF ConsensusOK
    <3>. QED  BY <1>1, <2>3, <3>1, <3>2, <3>6 DEF RoundOK
  <2>5. ASSUME NEW n \in Node \ Fresh PROVE RoundStarted(consensus[n], n, 0)
    <3>. DEFINE d == reset_bls(c)
    <3>1. consensus[n] = create_shares(d, n, Rand(0), 0)
      BY <2>2, Start
    <3>2. d = [random_no |-> Rand(0), next_signer |-> Elected(Rand(0), 0), shares |-> {},
               verified |-> FALSE, raised |-> FALSE]
      <4>1. d = [c EXCEPT !.shares = {}, !.verified = FALSE]
        BY DEF reset_bls
      <4>. HIDE DEF d
      <4>. QED  BY <2>1, <4>1
    <3>. HIDE DEF d
    <3>3. ConsensusOK(d, 0) /\ d.shares = {} /\ ~d.verified
      BY <1>0, <3>2, ResetOK
    <3>. QED  BY <1>0, <3>1, <3>3, CreateSharesOK
  <2>6. from_bootstrap \in [Node -> BOOLEAN] /\ \A n \in Fresh : n \in Node => from_bootstrap[n]
    <3>1. from_bootstrap = [n \in Node |-> n \in Fresh]
      BY DEF Init
    <3>2. [n \in Node |-> n \in Fresh] \in [Node -> BOOLEAN]
      OBVIOUS
    <3>3. \A n \in Node : n \in Fresh => from_bootstrap[n]
      BY <3>1, Zenon
    <3>. QED  BY <3>1, <3>2, <3>3, Zenon
  <2>7. consensus = [n \in Node |-> consensus[n]]
    <3>1. \E F : consensus = [n \in Node |-> IF n \in Fresh THEN c ELSE F[n]]
      <4>. DEFINE F == [n \in Node |-> create_shares(reset_bls(c), n, <<>>, 0)]
      <4>1. consensus = [n \in Node |-> IF n \in Fresh THEN c ELSE F[n]]
        BY <2>2
      <4>. QED  BY <4>1
    <3>. QED  BY <3>1
  <2>8. ASSUME NEW n \in Node
        PROVE  /\ ConsensusOK(consensus[n], block_num(n))
               /\ RoundOK(n)
               /\ n \in Master => consensus[n].verified
               /\ n \in Fresh /\ block_num(n) = 0 => from_bootstrap[n]
    <3>1. CASE n \in Fresh
      BY <1>1, <2>3, <2>4, <2>6, <3>1
    <3>2. CASE n \notin Fresh
      BY <1>1, <2>5, <3>2 DEF RoundStarted, RoundOK, Rounds
    <3>. QED  BY <3>1, <3>2
  <2>. QED  BY <2>6, <2>7, <2>8 DEF Objects
<1>4. Traffic
  <2>1. \A n \in Node : \A s \in new_shares(n, Rand(0), 0) : ShareOK(s)
    BY <1>0, NewSharesOK
  <2>2. share_net = [n \in Node |-> UNION { new_shares(m, Rand(0), 0) : m \in Node \ {n} }]
    BY Start DEF Init
  <2>3. share_net = [n \in Node |-> share_net[n]]
    BY <2>2
  <2>4. \A n \in Node : \A s \in share_net[n] : ShareOK(s)
    BY <2>1, <2>2
  <2>5. /\ bls_future_shares = [n \in Node |-> {}]
        /\ block_net = [n \in Node |-> {}]
        /\ blocks = [n \in Node |-> {}]
    BY DEF Init
  <2>. QED  BY <2>3, <2>4, <2>5 DEF Traffic
<1>5. Process
  <2>1. /\ last_served_block = [n \in Node |-> 0]
        /\ num_block = [n \in Node |-> 0]
        /\ blocks = [n \in Node |-> {}]
    BY DEF Init
  <2>. QED  BY <1>0, <1>1, <2>1 DEF Process
<1>6. Abreast
  <2>1. age = 0
    BY DEF Init
  <2>. QED  BY <1>1, <2>1, BlsAssumption DEF Abreast
<1>7. SignerFirst
  BY <1>1 DEF SignerFirst
<1>. QED  BY <1>2, <1>3, <1>4, <1>5, <1>6, <1>7 DEF BInv

\* A block that some chain may have stays one, chains only grow.
LEMMA BlockStaysOK ==
  ASSUME NEW b, BlockOK(b),
         \A m \in Node : /\ block_num(m) \in Nat /\ block_num(m)' \in Nat
                         /\ block_num(m) <= block_num(m)'
  PROVE  BlockOK(b)'
<1>1. PICK k \in 1..MaxHeight :
        /\ b = [prev |-> TheChain(k - 1), random_no |-> TheBlock(k).random_no,
                signer |-> TheBlock(k).signer]
        /\ b.signer \in Node /\ block_num(b.signer) >= k
  BY DEF BlockOK
<1>2. block_num(b.signer)' >= k
  BY <1>1
<1>. QED  BY <1>1, <1>2 DEF BlockOK

\* Time passes; at the block time every node has the newest block and can follow.
LEMMA TickBInv ==
  ASSUME Rounds, BInv, Tick
  PROVE  BInv'
<1>1. /\ age < BLOCK_TIME /\ age' = age + 1
      /\ UNCHANGED <<chain, consensus, last_random_no, from_bootstrap, bls_share_cache,
                     bls_future_shares, num_block, last_served_block, blocks, share_net, block_net>>
      /\ age + 1 = BLOCK_TIME => \A n \in Node : Prepared(n)
  BY DEF Tick, Rounds, mainvars, cachevars, p2pvars, netvars
<1>2. \A n : block_num(n)' = block_num(n)
  BY <1>1 DEF block_num
<1>3. Chains'
  BY <1>1, <1>2 DEF BInv, Chains
<1>4. Objects'
  BY <1>1, <1>2 DEF BInv, Objects, RoundOK
<1>5. Traffic'
  BY <1>1, <1>2 DEF BInv, Traffic, BlockOK
<1>6. Process'
  BY <1>1, <1>2 DEF BInv, Process
<1>7. Abreast'
  <2>1. age' \in 0..BLOCK_TIME
    BY <1>1, BlsAssumption DEF BInv, Abreast
  <2>2. ASSUME NEW m \in Node, NEW n \in Node
        PROVE  /\ block_num(m) <= block_num(n) + 1
               /\ block_num(n) < block_num(m) => Ready(n)
               /\ age' = BLOCK_TIME => block_num(m) = block_num(n) /\ Ready(n)
    <3>1. /\ block_num(m) <= block_num(n) + 1
          /\ block_num(n) < block_num(m) => Ready(n)
      BY DEF BInv, Abreast
    <3>2. ASSUME age' = BLOCK_TIME PROVE block_num(m) = block_num(n) /\ Ready(n)
      <4>1. Prepared(m) /\ Prepared(n)
        BY <1>1, <3>2
      <4>2. block_num(m) <= block_num(n) /\ block_num(n) <= block_num(m)
        BY <4>1 DEF Prepared
      <4>3. block_num(m) \in Nat /\ block_num(n) \in Nat
        BY DEF BInv, Chains
      <4>4. Ready(n)
        BY <4>1 DEF Prepared, Ready, BInv, Objects
      <4>. QED  BY <4>2, <4>3, <4>4
    <3>. QED  BY <3>1, <3>2
  <2>. QED  BY <1>1, <1>2, <2>1, <2>2 DEF Abreast, Ready
<1>8. SignerFirst'
  BY <1>1, <1>2 DEF BInv, SignerFirst
<1>. QED  BY <1>3, <1>4, <1>5, <1>6, <1>7, <1>8 DEF BInv

\* A node goes to bootstrap mode: it can follow the next block.
LEMMA NearBlockTimeBInv ==
  ASSUME Rounds, BInv, NEW n \in Node, NearBlockTime(n)
  PROVE  BInv'
<1>1. /\ from_bootstrap' = [from_bootstrap EXCEPT ![n] = TRUE]
      /\ UNCHANGED <<chain, consensus, last_random_no, bls_share_cache, bls_future_shares, num_block,
                     last_served_block, blocks, share_net, block_net, age>>
  BY DEF NearBlockTime, cachevars, p2pvars, netvars
<1>2. \A m : block_num(m)' = block_num(m)
  BY <1>1 DEF block_num
<1>3. /\ from_bootstrap' \in [Node -> BOOLEAN]
      /\ \A m \in Node : from_bootstrap[m] => from_bootstrap'[m]
  <2>1. from_bootstrap \in [Node -> BOOLEAN]
    BY DEF BInv, Objects
  <2>2. \A m \in Node : from_bootstrap[m] => from_bootstrap'[m]
    BY <1>1, <2>1, Zenon
  <2>. QED  BY <1>1, <2>1, <2>2
<1>4. Chains'
  BY <1>1, <1>2 DEF BInv, Chains
<1>5. Objects'
  BY <1>1, <1>2, <1>3 DEF BInv, Objects, RoundOK
<1>6. Traffic'
  BY <1>1, <1>2 DEF BInv, Traffic, BlockOK
<1>7. Process'
  BY <1>1, <1>2 DEF BInv, Process
<1>8. Abreast'
  BY <1>1, <1>2, <1>3 DEF BInv, Abreast, Ready
<1>9. SignerFirst'
  BY <1>1, <1>2 DEF BInv, SignerFirst
<1>. QED  BY <1>4, <1>5, <1>6, <1>7, <1>8, <1>9 DEF BInv

\* The P2P process accepts the next block, which its signer has.
LEMMA BlockArrivesBInv ==
  ASSUME Rounds, BInv, NEW n \in Node, NEW b \in block_net[n], BlockArrives(n, b)
  PROVE  BInv'
<1>1. /\ block_net' = [block_net EXCEPT ![n] = @ \ {b}]
      /\ UNCHANGED <<chain, consensus, last_random_no, from_bootstrap, bls_share_cache,
                     bls_future_shares, last_served_block, share_net, age>>
      /\ \/ /\ num_block[n] = BlockNumber(b) - 1
            /\ blocks' = [blocks EXCEPT ![n] = @ \cup {b}]
            /\ num_block' = [num_block EXCEPT ![n] = @ + 1]
         \/ UNCHANGED <<blocks, num_block>>
  BY DEF BlockArrives, mainvars, cachevars
<1>2. \A m : block_num(m)' = block_num(m)
  BY <1>1 DEF block_num
<1>3. Chains'
  BY <1>1, <1>2 DEF BInv, Chains
<1>4. Objects'
  BY <1>1, <1>2 DEF BInv, Objects, RoundOK
<1>5. /\ block_net = [m \in Node |-> block_net[m]] /\ blocks = [m \in Node |-> blocks[m]]
      /\ num_block \in [Node -> 0..MaxHeight]
      /\ BlockOK(b)
  BY DEF BInv, Traffic, Process
<1>6. \A c : BlockOK(c)' <=> BlockOK(c)
  BY <1>2 DEF BlockOK
<1>7. /\ block_net' = [m \in Node |-> block_net'[m]] /\ blocks' = [m \in Node |-> blocks'[m]]
      /\ \A m \in Node : block_net'[m] \subseteq block_net[m]
      /\ \A m \in Node : blocks'[m] \subseteq blocks[m] \cup block_net[m]
  BY <1>1, <1>5
<1>8. Traffic'
  BY <1>1, <1>6, <1>7 DEF BInv, Traffic
<1>9. Process'
  <2>1. CASE UNCHANGED <<blocks, num_block>>
    BY <1>1, <1>2, <2>1 DEF BInv, Process
  <2>2. CASE /\ num_block[n] = BlockNumber(b) - 1
             /\ blocks' = [blocks EXCEPT ![n] = @ \cup {b}]
             /\ num_block' = [num_block EXCEPT ![n] = @ + 1]
    <3>1. PICK k \in 1..MaxHeight :
            /\ b.prev = TheChain(k - 1)
            /\ b.signer \in Node /\ block_num(b.signer) >= k
      BY <1>5 DEF BlockOK
    <3>2. BlockNumber(b) = k
      <4>1. k - 1 \in Nat
        OBVIOUS
      <4>2. Len(TheChain(k - 1)) = k - 1
        BY <4>1, ChainStep
      <4>. QED  BY <3>1, <4>2 DEF BlockNumber
    <3>3. num_block'[n] = k /\ num_block[n] = k - 1 /\ k \in 0..MaxHeight
      BY <1>5, <2>2, <3>2
    <3>4. \A m \in Node : m # n => num_block'[m] = num_block[m] /\ blocks'[m] = blocks[m]
      BY <1>5, <2>2
    <3>5. num_block' \in [Node -> 0..MaxHeight]
      BY <1>5, <2>2, <3>3
    <3>6. ASSUME NEW m \in Node
          PROVE  /\ block_num(m) <= num_block'[m]
                 /\ \E h \in Node : num_block'[m] <= block_num(h)
                 /\ \A c \in blocks'[m] : BlockNumber(c) <= num_block'[m]
      <4>1. /\ block_num(m) <= num_block[m]
            /\ \E h \in Node : num_block[m] <= block_num(h)
            /\ \A c \in blocks[m] : BlockNumber(c) <= num_block[m]
        BY DEF BInv, Process
      <4>2. CASE m # n
        BY <3>4, <4>1, <4>2
      <4>3. CASE m = n
        <5>1. block_num(n) \in Nat
          BY DEF BInv, Chains
        <5>2. block_num(n) <= num_block'[n]
          BY <3>3, <4>1, <4>3, <5>1
        <5>3. \E h \in Node : num_block'[n] <= block_num(h)
          BY <3>1, <3>3
        <5>4. \A c \in blocks[n] : BlockNumber(c) \in Nat
          BY <4>3, ChainStep DEF BInv, Traffic, BlockOK, BlockNumber
        <5>5. \A c \in blocks'[n] : c = b \/ c \in blocks[n]
          BY <1>5, <2>2
        <5>6. \A c \in blocks'[n] : BlockNumber(c) <= num_block'[n]
          BY <3>2, <3>3, <4>1, <4>3, <5>4, <5>5
        <5>. QED  BY <4>3, <5>2, <5>3, <5>6
      <4>. QED  BY <4>2, <4>3
    <3>7. last_served_block' = [m \in Node |-> block_num(m)']
      BY <1>1, <1>2 DEF BInv, Process
    <3>. QED  BY <1>2, <3>5, <3>6, <3>7 DEF Process
  <2>. QED  BY <1>1, <2>1, <2>2
<1>10. Abreast'
  BY <1>1, <1>2 DEF BInv, Abreast, Ready
<1>11. SignerFirst'
  BY <1>1, <1>2 DEF BInv, SignerFirst
<1>. QED  BY <1>3, <1>4, <1>8, <1>9, <1>10, <1>11 DEF BInv

\* A node stores a share of its round, or does nothing with it: the object stays
\* right, and a group signature that is there stays there.
LEMMA ShareStored ==
  ASSUME Rounds, BInv, NEW n \in Node, NEW share, ShareOK(share), share.block_number = block_num(n),
         consensus' = [consensus EXCEPT
                         ![n] = store_share(@, share, Message(last_random_no[n], block_num(n)))],
         UNCHANGED <<chain, from_bootstrap>>
  PROVE  Objects' /\ \A m \in Node : consensus[m].verified => consensus'[m].verified
<1>. DEFINE k == block_num(n)
            c == consensus[n]
            d == store_share(c, share, Rand(k + 1))
<1>1. /\ k \in 0..MaxHeight
      /\ last_random_no[n] = Rand(k)
      /\ consensus = [m \in Node |-> consensus[m]]
      /\ ConsensusOK(c, k) /\ RoundOK(n)
  BY DEF BInv, Chains, Objects
<1>2. Message(Rand(k), k) = Rand(k + 1)
  BY <1>1, RandStep
<1>3. consensus' = [consensus EXCEPT ![n] = d]
  BY <1>1, <1>2
<1>4. /\ ConsensusOK(d, k)
      /\ c.verified => d = c
      /\ ~c.verified /\ d.verified => d.random_no = Rand(k + 1) /\ Cardinality(d.shares) = THRESHOLD
  <2>. HIDE DEF k, c
  <2>1. share.block_number = k
    BY DEF k
  <2>. QED  BY <1>1, <2>1, StoreShareOK
<1>. HIDE DEF d
<1>5. /\ consensus' = [m \in Node |-> consensus'[m]] /\ consensus'[n] = d
      /\ \A m \in Node : m # n => consensus'[m] = consensus[m]
  BY <1>1, <1>3
<1>6. \A m : block_num(m)' = block_num(m)
  BY DEF block_num
<1>7. ASSUME NEW m \in Node
      PROVE  /\ ConsensusOK(consensus'[m], block_num(m))
             /\ RoundOK(m)'
             /\ consensus[m].verified => consensus'[m].verified
  <2>1. ConsensusOK(consensus[m], block_num(m)) /\ RoundOK(m)
    BY DEF BInv, Objects
  <2>2. CASE m # n
    BY <1>5, <1>6, <2>1, <2>2 DEF RoundOK
  <2>3. CASE m = n
    BY <1>1, <1>4, <1>5, <1>6, <2>3 DEF RoundOK
  <2>. QED  BY <2>2, <2>3
<1>8. /\ from_bootstrap' \in [Node -> BOOLEAN]
      /\ \A m \in Node : /\ m \in Master => consensus'[m].verified
                         /\ m \in Fresh /\ block_num(m)' = 0 => from_bootstrap'[m]
  BY <1>6, <1>7 DEF BInv, Objects
<1>. QED  BY <1>5, <1>6, <1>7, <1>8 DEF Objects

\* What a step leaves of the invariant that only touches shares.
LEMMA SharesOnly ==
  ASSUME Rounds, BInv, Objects', \A m \in Node : consensus[m].verified => consensus'[m].verified,
         UNCHANGED <<chain, last_random_no, from_bootstrap, num_block, last_served_block, blocks,
                     block_net, age>>,
         share_net' = [m \in Node |-> share_net'[m]],
         bls_future_shares' = [m \in Node |-> bls_future_shares'[m]],
         \A m \in Node : \A s \in share_net'[m] \cup bls_future_shares'[m] : ShareOK(s)
  PROVE  BInv'
<1>1. \A m : block_num(m)' = block_num(m)
  BY DEF block_num
<1>2. Chains'
  BY <1>1 DEF BInv, Chains
<1>3. \A b : BlockOK(b)' <=> BlockOK(b)
  BY <1>1 DEF BlockOK
<1>4. Traffic'
  BY <1>3 DEF BInv, Traffic
<1>5. Process'
  BY <1>1 DEF BInv, Process
<1>6. Abreast'
  BY <1>1 DEF BInv, Abreast, Ready
<1>7. SignerFirst'
  BY <1>1 DEF BInv, SignerFirst
<1>. QED  BY <1>2, <1>4, <1>5, <1>6, <1>7 DEF BInv

\* The share section: the share is of the node's round, of a later one, or too late.
LEMMA ReceiveShareBInv ==
  ASSUME Rounds, BInv, NEW n \in Node, NEW share \in share_net[n], ReceiveShare(n, share)
  PROVE  BInv'
<1>. DEFINE new == share \notin bls_share_cache[n]
            rest == [share_net EXCEPT ![n] = @ \ {share}]
<1>1. /\ consensus' =
           IF new /\ share_due(share, block_num(n))
           THEN [consensus EXCEPT
                   ![n] = store_share(@, share, Message(last_random_no[n], block_num(n)))]
           ELSE consensus
      /\ bls_future_shares' = [bls_future_shares EXCEPT ![n] = store_future_bls(@, share)]
           \/ bls_future_shares' = bls_future_shares
      /\ share_net' = IF new THEN relay(rest, n, share) ELSE rest
      /\ UNCHANGED <<chain, last_random_no, from_bootstrap, num_block, last_served_block, blocks,
                     block_net, age>>
  BY DEF ReceiveShare, p2pvars
<1>2. /\ share_net = [m \in Node |-> share_net[m]]
      /\ bls_future_shares = [m \in Node |-> bls_future_shares[m]]
      /\ \A m \in Node : \A s \in share_net[m] \cup bls_future_shares[m] : ShareOK(s)
      /\ ShareOK(share)
  BY DEF BInv, Traffic
<1>3. Objects' /\ \A m \in Node : consensus[m].verified => consensus'[m].verified
  <2>1. CASE new /\ share_due(share, block_num(n))
    BY <1>1, <1>2, <2>1, ShareStored DEF share_due
  <2>2. CASE ~(new /\ share_due(share, block_num(n)))
    <3>1. consensus' = consensus
      BY <1>1, <2>2
    <3>2. \A m : block_num(m)' = block_num(m)
      BY <1>1 DEF block_num
    <3>. QED  BY <1>1, <3>1, <3>2 DEF BInv, Objects, RoundOK
  <2>. QED  BY <2>1, <2>2
<1>4. /\ share_net' = [m \in Node |-> share_net'[m]]
      /\ \A m \in Node : share_net'[m] \subseteq share_net[m] \cup {share}
  BY <1>1, <1>2 DEF relay
<1>5. /\ bls_future_shares' = [m \in Node |-> bls_future_shares'[m]]
      /\ \A m \in Node : bls_future_shares'[m] \subseteq bls_future_shares[m] \cup {share}
  BY <1>1, <1>2 DEF store_future_bls
<1>6. \A m \in Node : \A s \in share_net'[m] \cup bls_future_shares'[m] : ShareOK(s)
  BY <1>2, <1>4, <1>5
<1>. QED  BY <1>1, <1>3, <1>4, <1>5, <1>6, SharesOnly

\* A share that came early is taken up in its round.
LEMMA TakeFutureShareBInv ==
  ASSUME Rounds, BInv, NEW n \in Node, NEW share \in bls_future_shares[n],
         TakeFutureShare(n, share)
  PROVE  BInv'
<1>1. /\ share.block_number = block_num(n)
      /\ bls_future_shares' = [bls_future_shares EXCEPT ![n] = @ \ {share}]
      /\ consensus' = [consensus EXCEPT
                         ![n] = store_share(@, share, Message(last_random_no[n], block_num(n)))]
      /\ UNCHANGED <<chain, last_random_no, from_bootstrap, num_block, last_served_block, blocks,
                     share_net, block_net, age>>
  BY DEF TakeFutureShare, p2pvars, netvars
<1>2. /\ share_net = [m \in Node |-> share_net[m]]
      /\ bls_future_shares = [m \in Node |-> bls_future_shares[m]]
      /\ \A m \in Node : \A s \in share_net[m] \cup bls_future_shares[m] : ShareOK(s)
      /\ ShareOK(share)
  BY DEF BInv, Traffic
<1>3. Objects' /\ \A m \in Node : consensus[m].verified => consensus'[m].verified
  BY <1>1, <1>2, ShareStored
<1>4. /\ bls_future_shares' = [m \in Node |-> bls_future_shares'[m]]
      /\ \A m \in Node : bls_future_shares'[m] \subseteq bls_future_shares[m]
  BY <1>1, <1>2
<1>. QED  BY <1>1, <1>2, <1>3, <1>4, SharesOnly

\* The chain of a node takes the next block and the node starts its round, while the
\* others have that block or are ready for it.
LEMMA Extended ==
  ASSUME Rounds, BInv, NEW n \in Node, NEW k \in Nat, k = block_num(n), k + 1 <= MaxHeight,
         chain' = [chain EXCEPT ![n] = TheChain(k + 1)],
         last_random_no' = [last_random_no EXCEPT ![n] = Rand(k + 1)],
         last_served_block' = [last_served_block EXCEPT ![n] = @ + 1],
         NEW d, RoundStarted(d, n, k + 1), consensus' = [consensus EXCEPT ![n] = d],
         from_bootstrap' \in [Node -> BOOLEAN],
         \A m \in Node : m # n => from_bootstrap'[m] = from_bootstrap[m],
         share_net' = broadcast(share_net, n, new_shares(n, Rand(k + 1), k + 1)),
         \A m \in Node : block_num(m) \in {k, k + 1} /\ (m # n /\ block_num(m) = k => Ready(m)),
         TheBlock(k + 1).signer \in Node,
         TheBlock(k + 1).signer = n \/ block_num(TheBlock(k + 1).signer) >= k + 1,
         age' \in 0..BLOCK_TIME, age' # BLOCK_TIME
  PROVE  /\ Chains' /\ Objects' /\ Abreast' /\ SignerFirst'
         /\ last_served_block' = [m \in Node |-> block_num(m)']
         /\ share_net' = [m \in Node |-> share_net'[m]]
         /\ \A m \in Node : \A s \in share_net'[m] : ShareOK(s)
         /\ block_num(n)' = k + 1
         /\ \A m \in Node : /\ m # n => block_num(m)' = block_num(m)
                            /\ block_num(m) \in Nat /\ block_num(m)' \in Nat
                            /\ block_num(m) <= block_num(m)'
<1>0. /\ k + 1 \in 0..MaxHeight /\ MaxHeight \in Nat
      /\ Len(TheChain(k + 1)) = k + 1
  <2>1. k + 1 \in Nat
    OBVIOUS
  <2>2. Len(TheChain(k + 1)) = k + 1
    BY <2>1, ChainStep
  <2>. QED  BY <2>1, <2>2, BlsAssumption
<1>1. /\ chain = [m \in Node |-> chain[m]]
      /\ \A m \in Node : block_num(m) \in 0..MaxHeight /\ chain[m] = TheChain(block_num(m))
      /\ last_random_no = [m \in Node |-> Rand(block_num(m))]
      /\ consensus = [m \in Node |-> consensus[m]]
      /\ last_served_block = [m \in Node |-> block_num(m)]
      /\ share_net = [m \in Node |-> share_net[m]]
      /\ \A m \in Node : \A s \in share_net[m] : ShareOK(s)
  BY DEF BInv, Chains, Objects, Process, Traffic
<1>2. /\ chain' = [m \in Node |-> chain'[m]]
      /\ chain'[n] = TheChain(k + 1)
      /\ \A m \in Node : m # n => chain'[m] = chain[m]
      /\ consensus' = [m \in Node |-> consensus'[m]]
      /\ consensus'[n] = d
      /\ \A m \in Node : m # n => consensus'[m] = consensus[m]
  BY <1>1
<1>3. block_num(n)' = k + 1 /\ \A m \in Node : m # n => block_num(m)' = block_num(m)
  BY <1>0, <1>2 DEF block_num
<1>4. \A m \in Node : /\ block_num(m) \in Nat /\ block_num(m)' \in Nat
                      /\ block_num(m)' \in 0..MaxHeight
                      /\ block_num(m) <= block_num(m)'
  BY <1>0, <1>1, <1>3
<1>5. Chains'
  <2>1. ASSUME NEW m \in Node
        PROVE  block_num(m)' \in 0..MaxHeight /\ chain'[m] = TheChain(block_num(m)')
    <3>1. CASE m = n
      BY <1>2, <1>3, <1>4, <3>1
    <3>2. CASE m # n
      <4>1. block_num(m)' = block_num(m) /\ chain'[m] = TheChain(block_num(m))
        BY <1>1, <1>2, <1>3, <3>2
      <4>. QED  BY <1>4, <4>1
    <3>. QED  BY <3>1, <3>2
  <2>2. last_random_no' = [m \in Node |-> Rand(block_num(m)')]
    BY <1>1, <1>3
  <2>. QED  BY <1>2, <2>1, <2>2 DEF Chains
<1>6. Objects'
  <2>1. ASSUME NEW m \in Node
        PROVE  /\ ConsensusOK(consensus'[m], block_num(m)')
               /\ RoundOK(m)'
               /\ m \in Master => consensus'[m].verified
               /\ m \in Fresh /\ block_num(m)' = 0 => from_bootstrap'[m]
    <3>1. CASE m # n
      BY <1>2, <1>3, <3>1 DEF BInv, Objects, RoundOK
    <3>2. CASE m = n
      <4>1. block_num(n)' # 0
        BY <1>3
      <4>. QED  BY <1>2, <1>3, <3>2, <4>1 DEF RoundStarted, RoundOK, Rounds
    <3>. QED  BY <3>1, <3>2
  <2>. QED  BY <1>2, <2>1 DEF Objects
<1>7. Abreast'
  <2>1. \A m \in Node : block_num(m)' \in {k, k + 1}
    BY <1>3
  <2>2. \A m \in Node : block_num(m)' = k => Ready(m)'
    BY <1>2, <1>3 DEF Ready
  <2>. QED  BY <2>1, <2>2 DEF Abreast
<1>8. SignerFirst'
  <2>1. ASSUME NEW m \in Node, NEW j \in Nat, j = block_num(m)', j > 0
        PROVE  TheBlock(j).signer \in Node /\ block_num(TheBlock(j).signer)' >= j
    <3>1. CASE m = n
      BY <1>3, <1>4, <2>1, <3>1
    <3>2. CASE m # n
      <4>1. block_num(m) = j
        BY <1>3, <2>1, <3>2
      <4>2. TheBlock(j).signer \in Node /\ block_num(TheBlock(j).signer) >= j
        BY <2>1, <4>1 DEF BInv, SignerFirst
      <4>. QED  BY <1>4, <4>2
    <3>. QED  BY <3>1, <3>2
  <2>2. \A m \in Node : block_num(m)' \in Nat
    BY <1>4
  <2>. QED  BY <2>1, <2>2 DEF SignerFirst
<1>9. last_served_block' = [m \in Node |-> block_num(m)']
  BY <1>1, <1>3
<1>10. /\ share_net' = [m \in Node |-> share_net'[m]]
       /\ \A m \in Node : \A s \in share_net'[m] : ShareOK(s)
  <2>1. \A s \in new_shares(n, Rand(k + 1), k + 1) : ShareOK(s)
    BY <1>0, NewSharesOK
  <2>. QED  BY <1>1, <2>1 DEF broadcast
<1>. QED  BY <1>3, <1>4, <1>5, <1>6, <1>7, <1>8, <1>9, <1>10

\* The block after a chain of length k.
LEMMA NextBlock ==
  \A k \in Nat : TheBlock(k + 1) = [random_no |-> Rand(k + 1), signer |-> Elected(Rand(k), k)]
BY DEF TheBlock

\* The signer creates the next block: nobody has it yet, since nobody else can have
\* created it, so it is the block time and everybody has the last one.
LEMMA CreateBlockBInv ==
  ASSUME Rounds, BInv, NEW n \in Node, CreateBlock(n)
  PROVE  BInv'
<1>. DEFINE k == block_num(n)
            c == consensus[n]
            d == after_block(c, n, k + 1, c.random_no, FALSE)
<1>0. PICK b : b = [prev |-> chain[n], random_no |-> c.random_no, signer |-> n]
  OBVIOUS
<1>1. /\ k + 1 <= MaxHeight
      /\ head_age(n) = BLOCK_TIME
      /\ c.verified /\ c.next_signer = n
      /\ chain' = [chain EXCEPT ![n] = Append(@, [random_no |-> c.random_no, signer |-> n])]
      /\ block_net' = broadcast(block_net, n, {b})
      /\ num_block' = [num_block EXCEPT ![n] = @ + 1]
      /\ last_served_block' = [last_served_block EXCEPT ![n] = @ + 1]
      /\ last_random_no' = [last_random_no EXCEPT ![n] = c.random_no]
      /\ consensus' = [consensus EXCEPT ![n] = d]
      /\ share_net' = broadcast(share_net, n, new_shares(n, c.random_no, k + 1))
      /\ age' = IF \A m \in Node : block_num(m) < k + 1 THEN 0 ELSE age
      /\ UNCHANGED <<from_bootstrap, bls_future_shares, blocks>>
  BY <1>0 DEF CreateBlock, must_sign
<1>2. /\ k \in Nat /\ k + 1 \in 0..MaxHeight
      /\ chain = [m \in Node |-> chain[m]]
      /\ chain[n] = TheChain(k)
      /\ \A m \in Node : block_num(m) \in Nat
      /\ IsConsensus(c) /\ c.next_signer = Elected(Rand(k), k) /\ RoundOK(n)
      /\ from_bootstrap \in [Node -> BOOLEAN]
  BY <1>1, BlsAssumption DEF BInv, Chains, Objects, ConsensusOK
<1>3. TheBlock(k + 1) = [random_no |-> Rand(k + 1), signer |-> n]
  BY <1>1, <1>2, NextBlock
<1>4. age = BLOCK_TIME
  <2>1. SUFFICES ASSUME age # BLOCK_TIME PROVE FALSE
    OBVIOUS
  <2>2. PICK m \in Node : ~(block_num(m) <= k)
    BY <1>1, <2>1 DEF head_age
  <2>3. block_num(m) = k + 1
    BY <1>2, <2>2 DEF BInv, Abreast
  <2>4. TheBlock(k + 1).signer = n
    BY <1>3
  <2>5. block_num(n) >= k + 1
    BY <1>2, <2>3, <2>4 DEF BInv, SignerFirst
  <2>. QED  BY <1>2, <2>5
<1>5. \A m \in Node : block_num(m) = k /\ Ready(m)
  BY <1>4 DEF BInv, Abreast
<1>6. c.random_no = Rand(k + 1)
  <2>1. n \in Fresh => k # 0
    <3>1. SUFFICES ASSUME n \in Fresh, k = 0 PROVE FALSE
      OBVIOUS
    <3>2. c.next_signer = Elected(<<>>, 0)
      BY <1>2, <3>1, Start
    <3>. QED  BY <1>1, <3>1, <3>2 DEF Rounds
  <2>. QED  BY <1>1, <1>2, <2>1 DEF RoundOK
<1>7. RoundStarted(d, n, k + 1)
  <2>1. FALSE \in BOOLEAN
    OBVIOUS
  <2>. HIDE DEF k, c
  <2>. QED  BY <1>2, <1>6, <2>1, AfterBlockOK
<1>8. age' = 0 /\ 0 \in 0..BLOCK_TIME /\ 0 # BLOCK_TIME
  <2>1. \A m \in Node : block_num(m) < k + 1
    BY <1>2, <1>5
  <2>. QED  BY <1>1, <2>1, BlsAssumption
<1>9. chain' = [chain EXCEPT ![n] = TheChain(k + 1)]
  <2>1. Append(chain[n], [random_no |-> c.random_no, signer |-> n]) = TheChain(k + 1)
    BY <1>2, <1>3, <1>6, ChainStep
  <2>. QED  BY <1>1, <2>1
<1>10. TheBlock(k + 1).signer = n
  BY <1>3
<1>. HIDE DEF d, k, c
<1>11. /\ Chains' /\ Objects' /\ Abreast' /\ SignerFirst'
       /\ last_served_block' = [m \in Node |-> block_num(m)']
       /\ share_net' = [m \in Node |-> share_net'[m]]
       /\ \A m \in Node : \A s \in share_net'[m] : ShareOK(s)
       /\ block_num(n)' = k + 1
       /\ \A m \in Node : /\ m # n => block_num(m)' = block_num(m)
                          /\ block_num(m) \in Nat /\ block_num(m)' \in Nat
                          /\ block_num(m) <= block_num(m)'
  <2>1. k = block_num(n)
    BY DEF k
  <2>2. \A m \in Node : block_num(m) \in {k, k + 1} /\ (m # n /\ block_num(m) = k => Ready(m))
    BY <1>5
  <2>3. /\ from_bootstrap' \in [Node -> BOOLEAN]
        /\ \A m \in Node : m # n => from_bootstrap'[m] = from_bootstrap[m]
    BY <1>1, <1>2
  <2>4. /\ last_random_no' = [last_random_no EXCEPT ![n] = Rand(k + 1)]
        /\ share_net' = broadcast(share_net, n, new_shares(n, Rand(k + 1), k + 1))
    BY <1>1, <1>6
  <2>5. /\ last_served_block' = [last_served_block EXCEPT ![n] = @ + 1]
        /\ consensus' = [consensus EXCEPT ![n] = d]
        /\ k \in Nat /\ k + 1 <= MaxHeight
        /\ age' \in 0..BLOCK_TIME /\ age' # BLOCK_TIME
    BY <1>1, <1>2, <1>8
  <2>. QED  BY <1>7, <1>9, <1>10, <2>1, <2>2, <2>3, <2>4, <2>5, Extended
<1>12. BlockOK(b)'
  <2>1. b = [prev |-> TheChain(k), random_no |-> TheBlock(k + 1).random_no,
             signer |-> TheBlock(k + 1).signer]
    BY <1>0, <1>2, <1>3, <1>6 DEF c
  <2>2. (k + 1) \in 1..MaxHeight /\ (k + 1) - 1 = k
    BY <1>2
  <2>3. b.signer = n /\ block_num(n)' >= k + 1
    BY <1>0, <1>2, <1>11
  <2>. QED  BY <2>1, <2>2, <2>3 DEF BlockOK
<1>13. Traffic'
  <2>1. /\ block_net = [m \in Node |-> block_net[m]] /\ blocks = [m \in Node |-> blocks[m]]
        /\ bls_future_shares = [m \in Node |-> bls_future_shares[m]]
        /\ \A m \in Node : \A s \in bls_future_shares[m] : ShareOK(s)
        /\ \A m \in Node : \A a \in block_net[m] \cup blocks[m] : BlockOK(a)
    BY DEF BInv, Traffic
  <2>2. \A a : BlockOK(a) => BlockOK(a)'
    BY <1>11, BlockStaysOK
  <2>3. /\ block_net' = [m \in Node |-> block_net'[m]]
        /\ \A m \in Node : block_net'[m] \subseteq block_net[m] \cup {b}
    BY <1>1, <2>1 DEF broadcast
  <2>4. \A m \in Node : \A a \in block_net'[m] \cup blocks'[m] : BlockOK(a)'
    BY <1>1, <1>12, <2>1, <2>2, <2>3
  <2>. QED  BY <1>1, <1>11, <2>1, <2>3, <2>4 DEF Traffic
<1>14. Process'
  <2>1. /\ num_block \in [Node -> 0..MaxHeight]
        /\ \A m \in Node : /\ block_num(m) <= num_block[m]
                           /\ \E h \in Node : num_block[m] <= block_num(h)
                           /\ \A a \in blocks[m] : BlockNumber(a) <= num_block[m]
    BY DEF BInv, Process
  <2>2. \A m \in Node : num_block[m] = k
    BY <1>2, <1>5, <2>1
  <2>3. /\ num_block' \in [Node -> 0..MaxHeight]
        /\ num_block'[n] = k + 1 /\ \A m \in Node : m # n => num_block'[m] = k
    BY <1>1, <1>2, <2>1, <2>2
  <2>4. ASSUME NEW m \in Node
        PROVE  /\ block_num(m)' <= num_block'[m]
               /\ \E h \in Node : num_block'[m] <= block_num(h)'
               /\ \A a \in blocks'[m] : BlockNumber(a) <= num_block'[m]
    <3>1. block_num(m)' <= num_block'[m]
      BY <1>2, <1>5, <1>11, <2>3
    <3>2. num_block'[m] <= block_num(n)'
      BY <1>2, <1>11, <2>3
    <3>3. \A a \in blocks[m] : BlockNumber(a) \in Nat
      BY ChainStep DEF BInv, Traffic, BlockOK, BlockNumber
    <3>4. \A a \in blocks'[m] : BlockNumber(a) <= num_block'[m]
      BY <1>1, <1>2, <2>1, <2>2, <2>3, <3>3
    <3>. QED  BY <3>1, <3>2, <3>4
  <2>. QED  BY <1>11, <2>3, <2>4 DEF Process
<1>. QED  BY <1>11, <1>13, <1>14 DEF BInv

\* The next block reaches the main loop: it fits the chain and its signatures are
\* right, and the node has or takes its random number.
LEMMA ReceiveBlockBInv ==
  ASSUME Rounds, BInv, NEW n \in Node, NEW b \in blocks[n], ReceiveBlock(n, b)
  PROVE  BInv'
<1>. DEFINE k == block_num(n)
            c == consensus[n]
            d == after_block(c, n, k + 1, Rand(k + 1), from_bootstrap[n])
<1>1. /\ chain = [m \in Node |-> chain[m]]
      /\ k \in Nat /\ chain[n] = TheChain(k)
      /\ last_random_no = [m \in Node |-> Rand(block_num(m))]
      /\ last_served_block[n] = k
      /\ IsConsensus(c) /\ c.next_signer = Elected(Rand(k), k) /\ RoundOK(n)
      /\ from_bootstrap \in [Node -> BOOLEAN]
      /\ n \in Fresh /\ k = 0 => from_bootstrap[n]
      /\ \A m \in Node : block_num(m) \in Nat
      /\ BlockOK(b)
  BY DEF BInv, Chains, Objects, ConsensusOK, Process, Traffic
<1>2. /\ b.prev = TheChain(k) /\ b.random_no = Rand(k + 1) /\ b.signer = Elected(Rand(k), k)
      /\ b.signer \in Node /\ block_num(b.signer) >= k + 1
      /\ k + 1 <= MaxHeight
  <2>1. PICK j \in 1..MaxHeight :
          /\ b = [prev |-> TheChain(j - 1), random_no |-> TheBlock(j).random_no,
                  signer |-> TheBlock(j).signer]
          /\ b.signer \in Node /\ block_num(b.signer) >= j
    BY <1>1 DEF BlockOK
  <2>2. Len(TheChain(j - 1)) = j - 1
    <3>1. j - 1 \in Nat
      OBVIOUS
    <3>. QED  BY <3>1, ChainStep
  <2>3. BlockNumber(b) = j
    BY <2>1, <2>2 DEF BlockNumber
  <2>4. j = k + 1 /\ j - 1 = k
    BY <1>1, <2>3 DEF ReceiveBlock
  <2>5. TheBlock(k + 1) = [random_no |-> Rand(k + 1), signer |-> Elected(Rand(k), k)]
    BY <1>1, NextBlock
  <2>6. k + 1 <= MaxHeight
    BY <2>1, <2>4, BlsAssumption
  <2>. HIDE DEF k
  <2>. QED  BY <2>1, <2>4, <2>5, <2>6
<1>3. correct_block(n, b)
  <2>1. last_random_no[n] = Rand(k) /\ Message(Rand(k), k) = Rand(k + 1)
    BY <1>1, RandStep
  <2>. QED  BY <1>1, <1>2, <2>1 DEF correct_block
<1>4. /\ chain' = [chain EXCEPT ![n] = Append(@, [random_no |-> b.random_no, signer |-> b.signer])]
      /\ last_random_no' = [last_random_no EXCEPT ![n] = b.random_no]
      /\ last_served_block' = [last_served_block EXCEPT ![n] = @ + 1]
      /\ blocks' = [blocks EXCEPT ![n] = @ \ {b}]
      /\ consensus' = [consensus EXCEPT ![n] = d]
      /\ from_bootstrap' = [from_bootstrap EXCEPT ![n] = FALSE]
      /\ share_net' = broadcast(share_net, n, new_shares(n, Rand(k + 1), k + 1))
      /\ UNCHANGED <<bls_future_shares, num_block, block_net, age>>
  <2>1. b.prev = chain[n]
    BY <1>1, <1>2
  <2>. QED  BY <1>2, <1>3, <2>1 DEF ReceiveBlock
<1>5. \A m \in Node : block_num(m) \in {k, k + 1} /\ (block_num(m) = k => Ready(m))
  <2>1. \A m \in Node : /\ block_num(m) <= k + 1
                        /\ block_num(b.signer) <= block_num(m) + 1
                        /\ block_num(m) < block_num(b.signer) => Ready(m)
    BY <1>2 DEF BInv, Abreast
  <2>2. block_num(b.signer) \in Nat
    BY <1>1, <1>2
  <2>. QED  BY <1>1, <1>2, <2>1, <2>2
<1>6. age' \in 0..BLOCK_TIME /\ age' # BLOCK_TIME
  <2>1. block_num(b.signer) # k
    BY <1>1, <1>2
  <2>. QED  BY <1>2, <1>4, <2>1 DEF BInv, Abreast
<1>7. RoundStarted(d, n, k + 1)
  <2>1. from_bootstrap[n] \/ c.random_no = Rand(k + 1)
    BY <1>1, <1>5 DEF Ready, RoundOK
  <2>2. from_bootstrap[n] \in BOOLEAN /\ k + 1 \in 0..MaxHeight
    BY <1>1, <1>2, BlsAssumption
  <2>. HIDE DEF k, c
  <2>. QED  BY <1>1, <2>1, <2>2, AfterBlockOK
<1>8. TheBlock(k + 1) = [random_no |-> b.random_no, signer |-> b.signer]
  BY <1>1, <1>2, NextBlock
<1>9. chain' = [chain EXCEPT ![n] = TheChain(k + 1)]
  BY <1>1, <1>4, <1>8, ChainStep
<1>10. TheBlock(k + 1).signer = b.signer
  BY <1>8
<1>. HIDE DEF d, k, c
<1>11. /\ Chains' /\ Objects' /\ Abreast' /\ SignerFirst'
       /\ last_served_block' = [m \in Node |-> block_num(m)']
       /\ share_net' = [m \in Node |-> share_net'[m]]
       /\ \A m \in Node : \A s \in share_net'[m] : ShareOK(s)
       /\ block_num(n)' = k + 1
       /\ \A m \in Node : /\ m # n => block_num(m)' = block_num(m)
                          /\ block_num(m) \in Nat /\ block_num(m)' \in Nat
                          /\ block_num(m) <= block_num(m)'
  <2>1. k = block_num(n) /\ k \in Nat /\ k + 1 <= MaxHeight
    BY <1>1, <1>2 DEF k
  <2>2. /\ from_bootstrap' \in [Node -> BOOLEAN]
        /\ \A m \in Node : m # n => from_bootstrap'[m] = from_bootstrap[m]
    BY <1>1, <1>4
  <2>3. /\ last_random_no' = [last_random_no EXCEPT ![n] = Rand(k + 1)]
        /\ last_served_block' = [last_served_block EXCEPT ![n] = @ + 1]
        /\ consensus' = [consensus EXCEPT ![n] = d]
        /\ share_net' = broadcast(share_net, n, new_shares(n, Rand(k + 1), k + 1))
    BY <1>2, <1>4
  <2>4. \A m \in Node : block_num(m) \in {k, k + 1} /\ (m # n /\ block_num(m) = k => Ready(m))
    BY <1>5
  <2>5. TheBlock(k + 1).signer \in Node /\ block_num(TheBlock(k + 1).signer) >= k + 1
    BY <1>2, <1>10
  <2>. QED  BY <1>6, <1>7, <1>9, <2>1, <2>2, <2>3, <2>4, <2>5, Extended
<1>12. Traffic'
  <2>1. /\ block_net = [m \in Node |-> block_net[m]] /\ blocks = [m \in Node |-> blocks[m]]
        /\ bls_future_shares = [m \in Node |-> bls_future_shares[m]]
        /\ \A m \in Node : \A s \in bls_future_shares[m] : ShareOK(s)
        /\ \A m \in Node : \A a \in block_net[m] \cup blocks[m] : BlockOK(a)
    BY DEF BInv, Traffic
  <2>2. \A a : BlockOK(a) => BlockOK(a)'
    BY <1>11, BlockStaysOK
  <2>3. blocks' = [m \in Node |-> blocks'[m]] /\ \A m \in Node : blocks'[m] \subseteq blocks[m]
    BY <1>4, <2>1
  <2>4. \A m \in Node : \A a \in block_net'[m] \cup blocks'[m] : BlockOK(a)'
    BY <1>4, <2>1, <2>2, <2>3
  <2>. QED  BY <1>4, <1>11, <2>1, <2>3, <2>4 DEF Traffic
<1>13. Process'
  <2>1. /\ num_block \in [Node -> 0..MaxHeight] /\ blocks = [m \in Node |-> blocks[m]]
        /\ \A m \in Node : /\ block_num(m) <= num_block[m]
                           /\ \E h \in Node : num_block[m] <= block_num(h)
                           /\ \A a \in blocks[m] : BlockNumber(a) <= num_block[m]
    BY DEF BInv, Process, Traffic
  <2>2. BlockNumber(b) = k + 1
    <3>1. Len(TheChain(k)) = k
      BY <1>1, ChainStep DEF k
    <3>. QED  BY <1>2, <3>1 DEF BlockNumber
  <2>3. k + 1 <= num_block[n]
    BY <2>1, <2>2
  <2>4. ASSUME NEW m \in Node
        PROVE  /\ block_num(m)' <= num_block[m]
               /\ \E h \in Node : num_block[m] <= block_num(h)'
               /\ \A a \in blocks'[m] : BlockNumber(a) <= num_block[m]
    <3>1. block_num(m)' <= num_block[m]
      BY <1>11, <2>1, <2>3
    <3>2. PICK h \in Node : num_block[m] <= block_num(h)
      BY <2>1
    <3>3. num_block[m] <= block_num(h)'
      BY <1>11, <2>1, <3>2
    <3>4. blocks'[m] \subseteq blocks[m]
      BY <1>4, <2>1
    <3>. QED  BY <2>1, <3>1, <3>3, <3>4
  <2>. QED  BY <1>4, <1>11, <2>1, <2>4 DEF Process
<1>. QED  BY <1>11, <1>12, <1>13 DEF BInv

\* Every step of the rounds keeps the invariant.
LEMMA NextBInv ==
  ASSUME Rounds, BInv, [Next]_vars
  PROVE  BInv'
<1>1. CASE Tick
  BY <1>1, TickBInv
<1>2. CASE \E n \in Node : NearBlockTime(n)
  BY <1>2, NearBlockTimeBInv
<1>3. CASE \E n \in Node : CreateBlock(n)
  BY <1>3, CreateBlockBInv
<1>4. CASE \E n \in Node : \E b \in block_net[n] : BlockArrives(n, b)
  BY <1>4, BlockArrivesBInv
<1>5. CASE \E n \in Node : \E b \in blocks[n] : ReceiveBlock(n, b)
  BY <1>5, ReceiveBlockBInv
<1>6. CASE \E n \in Node : \E share \in share_net[n] : ReceiveShare(n, share)
  BY <1>6, ReceiveShareBInv
<1>7. CASE \E n \in Node : \E share \in bls_future_shares[n] : TakeFutureShare(n, share)
  BY <1>7, TakeFutureShareBInv
<1>8. CASE UNCHANGED vars
  <2>1. UNCHANGED <<chain, consensus, last_random_no, from_bootstrap, bls_share_cache,
                    bls_future_shares, num_block, last_served_block, blocks, share_net, block_net, age>>
    BY <1>8 DEF vars, mainvars, cachevars, p2pvars, netvars
  <2>2. \A m : block_num(m)' = block_num(m)
    BY <2>1 DEF block_num
  <2>3. Objects'
    BY <2>1, <2>2 DEF BInv, Objects, RoundOK
  <2>. QED  BY <2>1, <2>3, SharesOnly DEF BInv, Traffic
<1>. QED  BY <1>1, <1>2, <1>3, <1>4, <1>5, <1>6, <1>7, <1>8 DEF Next

-----------------------------------------------------------------------------
(***************************************************************************)
(* The properties.                                                         *)
(***************************************************************************)

\* In any number of rounds, with any number of nodes and keys, the chains, objects,
\* blocks and shares are those of one and the same sequence of blocks.
THEOREM RoundsInvariant ==
  ASSUME Rounds
  PROVE  Spec => []BInv
<1>1. Init => BInv
  BY InitBInv
<1>2. BInv /\ [Next]_vars => BInv'
  BY NextBInv
<1>. QED  BY <1>1, <1>2, PTL DEF Spec

\* Shares of different rounds are never combined: the share cache lays a share of a
\* later block aside, and a share of an earlier one is dropped, so store_share never
\* meets a group signature that does not verify, on which the node would stop.
THEOREM RoundsSharesOfOneRound ==
  ASSUME Rounds
  PROVE  Spec => []SharesOfOneRound
<1>1. BInv => SharesOfOneRound
  BY DEF BInv, Objects, ConsensusOK, IsConsensus, SharesOfOneRound
<1>. QED  BY <1>1, RoundsInvariant, PTL

\* Nodes with the same chain expect the same signer of the next block.
THEOREM RoundsSignersAgree ==
  ASSUME Rounds
  PROVE  Spec => []SignersAgree
<1>1. BInv => SignersAgree
  BY DEF BInv, Objects, ConsensusOK, SignersAgree, block_num
<1>. QED  BY <1>1, RoundsInvariant, PTL

\* The chain of one node is the beginning of the other's: no two nodes ever have
\* different blocks at the same height.
THEOREM RoundsOneChain ==
  ASSUME Rounds
  PROVE  Spec => []OneChain
<1>1. ASSUME NEW j \in Nat, NEW k \in Nat, j <= k
      PROVE  IsPrefix(TheChain(j), TheChain(k))
  <2>1. /\ Len(TheChain(j)) = j /\ Len(TheChain(k)) = k
        /\ TheChain(j) = [i \in 1..j |-> TheBlock(i)]
    BY <1>1, ChainStep DEF TheChain
  <2>2. SubSeq(TheChain(k), 1, j) = [i \in 1..j |-> TheBlock(i)]
    BY <1>1 DEF TheChain
  <2>. QED  BY <1>1, <2>1, <2>2 DEF IsPrefix
<1>2. BInv => OneChain
  <2>1. SUFFICES ASSUME BInv, NEW m \in Node, NEW n \in Node
                 PROVE  IsPrefix(chain[m], chain[n]) \/ IsPrefix(chain[n], chain[m])
    BY DEF OneChain
  <2>2. /\ chain[m] = TheChain(block_num(m)) /\ block_num(m) \in Nat
        /\ chain[n] = TheChain(block_num(n)) /\ block_num(n) \in Nat
    BY <2>1 DEF BInv, Chains
  <2>3. block_num(m) <= block_num(n) \/ block_num(n) <= block_num(m)
    BY <2>2
  <2>. HIDE DEF BInv
  <2>. QED  BY <1>1, <2>2, <2>3
<1>. QED  BY <1>2, RoundsInvariant, PTL

\* Every block carries a random number of its own, the hash of the group signature
\* over the number of the block and the random number of the one before.
THEOREM RoundsNewRandomPerBlock ==
  ASSUME Rounds
  PROVE  Spec => []NewRandomPerBlock
<1>1. BInv => NewRandomPerBlock
  <2>1. SUFFICES ASSUME BInv, NEW n \in Node, NEW i \in DOMAIN chain[n]
                 PROVE  chain[n][i].random_no =
                          Message(IF i = 1 THEN <<>> ELSE chain[n][i - 1].random_no, i - 1)
    BY DEF NewRandomPerBlock
  <2>2. chain[n] = TheChain(block_num(n)) /\ block_num(n) \in Nat
    BY <2>1 DEF BInv, Chains
  <2>3. i \in 1..block_num(n) /\ i - 1 \in Nat
    BY <2>2 DEF TheChain
  <2>4. chain[n][i].random_no = Rand(i)
    BY <2>2, <2>3 DEF TheChain, TheBlock
  <2>5. Message(Rand(i - 1), i - 1) = Rand(i)
    <3>1. (i - 1) + 1 = i
      BY <2>3
    <3>. QED  BY <2>3, <3>1, RandStep
  <2>6. CASE i = 1
    BY <2>4, <2>5, <2>6, Start
  <2>7. CASE i # 1
    <3>1. i - 1 \in 1..block_num(n)
      BY <2>2, <2>3, <2>7
    <3>2. chain[n][i - 1].random_no = Rand(i - 1)
      BY <2>2, <3>1 DEF TheChain, TheBlock
    <3>. QED  BY <2>4, <2>5, <2>7, <3>2
  <2>. QED  BY <2>6, <2>7
<1>. QED  BY <1>1, RoundsInvariant, PTL

\* The counters and objects have their types: a round has one share of each member
\* and no more than THRESHOLD, a group signature rests on as many, and the P2P process
\* is never behind the main loop.
THEOREM RoundsTypeOK ==
  ASSUME Rounds
  PROVE  Spec => []TypeOK
<1>1. ASSUME BInv PROVE TypeOK
  <2>1. ASSUME NEW n \in Node
        PROVE  LET c == consensus[n]
               IN  /\ c.next_signer \in Node
                   /\ Cardinality({ s.source : s \in c.shares }) = Cardinality(c.shares)
                   /\ Cardinality(c.shares) <= THRESHOLD
                   /\ c.verified => Cardinality(c.shares) = THRESHOLD \/ (n \in Fresh /\ c.shares = {})
                   /\ Len(chain[n]) <= MaxHeight
                   /\ last_served_block[n] <= num_block[n] /\ num_block[n] <= MaxHeight
    <3>. DEFINE c == consensus[n]
                sources == { s.source : s \in c.shares }
                f == [s \in c.shares |-> s.source]
    <3>1. /\ block_num(n) \in 0..MaxHeight
          /\ ConsensusOK(c, block_num(n)) /\ RoundOK(n)
          /\ last_served_block[n] = block_num(n) /\ block_num(n) <= num_block[n]
          /\ num_block[n] \in 0..MaxHeight
      BY <1>1 DEF BInv, Chains, Objects, Process
    <3>2. c.next_signer \in Node
      BY <3>1 DEF ConsensusOK, Rounds
    <3>3. SharesOK(c.shares, block_num(n))
      BY <3>1 DEF ConsensusOK
    <3>4. f \in Bijection(c.shares, sources)
      <4>1. f \in Injection(c.shares, sources)
        BY <3>3 DEF Injection, IsInjective, SharesOK
      <4>2. f \in Surjection(c.shares, sources)
        BY DEF Surjection
      <4>. QED  BY <4>1, <4>2 DEF Bijection
    <3>5. Cardinality(sources) = Cardinality(c.shares)
      <4>1. IsFiniteSet(c.shares)
        BY <3>3 DEF SharesOK
      <4>. HIDE DEF f, sources, c
      <4>. QED  BY <3>4, <4>1, FS_Bijection DEF ExistsBijection
    <3>. QED  BY <3>1, <3>2, <3>3, <3>5, BlsAssumption DEF SharesOK, RoundOK, block_num
  <2>2. from_bootstrap \in [Node -> BOOLEAN] /\ age \in 0..BLOCK_TIME
    BY <1>1 DEF BInv, Objects, Abreast
  <2>. QED  BY <2>1, <2>2 DEF TypeOK
<1>. QED  BY <1>1, RoundsInvariant, PTL
=============================================================================
