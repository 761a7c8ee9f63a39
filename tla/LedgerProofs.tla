---------------------------- MODULE LedgerProofs ----------------------------
(***************************************************************************)
(* Proofs about the ledger.  The inductive invariant is Consistent(state), *)
(* with the types of the other variables and a tree that covers every      *)
(* owned address.                                                          *)
(***************************************************************************)
EXTENDS Ledger, BalanceProofs, FiniteSetTheorems

-----------------------------------------------------------------------------
(***************************************************************************)
(* What each action does, with the transaction unfolded.                   *)
(***************************************************************************)

\* An Allocate step moves a prefix the sender owns.
LEMMA AllocateStep ==
  ASSUME NEW s \in Addr, NEW t \in Addr \cup {Blank}, NEW ips \in Prefix,
         Allocate(s, t, ips)
  PROVE  /\ t \in Addr
         /\ in_own_ips(state, s, ips)
         /\ ~revocation_raises(state, s, ips)
         /\ state' = allocate(state, s, t, ips)
         /\ cached' = [cached EXCEPT ![ips] = t]
         /\ UNCHANGED <<prestate, patricia>>
BY DEF Allocate, Apply, Applies, MoveTx, validate_transaction, apply_raises,
       apply_transaction, cache_transaction, ALLOCATE, DELEGATE, MAPSERVER, LOCATOR

\* A Delegate step lends a prefix the sender owns.
LEMMA DelegateStep ==
  ASSUME NEW s \in Addr, NEW t \in Addr \cup {Blank}, NEW ips \in Prefix,
         Delegate(s, t, ips)
  PROVE  /\ t \in Addr
         /\ in_own_ips(state, s, ips)
         /\ ~revocation_raises(state, s, ips)
         /\ state' = delegate(state, s, t, ips)
         /\ cached' = [cached EXCEPT ![ips] = t]
         /\ UNCHANGED <<prestate, patricia>>
BY DEF Delegate, Apply, Applies, MoveTx, validate_transaction, apply_raises,
       apply_transaction, cache_transaction, ALLOCATE, DELEGATE, MAPSERVER, LOCATOR

\* A SetMapServer step changes the sender's mapping only.
LEMMA SetMapServerStep ==
  ASSUME NEW s \in Addr, NEW meta \in MapServerMeta, SetMapServer(s, meta)
  PROVE  /\ state' = set_map_servers(state, s, meta)
         /\ UNCHANGED <<prestate, cached, patricia>>
BY DEF SetMapServer, Apply, Applies, MetaTx, validate_transaction, apply_raises,
       apply_transaction, cache_transaction, ALLOCATE, DELEGATE, MAPSERVER, LOCATOR

\* So does a SetLocator step.
LEMMA SetLocatorStep ==
  ASSUME NEW s \in Addr, NEW meta \in LocatorMeta, SetLocator(s, meta)
  PROVE  /\ state' = set_locators(state, s, meta)
         /\ UNCHANGED <<prestate, cached, patricia>>
BY DEF SetLocator, Apply, Applies, MetaTx, validate_transaction, apply_raises,
       apply_transaction, cache_transaction, ALLOCATE, DELEGATE, MAPSERVER, LOCATOR

-----------------------------------------------------------------------------
\* Every owned IP address is covered by an entry of the tree.
Covered ==
  \A a \in Addr : \A ip \in state.own[a] :
    \E p \in Prefix : ip \in p /\ patricia[p] # Blank

\* The inductive invariant.
IInv ==
  /\ Consistent(state)
  /\ prestate \in LedgerState
  /\ cached \in Patricia
  /\ patricia \in Patricia
  /\ Covered

\* The ledger and the tree made from the genesis declaration satisfy it.
LEMMA InitIInv == Init => IInv
<1>. SUFFICES ASSUME Init PROVE IInv
  OBVIOUS
<1>1. Consistent(state) /\ prestate \in LedgerState
  BY GenesisConsistent DEF Init, Consistent
<1>2. cached \in Patricia
  BY DEF Init, NoEntries, Patricia
<1>3. /\ patricia \in Patricia
      /\ \A a \in Addr : \A p \in Genesis[a] : patricia[p] \in Addr
  BY GenesisAssumption DEF Init, genesis_patricia, Patricia
<1>4. Covered
  <2>1. SUFFICES ASSUME NEW a \in Addr, NEW ip \in state.own[a]
                 PROVE  \E p \in Prefix : ip \in p /\ patricia[p] # Blank
    BY DEF Covered
  <2>2. PICK p \in Genesis[a] : ip \in p
    BY DEF Init, genesis_state
  <2>3. p \in Prefix /\ patricia[p] \in Addr
    BY <1>3, GenesisAssumption
  <2>. QED  BY <2>2, <2>3, BlankAssumption
<1>. QED  BY <1>1, <1>2, <1>3, <1>4 DEF IInv

\* A transaction never extends the owned address space, so a tree that covered it still does.
LEMMA CoveredKept ==
  ASSUME Covered, patricia' = patricia,
         \A a \in Addr : \A ip \in state'.own[a] : \E b \in Addr : ip \in state.own[b]
  PROVE  Covered'
BY DEF Covered

\* Every transaction and every end of a block preserves it.
LEMMA NextIInv == IInv /\ [Next]_vars => IInv'
<1>. SUFFICES ASSUME IInv, [Next]_vars PROVE IInv'
  OBVIOUS
<1>. USE DEF IInv
<1>0. Prefix \subseteq SUBSET IP
  BY PrefixAssumption
<1>1. ASSUME NEW s \in Addr, NEW t \in Addr \cup {Blank}, NEW ips \in Prefix,
             Allocate(s, t, ips)
      PROVE  IInv'
  <2>1. /\ t \in Addr
        /\ in_own_ips(state, s, ips)
        /\ ~revocation_raises(state, s, ips)
        /\ state' = allocate(state, s, t, ips)
        /\ cached' = [cached EXCEPT ![ips] = t]
        /\ UNCHANGED <<prestate, patricia>>
    BY <1>1, AllocateStep
  <2>2. Consistent(state')
    BY <1>0, <2>1, AllocateConsistent
  <2>3. cached' \in Patricia
    BY <2>1 DEF Patricia
  <2>4. Covered'
    <3>1. /\ state'.own[s] = state.own[s] \ ips
          /\ s # t => state'.own[t] = state.own[t] \cup ips
          /\ \A a \in Addr : a # s /\ a # t => state'.own[a] = state.own[a]
      BY <1>0, <2>1, AllocateEntries DEF Consistent
    <3>2. \A a \in Addr : \A ip \in state'.own[a] : \E b \in Addr : ip \in state.own[b]
      BY <2>1, <3>1 DEF in_own_ips
    <3>. QED  BY <2>1, <3>2, CoveredKept
  <2>. QED  BY <2>1, <2>2, <2>3, <2>4
<1>2. ASSUME NEW s \in Addr, NEW t \in Addr \cup {Blank}, NEW ips \in Prefix,
             Delegate(s, t, ips)
      PROVE  IInv'
  <2>1. /\ t \in Addr
        /\ in_own_ips(state, s, ips)
        /\ ~revocation_raises(state, s, ips)
        /\ state' = delegate(state, s, t, ips)
        /\ cached' = [cached EXCEPT ![ips] = t]
        /\ UNCHANGED <<prestate, patricia>>
    BY <1>2, DelegateStep
  <2>2. Consistent(state')
    BY <1>0, <2>1, DelegateConsistent
  <2>3. cached' \in Patricia
    BY <2>1 DEF Patricia
  <2>4. state'.own = state.own
    BY <2>1 DEF delegate
  <2>5. Covered'
    BY <2>1, <2>4 DEF Covered
  <2>. QED  BY <2>1, <2>2, <2>3, <2>5
<1>3. ASSUME NEW s \in Addr, NEW meta \in MapServerMeta, SetMapServer(s, meta)
      PROVE  IInv'
  BY <1>3, SetMapServerStep, MappingsConsistent DEF Covered
<1>4. ASSUME NEW s \in Addr, NEW meta \in LocatorMeta, SetLocator(s, meta)
      PROVE  IInv'
  BY <1>4, SetLocatorStep, MappingsConsistent DEF Covered
<1>5. CASE FinishBlock
  <2>1. /\ patricia' = set_values(patricia, cached)
        /\ prestate' = state
        /\ cached' = NoEntries
        /\ state' = state
    BY <1>5 DEF FinishBlock
  <2>2. patricia' \in Patricia /\ cached' \in Patricia
    BY <2>1 DEF set_values, Patricia, NoEntries
  <2>3. \A p \in Prefix : patricia[p] # Blank => patricia'[p] # Blank
    BY <2>1 DEF set_values
  <2>4. Covered'
    BY <2>1, <2>3 DEF Covered
  <2>. QED  BY <2>1, <2>2, <2>4 DEF Consistent
<1>6. CASE UNCHANGED vars
  BY <1>6 DEF vars, Covered
<1>. QED  BY <1>1, <1>2, <1>3, <1>4, <1>5, <1>6 DEF Next

\* It holds of every reachable state.
LEMMA Invariance == Spec => []IInv
BY InitIInv, NextIInv, PTL DEF Spec

-----------------------------------------------------------------------------
\* The state of the ledger, the cache and the tree keep their types.
THEOREM TypeCorrect == Spec => []TypeOK
<1>1. IInv => TypeOK
  BY DEF IInv, TypeOK, Consistent
<1>. QED  BY <1>1, Invariance, PTL

\* No sequence of accepted transactions gives an IP address to two owners.
THEOREM OwnersDisjoint == Spec => []OwnDisjoint
<1>1. IInv => OwnDisjoint
  BY DEF IInv, OwnDisjoint, Consistent
<1>. QED  BY <1>1, Invariance, PTL

\* Delegations stay within what their owner holds and never overlap.
THEOREM DelegateesUnique == Spec => []OneDelegatee
<1>1. IInv => OneDelegatee
  BY DEF IInv, OneDelegatee, Consistent
<1>. QED  BY <1>1, Invariance, PTL

\* The delegator's and the delegatee's records of a delegation always agree.
THEOREM MirrorKept == Spec => []DelegationsMirrored
<1>1. IInv => DelegationsMirrored
  BY DEF IInv, DelegationsMirrored, Consistent
<1>. QED  BY <1>1, Invariance, PTL

\* No account ever has both map servers and locators.
THEOREM ExclusiveKept == Spec => []MappingsExclusive
<1>1. IInv => MappingsExclusive
  BY DEF IInv, MappingsExclusive, Consistent
<1>. QED  BY <1>1, Invariance, PTL

\* A consistent ledger revokes every delegation that is not to oneself and that
\* len() counts: its two ends agree, so the received entry is there, and what
\* stays of it is no more than what was there.
LEMMA RevokeRaises ==
  ASSUME NEW st, Consistent(st), NEW s \in Addr, NEW ips, revocation_raises(st, s, ips)
  PROVE  \E b \in Addr : /\ st.delegated[s][b] \cap ips # {}
                         /\ b = s \/ len_raises(st.delegated[s][b])
<1>1. PICK b \in Addr : \/ len_raises(st.delegated[s][b] \cap ips)
                        \/ revoke_raises(st, s, b, ips)
  BY DEF revocation_raises, affected_raises, affected_delegated_ips
<1>2. st.delegated[s][b] \subseteq IP
  BY DEF Consistent, LedgerState
<1>3. IsFiniteSet(st.delegated[s][b]) /\ Cardinality(st.delegated[s][b]) \in Nat
  BY <1>2, AddressAssumption, FS_Subset, FS_CardinalityType
<1>4. ASSUME NEW T, T \subseteq st.delegated[s][b], len_raises(T)
      PROVE  len_raises(st.delegated[s][b])
  <2>1. Cardinality(T) \in Nat /\ Cardinality(T) <= Cardinality(st.delegated[s][b])
    BY <1>3, <1>4, FS_Subset, FS_CardinalityType
  <2>2. Cardinality(T) > MAXINT
    BY <1>4 DEF len_raises
  <2>. QED  BY <1>3, <2>1, <2>2, AddressAssumption DEF len_raises
<1>5. CASE len_raises(st.delegated[s][b] \cap ips)
  <2>1. len_raises(st.delegated[s][b])
    BY <1>4, <1>5
  <2>2. st.delegated[s][b] \cap ips # {}
    <3>1. ~(0 > MAXINT) /\ Cardinality({}) = 0
      BY AddressAssumption, FS_EmptySet
    <3>. QED  BY <1>5, <3>1 DEF len_raises
  <2>. QED  BY <2>1, <2>2
<1>6. CASE revoke_raises(st, s, b, ips)
  <2>1. s # b => st.received[b][s] = st.delegated[s][b]
    BY DEF Consistent, MirroredDelegations
  <2>2. PICK joint : joint = st.delegated[s][b] \cap ips
    OBVIOUS
  <2>3. /\ joint # {}
        /\ \/ len_raises(st.delegated[s][b] \ joint)
           \/ st.received[b][s] = {}
           \/ len_raises(st.received[b][s] \ joint)
    BY <1>6, <2>2 DEF revoke_raises, affected_delegated_ips
  <2>4. CASE s # b
    <3>1. len_raises(st.delegated[s][b] \ joint)
      BY <2>1, <2>2, <2>3, <2>4
    <3>. QED  BY <1>4, <2>2, <2>3, <3>1
  <2>. QED  BY <2>2, <2>3, <2>4
<1>. QED  BY <1>1, <1>5, <1>6

\* The only validated transactions to a real address that apply_transaction
\* raises for are those that touch a delegation of the sender to itself, or one
\* of more addresses than len() counts.
THEOREM RaisesOnlyExplained == Spec => []RaisesExplained
<1>1. IInv => RaisesExplained
  <2>1. SUFFICES ASSUME IInv, NEW s \in Addr, NEW ips \in Prefix,
                        revocation_raises(state, s, ips)
                 PROVE  \E b \in Addr : /\ state.delegated[s][b] \cap ips # {}
                                        /\ b = s \/ len_raises(state.delegated[s][b])
    BY DEF RaisesExplained, MoveTx, apply_raises
  <2>. QED  BY <2>1, RevokeRaises DEF IInv
<1>. QED  BY <1>1, Invariance, PTL

\* The tree finds an entry for every owned IP address.
THEOREM LookupTotal == Spec => []OwnedIsFound
<1>1. IInv => OwnedIsFound
  <2>1. SUFFICES ASSUME IInv, NEW a \in Addr, NEW ip \in state.own[a]
                 PROVE  get_value(patricia, ip) # Blank
    BY DEF OwnedIsFound
  <2>2. ip \in IP
    BY <2>1 DEF IInv, Consistent, LedgerState
  <2>3. covering(patricia, ip) # {}
    BY <2>1 DEF IInv, Covered, covering
  <2>4. covering(patricia, ip) \in SUBSET { p \in Prefix : ip \in p }
    BY DEF covering
  <2>5. \E p \in covering(patricia, ip) : \A q \in covering(patricia, ip) : p \subseteq q
    BY <2>2, <2>3, <2>4, LongestMatchAssumption
  <2>6. \A p \in covering(patricia, ip) : patricia[p] # Blank
    BY DEF covering
  <2>. HIDE DEF covering
  <2>. QED  BY <2>3, <2>5, <2>6 DEF get_value
<1>. QED  BY <1>1, Invariance, PTL

-----------------------------------------------------------------------------
(***************************************************************************)
(* The ledger implements the registry.  In a consistent ledger the CHOOSEs *)
(* of the refinement mapping have exactly one candidate.                   *)
(***************************************************************************)
LEMMA OwnerIs ==
  ASSUME NEW st, Consistent(st), NEW ip \in IP
  PROVE  /\ owner_of(st, ip) \in Addr \cup {Blank}
         /\ \A a \in Addr : owner_of(st, ip) = a <=> ip \in st.own[a]
<1>1. \A a, b \in Addr : ip \in st.own[a] /\ ip \in st.own[b] => a = b
  BY DEF Consistent, DisjointOwners
<1>2. CASE \E a \in Addr : ip \in st.own[a]
  <2>1. PICK a \in Addr : ip \in st.own[a]
    BY <1>2
  <2>2. owner_of(st, ip) = a
    BY <1>1, <2>1 DEF owner_of
  <2>. QED  BY <1>1, <2>1, <2>2
<1>3. CASE ~ \E a \in Addr : ip \in st.own[a]
  BY <1>3, BlankAssumption DEF owner_of
<1>. QED  BY <1>2, <1>3

\* An IP address that an account lends to t has t as its delegatee.
LEMMA DelegateeIs ==
  ASSUME NEW st, Consistent(st), NEW ip \in IP
  PROVE  /\ delegatee_of(st, ip) \in Addr \cup {Blank}
         /\ \A b \in Addr : delegatee_of(st, ip) = b <=>
                              \E a \in Addr : ip \in st.delegated[a][b]
<1>1. \A a1, a2, b1, b2 \in Addr :
        ip \in st.delegated[a1][b1] /\ ip \in st.delegated[a2][b2] => b1 = b2
  <2>1. \A a1, a2, b1, b2 \in Addr :
          ip \in st.delegated[a1][b1] /\ ip \in st.delegated[a2][b2] => a1 = a2
    BY DEF Consistent, DisjointOwners, DelegatesOwnIPs
  <2>2. \A a, b1, b2 \in Addr :
          ip \in st.delegated[a][b1] /\ ip \in st.delegated[a][b2] => b1 = b2
    BY DEF Consistent, DelegatesOnce
  <2>. QED  BY <2>1, <2>2
<1>2. CASE \E a, b \in Addr : ip \in st.delegated[a][b]
  <2>1. PICK a \in Addr, b \in Addr : ip \in st.delegated[a][b]
    BY <1>2
  <2>2. delegatee_of(st, ip) = b
    <3>1. b \in Addr /\ \E c \in Addr : ip \in st.delegated[c][b]
      BY <2>1
    <3>2. \A d \in Addr : (\E c \in Addr : ip \in st.delegated[c][d]) => d = b
      BY <1>1, <2>1
    <3>3. (CHOOSE d \in Addr : \E c \in Addr : ip \in st.delegated[c][d]) = b
      BY <3>1, <3>2
    <3>. QED  BY <1>2, <3>3 DEF delegatee_of
  <2>. QED  BY <1>1, <2>1, <2>2
<1>3. CASE ~ \E a, b \in Addr : ip \in st.delegated[a][b]
  BY <1>3, BlankAssumption DEF delegatee_of
<1>. QED  BY <1>2, <1>3

\* A step that changes neither the owned nor the delegated addresses changes
\* neither owners nor delegatees.
LEMMA RegistryStutter ==
  ASSUME state'.own = state.own, state'.delegated = state.delegated
  PROVE  /\ [ip \in IP |-> owner_of(state, ip)]' = [ip \in IP |-> owner_of(state, ip)]
         /\ [ip \in IP |-> delegatee_of(state, ip)]' = [ip \in IP |-> delegatee_of(state, ip)]
BY DEF owner_of, delegatee_of

\* An allocation is a transfer.
LEMMA AllocateRefines ==
  ASSUME IInv, IInv', NEW s \in Addr, NEW t \in Addr \cup {Blank}, NEW ips \in Prefix,
         Allocate(s, t, ips)
  PROVE  R!Next
<1>. DEFINE ow == [ip \in IP |-> owner_of(state, ip)]
            de == [ip \in IP |-> delegatee_of(state, ip)]
<1>0. Consistent(state) /\ Consistent(state') /\ ips \in SUBSET IP
  BY PrefixAssumption DEF IInv
<1>1. /\ t \in Addr
      /\ in_own_ips(state, s, ips)
      /\ state' = allocate(state, s, t, ips)
      /\ cached' = [cached EXCEPT ![ips] = t]
  BY AllocateStep
<1>2. /\ state'.own[s] = state.own[s] \ ips
      /\ s # t => state'.own[t] = state.own[t] \cup ips
      /\ \A a \in Addr : a # s /\ a # t => state'.own[a] = state.own[a]
      /\ \A b \in Addr : state'.delegated[s][b] = state.delegated[s][b] \ ips
      /\ \A a \in Addr : a # s => state'.delegated[a] = state.delegated[a]
  BY <1>0, <1>1, AllocateEntries DEF Consistent
<1>3. R!Owned(s, ips)
  BY <1>0, <1>1, OwnerIs DEF R!Owned, in_own_ips
<1>4. de' = R!Assign(de, ips, Blank)
  <2>1. SUFFICES ASSUME NEW ip \in IP
                 PROVE  delegatee_of(state', ip) =
                          IF ip \in ips THEN Blank ELSE delegatee_of(state, ip)
    BY DEF R!Assign
  <2>2. /\ delegatee_of(state, ip) \in Addr \cup {Blank}
        /\ \A b \in Addr : delegatee_of(state, ip) = b <=>
                             \E a \in Addr : ip \in state.delegated[a][b]
        /\ delegatee_of(state', ip) \in Addr \cup {Blank}
        /\ \A b \in Addr : delegatee_of(state', ip) = b <=>
                             \E a \in Addr : ip \in state'.delegated[a][b]
    BY <1>0, DelegateeIs
  <2>3. CASE ip \in ips
    <3>1. \A a, b \in Addr : ip \notin state'.delegated[a][b]
      <4>1. SUFFICES ASSUME NEW a \in Addr, NEW b \in Addr
                     PROVE  ip \notin state'.delegated[a][b]
        OBVIOUS
      <4>3. CASE a = s
        BY <1>2, <2>3, <4>3
      <4>4. CASE a # s
        <5>1. ip \notin state.own[a]
          BY <1>0, <1>1, <2>3, <4>4 DEF Consistent, DisjointOwners, in_own_ips
        <5>2. state.delegated[a][b] \subseteq state.own[a]
          BY <1>0 DEF Consistent, DelegatesOwnIPs
        <5>. QED  BY <1>2, <4>4, <5>1, <5>2
      <4>. QED  BY <4>3, <4>4
    <3>. QED  BY <2>2, <2>3, <3>1
  <2>4. CASE ip \notin ips
    <3>1. \A a, b \in Addr : ip \in state'.delegated[a][b] <=> ip \in state.delegated[a][b]
      BY <1>2, <2>4
    <3>. QED  BY <2>2, <2>4, <3>1
  <2>. QED  BY <2>3, <2>4
<1>5. ow' = R!Assign(ow, ips, IF s = t THEN Blank ELSE t)
  <2>1. SUFFICES ASSUME NEW ip \in IP
                 PROVE  owner_of(state', ip) =
                          IF ip \in ips THEN IF s = t THEN Blank ELSE t
                          ELSE owner_of(state, ip)
    BY DEF R!Assign
  <2>2. /\ owner_of(state, ip) \in Addr \cup {Blank}
        /\ \A a \in Addr : owner_of(state, ip) = a <=> ip \in state.own[a]
        /\ owner_of(state', ip) \in Addr \cup {Blank}
        /\ \A a \in Addr : owner_of(state', ip) = a <=> ip \in state'.own[a]
    BY <1>0, OwnerIs
  <2>3. CASE ip \in ips /\ s # t
    BY <1>1, <1>2, <2>2, <2>3
  <2>4. CASE ip \in ips /\ s = t
    <3>1. \A a \in Addr : ip \notin state'.own[a]
      BY <1>0, <1>1, <1>2, <2>4 DEF Consistent, DisjointOwners, in_own_ips
    <3>. QED  BY <2>2, <2>4, <3>1
  <2>5. CASE ip \notin ips
    <3>1. \A a \in Addr : ip \in state'.own[a] <=> ip \in state.own[a]
      BY <1>1, <1>2, <2>5
    <3>. QED  BY <2>2, <2>5, <3>1
  <2>. QED  BY <2>3, <2>4, <2>5
<1>6. R!Transfer(s, t, ips)
  BY <1>1, <1>3, <1>4, <1>5 DEF R!Transfer
<1>. QED  BY <1>1, <1>6 DEF R!Next

\* A delegation is a loan.
LEMMA DelegateRefines ==
  ASSUME IInv, IInv', NEW s \in Addr, NEW t \in Addr \cup {Blank}, NEW ips \in Prefix,
         Delegate(s, t, ips)
  PROVE  R!Next
<1>. DEFINE ow == [ip \in IP |-> owner_of(state, ip)]
            de == [ip \in IP |-> delegatee_of(state, ip)]
<1>0. Consistent(state) /\ Consistent(state') /\ ips \in SUBSET IP
  BY PrefixAssumption DEF IInv
<1>1. /\ t \in Addr
      /\ in_own_ips(state, s, ips)
      /\ state' = delegate(state, s, t, ips)
      /\ cached' = [cached EXCEPT ![ips] = t]
  BY DelegateStep
<1>2. /\ state'.own = state.own
      /\ state'.delegated[s][t] = state.delegated[s][t] \cup ips
      /\ \A b \in Addr : b # t => state'.delegated[s][b] = state.delegated[s][b] \ ips
      /\ \A a \in Addr : a # s => state'.delegated[a] = state.delegated[a]
  BY <1>0, <1>1, DelegateEntries DEF Consistent
<1>3. R!Owned(s, ips)
  BY <1>0, <1>1, OwnerIs DEF R!Owned, in_own_ips
<1>4. ow' = ow
  BY <1>2 DEF owner_of
<1>5. de' = R!Assign(de, ips, t)
  <2>1. SUFFICES ASSUME NEW ip \in IP
                 PROVE  delegatee_of(state', ip) =
                          IF ip \in ips THEN t ELSE delegatee_of(state, ip)
    BY DEF R!Assign
  <2>2. /\ delegatee_of(state, ip) \in Addr \cup {Blank}
        /\ \A b \in Addr : delegatee_of(state, ip) = b <=>
                             \E a \in Addr : ip \in state.delegated[a][b]
        /\ delegatee_of(state', ip) \in Addr \cup {Blank}
        /\ \A b \in Addr : delegatee_of(state', ip) = b <=>
                             \E a \in Addr : ip \in state'.delegated[a][b]
    BY <1>0, DelegateeIs
  <2>3. CASE ip \in ips
    BY <1>1, <1>2, <2>2, <2>3
  <2>4. CASE ip \notin ips
    <3>1. \A a, b \in Addr : ip \in state'.delegated[a][b] <=> ip \in state.delegated[a][b]
      BY <1>2, <2>4
    <3>. QED  BY <2>2, <2>4, <3>1
  <2>. QED  BY <2>3, <2>4
<1>6. R!Lend(s, t, ips)
  BY <1>1, <1>3, <1>4, <1>5 DEF R!Lend
<1>. QED  BY <1>1, <1>6 DEF R!Next

\* Every behaviour of the account ledger is a behaviour of the registry.
THEOREM Refinement == Spec => ImplementsRegistry
<1>1. Init => R!Init
  <2>. SUFFICES ASSUME Init PROVE R!Init
    OBVIOUS
  <2>1. Consistent(state)
    BY GenesisConsistent DEF Init
  <2>2. [ip \in IP |-> owner_of(state, ip)] \in [IP -> Addr \cup {Blank}]
    BY <2>1, OwnerIs
  <2>3. \A ip \in IP : delegatee_of(state, ip) = Blank
    BY DEF Init, genesis_state, delegatee_of
  <2>4. cached = [p \in Prefix |-> Blank]
    BY DEF Init, NoEntries
  <2>. QED  BY <2>2, <2>3, <2>4 DEF R!Init
<1>2. IInv /\ IInv' /\ [Next]_vars
        => [R!Next]_<<[ip \in IP |-> owner_of(state, ip)],
                      [ip \in IP |-> delegatee_of(state, ip)], cached>>
  <2>. DEFINE ow == [ip \in IP |-> owner_of(state, ip)]
              de == [ip \in IP |-> delegatee_of(state, ip)]
  <2>. SUFFICES ASSUME IInv, IInv', [Next]_vars
                PROVE  R!Next \/ UNCHANGED <<ow, de, cached>>
    OBVIOUS
  <2>1. ASSUME NEW s \in Addr, NEW t \in Addr \cup {Blank}, NEW ips \in Prefix,
               Allocate(s, t, ips)
        PROVE  R!Next
    BY <2>1, AllocateRefines
  <2>2. ASSUME NEW s \in Addr, NEW t \in Addr \cup {Blank}, NEW ips \in Prefix,
               Delegate(s, t, ips)
        PROVE  R!Next
    BY <2>2, DelegateRefines
  <2>3. ASSUME \/ \E s \in Addr, meta \in MapServerMeta : SetMapServer(s, meta)
               \/ \E s \in Addr, meta \in LocatorMeta : SetLocator(s, meta)
               \/ UNCHANGED vars
        PROVE  UNCHANGED <<ow, de, cached>>
    <3>1. state'.own = state.own /\ state'.delegated = state.delegated /\ cached' = cached
      BY <2>3, SetMapServerStep, SetLocatorStep, MappingsConsistent DEF IInv, vars
    <3>. QED  BY <3>1, RegistryStutter
  <2>4. CASE FinishBlock
    <3>1. ow' = ow /\ de' = de
      BY <2>4, RegistryStutter DEF FinishBlock
    <3>2. cached' = [p \in Prefix |-> Blank]
      BY <2>4 DEF FinishBlock, NoEntries
    <3>3. R!Settle
      BY <3>1, <3>2 DEF R!Settle
    <3>. QED  BY <3>3 DEF R!Next
  <2>. QED  BY <2>1, <2>2, <2>3, <2>4 DEF Next
<1>. QED  BY <1>1, <1>2, Invariance, PTL DEF Spec, ImplementsRegistry, R!Spec
=============================================================================
