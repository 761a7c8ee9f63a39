---------------------------- MODULE BalanceProofs ----------------------------
(***************************************************************************)
(* What the operations of the ledger do to a consistent ledger.  Each      *)
(* conjunct of Consistent needs the others.  A transfer keeps the owners   *)
(* disjoint because the sender owned all it moves; the delegations stay    *)
(* inside what their owner keeps because the transfer revokes the ones it  *)
(* meets; and it can revoke them at both ends because the two ends agreed. *)
(***************************************************************************)
EXTENDS Balance, TLAPS

\* The genesis declaration is a consistent ledger.
LEMMA GenesisConsistent == Consistent(genesis_state)
<1>1. genesis_state \in LedgerState
  BY PrefixAssumption, GenesisAssumption DEF genesis_state, LedgerState, NoLocators
<1>2. DisjointOwners(genesis_state)
  BY GenesisAssumption DEF genesis_state, DisjointOwners
<1>3. /\ DelegatesOwnIPs(genesis_state)
      /\ DelegatesOnce(genesis_state)
      /\ MirroredDelegations(genesis_state)
      /\ ExclusiveMappings(genesis_state)
  BY DEF genesis_state, DelegatesOwnIPs, DelegatesOnce, MirroredDelegations,
         ExclusiveMappings
<1>. QED  BY <1>1, <1>2, <1>3 DEF Consistent

\* What category 0 of apply_transaction does to each entry of the balances.
LEMMA AllocateEntries ==
  ASSUME NEW st \in LedgerState, NEW s \in Addr, NEW t \in Addr, NEW ips \in SUBSET IP
  PROVE  LET new == allocate(st, s, t, ips)
         IN  /\ new \in LedgerState
             /\ new.own[s] = st.own[s] \ ips
             /\ s # t => new.own[t] = st.own[t] \cup ips
             /\ \A a \in Addr : a # s /\ a # t => new.own[a] = st.own[a]
             /\ \A b \in Addr : new.delegated[s][b] = st.delegated[s][b] \ ips
             /\ \A a \in Addr : a # s => new.delegated[a] = st.delegated[a]
             /\ \A b \in Addr :
                  new.received[b][s] = st.received[b][s] \ (st.delegated[s][b] \cap ips)
             /\ \A a, b \in Addr : a # s => new.received[b][a] = st.received[b][a]
             /\ new.map_server = st.map_server
             /\ new.locator = st.locator
<1>. DEFINE own2 == [[st.own EXCEPT ![t] = @ \cup ips] EXCEPT ![s] = st.own[s] \ ips]
            del2 == [st.delegated EXCEPT ![s] = [b \in Addr |-> st.delegated[s][b] \ ips]]
            rec2 == revoke_received(st, s, ips)
            non2 == increment_nonce(st, s)
<1>1. /\ own2 \in [Addr -> SUBSET IP]
      /\ own2[s] = st.own[s] \ ips
      /\ s # t => own2[t] = st.own[t] \cup ips
      /\ \A a \in Addr : a # s /\ a # t => own2[a] = st.own[a]
  BY DEF LedgerState
<1>2. /\ del2 \in [Addr -> [Addr -> SUBSET IP]]
      /\ \A b \in Addr : del2[s][b] = st.delegated[s][b] \ ips
      /\ \A a \in Addr : a # s => del2[a] = st.delegated[a]
  BY DEF LedgerState
<1>3. /\ rec2 \in [Addr -> [Addr -> SUBSET IP]]
      /\ \A b \in Addr : rec2[b][s] = st.received[b][s] \ (st.delegated[s][b] \cap ips)
      /\ \A a, b \in Addr : a # s => rec2[b][a] = st.received[b][a]
  BY DEF LedgerState, revoke_received, affected_delegated_ips
<1>4. non2 \in [Addr -> Nat]
  BY DEF LedgerState, increment_nonce
<1>5. allocate(st, s, t, ips) = [own |-> own2, delegated |-> del2, received |-> rec2,
         map_server |-> st.map_server, locator |-> st.locator, nonce |-> non2]
  BY DEF allocate
<1>. HIDE DEF own2, del2, rec2, non2
<1>. QED  BY <1>1, <1>2, <1>3, <1>4, <1>5 DEF LedgerState

\* What category 1 does to each entry.
LEMMA DelegateEntries ==
  ASSUME NEW st \in LedgerState, NEW s \in Addr, NEW t \in Addr, NEW ips \in SUBSET IP
  PROVE  LET new == delegate(st, s, t, ips)
         IN  /\ new \in LedgerState
             /\ new.own = st.own
             /\ new.delegated[s][t] = st.delegated[s][t] \cup ips
             /\ \A b \in Addr : b # t => new.delegated[s][b] = st.delegated[s][b] \ ips
             /\ \A a \in Addr : a # s => new.delegated[a] = st.delegated[a]
             /\ s # t => new.received[t][s] =
                           (st.received[t][s] \ (st.delegated[s][t] \cap ips)) \cup ips
             /\ \A b \in Addr : b # t \/ s = t =>
                  new.received[b][s] = st.received[b][s] \ (st.delegated[s][b] \cap ips)
             /\ \A a, b \in Addr : a # s => new.received[b][a] = st.received[b][a]
             /\ new.map_server = st.map_server
             /\ new.locator = st.locator
<1>. DEFINE del2 == [st.delegated EXCEPT ![s] =
                       [b \in Addr |-> IF b = t THEN st.delegated[s][b] \cup ips
                                       ELSE st.delegated[s][b] \ ips]]
            rec2 == [b \in Addr |->
                       IF b = t /\ t # s
                       THEN [st.received[b] EXCEPT ![s] =
                               (@ \ affected_delegated_ips(st, s, ips)[b]) \cup ips]
                       ELSE revoke_received(st, s, ips)[b]]
            non2 == increment_nonce(st, s)
<1>2. /\ del2 \in [Addr -> [Addr -> SUBSET IP]]
      /\ del2[s][t] = st.delegated[s][t] \cup ips
      /\ \A b \in Addr : b # t => del2[s][b] = st.delegated[s][b] \ ips
      /\ \A a \in Addr : a # s => del2[a] = st.delegated[a]
  BY DEF LedgerState
<1>3. /\ rec2 \in [Addr -> [Addr -> SUBSET IP]]
      /\ s # t => rec2[t][s] = (st.received[t][s] \ (st.delegated[s][t] \cap ips)) \cup ips
      /\ \A b \in Addr : b # t \/ s = t =>
           rec2[b][s] = st.received[b][s] \ (st.delegated[s][b] \cap ips)
      /\ \A a, b \in Addr : a # s => rec2[b][a] = st.received[b][a]
  BY DEF LedgerState, revoke_received, affected_delegated_ips
<1>4. non2 \in [Addr -> Nat]
  BY DEF LedgerState, increment_nonce
<1>5. delegate(st, s, t, ips) = [own |-> st.own, delegated |-> del2, received |-> rec2,
         map_server |-> st.map_server, locator |-> st.locator, nonce |-> non2]
  BY DEF delegate
<1>. HIDE DEF del2, rec2, non2
<1>. QED  BY <1>2, <1>3, <1>4, <1>5 DEF LedgerState

\* An allocation the ledger accepts keeps it consistent.
LEMMA AllocateConsistent ==
  ASSUME NEW st, Consistent(st), NEW s \in Addr, NEW t \in Addr, NEW ips \in SUBSET IP,
         in_own_ips(st, s, ips), ~revocation_raises(st, s, ips)
  PROVE  Consistent(allocate(st, s, t, ips))
<1>. DEFINE new == allocate(st, s, t, ips)
<1>0. st \in LedgerState
  BY DEF Consistent
<1>1. /\ new \in LedgerState
      /\ new.own[s] = st.own[s] \ ips
      /\ s # t => new.own[t] = st.own[t] \cup ips
      /\ \A a \in Addr : a # s /\ a # t => new.own[a] = st.own[a]
      /\ \A b \in Addr : new.delegated[s][b] = st.delegated[s][b] \ ips
      /\ \A a \in Addr : a # s => new.delegated[a] = st.delegated[a]
      /\ \A b \in Addr :
           new.received[b][s] = st.received[b][s] \ (st.delegated[s][b] \cap ips)
      /\ \A a, b \in Addr : a # s => new.received[b][a] = st.received[b][a]
      /\ new.map_server = st.map_server
      /\ new.locator = st.locator
  BY <1>0, AllocateEntries
<1>. HIDE DEF new
<1>2. DisjointOwners(new)
  <2>1. SUFFICES ASSUME NEW a \in Addr, NEW b \in Addr, a # b, a # s
                 PROVE  new.own[a] \cap new.own[b] = {}
    BY DEF DisjointOwners
  <2>2. st.own[a] \cap st.own[b] = {} /\ st.own[a] \cap st.own[s] = {}
    BY <2>1 DEF Consistent, DisjointOwners
  <2>3. CASE b = s
    BY <1>1, <2>1, <2>2, <2>3 DEF in_own_ips
  <2>4. CASE b # s
    <3>1. st.own[b] \cap ips = {} /\ st.own[a] \cap ips = {}
      BY <2>1, <2>4 DEF Consistent, DisjointOwners, in_own_ips
    <3>. QED  BY <1>1, <2>1, <2>2, <2>4, <3>1
  <2>. QED  BY <2>3, <2>4
<1>3. DelegatesOwnIPs(new)
  <2>1. SUFFICES ASSUME NEW a \in Addr, NEW b \in Addr
                 PROVE  new.delegated[a][b] \subseteq new.own[a]
    BY DEF DelegatesOwnIPs
  <2>2. st.delegated[a][b] \subseteq st.own[a]
    BY DEF Consistent, DelegatesOwnIPs
  <2>3. CASE a = s
    BY <1>1, <2>2, <2>3
  <2>4. CASE a # s
    BY <1>1, <2>2, <2>4
  <2>. QED  BY <2>3, <2>4
<1>4. DelegatesOnce(new)
  <2>1. SUFFICES ASSUME NEW a \in Addr, NEW b \in Addr, NEW c \in Addr, b # c
                 PROVE  new.delegated[a][b] \cap new.delegated[a][c] = {}
    BY DEF DelegatesOnce
  <2>2. st.delegated[a][b] \cap st.delegated[a][c] = {}
    BY <2>1 DEF Consistent, DelegatesOnce
  <2>3. CASE a = s
    BY <1>1, <2>2, <2>3
  <2>4. CASE a # s
    BY <1>1, <2>2, <2>4
  <2>. QED  BY <2>3, <2>4
<1>5. MirroredDelegations(new)
  <2>1. SUFFICES ASSUME NEW a \in Addr, NEW b \in Addr
                 PROVE  /\ a # b => new.received[b][a] = new.delegated[a][b]
                        /\ a = b => new.received[b][a] = {}
    BY DEF MirroredDelegations
  <2>2. /\ a # b => st.received[b][a] = st.delegated[a][b]
        /\ a = b => st.received[b][a] = {}
    BY DEF Consistent, MirroredDelegations
  <2>3. CASE a = s /\ b # s
    <3>1. new.received[b][a] = st.delegated[a][b] \ (st.delegated[a][b] \cap ips)
      BY <1>1, <2>2, <2>3
    <3>2. st.delegated[a][b] \ (st.delegated[a][b] \cap ips) = st.delegated[a][b] \ ips
      OBVIOUS
    <3>. QED  BY <1>1, <2>3, <3>1, <3>2
  <2>4. CASE a = s /\ b = s
    BY <1>1, <2>2, <2>4
  <2>5. CASE a # s
    BY <1>1, <2>2, <2>5
  <2>. QED  BY <2>3, <2>4, <2>5
<1>6. ExclusiveMappings(new)
  BY <1>1 DEF Consistent, ExclusiveMappings
<1>. QED  BY <1>1, <1>2, <1>3, <1>4, <1>5, <1>6 DEF Consistent, new

\* So does a delegation.
LEMMA DelegateConsistent ==
  ASSUME NEW st, Consistent(st), NEW s \in Addr, NEW t \in Addr, NEW ips \in SUBSET IP,
         in_own_ips(st, s, ips), ~revocation_raises(st, s, ips)
  PROVE  Consistent(delegate(st, s, t, ips))
<1>. DEFINE new == delegate(st, s, t, ips)
<1>0. st \in LedgerState
  BY DEF Consistent
<1>1. /\ new \in LedgerState
      /\ new.own = st.own
      /\ new.delegated[s][t] = st.delegated[s][t] \cup ips
      /\ \A b \in Addr : b # t => new.delegated[s][b] = st.delegated[s][b] \ ips
      /\ \A a \in Addr : a # s => new.delegated[a] = st.delegated[a]
      /\ s # t => new.received[t][s] =
                    (st.received[t][s] \ (st.delegated[s][t] \cap ips)) \cup ips
      /\ \A b \in Addr : b # t \/ s = t =>
           new.received[b][s] = st.received[b][s] \ (st.delegated[s][b] \cap ips)
      /\ \A a, b \in Addr : a # s => new.received[b][a] = st.received[b][a]
      /\ new.map_server = st.map_server
      /\ new.locator = st.locator
  BY <1>0, DelegateEntries
<1>. HIDE DEF new
<1>2. DisjointOwners(new)
  BY <1>1 DEF Consistent, DisjointOwners
<1>3. DelegatesOwnIPs(new)
  <2>1. SUFFICES ASSUME NEW a \in Addr, NEW b \in Addr
                 PROVE  new.delegated[a][b] \subseteq new.own[a]
    BY DEF DelegatesOwnIPs
  <2>2. st.delegated[a][b] \subseteq st.own[a]
    BY DEF Consistent, DelegatesOwnIPs
  <2>3. CASE a = s /\ b = t
    BY <1>1, <2>2, <2>3 DEF in_own_ips
  <2>4. CASE a = s /\ b # t
    BY <1>1, <2>2, <2>4
  <2>5. CASE a # s
    BY <1>1, <2>2, <2>5
  <2>. QED  BY <2>3, <2>4, <2>5
<1>4. DelegatesOnce(new)
  <2>1. SUFFICES ASSUME NEW a \in Addr, NEW b \in Addr, NEW c \in Addr, b # c
                 PROVE  new.delegated[a][b] \cap new.delegated[a][c] = {}
    BY DEF DelegatesOnce
  <2>2. st.delegated[a][b] \cap st.delegated[a][c] = {}
    BY <2>1 DEF Consistent, DelegatesOnce
  <2>3. CASE a = s /\ b = t
    BY <1>1, <2>1, <2>2, <2>3
  <2>4. CASE a = s /\ c = t
    BY <1>1, <2>1, <2>2, <2>4
  <2>5. CASE a = s /\ b # t /\ c # t
    BY <1>1, <2>2, <2>5
  <2>6. CASE a # s
    BY <1>1, <2>2, <2>6
  <2>. QED  BY <2>3, <2>4, <2>5, <2>6
<1>5. MirroredDelegations(new)
  <2>1. SUFFICES ASSUME NEW a \in Addr, NEW b \in Addr
                 PROVE  /\ a # b => new.received[b][a] = new.delegated[a][b]
                        /\ a = b => new.received[b][a] = {}
    BY DEF MirroredDelegations
  <2>2. /\ a # b => st.received[b][a] = st.delegated[a][b]
        /\ a = b => st.received[b][a] = {}
    BY DEF Consistent, MirroredDelegations
  <2>3. CASE a = s /\ b = t /\ s # t
    BY <1>1, <2>2, <2>3
  <2>4. CASE a = s /\ b = s
    BY <1>1, <2>2, <2>4
  <2>5. CASE a = s /\ b # t /\ b # s
    <3>1. new.received[b][a] = st.delegated[a][b] \ (st.delegated[a][b] \cap ips)
      BY <1>1, <2>2, <2>5
    <3>2. st.delegated[a][b] \ (st.delegated[a][b] \cap ips) = st.delegated[a][b] \ ips
      OBVIOUS
    <3>. QED  BY <1>1, <2>5, <3>1, <3>2
  <2>6. CASE a # s
    BY <1>1, <2>2, <2>6
  <2>. QED  BY <2>3, <2>4, <2>5, <2>6
<1>6. ExclusiveMappings(new)
  BY <1>1 DEF Consistent, ExclusiveMappings
<1>. QED  BY <1>1, <1>2, <1>3, <1>4, <1>5, <1>6 DEF Consistent, new

\* Setting map servers or locators leaves the address space alone and resets
\* the other kind of mapping.
LEMMA MappingsConsistent ==
  ASSUME NEW st, Consistent(st), NEW s \in Addr
  PROVE  /\ \A meta \in MapServerMeta :
              /\ Consistent(set_map_servers(st, s, meta))
              /\ set_map_servers(st, s, meta).own = st.own
              /\ set_map_servers(st, s, meta).delegated = st.delegated
         /\ \A meta \in LocatorMeta :
              /\ Consistent(set_locators(st, s, meta))
              /\ set_locators(st, s, meta).own = st.own
              /\ set_locators(st, s, meta).delegated = st.delegated
<1>0. st \in LedgerState
  BY DEF Consistent
<1>1. ASSUME NEW meta \in MapServerMeta
      PROVE  /\ Consistent(set_map_servers(st, s, meta))
             /\ set_map_servers(st, s, meta).own = st.own
             /\ set_map_servers(st, s, meta).delegated = st.delegated
  <2>. DEFINE new == set_map_servers(st, s, meta)
  <2>1. /\ new.own = st.own
        /\ new.delegated = st.delegated
        /\ new.received = st.received
        /\ new.map_server = [st.map_server EXCEPT ![s] = set_map_server(meta)]
        /\ new.locator = [st.locator EXCEPT ![s] = NoLocators]
    BY DEF set_map_servers
  <2>2. set_map_server(meta) \in SUBSET MapServer
    BY MetaAssumption DEF set_map_server
  <2>3. new \in LedgerState
    BY <1>0, <2>2 DEF set_map_servers, LedgerState, NoLocators, increment_nonce
  <2>. HIDE DEF new
  <2>4. ExclusiveMappings(new)
    BY <1>0, <2>1 DEF Consistent, ExclusiveMappings, LedgerState
  <2>5. /\ DisjointOwners(new)
        /\ DelegatesOwnIPs(new)
        /\ DelegatesOnce(new)
        /\ MirroredDelegations(new)
    BY <2>1 DEF Consistent, DisjointOwners, DelegatesOwnIPs, DelegatesOnce,
                MirroredDelegations
  <2>. QED  BY <2>1, <2>3, <2>4, <2>5 DEF Consistent, new
<1>2. ASSUME NEW meta \in LocatorMeta
      PROVE  /\ Consistent(set_locators(st, s, meta))
             /\ set_locators(st, s, meta).own = st.own
             /\ set_locators(st, s, meta).delegated = st.delegated
  <2>. DEFINE new == set_locators(st, s, meta)
  <2>1. /\ new.own = st.own
        /\ new.delegated = st.delegated
        /\ new.received = st.received
        /\ new.map_server = [st.map_server EXCEPT ![s] = {}]
        /\ new.locator = [st.locator EXCEPT ![s] = set_locator(meta)]
    BY DEF set_locators
  <2>2. set_locator(meta) \in [Rloc -> PrioWeight \cup {NoLocator}]
    <3>1. /\ meta \in Seq([rloc : Rloc, pw : PrioWeight])
          /\ meta # <<>>
      BY MetaAssumption
    <3>. DEFINE Entry == [rloc : Rloc, pw : PrioWeight]
    <3>2. \A q \in Seq(Entry) : q # <<>> => q[Len(q)] \in Entry
      <4>. HIDE DEF Entry
      <4>. QED  OBVIOUS
    <3>3. meta[Len(meta)] \in Entry
      BY <3>1, <3>2
    <3>. QED  BY <3>3 DEF set_locator
  <2>3. new \in LedgerState
    BY <1>0, <2>2 DEF set_locators, LedgerState, increment_nonce
  <2>. HIDE DEF new
  <2>4. ExclusiveMappings(new)
    BY <1>0, <2>1 DEF Consistent, ExclusiveMappings, LedgerState
  <2>5. /\ DisjointOwners(new)
        /\ DelegatesOwnIPs(new)
        /\ DelegatesOnce(new)
        /\ MirroredDelegations(new)
    BY <2>1 DEF Consistent, DisjointOwners, DelegatesOwnIPs, DelegatesOnce,
                MirroredDelegations
  <2>. QED  BY <2>1, <2>3, <2>4, <2>5 DEF Consistent, new
<1>. QED  BY <1>1, <1>2
=============================================================================
