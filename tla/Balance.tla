------------------------------ MODULE Balance ------------------------------
(***************************************************************************)
(* The ledger of IPchain as pure operators: the Balance every account      *)
(* keeps (balance.py), the account state (state.py, account.py) and what a *)
(* transaction does to it (apply.py, validate_transaction and              *)
(* apply_transaction).                                                     *)
(*                                                                         *)
(* An IP prefix is the set of the addresses it covers, so the IPSet        *)
(* operations of netaddr are set operations.  A dictionary of IPSets whose *)
(* empty entries are popped is a total function in which the empty set     *)
(* stands for the absent key.                                              *)
(***************************************************************************)
EXTENDS Integers, Sequences, FiniteSets

CONSTANTS
  Addr,          \* blockchain addresses (hashes of public keys)
  Blank,         \* the empty address b'' that normalize_address lets through
  IP,            \* IP addresses
  Prefix,        \* IP prefixes, each the set of IPs it covers
  MapServer,     \* map server addresses carried by category 2 metadata
  Rloc,          \* locator addresses carried by category 3 metadata
  PrioWeight,    \* <<priority, weight>> pairs of category 3 metadata
  NoLocator,     \* value of the locator table for an absent Rloc
  MapServerMeta, \* category 2 metadata: nonempty sequences of map servers
  LocatorMeta,   \* category 3 metadata: nonempty sequences of locators
  MAXINT         \* sys.maxint: the most addresses len() counts in an IPSet

\* The empty address is not the address of an account.
ASSUME BlankAssumption == Blank \notin Addr

\* The addresses of IPv4 and IPv6 are finitely many.
ASSUME AddressAssumption == IsFiniteSet(IP) /\ MAXINT \in Nat

\* A prefix covers some address.
ASSUME PrefixAssumption == Prefix \subseteq (SUBSET IP) \ {{}}

\* Transaction.__init__ lets no other metadata through.
ASSUME MetaAssumption ==
  /\ MapServerMeta \subseteq Seq(MapServer) \ {<<>>}
  /\ LocatorMeta \subseteq Seq([rloc : Rloc, pw : PrioWeight]) \ {<<>>}
  /\ NoLocator \notin PrioWeight

\* Prefixes that cover a common address are nested: one of them is the longest.
ASSUME LongestMatchAssumption ==
  \A ip \in IP : \A Q \in SUBSET { p \in Prefix : ip \in p } :
    Q # {} => \E p \in Q : \A q \in Q : p \subseteq q

-----------------------------------------------------------------------------
\* The account state: the Balance and the nonce of every address.
LedgerState ==
  [own        : [Addr -> SUBSET IP],
   delegated  : [Addr -> [Addr -> SUBSET IP]],
   received   : [Addr -> [Addr -> SUBSET IP]],
   map_server : [Addr -> SUBSET MapServer],
   locator    : [Addr -> [Rloc -> PrioWeight \cup {NoLocator}]],
   nonce      : [Addr -> Nat]]

\* Categories of a transaction (apply.py:108,132,154,163).
ALLOCATE   == 0
DELEGATE   == 1
MAPSERVER  == 2
LOCATOR    == 3

\* A locator table without entries: Balance's default {}.
NoLocators == [r \in Rloc |-> NoLocator]

\* Balance.in_own_ips: IPSet containment of the whole prefix.
in_own_ips(st, a, ips) == ips \subseteq st.own[a]

\* Balance.affected_delegated_ips: what of ips account a delegates to each address.
affected_delegated_ips(st, a, ips) == [b \in Addr |-> st.delegated[a][b] \cap ips]

\* Mutant: the metadata is stored as it is.
set_map_server_raw(meta) == {meta}

\* Balance.set_map_server: the metadata is a list of map servers.
set_map_server(meta) == { meta[i] : i \in DOMAIN meta }

(***************************************************************************)
(* Balance.set_locator.  One list l is allocated before the loop and every *)
(* entry of the table refers to it, so after the loop each locator carries *)
(* the priority and weight of the last one.                                *)
(***************************************************************************)
set_locator(meta) ==
  [r \in Rloc |-> IF \E i \in DOMAIN meta : meta[i].rloc = r
                  THEN meta[Len(meta)].pw
                  ELSE NoLocator]

-----------------------------------------------------------------------------
\* Mutant: the nonce is not compared.
validate_any_nonce(st, tx) ==
  /\ tx.sender \in Addr
  /\ tx.category \in ALLOCATE..LOCATOR
  /\ tx.category \in {ALLOCATE, DELEGATE} => in_own_ips(st, tx.sender, tx.value)

(***************************************************************************)
(* apply.validate_transaction: it returns True, or raises.  Unsigned       *)
(* transactions have the null address as sender, which is no account.      *)
(***************************************************************************)
validate_transaction(st, tx) ==
  /\ tx.sender \in Addr
  /\ tx.nonce = st.nonce[tx.sender]
  /\ tx.category \in ALLOCATE..LOCATOR
  /\ tx.category \in {ALLOCATE, DELEGATE} => in_own_ips(st, tx.sender, tx.value)

(***************************************************************************)
(* The exceptions a validated transaction still raises in                  *)
(* apply_transaction: normalize_address of a blank destination; the        *)
(* KeyError of remove_received_ips when the delegatee has no entry for the *)
(* sender; and the IndexError of len() on an IPSet of more than sys.maxint *)
(* addresses, an IPv6 prefix of /65 or shorter.                            *)
(***************************************************************************)
len_raises(ips) == Cardinality(ips) > MAXINT

\* affected_delegated_ips counts what of ips is delegated to each address.
affected_raises(st, a, ips) ==
  \E b \in Addr : len_raises(affected_delegated_ips(st, a, ips)[b])

\* Before b's balance is stored: remove_delegated_ips counts what a still
\* delegates to b, remove_received_ips looks up and counts what b still has.
revoke_raises(st, a, b, ips) ==
  LET joint == affected_delegated_ips(st, a, ips)[b]
  IN  /\ joint # {}
      /\ \/ len_raises(st.delegated[a][b] \ joint)
         \/ st.received[b][a] = {}
         \/ len_raises(st.received[b][a] \ joint)

revocation_raises(st, a, ips) ==
  affected_raises(st, a, ips) \/ \E b \in Addr : revoke_raises(st, a, b, ips)

apply_raises(st, tx) ==
  /\ tx.category \in {ALLOCATE, DELEGATE}
  /\ tx.to \notin Addr \/ revocation_raises(st, tx.sender, tx.value)

\* apply_transaction runs to its return: it validates, then applies.
Applies(st, tx) == validate_transaction(st, tx) /\ ~apply_raises(st, tx)

\* state.increment_nonce.
increment_nonce(st, a) == [st.nonce EXCEPT ![a] = @ + 1]

\* Mutant: the delegatee's balance is not stored.
revoke_nothing(st, a, ips) == st.received

\* Mutant: the delegatee's entry is popped when only part of it is revoked.
revoke_entry(st, a, ips) ==
  [b \in Addr |-> [st.received[b] EXCEPT
                     ![a] = IF affected_delegated_ips(st, a, ips)[b] = {} THEN @ ELSE {}]]

\* The received side of revoking what a delegates of ips (apply.py:116-121).
revoke_received(st, a, ips) ==
  [b \in Addr |-> [st.received[b] EXCEPT ![a] = @ \ affected_delegated_ips(st, a, ips)[b]]]

\* Mutant: the sender keeps what it allocates.
allocate_copy(st, s, t, ips) ==
  [own        |-> [st.own EXCEPT ![t] = @ \cup ips],
   delegated  |-> [st.delegated EXCEPT ![s] = [b \in Addr |-> st.delegated[s][b] \ ips]],
   received   |-> revoke_received(st, s, ips),
   map_server |-> st.map_server,
   locator    |-> st.locator,
   nonce      |-> increment_nonce(st, s)]

\* Mutant: the destination's balance is not stored.
allocate_lost(st, s, t, ips) ==
  [own        |-> [st.own EXCEPT ![s] = @ \ ips],
   delegated  |-> [st.delegated EXCEPT ![s] = [b \in Addr |-> st.delegated[s][b] \ ips]],
   received   |-> revoke_received(st, s, ips),
   map_server |-> st.map_server,
   locator    |-> st.locator,
   nonce      |-> increment_nonce(st, s)]

(***************************************************************************)
(* Category 0.  The sender's Balance is a copy read before the             *)
(* destination's and stored after it, so with to = sender the store of the *)
(* destination is overwritten.                                             *)
(***************************************************************************)
allocate(st, s, t, ips) ==
  [own        |-> [[st.own EXCEPT ![t] = @ \cup ips] EXCEPT ![s] = st.own[s] \ ips],
   delegated  |-> [st.delegated EXCEPT ![s] = [b \in Addr |-> st.delegated[s][b] \ ips]],
   received   |-> revoke_received(st, s, ips),
   map_server |-> st.map_server,
   locator    |-> st.locator,
   nonce      |-> increment_nonce(st, s)]

\* Mutant: earlier delegations of the same addresses stay.
delegate_more(st, s, t, ips) ==
  [own        |-> st.own,
   delegated  |-> [st.delegated EXCEPT ![s][t] = @ \cup ips],
   received   |-> [st.received EXCEPT ![t][s] = @ \cup ips],
   map_server |-> st.map_server,
   locator    |-> st.locator,
   nonce      |-> increment_nonce(st, s)]

(***************************************************************************)
(* Category 1.  Same order of stores: with to = sender the delegated entry *)
(* survives and the received entry does not.                               *)
(***************************************************************************)
delegate(st, s, t, ips) ==
  [own        |-> st.own,
   delegated  |-> [st.delegated EXCEPT ![s] =
                     [b \in Addr |-> IF b = t THEN st.delegated[s][b] \cup ips
                                     ELSE st.delegated[s][b] \ ips]],
   received   |-> [b \in Addr |->
                     IF b = t /\ t # s
                     THEN [st.received[b] EXCEPT ![s] =
                             (@ \ affected_delegated_ips(st, s, ips)[b]) \cup ips]
                     ELSE revoke_received(st, s, ips)[b]],
   map_server |-> st.map_server,
   locator    |-> st.locator,
   nonce      |-> increment_nonce(st, s)]

\* Category 2: the map servers replace the locators.
set_map_servers(st, s, meta) ==
  [own        |-> st.own,
   delegated  |-> st.delegated,
   received   |-> st.received,
   map_server |-> [st.map_server EXCEPT ![s] = set_map_server(meta)],
   locator    |-> [st.locator EXCEPT ![s] = NoLocators],
   nonce      |-> increment_nonce(st, s)]

\* Mutant: the map servers stay.
set_locators_too(st, s, meta) ==
  [own        |-> st.own,
   delegated  |-> st.delegated,
   received   |-> st.received,
   map_server |-> st.map_server,
   locator    |-> [st.locator EXCEPT ![s] = set_locator(meta)],
   nonce      |-> increment_nonce(st, s)]

\* Category 3: the locators replace the map servers.
set_locators(st, s, meta) ==
  [own        |-> st.own,
   delegated  |-> st.delegated,
   received   |-> st.received,
   map_server |-> [st.map_server EXCEPT ![s] = {}],
   locator    |-> [st.locator EXCEPT ![s] = set_locator(meta)],
   nonce      |-> increment_nonce(st, s)]

\* apply.apply_transaction, for a transaction that Applies.
apply_transaction(st, tx) ==
  CASE tx.category = ALLOCATE  -> allocate(st, tx.sender, tx.to, tx.value)
    [] tx.category = DELEGATE  -> delegate(st, tx.sender, tx.to, tx.value)
    [] tx.category = MAPSERVER -> set_map_servers(st, tx.sender, tx.metadata)
    [] tx.category = LOCATOR   -> set_locators(st, tx.sender, tx.metadata)

\* cached[str(value)] = to, for the two categories that move prefixes.
cache_transaction(cached, tx) ==
  IF tx.category \in {ALLOCATE, DELEGATE}
  THEN [cached EXCEPT ![tx.value] = tx.to]
  ELSE cached

-----------------------------------------------------------------------------
\* PatriciaState: the address stored for each prefix, Blank without a node.
Patricia == [Prefix -> Addr \cup {Blank}]

NoEntries == [p \in Prefix |-> Blank]

\* Mutant: the tree is rebuilt from the block alone.
set_only(patricia, cached) == cached

\* The last loop of apply_block: every cached entry is set in the tree.
set_values(patricia, cached) ==
  [p \in Prefix |-> IF cached[p] # Blank THEN cached[p] ELSE patricia[p]]

\* The entries of the tree that cover ip.
covering(patricia, ip) == { p \in Prefix : ip \in p /\ patricia[p] # Blank }

\* PatriciaState.get_value: search_best is the longest matching prefix.
get_value(patricia, ip) ==
  IF covering(patricia, ip) = {}
  THEN Blank
  ELSE patricia[CHOOSE p \in covering(patricia, ip) :
                   \A q \in covering(patricia, ip) : p \subseteq q]

-----------------------------------------------------------------------------
(***************************************************************************)
(* The genesis declaration gives prefixes to addresses; its alloc list is  *)
(* turned into balances and tree entries by state_from_genesis_declaration.*)
(***************************************************************************)
CONSTANT Genesis    \* Genesis[a] is the own_ips list of a in genesis.json

ASSUME GenesisAssumption ==
  /\ Genesis \in [Addr -> SUBSET Prefix]
  /\ \A a, b \in Addr : a # b =>
       \A p \in Genesis[a], q \in Genesis[b] : p \cap q = {}

genesis_state ==
  [own        |-> [a \in Addr |-> UNION Genesis[a]],
   delegated  |-> [a \in Addr |-> [b \in Addr |-> {}]],
   received   |-> [a \in Addr |-> [b \in Addr |-> {}]],
   map_server |-> [a \in Addr |-> {}],
   locator    |-> [a \in Addr |-> NoLocators],
   nonce      |-> [a \in Addr |-> 0]]

genesis_patricia ==
  [p \in Prefix |-> IF \E a \in Addr : p \in Genesis[a]
                    THEN CHOOSE a \in Addr : p \in Genesis[a]
                    ELSE Blank]

-----------------------------------------------------------------------------
(***************************************************************************)
(* What a consistent ledger is.                                            *)
(***************************************************************************)

\* No IP address is owned by two accounts.
DisjointOwners(st) ==
  \A a, b \in Addr : a # b => st.own[a] \cap st.own[b] = {}

\* An account delegates only what it owns.
DelegatesOwnIPs(st) ==
  \A a, b \in Addr : st.delegated[a][b] \subseteq st.own[a]

\* An account delegates an IP address to one other account at most.
DelegatesOnce(st) ==
  \A a, b, c \in Addr : b # c => st.delegated[a][b] \cap st.delegated[a][c] = {}

\* The two ends of a delegation agree; a delegation to oneself has no other end.
MirroredDelegations(st) ==
  \A a, b \in Addr : /\ a # b => st.received[b][a] = st.delegated[a][b]
                     /\ a = b => st.received[b][a] = {}

\* An account has map servers or locators, never both.
ExclusiveMappings(st) ==
  \A a \in Addr : st.map_server[a] = {} \/ st.locator[a] = NoLocators

Consistent(st) ==
  /\ st \in LedgerState
  /\ DisjointOwners(st)
  /\ DelegatesOwnIPs(st)
  /\ DelegatesOnce(st)
  /\ MirroredDelegations(st)
  /\ ExclusiveMappings(st)
=============================================================================
