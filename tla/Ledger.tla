------------------------------- MODULE Ledger -------------------------------
(***************************************************************************)
(* The ledger as a state machine.  The transactions of a block are applied *)
(* one after another to the account state; each of them was also validated *)
(* against the state before the block (validate_block).  The prefixes they *)
(* move are remembered in `cached', and at the end of the block            *)
(* apply_block sets them in the Patricia tree that answers "which address  *)
(* is responsible for this IP".  Blocks that raise half-way are in Chain.  *)
(***************************************************************************)
EXTENDS Balance

CONSTANT MaxNonce    \* bound: transactions an account may issue

ASSUME NonceAssumption == MaxNonce \in Nat

VARIABLES
  state,       \* chain.state: the account state
  prestate,    \* the account state at the end of the previous block
  cached,      \* prefixes moved by the block being applied
  patricia     \* chain.patricia

vars == <<state, prestate, cached, patricia>>

TypeOK ==
  /\ state \in LedgerState
  /\ prestate \in LedgerState
  /\ cached \in Patricia
  /\ patricia \in Patricia

Init ==
  /\ state = genesis_state
  /\ prestate = genesis_state
  /\ cached = NoEntries
  /\ patricia = genesis_patricia

-----------------------------------------------------------------------------
\* The fields of a signed transaction, one constructor per kind.
MoveTx(c, s, t, ips, n) ==
  [category |-> c, sender |-> s, to |-> t, value |-> ips, nonce |-> n, metadata |-> <<>>]

\* The value of categories 2 and 3 is checked by the constructor and read by nobody.
MetaTx(c, s, n, meta) ==
  [category |-> c, sender |-> s, to |-> Blank, value |-> {}, nonce |-> n, metadata |-> meta]

\* validate_block's check of a transaction, and its turn in apply_block's loop.
Apply(tx) ==
  /\ validate_transaction(prestate, tx)
  /\ Applies(state, tx)
  /\ state' = apply_transaction(state, tx)
  /\ cached' = cache_transaction(cached, tx)
  /\ UNCHANGED <<prestate, patricia>>

Allocate(s, t, ips) ==
  \E n \in 0..MaxNonce - 1 : Apply(MoveTx(ALLOCATE, s, t, ips, n))

Delegate(s, t, ips) ==
  \E n \in 0..MaxNonce - 1 : Apply(MoveTx(DELEGATE, s, t, ips, n))

SetMapServer(s, meta) ==
  \E n \in 0..MaxNonce - 1 : Apply(MetaTx(MAPSERVER, s, n, meta))

SetLocator(s, meta) ==
  \E n \in 0..MaxNonce - 1 : Apply(MetaTx(LOCATOR, s, n, meta))

\* The end of apply_block: the tree takes over what the block cached.
FinishBlock ==
  /\ state # prestate
  /\ prestate' = state
  /\ patricia' = set_values(patricia, cached)
  /\ cached' = NoEntries
  /\ UNCHANGED state

Next ==
  \/ \E s \in Addr, t \in Addr \cup {Blank}, ips \in Prefix : Allocate(s, t, ips)
  \/ \E s \in Addr, t \in Addr \cup {Blank}, ips \in Prefix : Delegate(s, t, ips)
  \/ \E s \in Addr, meta \in MapServerMeta : SetMapServer(s, meta)
  \/ \E s \in Addr, meta \in LocatorMeta : SetLocator(s, meta)
  \/ FinishBlock

Spec == Init /\ [][Next]_vars

-----------------------------------------------------------------------------
(***************************************************************************)
(* Properties.                                                             *)
(***************************************************************************)

\* No IP address is owned by two accounts, whatever sequence of transactions
\* apply_transaction accepted: validate_transaction's balance check and the
\* order in which the two balances are stored never duplicate address space.
OwnDisjoint == DisjointOwners(state)

\* An IP address is on loan to at most one account, and only from its owner:
\* allocating or delegating it again revokes the delegations it is part of,
\* also the ones made with a longer or a shorter prefix.
OneDelegatee == DelegatesOwnIPs(state) /\ DelegatesOnce(state)

\* What an account records as delegated to another is what the other records
\* as received from it; the two dictionaries live in different accounts and
\* are stored separately.
DelegationsMirrored == MirroredDelegations(state)

\* query_eid answers from the map servers or from the locators: the two
\* setters reset each other, so an account never has both.
MappingsExclusive == ExclusiveMappings(state)

\* A validated transaction to a real address still raises in apply_transaction
\* for two causes only: it touches what the sender once delegated to itself, or
\* a delegation of more addresses than len() counts.  The two ends of any other
\* delegation agree, so revoking it finds the entry it removes from.
RaisesExplained ==
  \A c \in {ALLOCATE, DELEGATE}, s, t \in Addr, ips \in Prefix :
    LET tx == MoveTx(c, s, t, ips, state.nonce[s])
    IN  validate_transaction(state, tx) /\ apply_raises(state, tx)
          => \E b \in Addr : /\ state.delegated[s][b] \cap ips # {}
                             /\ b = s \/ len_raises(state.delegated[s][b])

\* Every owned IP address is found in the tree: query_eid never reports an
\* owned EID as "not owned by anybody", in the middle of a block either.
OwnedIsFound ==
  \A a \in Addr : \A ip \in state.own[a] : get_value(patricia, ip) # Blank

(***************************************************************************)
(* The refinement mapping: the owner of an IP address is the account whose *)
(* own_ips contain it, its delegatee the one the owner delegates it to.    *)
(***************************************************************************)
owner_of(st, ip) ==
  IF \E a \in Addr : ip \in st.own[a]
  THEN CHOOSE a \in Addr : ip \in st.own[a]
  ELSE Blank

delegatee_of(st, ip) ==
  IF \E a, b \in Addr : ip \in st.delegated[a][b]
  THEN CHOOSE b \in Addr : \E a \in Addr : ip \in st.delegated[a][b]
  ELSE Blank

R == INSTANCE Registry WITH
       Nobody    <- Blank,
       owner     <- [ip \in IP |-> owner_of(state, ip)],
       delegatee <- [ip \in IP |-> delegatee_of(state, ip)],
       moved     <- cached

\* The account ledger implements the registry: only the owner of a prefix moves
\* or lends it, a transfer ends every loan of what it moves, and the account the
\* block's cache names as the destination of an allocation owns the prefix from
\* then on.  No transaction creates or duplicates address space, and none loses
\* any save an allocation to oneself.
ImplementsRegistry == R!Spec

\* What the comment on get_addr_from_ip and the log lines of the main loop say
\* of the tree: at the end of a block, the address it returns for an owned IP is
\* the owner of the IP or the account the owner delegates it to.
LookupReturnsHolder ==
  state = prestate =>
    \A a \in Addr : \A ip \in state.own[a] :
      get_value(patricia, ip) \in {owner_of(state, ip), delegatee_of(state, ip)}
=============================================================================
