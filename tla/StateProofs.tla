----------------------------- MODULE StateProofs -----------------------------
(***************************************************************************)
(* Proofs about the account state, for any trie that keeps to TrieLaws.    *)
(*                                                                         *)
(* Between two transactions the state is Holding(accounts, A): the trie is *)
(* that of the accounts, the accounts of A are in the cache as well, and   *)
(* there is nothing to undo.  Inside a transaction it Tracks two           *)
(* dictionaries, the accounts that the trie still holds and those that the *)
(* touched entries of the cache make of them, and it is Undoable: for each *)
(* field of a cached account the oldest entry of the journal about it, or  *)
(* else the cache, has the value that the trie holds.  commit turns the    *)
(* second dictionary into a state that holds it, revert goes back to the   *)
(* first.                                                                  *)
(***************************************************************************)
EXTENDS State, FoldProofs

-----------------------------------------------------------------------------
(* The accounts as a dictionary, and the states that hold one *)

Accts == UNION {[A -> AccountType] : A \in SUBSET Addr}
Cached == [nonce : Nat, balance : Balances, touched : BOOLEAN]
Root(d) == trie_of(ByHash(d))

\* The state with the accounts d in its trie, those of A in the cache too, and
\* nothing to undo.
Holding(d, A) == [trie    |-> Root(d),
                  cache   |-> [a \in A |-> Untouched(AccountIn(d, a))],
                  journal |-> <<>>]
Clean(s, d) == \E A \in SUBSET Addr : s = Holding(d, A)

GenesisAccounts == [a \in DOMAIN Genesis |-> [nonce |-> 0, balance |-> Genesis[a]]]

\* The header of the block in hand names the root of what its transactions leave.
BlockOK ==
  /\ block.txs \in TxLists /\ done \in 0..Len(block.txs)
  /\ snapshot = [root |-> Root(before), len |-> 0]
  /\ accounts = AfterAll(before, SubSeq(block.txs, 1, done))
  /\ block.state_root = Root(AfterAll(before, block.txs))

\* The parts of the inductive invariant.
HistoryOK == accounts \in Accts /\ before \in Accts
HeadOK ==
  /\ pc \in {"idle", "apply", "stopping"} => Clean(head, accounts)
  /\ pc = "down" => head = StateAt(BLANK)
PhaseOK ==
  /\ pc \in {"idle", "apply", "stopping", "down"}
  /\ pc # "apply" => before = accounts
  /\ pc \in {"idle", "down"} => block = NoBlock /\ done = 0
  /\ pc \in {"apply", "stopping"} => block.txs \in TxLists /\ done \in 0..Len(block.txs)
  /\ pc = "apply" => BlockOK
DiskOK ==
  /\ db_root = Root(before)
  /\ height = 0 => before = GenesisAccounts
  /\ IsFiniteSet(disk) /\ IsFiniteSet(uncommitted)
CountersOK ==
  /\ height \in 0..MaxHeight /\ crashes \in 0..MaxCrash
  /\ pc = "apply" => height < MaxHeight

SInv == HistoryOK /\ HeadOK /\ PhaseOK /\ DiskOK /\ DbClosed /\ CountersOK

-----------------------------------------------------------------------------
(* Dictionaries of accounts, by address and by hash *)

\* The accounts e are the accounts d after a write.
Puts(e, d, a, v) ==
  /\ e \in Accts /\ DOMAIN e = DOMAIN d \cup {a}
  /\ \A b : AccountIn(e, b) = IF b = a THEN v ELSE AccountIn(d, b)

\* A dictionary after a write.
LEMMA PutAccts ==
  ASSUME NEW d \in Accts, NEW a \in Addr, NEW v \in AccountType
  PROVE  Puts(Put(d, a, v), d, a, v)
<1>1. PICK A \in SUBSET Addr : d \in [A -> AccountType]
  BY DEF Accts
<1>2. Put(d, a, v) \in [A \cup {a} -> AccountType]
  BY <1>1 DEF Put
<1>. QED  BY <1>1, <1>2 DEF Put, Puts, Accts, AccountIn

\* Every address has an account, blank if need be.
LEMMA AccountInType ==
  ASSUME NEW d \in Accts
  PROVE  /\ DOMAIN d \subseteq Addr /\ IsFiniteSet(DOMAIN d)
         /\ \A a \in DOMAIN d : d[a] \in AccountType
         /\ \A a : AccountIn(d, a) \in AccountType
<1>1. PICK A \in SUBSET Addr : d \in [A -> AccountType]
  BY DEF Accts
<1>2. IsFiniteSet(A)
  BY StateAssumption, FS_Subset
<1>3. BlankAccount \in AccountType
  BY StateAssumption DEF BlankAccount, AccountType
<1>. QED  BY <1>1, <1>2, <1>3 DEF AccountIn

\* Dictionaries with the same entries are the same.
LEMMA SameAccts ==
  ASSUME NEW d \in Accts, NEW e \in Accts, DOMAIN d = DOMAIN e, \A a \in DOMAIN d : d[a] = e[a]
  PROVE  d = e
BY DEF Accts

\* The dictionary by hashes has the entries of the dictionary by addresses.
LEMMA ByHashIs ==
  ASSUME NEW d \in Accts
  PROVE  /\ ByHash(d) \in Dicts(AccountType)
         /\ DOMAIN ByHash(d) = {sha3[a] : a \in DOMAIN d}
         /\ \A a \in Addr : sha3[a] \in DOMAIN ByHash(d) <=> a \in DOMAIN d
         /\ \A a \in DOMAIN d : ByHash(d)[sha3[a]] = d[a]
<1>1. DOMAIN d \subseteq Addr /\ \A a \in DOMAIN d : d[a] \in AccountType
  BY AccountInType
<1>2. \A a, b \in Addr : sha3[a] = sha3[b] => a = b
  BY StateAssumption
<1>3. DOMAIN ByHash(d) = {sha3[a] : a \in DOMAIN d}
  BY DEF ByHash
<1>4. ASSUME NEW a \in DOMAIN d PROVE ByHash(d)[sha3[a]] = d[a]
  <2>1. ByHash(d)[sha3[a]] = d[CHOOSE b \in DOMAIN d : sha3[b] = sha3[a]]
    BY DEF ByHash
  <2>2. (CHOOSE b \in DOMAIN d : sha3[b] = sha3[a]) = a
    BY <1>1, <1>2
  <2>. QED  BY <2>1, <2>2
<1>5. ByHash(d) \in [{sha3[a] : a \in DOMAIN d} -> AccountType]
  <2>1. \A k \in {sha3[a] : a \in DOMAIN d} : ByHash(d)[k] \in AccountType
    BY <1>1, <1>4
  <2>2. ByHash(d) = [k \in {sha3[a] : a \in DOMAIN d} |-> ByHash(d)[k]]
    BY DEF ByHash
  <2>. QED  BY <2>1, <2>2
<1>6. {sha3[a] : a \in DOMAIN d} \in SUBSET Hashes
  BY <1>1 DEF Hashes
<1>. QED  BY <1>1, <1>2, <1>3, <1>4, <1>5, <1>6 DEF Dicts

\* A write by address is a write by hash.
LEMMA ByHashPut ==
  ASSUME NEW d \in Accts, NEW a \in Addr, NEW v \in AccountType
  PROVE  ByHash(Put(d, a, v)) = Put(ByHash(d), sha3[a], v)
<1>. DEFINE e == Put(d, a, v)
            f == ByHash(d)
            g == Put(f, sha3[a], v)
<1>1. e \in Accts /\ DOMAIN e = DOMAIN d \cup {a}
      /\ \A b \in DOMAIN e : e[b] = IF b = a THEN v ELSE d[b]
  <2>1. /\ Put(d, a, v) \in Accts
    BY PutAccts DEF Puts
  <2>2. DOMAIN Put(d, a, v) = DOMAIN d \cup {a}
    BY PutAccts DEF Puts
  <2>3. \A b \in DOMAIN d \cup {a} : Put(d, a, v)[b] = IF b = a THEN v ELSE d[b]
    BY DEF Put
  <2>. QED  BY <2>1, <2>2, <2>3
<1>2. DOMAIN ByHash(e) = {sha3[b] : b \in DOMAIN e} /\ \A b \in DOMAIN e : ByHash(e)[sha3[b]] = e[b]
  BY <1>1, ByHashIs
<1>3. DOMAIN f = {sha3[b] : b \in DOMAIN d} /\ \A b \in DOMAIN d : f[sha3[b]] = d[b]
  BY ByHashIs
<1>4. DOMAIN g = DOMAIN f \cup {sha3[a]} /\ \A k \in DOMAIN g : g[k] = IF k = sha3[a] THEN v ELSE f[k]
  BY DEF Put
<1>5. DOMAIN d \subseteq Addr /\ \A b, c \in Addr : sha3[b] = sha3[c] => b = c
  BY AccountInType, StateAssumption
<1>6. DOMAIN ByHash(e) = DOMAIN g
  <2>. HIDE DEF e, f, g
  <2>. QED  BY <1>1, <1>2, <1>3, <1>4
<1>7. ASSUME NEW b \in DOMAIN e PROVE ByHash(e)[sha3[b]] = g[sha3[b]]
  <2>. HIDE DEF e, f, g
  <2>. QED  BY <1>1, <1>2, <1>3, <1>4, <1>5
<1>8. \A k \in DOMAIN g : ByHash(e)[k] = g[k]
  <2>. HIDE DEF e, f, g
  <2>. QED  BY <1>2, <1>6, <1>7
<1>9. ByHash(e) = [k \in DOMAIN ByHash(e) |-> ByHash(e)[k]] /\ g = [k \in DOMAIN g |-> g[k]]
  BY DEF ByHash, Put
<1>10. ByHash(e) = g
  <2>. HIDE DEF e, f, g
  <2>. QED  BY <1>6, <1>8, <1>9
<1>. QED  BY <1>10

\* Different accounts are different dictionaries by hash.
LEMMA ByHashInjective ==
  ASSUME NEW d \in Accts, NEW e \in Accts, ByHash(d) = ByHash(e)
  PROVE  d = e
<1>. DEFINE f == ByHash(d)
            g == ByHash(e)
<1>0. /\ f = g /\ DOMAIN d \subseteq Addr /\ DOMAIN e \subseteq Addr
      /\ \A a \in Addr : sha3[a] \in DOMAIN f <=> a \in DOMAIN d
      /\ \A a \in Addr : sha3[a] \in DOMAIN g <=> a \in DOMAIN e
      /\ \A a \in DOMAIN d : f[sha3[a]] = d[a]
      /\ \A a \in DOMAIN e : g[sha3[a]] = e[a]
  BY ByHashIs, AccountInType
<1>. HIDE DEF f, g
<1>1. DOMAIN d = DOMAIN e
  BY <1>0
<1>2. \A a \in DOMAIN d : d[a] = e[a]
  BY <1>0, <1>1
<1>. QED  BY <1>1, <1>2, SameAccts

\* No accounts, by hash.
LEMMA ByHashEmpty ==
  /\ <<>> \in Accts /\ DOMAIN <<>> = {}
  /\ ByHash(<<>>) = <<>>
  /\ \A d \in Accts : DOMAIN d = {} => d = <<>>
<1>1. DOMAIN <<>> = {} /\ <<>> \in [{} -> AccountType]
  OBVIOUS
<1>2. <<>> \in Accts
  BY <1>1 DEF Accts
<1>3. DOMAIN ByHash(<<>>) = {}
  BY <1>1 DEF ByHash
<1>4. ByHash(<<>>) \in [{} -> AccountType]
  BY <1>3 DEF ByHash
<1>. QED  BY <1>1, <1>2, <1>4, SameAccts

-----------------------------------------------------------------------------
(* The trie of a dictionary of accounts *)

Laws == TrieLaws(AccountType)

\* What the laws say of the trie of accounts, by address.
LEMMA RootIs ==
  ASSUME Laws, NEW d \in Accts
  PROVE  /\ \A a \in Addr : trie_get(Root(d), sha3[a]) = IF a \in DOMAIN d THEN d[a] ELSE BLANK
         /\ \A s : s.trie = Root(d) => addresses(s) = DOMAIN d
<1>1. ByHash(d) \in Dicts(AccountType)
  BY ByHashIs
<1>2. /\ trie_to_dict(Root(d)) = ByHash(d)
      /\ \A k \in Hashes : trie_get(Root(d), k) = IF k \in DOMAIN ByHash(d) THEN ByHash(d)[k] ELSE BLANK
  BY <1>1 DEF Laws, TrieLaws, Root
<1>3. ASSUME NEW a \in Addr
      PROVE  trie_get(Root(d), sha3[a]) = IF a \in DOMAIN d THEN d[a] ELSE BLANK
  <2>1. sha3[a] \in Hashes
    BY DEF Hashes
  <2>2. sha3[a] \in DOMAIN ByHash(d) <=> a \in DOMAIN d
    BY ByHashIs
  <2>3. a \in DOMAIN d => ByHash(d)[sha3[a]] = d[a]
    BY ByHashIs
  <2>. QED  BY <1>2, <2>1, <2>2, <2>3
<1>4. ASSUME NEW s, s.trie = Root(d) PROVE addresses(s) = DOMAIN d
  <2>1. addresses(s) = {a \in Addr : sha3[a] \in DOMAIN ByHash(d)}
    BY <1>2, <1>4 DEF addresses
  <2>2. \A a \in Addr : sha3[a] \in DOMAIN ByHash(d) <=> a \in DOMAIN d
    BY ByHashIs
  <2>3. DOMAIN d \subseteq Addr
    BY AccountInType
  <2>. QED  BY <2>1, <2>2, <2>3
<1>. QED  BY <1>3, <1>4

\* The root node tells the accounts.
LEMMA RootInjective ==
  ASSUME Laws, NEW d \in Accts, NEW e \in Accts, Root(d) = Root(e)
  PROVE  d = e
<1>1. ByHash(d) \in Dicts(AccountType) /\ ByHash(e) \in Dicts(AccountType)
  BY ByHashIs
<1>2. trie_to_dict(Root(d)) = ByHash(d) /\ trie_to_dict(Root(e)) = ByHash(e)
  BY <1>1 DEF Laws, TrieLaws, Root
<1>3. ByHash(d) = ByHash(e)
  BY <1>2
<1>. QED  BY <1>3, ByHashInjective

\* An update of the trie is a write, and stores the new nodes.
LEMMA RootUpdate ==
  ASSUME Laws, NEW d \in Accts, NEW a \in Addr, NEW v \in AccountType
  PROVE  LET u == trie_update(Root(d), sha3[a], v)
         IN  /\ u.node = Root(Put(d, a, v))
             /\ IsFiniteSet(u.puts)
             /\ trie_nodes(u.node) \subseteq trie_nodes(Root(d)) \cup u.puts
<1>1. ByHash(d) \in Dicts(AccountType) /\ sha3[a] \in Hashes
  BY ByHashIs DEF Hashes
<1>2. UpdateLaw(ByHash(d), sha3[a], v)
  BY <1>1 DEF Laws, TrieLaws
<1>3. ByHash(Put(d, a, v)) = Put(ByHash(d), sha3[a], v)
  BY ByHashPut
<1>. QED  BY <1>2, <1>3 DEF UpdateLaw, Root

\* The empty trie.
LEMMA RootEmpty ==
  ASSUME Laws
  PROVE  Root(<<>>) = BLANK /\ trie_nodes(BLANK) = {} /\ BLANK \notin AccountType
BY ByHashEmpty DEF Laws, TrieLaws, Root

-----------------------------------------------------------------------------
(* The operations on a state, field by field *)

\* A state from its fields, and a cached account from one of its fields.
With(r, c, j) == [trie |-> r, cache |-> c, journal |-> j]
SetField(c, a, param, val) == [c EXCEPT ![a] = [c[a] EXCEPT ![param] = val]]
Entry(c, a, param) == [addr |-> a, param |-> param, preval |-> c[a][param]]

\* The cache with the account of a.
Loaded(d, c, a) == IF a \in DOMAIN c THEN c ELSE Put(c, a, Untouched(AccountIn(d, a)))

\* The fields of a state are what it was built from.
LEMMA WithFields ==
  ASSUME NEW r, NEW c, NEW j
  PROVE  With(r, c, j).trie = r /\ With(r, c, j).cache = c /\ With(r, c, j).journal = j
BY DEF With

\* Loading an account adds it to the cache as the trie has it.
LEMMA LoadIs ==
  ASSUME Laws, NEW d \in Accts, NEW c, NEW j, NEW a \in Addr
  PROVE  get_and_cache_account(With(Root(d), c, j), a) = With(Root(d), Loaded(d, c, a), j)
<1>1. trie_get(Root(d), sha3[a]) = IF a \in DOMAIN d THEN d[a] ELSE BLANK
  BY RootIs
<1>2. a \in DOMAIN d => d[a] # BLANK
  BY RootEmpty, AccountInType
<1>3. (IF trie_get(Root(d), sha3[a]) = BLANK THEN BlankAccount ELSE trie_get(Root(d), sha3[a]))
      = AccountIn(d, a)
  BY <1>1, <1>2 DEF AccountIn
<1>4. PICK s : s = With(Root(d), c, j)
  OBVIOUS
<1>5. get_and_cache_account(s, a)
      = IF a \in DOMAIN s.cache THEN s
        ELSE [s EXCEPT !.cache = Put(s.cache, a, Untouched(AccountIn(d, a)))]
  BY <1>3, <1>4, WithFields DEF get_and_cache_account
<1>6. \A x : [s EXCEPT !.cache = x] = With(Root(d), x, j)
  BY <1>4 DEF With
<1>. QED  BY <1>4, <1>5, <1>6, WithFields DEF Loaded

\* Setting a field and noting its old value.
LEMMA SetIs ==
  ASSUME NEW r, NEW c, NEW j, NEW a \in DOMAIN c, NEW param, NEW val
  PROVE  set_and_journal(With(r, c, j), a, param, val)
         = With(r, SetField(c, a, param, val), Append(j, Entry(c, a, param)))
<1>1. PICK s : s = With(r, c, j)
  OBVIOUS
<1>2. s.trie = r /\ s.cache = c /\ s.journal = j
  BY <1>1, WithFields
<1>3. [s.cache EXCEPT ![a][param] = val] = SetField(c, a, param, val)
  BY <1>2 DEF SetField
<1>4. set_and_journal(s, a, param, val) = With(r, SetField(c, a, param, val), Append(j, Entry(c, a, param)))
  BY <1>2, <1>3 DEF set_and_journal, With, Entry
<1>. QED  BY <1>1, <1>4

-----------------------------------------------------------------------------
(* Inside a transaction *)

Params == {"nonce", "balance", "touched"}
Caches == UNION {[A -> Cached] : A \in SUBSET Addr}
Touched(c) == {a \in DOMAIN c : c[a].touched}

\* The trie holds d, and with the touched accounts of the cache it is m.
Tracks(c, d, m) ==
  /\ c \in Caches /\ m \in Accts
  /\ DOMAIN m = DOMAIN d \cup Touched(c)
  /\ \A a \in DOMAIN c : rlp(c[a]) = AccountIn(m, a)
  /\ \A a \in Addr \ Touched(c) : AccountIn(m, a) = AccountIn(d, a)

\* A field of a cached account may be set to the values of its type.
FieldType(param, val) ==
  /\ param \in Params
  /\ param = "nonce" => val \in Nat
  /\ param = "balance" => val \in Balances
  /\ param = "touched" => val \in BOOLEAN

\* The cached accounts have their fields.
LEMMA CachesIs ==
  ASSUME NEW c \in Caches
  PROVE  /\ DOMAIN c \subseteq Addr /\ IsFiniteSet(DOMAIN c)
         /\ \A a \in DOMAIN c : c[a] \in Cached
<1>1. PICK A \in SUBSET Addr : c \in [A -> Cached]
  BY DEF Caches
<1>. QED  BY <1>1, StateAssumption, FS_Subset

\* A function on addresses to cached accounts is a cache.
LEMMA InCaches ==
  ASSUME NEW A \in SUBSET Addr, NEW c \in [A -> Cached]
  PROVE  c \in Caches
BY DEF Caches

\* The cache n differs from c in one field; and in a loaded account.
SetsField(n, c, a, param, val) ==
  /\ n \in Caches /\ DOMAIN n = DOMAIN c
  /\ \A b \in DOMAIN c : b # a => n[b] = c[b]
  /\ \A q \in Params : n[a][q] = IF q = param THEN val ELSE c[a][q]
LoadsAccount(n, d, c, a) ==
  /\ n \in Caches /\ DOMAIN n = DOMAIN c \cup {a}
  /\ \A b \in DOMAIN c : n[b] = c[b]
  /\ a \notin DOMAIN c => n[a] = Untouched(AccountIn(d, a))

\* Setting a field changes this field.
LEMMA SetFieldIs ==
  ASSUME NEW c \in Caches, NEW a \in DOMAIN c, NEW param, NEW val, FieldType(param, val)
  PROVE  SetsField(SetField(c, a, param, val), c, a, param, val)
<1>. DEFINE r == [c[a] EXCEPT ![param] = val]
<1>1. /\ DOMAIN c \in SUBSET Addr /\ \A b \in DOMAIN c : c[b] \in Cached
      /\ c \in [DOMAIN c -> Cached]
  <2>1. PICK A \in SUBSET Addr : c \in [A -> Cached]
    BY DEF Caches
  <2>. QED  BY <2>1
<1>2. c[a] \in Cached
  BY <1>1
<1>3. r \in Cached
  <2>1. param \in Params
    BY DEF FieldType
  <2>2. CASE param = "nonce"
    BY <1>2, <2>2 DEF FieldType, Cached
  <2>3. CASE param = "balance"
    BY <1>2, <2>3 DEF FieldType, Cached
  <2>4. CASE param = "touched"
    BY <1>2, <2>4 DEF FieldType, Cached
  <2>. QED  BY <2>1, <2>2, <2>3, <2>4 DEF Params
<1>4. \A q \in Params : r[q] = IF q = param THEN val ELSE c[a][q]
  BY <1>2 DEF Params, Cached
<1>5. PICK n : n = SetField(c, a, param, val)
  OBVIOUS
<1>6. n = [c EXCEPT ![a] = r]
  BY <1>5 DEF SetField
<1>. HIDE DEF r
<1>7. n \in [DOMAIN c -> Cached]
  BY <1>1, <1>3, <1>6
<1>8. n[a] = r /\ \A b \in DOMAIN c : b # a => n[b] = c[b]
  BY <1>1, <1>6
<1>9. n \in Caches
  BY ONLY <1>1, <1>7, InCaches
<1>. QED  BY <1>4, <1>5, <1>7, <1>8, <1>9 DEF SetsField

\* A loaded account reads as the trie has it.
LEMMA LoadedIs ==
  ASSUME NEW d \in Accts, NEW c \in Caches, NEW a \in Addr
  PROVE  LoadsAccount(Loaded(d, c, a), d, c, a)
<1>1. /\ DOMAIN c \in SUBSET Addr /\ \A b \in DOMAIN c : c[b] \in Cached
      /\ c \in [DOMAIN c -> Cached]
  <2>1. PICK A \in SUBSET Addr : c \in [A -> Cached]
    BY DEF Caches
  <2>. QED  BY <2>1
<1>2. Untouched(AccountIn(d, a)) \in Cached
  BY AccountInType DEF Untouched, AccountType, Cached
<1>3. CASE a \in DOMAIN c
  BY <1>1, <1>3 DEF Loaded, LoadsAccount
<1>4. CASE a \notin DOMAIN c
  <2>1. PICK n : n = Put(c, a, Untouched(AccountIn(d, a)))
    OBVIOUS
  <2>2. /\ n \in [DOMAIN c \cup {a} -> Cached] /\ \A b \in DOMAIN c : n[b] = c[b]
        /\ n[a] = Untouched(AccountIn(d, a))
    BY <1>1, <1>2, <1>4, <2>1 DEF Put
  <2>3. DOMAIN c \cup {a} \in SUBSET Addr
    BY <1>1
  <2>4. n \in Caches
    BY ONLY <2>2, <2>3, InCaches
  <2>. QED  BY <1>4, <2>1, <2>2, <2>4 DEF Loaded, LoadsAccount
<1>. QED  BY <1>3, <1>4

\* Nothing is written yet when the cached accounts are those of the trie.
LEMMA TracksStart ==
  ASSUME NEW d \in Accts, NEW A \in SUBSET Addr
  PROVE  LET c == [a \in A |-> Untouched(AccountIn(d, a))]
         IN  Tracks(c, d, d) /\ Touched(c) = {} /\ DOMAIN c = A
<1>1. \A a \in A : Untouched(AccountIn(d, a)) \in Cached
  BY AccountInType DEF Untouched, AccountType, Cached
<1>2. PICK c : c = [a \in A |-> Untouched(AccountIn(d, a))]
  OBVIOUS
<1>3. c \in [A -> Cached] /\ \A a \in A : c[a] = Untouched(AccountIn(d, a))
  BY <1>1, <1>2
<1>4. c \in Caches
  BY ONLY <1>3, InCaches
<1>5. Touched(c) = {}
  BY <1>3 DEF Touched, Untouched
<1>6. \A a \in A : AccountIn(d, a) \in AccountType
  BY AccountInType
<1>7. \A a \in A : rlp(c[a]) = AccountIn(d, a)
  BY <1>3, <1>6 DEF rlp, Untouched, AccountType
<1>. QED  BY <1>2, <1>3, <1>4, <1>5, <1>7 DEF Tracks

\* Loading an account changes neither dictionary.
LEMMA TracksLoad ==
  ASSUME NEW d \in Accts, NEW m, NEW c, Tracks(c, d, m), NEW a \in Addr
  PROVE  /\ Tracks(Loaded(d, c, a), d, m) /\ a \in DOMAIN Loaded(d, c, a)
         /\ Touched(Loaded(d, c, a)) = Touched(c)
<1>1. /\ c \in Caches /\ m \in Accts /\ DOMAIN m = DOMAIN d \cup Touched(c)
      /\ \A b \in DOMAIN c : rlp(c[b]) = AccountIn(m, b)
      /\ \A b \in Addr \ Touched(c) : AccountIn(m, b) = AccountIn(d, b)
  BY DEF Tracks
<1>2. PICK n : n = Loaded(d, c, a)
  OBVIOUS
<1>3. /\ n \in Caches /\ DOMAIN n = DOMAIN c \cup {a}
      /\ \A b \in DOMAIN c : n[b] = c[b]
      /\ a \notin DOMAIN c => n[a] = Untouched(AccountIn(d, a))
  <2>1. LoadsAccount(n, d, c, a)
    BY <1>1, <1>2, LoadedIs
  <2>. QED  BY <2>1 DEF LoadsAccount
<1>4. Touched(n) = Touched(c)
  BY <1>3 DEF Touched, Untouched
<1>5. a \notin DOMAIN c => rlp(n[a]) = AccountIn(m, a)
  <2>1. AccountIn(d, a) \in AccountType
    BY AccountInType
  <2>2. a \notin DOMAIN c => AccountIn(m, a) = AccountIn(d, a)
    BY <1>1 DEF Touched
  <2>. QED  BY <1>3, <2>1, <2>2 DEF rlp, Untouched, AccountType
<1>6. \A b \in DOMAIN n : rlp(n[b]) = AccountIn(m, b)
  BY <1>1, <1>3, <1>5
<1>. QED  BY <1>1, <1>2, <1>3, <1>4, <1>6 DEF Tracks

\* The cache after a write of one field of an account, which is touched then.
Written(d, c, a, param, val) == SetField(SetField(Loaded(d, c, a), a, param, val), a, "touched", TRUE)
WrittenEntries(d, c, a, param, val) ==
  <<Entry(Loaded(d, c, a), a, param), Entry(SetField(Loaded(d, c, a), a, param, val), a, "touched")>>

\* What a write does to a state.
LEMMA WriteIs ==
  ASSUME Laws, NEW d \in Accts, NEW c \in Caches, NEW j, NEW a \in Addr,
         NEW param, NEW val, FieldType(param, val)
  PROVE  LET e == WrittenEntries(d, c, a, param, val)
         IN  Write(With(Root(d), c, j), a, param, val)
             = With(Root(d), Written(d, c, a, param, val), Append(Append(j, e[1]), e[2]))
<1>. DEFINE l == Loaded(d, c, a)
            n == SetField(l, a, param, val)
            k == Append(j, Entry(l, a, param))
<1>1. get_and_cache_account(With(Root(d), c, j), a) = With(Root(d), l, j)
  BY LoadIs
<1>2. l \in Caches /\ a \in DOMAIN l
  <2>1. LoadsAccount(l, d, c, a)
    BY LoadedIs
  <2>. HIDE DEF l
  <2>. QED  BY <2>1 DEF LoadsAccount
<1>3. n \in Caches /\ a \in DOMAIN n
  <2>1. SetsField(n, l, a, param, val)
    <3>. HIDE DEF l
    <3>. QED  BY <1>2, SetFieldIs
  <2>. HIDE DEF l, n
  <2>. QED  BY <1>2, <2>1 DEF SetsField
<1>4. set_and_journal(With(Root(d), l, j), a, param, val) = With(Root(d), n, k)
  <2>. HIDE DEF l
  <2>. QED  BY <1>2, SetIs
<1>5. set_and_journal(With(Root(d), n, k), a, "touched", TRUE)
      = With(Root(d), SetField(n, a, "touched", TRUE), Append(k, Entry(n, a, "touched")))
  <2>1. PICK p, v : p = "touched" /\ v = TRUE
    OBVIOUS
  <2>2. set_and_journal(With(Root(d), n, k), a, p, v)
        = With(Root(d), SetField(n, a, p, v), Append(k, Entry(n, a, p)))
    <3>. HIDE DEF l, n, k
    <3>. QED  BY ONLY <1>3, SetIs
  <2>. QED  BY <2>1, <2>2
<1>. QED  BY <1>1, <1>4, <1>5 DEF Write, Written, WrittenEntries

\* The fields of the cache after a write.
Writes(n, l, c, a, param, val) ==
  /\ n \in Caches /\ DOMAIN n = DOMAIN c \cup {a}
  /\ \A b \in DOMAIN c : b # a => n[b] = c[b]
  /\ n[a]["nonce"] = IF param = "nonce" THEN val ELSE l[a]["nonce"]
  /\ n[a]["balance"] = IF param = "balance" THEN val ELSE l[a]["balance"]
  /\ n[a]["touched"] = TRUE

\* A write changes the fields so.
LEMMA WrittenIs ==
  ASSUME NEW d \in Accts, NEW c \in Caches, NEW a \in Addr, NEW param, NEW val,
         FieldType(param, val), param # "touched"
  PROVE  Writes(Written(d, c, a, param, val), Loaded(d, c, a), c, a, param, val)
<1>1. PICK l : l = Loaded(d, c, a)
  OBVIOUS
<1>2. l \in Caches /\ DOMAIN l = DOMAIN c \cup {a} /\ \A b \in DOMAIN c : l[b] = c[b]
  BY <1>1, LoadedIs DEF LoadsAccount
<1>3. PICK m : m = SetField(l, a, param, val)
  OBVIOUS
<1>4. /\ m \in Caches /\ DOMAIN m = DOMAIN l /\ \A b \in DOMAIN l : b # a => m[b] = l[b]
      /\ \A q \in Params : m[a][q] = IF q = param THEN val ELSE l[a][q]
  <2>1. SetsField(m, l, a, param, val)
    BY <1>2, <1>3, SetFieldIs
  <2>. QED  BY <2>1 DEF SetsField
<1>5. PICK n : n = SetField(m, a, "touched", TRUE)
  OBVIOUS
<1>6. FieldType("touched", TRUE)
  BY DEF FieldType, Params
<1>7. /\ n \in Caches /\ DOMAIN n = DOMAIN m /\ \A b \in DOMAIN m : b # a => n[b] = m[b]
      /\ \A q \in Params : n[a][q] = IF q = "touched" THEN TRUE ELSE m[a][q]
  <2>1. SetsField(n, m, a, "touched", TRUE)
    BY <1>2, <1>4, <1>5, <1>6, SetFieldIs
  <2>. QED  BY <2>1 DEF SetsField
<1>8. n = Written(d, c, a, param, val)
  BY <1>1, <1>3, <1>5 DEF Written
<1>9. /\ n[a]["nonce"] = IF param = "nonce" THEN val ELSE l[a]["nonce"]
      /\ n[a]["balance"] = IF param = "balance" THEN val ELSE l[a]["balance"]
  BY <1>4, <1>7 DEF Params
<1>10. n[a]["touched"] = TRUE
  BY <1>7 DEF Params
<1>11. DOMAIN n = DOMAIN c \cup {a} /\ \A b \in DOMAIN c : b # a => n[b] = c[b]
  BY <1>2, <1>4, <1>7
<1>. QED  BY <1>1, <1>7, <1>8, <1>9, <1>10, <1>11 DEF Writes

\* The account that a write makes of an account.
Field(acct, param, val) ==
  [nonce   |-> IF param = "nonce" THEN val ELSE acct.nonce,
   balance |-> IF param = "balance" THEN val ELSE acct.balance]

\* A write to the state is a write to the accounts.
LEMMA TracksWrite ==
  ASSUME NEW d \in Accts, NEW m, NEW c, Tracks(c, d, m), NEW a \in Addr,
         NEW param, NEW val, FieldType(param, val), param # "touched"
  PROVE  Tracks(Written(d, c, a, param, val), d, Put(m, a, Field(AccountIn(m, a), param, val)))
<1>1. PICK l : l = Loaded(d, c, a)
  OBVIOUS
<1>2. Tracks(l, d, m) /\ a \in DOMAIN l /\ Touched(l) = Touched(c)
  BY <1>1, TracksLoad
<1>3. /\ l \in Caches /\ m \in Accts /\ DOMAIN m = DOMAIN d \cup Touched(c)
      /\ \A b \in DOMAIN l : rlp(l[b]) = AccountIn(m, b)
      /\ \A b \in Addr \ Touched(c) : AccountIn(m, b) = AccountIn(d, b)
  BY <1>2 DEF Tracks
<1>4. c \in Caches
  BY DEF Tracks
<1>5. DOMAIN l = DOMAIN c \cup {a} /\ \A b \in DOMAIN c : l[b] = c[b]
  BY <1>1, <1>4, LoadedIs DEF LoadsAccount
<1>6. PICK n : n = Written(d, c, a, param, val)
  OBVIOUS
<1>7. /\ n \in Caches /\ DOMAIN n = DOMAIN c \cup {a}
      /\ \A b \in DOMAIN c : b # a => n[b] = c[b]
      /\ n[a]["nonce"] = IF param = "nonce" THEN val ELSE l[a]["nonce"]
      /\ n[a]["balance"] = IF param = "balance" THEN val ELSE l[a]["balance"]
      /\ n[a]["touched"] = TRUE
  <2>1. Writes(n, l, c, a, param, val)
    BY <1>1, <1>4, <1>6, WrittenIs
  <2>. QED  BY <2>1 DEF Writes
<1>8. l[a] \in Cached /\ AccountIn(m, a) \in AccountType /\ rlp(l[a]) = AccountIn(m, a)
  BY <1>2, <1>3, CachesIs, AccountInType
<1>9. l[a].nonce = AccountIn(m, a).nonce /\ l[a].balance = AccountIn(m, a).balance
  BY <1>8 DEF rlp, AccountType
<1>10. PICK f : f = Field(AccountIn(m, a), param, val)
  OBVIOUS
<1>11. f \in AccountType
  BY <1>8, <1>10 DEF Field, AccountType, FieldType
<1>12. rlp(n[a]) = f
  BY <1>7, <1>9, <1>10 DEF rlp, Field
<1>13. PICK e : e = Put(m, a, f)
  OBVIOUS
<1>14. /\ e \in Accts /\ DOMAIN e = DOMAIN m \cup {a}
       /\ \A b : AccountIn(e, b) = IF b = a THEN f ELSE AccountIn(m, b)
  <2>1. Puts(e, m, a, f)
    BY <1>3, <1>11, <1>13, PutAccts
  <2>. QED  BY <2>1 DEF Puts
<1>15. Touched(n) = Touched(c) \cup {a}
  <2>1. \A b \in DOMAIN n : n[b].touched <=> (b = a \/ (b \in DOMAIN c /\ c[b].touched))
    BY <1>7
  <2>. QED  BY <1>7, <2>1 DEF Touched
<1>16. \A b \in DOMAIN n : rlp(n[b]) = AccountIn(e, b)
  BY <1>3, <1>5, <1>7, <1>12, <1>14
<1>17. \A b \in Addr \ Touched(n) : AccountIn(e, b) = AccountIn(d, b)
  BY <1>3, <1>14, <1>15
<1>. QED  BY <1>3, <1>6, <1>7, <1>10, <1>13, <1>14, <1>15, <1>16, <1>17 DEF Tracks

-----------------------------------------------------------------------------
(* The journal *)

Entries ==
  [addr : Addr, param : {"nonce"}, preval : Nat]
  \cup [addr : Addr, param : {"balance"}, preval : Balances]
  \cup [addr : Addr, param : {"touched"}, preval : BOOLEAN]

About(e, a, param) == e.addr = a /\ e.param = param
Before(j, i, a, param) == \E h \in 1..(i - 1) : About(j[h], a, param)

\* Of the first k entries the oldest about a field, or else the cache, has the value v.
OldestIs(c, j, k, a, param, v) ==
  /\ ~Before(j, k + 1, a, param) => c[a][param] = v
  /\ \A i \in 1..k : About(j[i], a, param) /\ ~Before(j, i, a, param) => j[i].preval = v

\* Undoing the first k entries of the journal gives back the accounts d.
Undoable(c, j, k, d) ==
  /\ c \in Caches /\ j \in Seq(Entries) /\ k \in 0..Len(j)
  /\ \A i \in 1..Len(j) : j[i].addr \in DOMAIN c
  /\ \A a \in DOMAIN c : \A p \in Params :
       OldestIs(c, j, k, a, p, Untouched(AccountIn(d, a))[p])

\* An entry has a value of its field.
LEMMA EntryFields ==
  ASSUME NEW e \in Entries
  PROVE  e.addr \in Addr /\ FieldType(e.param, e.preval)
BY DEF Entries, FieldType, Params

\* The entry about a cached field.
LEMMA EntryIs ==
  ASSUME NEW c \in Caches, NEW a \in DOMAIN c, NEW param \in Params
  PROVE  LET e == Entry(c, a, param)
         IN  e \in Entries /\ e.addr = a /\ e.param = param /\ e.preval = c[a][param]
<1>1. a \in Addr /\ c[a] \in Cached
  BY CachesIs
<1>2. CASE param = "nonce"
  BY <1>1, <1>2 DEF Entry, Entries, Cached
<1>3. CASE param = "balance"
  BY <1>1, <1>3 DEF Entry, Entries, Cached
<1>4. CASE param = "touched"
  BY <1>1, <1>4 DEF Entry, Entries, Cached
<1>. QED  BY <1>2, <1>3, <1>4 DEF Params

\* With an empty journal the cache is as the trie has it.
LEMMA UndoableStart ==
  ASSUME NEW d \in Accts, NEW A \in SUBSET Addr
  PROVE  Undoable([a \in A |-> Untouched(AccountIn(d, a))], <<>>, 0, d)
<1>1. PICK c : c = [a \in A |-> Untouched(AccountIn(d, a))]
  OBVIOUS
<1>2. c \in Caches /\ DOMAIN c = A
  BY <1>1, TracksStart DEF Tracks
<1>3. \A a \in DOMAIN c : \A p \in Params : c[a][p] = Untouched(AccountIn(d, a))[p]
  BY <1>1
<1>4. <<>> \in Seq(Entries) /\ Len(<<>>) = 0
  OBVIOUS
<1>5. \A a \in DOMAIN c : \A p \in Params :
         OldestIs(c, <<>>, 0, a, p, Untouched(AccountIn(d, a))[p])
  BY <1>3 DEF OldestIs
<1>. QED  BY <1>1, <1>2, <1>4, <1>5 DEF Undoable

\* Loading an account needs no entry.
LEMMA UndoableLoad ==
  ASSUME NEW d \in Accts, NEW c, NEW j, Undoable(c, j, Len(j), d), NEW a \in Addr
  PROVE  Undoable(Loaded(d, c, a), j, Len(j), d)
<1>1. /\ c \in Caches /\ j \in Seq(Entries)
      /\ \A i \in 1..Len(j) : j[i].addr \in DOMAIN c
      /\ \A b \in DOMAIN c : \A p \in Params :
            OldestIs(c, j, Len(j), b, p, Untouched(AccountIn(d, b))[p])
  BY DEF Undoable
<1>2. PICK n : n = Loaded(d, c, a)
  OBVIOUS
<1>3. LoadsAccount(n, d, c, a)
  BY <1>1, <1>2, LoadedIs
<1>4. /\ n \in Caches /\ DOMAIN n = DOMAIN c \cup {a}
      /\ \A b \in DOMAIN c : n[b] = c[b]
      /\ a \notin DOMAIN c => n[a] = Untouched(AccountIn(d, a))
  BY <1>3 DEF LoadsAccount
<1>5. ASSUME NEW b \in DOMAIN n, NEW p \in Params
      PROVE  OldestIs(n, j, Len(j), b, p, Untouched(AccountIn(d, b))[p])
  <2>1. CASE b \in DOMAIN c
    BY <1>1, <1>4, <2>1 DEF OldestIs
  <2>2. CASE b \notin DOMAIN c
    <3>1. n[b][p] = Untouched(AccountIn(d, b))[p]
      BY <1>4, <2>2
    <3>2. \A i \in 1..Len(j) : ~About(j[i], b, p)
      BY <1>1, <2>2 DEF About
    <3>. QED  BY <3>1, <3>2 DEF OldestIs
  <2>. QED  BY <2>1, <2>2
<1>. QED  BY <1>1, <1>2, <1>4, <1>5 DEF Undoable

\* set_and_journal notes what undoes it.
LEMMA UndoableSet ==
  ASSUME NEW d \in Accts, NEW c, NEW j, Undoable(c, j, Len(j), d),
         NEW a \in DOMAIN c, NEW param, NEW val, FieldType(param, val)
  PROVE  LET k == Append(j, Entry(c, a, param))
         IN  Undoable(SetField(c, a, param, val), k, Len(k), d)
<1>1. /\ c \in Caches /\ j \in Seq(Entries)
      /\ \A i \in 1..Len(j) : j[i].addr \in DOMAIN c
      /\ \A b \in DOMAIN c : \A p \in Params :
            OldestIs(c, j, Len(j), b, p, Untouched(AccountIn(d, b))[p])
  BY DEF Undoable
<1>2. PICK n : n = SetField(c, a, param, val)
  OBVIOUS
<1>3. SetsField(n, c, a, param, val)
  BY <1>1, <1>2, SetFieldIs
<1>4. /\ n \in Caches /\ DOMAIN n = DOMAIN c
      /\ \A b \in DOMAIN c : b # a => n[b] = c[b]
      /\ \A q \in Params : n[a][q] = IF q = param THEN val ELSE c[a][q]
  BY <1>3 DEF SetsField
<1>5. param \in Params
  BY DEF FieldType
<1>6. PICK e : e = Entry(c, a, param)
  OBVIOUS
<1>7. e \in Entries /\ e.addr = a /\ e.param = param /\ e.preval = c[a][param]
  BY <1>1, <1>5, <1>6, EntryIs
<1>8. PICK k : k = Append(j, e)
  OBVIOUS
<1>9. PICK l : l = Len(j)
  OBVIOUS
<1>10. /\ l \in Nat /\ k \in Seq(Entries) /\ Len(k) = l + 1 /\ k[l + 1] = e
       /\ \A i \in 1..l : k[i] = j[i]
  BY <1>1, <1>7, <1>8, <1>9
<1>11. \A i \in 1..(l + 1) : k[i].addr \in DOMAIN n
  BY <1>1, <1>4, <1>7, <1>9, <1>10
<1>12. ASSUME NEW b \in DOMAIN c, NEW p \in Params
       PROVE  OldestIs(n, k, l + 1, b, p, Untouched(AccountIn(d, b))[p])
  <2>1. PICK v : v = Untouched(AccountIn(d, b))[p]
    OBVIOUS
  <2>2. /\ ~Before(j, l + 1, b, p) => c[b][p] = v
        /\ \A i \in 1..l : About(j[i], b, p) /\ ~Before(j, i, b, p) => j[i].preval = v
    BY <1>1, <1>9, <2>1 DEF OldestIs
  <2>3. \A i \in 1..(l + 1) : Before(k, i, b, p) <=> Before(j, i, b, p)
    BY <1>10 DEF Before
  <2>4. Before(k, l + 2, b, p) <=> Before(j, l + 1, b, p) \/ About(e, b, p)
    BY <1>10 DEF Before
  <2>5. ~About(e, b, p) => n[b][p] = c[b][p]
    BY <1>4, <1>7 DEF About
  <2>6. ~Before(k, l + 2, b, p) => n[b][p] = v
    BY <2>2, <2>4, <2>5
  <2>7. ASSUME NEW i \in 1..(l + 1), About(k[i], b, p), ~Before(k, i, b, p) PROVE k[i].preval = v
    <3>1. CASE i = l + 1
      <4>1. About(e, b, p) /\ ~Before(j, l + 1, b, p)
        BY <1>10, <2>3, <2>7, <3>1
      <4>2. c[b][p] = e.preval
        BY <1>7, <4>1 DEF About
      <4>. QED  BY <1>10, <2>2, <3>1, <4>1, <4>2
    <3>2. CASE i \in 1..l
      <4>1. k[i] = j[i] /\ ~Before(j, i, b, p)
        BY <1>10, <2>3, <2>7, <3>2
      <4>. QED  BY <2>2, <2>7, <3>2, <4>1
    <3>. QED  BY <1>10, <3>1, <3>2
  <2>8. (l + 1) + 1 = l + 2
    BY <1>10
  <2>. QED  BY <2>1, <2>6, <2>7, <2>8 DEF OldestIs
<1>13. Undoable(n, k, Len(k), d)
  BY <1>4, <1>10, <1>11, <1>12 DEF Undoable
<1>. QED  BY <1>2, <1>6, <1>8, <1>13

\* Undoing the newest entry leaves the older ones.
LEMMA UndoableLast ==
  ASSUME NEW d \in Accts, NEW c, NEW j, NEW k, Undoable(c, j, k, d), k # 0
  PROVE  /\ Undoable(SetField(c, j[k].addr, j[k].param, j[k].preval), j, k - 1, d)
         /\ DOMAIN SetField(c, j[k].addr, j[k].param, j[k].preval) = DOMAIN c
<1>1. /\ c \in Caches /\ j \in Seq(Entries) /\ k \in 1..Len(j)
      /\ \A i \in 1..Len(j) : j[i].addr \in DOMAIN c
      /\ \A b \in DOMAIN c : \A p \in Params :
            OldestIs(c, j, k, b, p, Untouched(AccountIn(d, b))[p])
  BY DEF Undoable
<1>2. PICK e : e = j[k]
  OBVIOUS
<1>3. e \in Entries /\ e.addr \in DOMAIN c
  BY <1>1, <1>2
<1>4. PICK a, param, val : a = e.addr /\ param = e.param /\ val = e.preval
  OBVIOUS
<1>5. a \in DOMAIN c /\ FieldType(param, val)
  BY <1>3, <1>4, EntryFields
<1>6. PICK n : n = SetField(c, a, param, val)
  OBVIOUS
<1>7. SetsField(n, c, a, param, val)
  BY <1>1, <1>5, <1>6, SetFieldIs
<1>8. /\ n \in Caches /\ DOMAIN n = DOMAIN c
      /\ \A b \in DOMAIN c : b # a => n[b] = c[b]
      /\ \A q \in Params : n[a][q] = IF q = param THEN val ELSE c[a][q]
  BY <1>7 DEF SetsField
<1>9. ASSUME NEW b \in DOMAIN c, NEW p \in Params
      PROVE  OldestIs(n, j, k - 1, b, p, Untouched(AccountIn(d, b))[p])
  <2>1. PICK v : v = Untouched(AccountIn(d, b))[p]
    OBVIOUS
  <2>2. /\ ~Before(j, k + 1, b, p) => c[b][p] = v
        /\ \A i \in 1..k : About(j[i], b, p) /\ ~Before(j, i, b, p) => j[i].preval = v
    BY <1>1, <2>1 DEF OldestIs
  <2>3. Before(j, k + 1, b, p) <=> Before(j, k, b, p) \/ About(e, b, p)
    BY <1>1, <1>2 DEF Before
  <2>4. ~About(e, b, p) => n[b][p] = c[b][p]
    BY <1>4, <1>8 DEF About
  <2>5. About(e, b, p) => n[b][p] = e.preval
    BY <1>4, <1>8 DEF About
  <2>6. ~Before(j, k, b, p) => n[b][p] = v
    BY <1>1, <1>2, <2>2, <2>3, <2>4, <2>5
  <2>7. (k - 1) + 1 = k /\ \A i \in 1..(k - 1) : i \in 1..k
    BY <1>1
  <2>. QED  BY <2>1, <2>2, <2>6, <2>7 DEF OldestIs
<1>10. k - 1 \in 0..Len(j)
  BY <1>1
<1>11. Undoable(n, j, k - 1, d)
  BY <1>1, <1>8, <1>9, <1>10 DEF Undoable
<1>. QED  BY <1>2, <1>4, <1>6, <1>8, <1>11

\* When all is undone the cache is as the trie has it.
LEMMA UndoableNone ==
  ASSUME NEW d \in Accts, NEW c, NEW j, Undoable(c, j, 0, d)
  PROVE  c = [a \in DOMAIN c |-> Untouched(AccountIn(d, a))]
<1>1. /\ c \in Caches
      /\ \A b \in DOMAIN c : \A p \in Params :
            OldestIs(c, j, 0, b, p, Untouched(AccountIn(d, b))[p])
  BY DEF Undoable
<1>2. ASSUME NEW b \in DOMAIN c PROVE c[b] = Untouched(AccountIn(d, b))
  <2>1. \A p \in Params : c[b][p] = Untouched(AccountIn(d, b))[p]
    BY <1>1 DEF OldestIs, Before
  <2>2. c[b] \in Cached /\ AccountIn(d, b) \in AccountType
    BY <1>1, CachesIs, AccountInType
  <2>3. Untouched(AccountIn(d, b)) \in Cached
    BY <2>2 DEF Untouched, Cached, AccountType
  <2>4. PICK x, y : x = c[b] /\ y = Untouched(AccountIn(d, b))
    OBVIOUS
  <2>5. x \in Cached /\ y \in Cached /\ x["nonce"] = y["nonce"] /\ x["balance"] = y["balance"]
        /\ x["touched"] = y["touched"]
    BY <2>1, <2>2, <2>3, <2>4 DEF Params
  <2>6. x = y
    BY ONLY <2>5 DEF Cached
  <2>. QED  BY <2>4, <2>6
<1>3. PICK A \in SUBSET Addr : c \in [A -> Cached]
  BY <1>1 DEF Caches
<1>. QED  BY <1>2, <1>3

-----------------------------------------------------------------------------
(* The loops *)

\* One instance of FoldProofs per loop.
LoadFold == INSTANCE FoldProofs WITH op <- LAMBDA c, t, a : get_and_cache_account(t, a)
ReadFold == INSTANCE FoldProofs WITH op <- LAMBDA c, t, tx : get_and_cache_account(t, tx.sender)
WriteFold == INSTANCE FoldProofs WITH op <- LAMBDA c, t, w : set_balance(t, w.addr, w.balance)
WroteFold == INSTANCE FoldProofs WITH op <- LAMBDA c, m, w : Wrote(m, w)
StoreFold == INSTANCE FoldProofs
  WITH op <- LAMBDA c, m, a :
         [node |-> trie_update(m.node, sha3[a], rlp(c[a])).node,
          puts |-> m.puts \cup trie_update(m.node, sha3[a], rlp(c[a])).puts \cup {Preimage(a)}]
ApplyFold == INSTANCE FoldProofs WITH op <- LAMBDA c, t, tx : apply_transaction(t, tx).state
AfterFold == INSTANCE FoldProofs WITH op <- LAMBDA c, d, tx : After(d, tx)
AllocFold == INSTANCE FoldProofs
  WITH op <- LAMBDA alloc, t, a :
         set_nonce(set_balance(t, a, alloc[a].balance), a, alloc[a].nonce)
GenesisFold == INSTANCE FoldProofs WITH op <- LAMBDA c, t, a : set_balance(t, a, Genesis[a])
UndoFold == INSTANCE FoldProofs WITH op <- LAMBDA c, t, e : undo(e, t)

\* The loops of the model are these folds.
LEMMA Loops ==
  /\ \A s : load_all(s) = LoadFold!SetFold(0, s, addresses(s))
  /\ \A s, txs : FoldLeft(LAMBDA t, tx : get_and_cache_account(t, tx.sender), s, txs)
                 = ReadFold!Fold(0, s, txs)
  /\ \A s, writes : apply_writes(s, writes) = WriteFold!Fold(0, s, writes)
  /\ \A d, writes : FoldLeft(Wrote, d, writes) = WroteFold!Fold(0, d, writes)
  /\ \A s : store_touched(s) = StoreFold!SetFold(s.cache, [node |-> s.trie, puts |-> {}],
                                                 {a \in DOMAIN s.cache : s.cache[a].touched})
  /\ \A s, txs : apply_all(s, txs) = ApplyFold!Fold(0, s, txs)
  /\ \A d, txs : AfterAll(d, txs) = AfterFold!Fold(0, d, txs)
<1>1. \A s : load_all(s) = LoadFold!SetFold(0, s, addresses(s))
  BY DEF load_all, LoadFold!SetFold, FoldSet, MapThenFoldSet, LoadFold!FoldSet, LoadFold!MapThenFoldSet
<1>2. \A s, txs : FoldLeft(LAMBDA t, tx : get_and_cache_account(t, tx.sender), s, txs)
                 = ReadFold!Fold(0, s, txs)
  BY DEF ReadFold!Fold, FoldLeft, MapThenFoldSet, Max, ReadFold!FoldLeft, ReadFold!MapThenFoldSet, ReadFold!Max
<1>3. \A s, writes : apply_writes(s, writes) = WriteFold!Fold(0, s, writes)
  BY DEF apply_writes, WriteFold!Fold, FoldLeft, MapThenFoldSet, Max, WriteFold!FoldLeft,
         WriteFold!MapThenFoldSet, WriteFold!Max
<1>4. \A d, writes : FoldLeft(Wrote, d, writes) = WroteFold!Fold(0, d, writes)
  BY DEF WroteFold!Fold, FoldLeft, MapThenFoldSet, Max, WroteFold!FoldLeft,
         WroteFold!MapThenFoldSet, WroteFold!Max
<1>5. \A s : store_touched(s) = StoreFold!SetFold(s.cache, [node |-> s.trie, puts |-> {}],
                                                  {a \in DOMAIN s.cache : s.cache[a].touched})
  BY DEF store_touched, StoreFold!SetFold, FoldSet, MapThenFoldSet, StoreFold!FoldSet,
         StoreFold!MapThenFoldSet
<1>6. \A s, txs : apply_all(s, txs) = ApplyFold!Fold(0, s, txs)
  BY DEF apply_all, ApplyFold!Fold, FoldLeft, MapThenFoldSet, Max, ApplyFold!FoldLeft,
         ApplyFold!MapThenFoldSet, ApplyFold!Max
<1>7. \A d, txs : AfterAll(d, txs) = AfterFold!Fold(0, d, txs)
  BY DEF AfterAll, AfterFold!Fold, FoldLeft, MapThenFoldSet, Max, AfterFold!FoldLeft,
         AfterFold!MapThenFoldSet, AfterFold!Max
<1>. QED  BY <1>1, <1>2, <1>3, <1>4, <1>5, <1>6, <1>7

\* The same for the accounts that a declaration or a snapshot lists, and for the journal.
LEMMA ListLoops ==
  /\ \A alloc : from_snapshot(alloc)
                = commit(AllocFold!SetFold(alloc, StateAt(BLANK), DOMAIN alloc)).state
  /\ state_from_genesis_declaration = commit(GenesisFold!SetFold(0, StateAt(BLANK), DOMAIN Genesis))
  /\ \A s, j : FoldRight(undo, j, s) = UndoFold!RFold(0, s, j)
<1>1. \A alloc : from_snapshot(alloc)
                = commit(AllocFold!SetFold(alloc, StateAt(BLANK), DOMAIN alloc)).state
  BY DEF from_snapshot, AllocFold!SetFold, FoldSet, MapThenFoldSet, AllocFold!FoldSet,
         AllocFold!MapThenFoldSet
<1>2. state_from_genesis_declaration = commit(GenesisFold!SetFold(0, StateAt(BLANK), DOMAIN Genesis))
  BY DEF state_from_genesis_declaration, GenesisFold!SetFold, FoldSet, MapThenFoldSet,
         GenesisFold!FoldSet, GenesisFold!MapThenFoldSet
<1>3. \A s, j : FoldRight(undo, j, s) = UndoFold!RFold(0, s, j)
  BY DEF UndoFold!RFold, FoldRight, MapThenFoldSet, Min, UndoFold!FoldRight,
         UndoFold!MapThenFoldSet, UndoFold!Min
<1>. QED  BY <1>1, <1>2, <1>3

-----------------------------------------------------------------------------
(* A state that holds the accounts *)

\* Loading an account into a state that holds the accounts.
LEMMA LoadHolding ==
  ASSUME Laws, NEW d \in Accts, NEW A \in SUBSET Addr, NEW a \in Addr
  PROVE  /\ get_and_cache_account(Holding(d, A), a) = Holding(d, A \cup {a})
         /\ rlp(Account(Holding(d, A), a)) = AccountIn(d, a)
<1>1. PICK c : c = [b \in A |-> Untouched(AccountIn(d, b))]
  OBVIOUS
<1>2. Holding(d, A) = With(Root(d), c, <<>>)
  BY <1>1 DEF Holding, With
<1>3. get_and_cache_account(Holding(d, A), a) = With(Root(d), Loaded(d, c, a), <<>>)
  BY <1>2, LoadIs
<1>4. Loaded(d, c, a) = [b \in A \cup {a} |-> Untouched(AccountIn(d, b))]
  <2>1. CASE a \in A
    BY <1>1, <2>1 DEF Loaded
  <2>2. CASE a \notin A
    BY <1>1, <2>2 DEF Loaded, Put
  <2>. QED  BY <2>1, <2>2
<1>5. get_and_cache_account(Holding(d, A), a) = Holding(d, A \cup {a})
  BY <1>3, <1>4 DEF Holding, With
<1>6. Account(Holding(d, A), a) = Untouched(AccountIn(d, a))
  <2>1. Account(Holding(d, A), a) = Loaded(d, c, a)[a]
    BY <1>3, WithFields DEF Account
  <2>. QED  BY <1>4, <2>1
<1>7. AccountIn(d, a) \in AccountType
  BY AccountInType
<1>. QED  BY <1>5, <1>6, <1>7 DEF rlp, Untouched, AccountType

\* Listing the state loads every account of the trie.
LEMMA LoadAllIs ==
  ASSUME Laws, NEW d \in Accts, NEW A \in SUBSET Addr
  PROVE  load_all(Holding(d, A)) = Holding(d, A \cup DOMAIN d)
<1>. DEFINE S == DOMAIN d
            Q == [t \in SUBSET S |-> {Holding(d, A \cup t)}]
<1>1. S \subseteq Addr /\ IsFiniteSet(S)
  BY AccountInType
<1>2. addresses(Holding(d, A)) = S
  <2>1. Holding(d, A).trie = Root(d)
    BY DEF Holding
  <2>. QED  BY <2>1, RootIs
<1>3. load_all(Holding(d, A)) = LoadFold!SetFold(0, Holding(d, A), S)
  BY <1>2, Loops
<1>4. A \cup {} = A
  OBVIOUS
<1>5. Holding(d, A) \in Q[{}]
  BY <1>4
<1>6. ASSUME NEW t \in SUBSET S, NEW x \in S \ t, NEW r \in Q[t]
      PROVE  get_and_cache_account(r, x) \in Q[t \cup {x}]
  <2>1. r = Holding(d, A \cup t) /\ A \cup t \in SUBSET Addr /\ x \in Addr
    BY <1>1
  <2>2. get_and_cache_account(r, x) = Holding(d, (A \cup t) \cup {x})
    <3>. HIDE DEF Q, S
    <3>. QED  BY <2>1, LoadHolding
  <2>3. (A \cup t) \cup {x} = A \cup (t \cup {x}) /\ t \cup {x} \in SUBSET S
    OBVIOUS
  <2>4. Q[t \cup {x}] = {Holding(d, A \cup (t \cup {x}))}
    BY <2>3
  <2>. HIDE DEF Q, S
  <2>. QED  BY <2>2, <2>3, <2>4
<1>7. LoadFold!SetFold(0, Holding(d, A), S) \in Q[S]
  <2>1. LoadFold!LeadsUp(0, Q, S)
    <3>. HIDE DEF Q, S
    <3>. QED  BY <1>6 DEF LoadFold!LeadsUp
  <2>2. LoadFold!IsFiniteSet(S)
    BY <1>1 DEF IsFiniteSet, LoadFold!IsFiniteSet
  <2>. HIDE DEF Q, S
  <2>. QED  BY <1>5, <2>1, <2>2, LoadFold!SetFoldTo
<1>8. Q[S] = {Holding(d, A \cup S)}
  OBVIOUS
<1>. QED  BY <1>3, <1>7, <1>8

\* Validating a block loads its senders.
LEMMA ReadSenders ==
  ASSUME Laws, NEW d \in Accts, NEW A \in SUBSET Addr, NEW txs \in Seq(Tx)
  PROVE  Clean(FoldLeft(LAMBDA t, tx : get_and_cache_account(t, tx.sender), Holding(d, A), txs), d)
<1>. DEFINE D == {Holding(d, B) : B \in SUBSET Addr}
<1>1. ReadFold!Closed(0, D, Tx)
  <2>1. ASSUME NEW B \in SUBSET Addr, NEW tx \in Tx
        PROVE  get_and_cache_account(Holding(d, B), tx.sender) \in D
    <3>1. tx.sender \in Addr
      BY StateAssumption
    <3>2. B \cup {tx.sender} \in SUBSET Addr
      BY <3>1
    <3>3. get_and_cache_account(Holding(d, B), tx.sender) = Holding(d, B \cup {tx.sender})
      BY <3>1, LoadHolding
    <3>. QED  BY <3>2, <3>3
  <2>. QED  BY <2>1 DEF ReadFold!Closed
<1>2. Holding(d, A) \in D
  OBVIOUS
<1>3. ReadFold!Fold(0, Holding(d, A), txs) \in D
  <2>. HIDE DEF D
  <2>. QED  BY ONLY <1>1, <1>2, ReadFold!FoldStep, txs \in Seq(Tx)
<1>. QED  BY <1>3, Loops DEF Clean

-----------------------------------------------------------------------------
(* The writes of a transaction *)

WriteSet == [addr : Addr, balance : Balances]

\* Inside a transaction that found the accounts d and has made them m.
Within(s, d, m) ==
  \E c, j : s = With(Root(d), c, j) /\ Tracks(c, d, m) /\ Undoable(c, j, Len(j), d)

\* A write of one field keeps to this.
LEMMA WithinWrite ==
  ASSUME Laws, NEW d \in Accts, NEW m, NEW s, Within(s, d, m), NEW a \in Addr,
         NEW param, NEW val, FieldType(param, val), param # "touched"
  PROVE  Within(Write(s, a, param, val), d, Put(m, a, Field(AccountIn(m, a), param, val)))
<1>1. PICK c, j : s = With(Root(d), c, j) /\ Tracks(c, d, m) /\ Undoable(c, j, Len(j), d)
  BY DEF Within
<1>2. c \in Caches
  BY <1>1 DEF Tracks
<1>3. PICK l, e1, n, e2 : /\ l = Loaded(d, c, a) /\ e1 = Entry(l, a, param)
                          /\ n = SetField(l, a, param, val) /\ e2 = Entry(n, a, "touched")
  OBVIOUS
<1>4. Write(s, a, param, val) = With(Root(d), SetField(n, a, "touched", TRUE), Append(Append(j, e1), e2))
  <2>1. PICK e : e = WrittenEntries(d, c, a, param, val)
    OBVIOUS
  <2>2. e[1] = e1 /\ e[2] = e2
    BY <1>3, <2>1 DEF WrittenEntries
  <2>3. Written(d, c, a, param, val) = SetField(n, a, "touched", TRUE)
    BY <1>3 DEF Written
  <2>4. Write(With(Root(d), c, j), a, param, val)
        = With(Root(d), Written(d, c, a, param, val), Append(Append(j, e[1]), e[2]))
    BY <1>2, <2>1, WriteIs
  <2>. QED  BY <1>1, <2>2, <2>3, <2>4
<1>5. Undoable(l, j, Len(j), d)
  BY <1>1, <1>3, UndoableLoad
<1>6. l \in Caches /\ a \in DOMAIN l
  <2>1. LoadsAccount(l, d, c, a)
    BY <1>2, <1>3, LoadedIs
  <2>. QED  BY <2>1 DEF LoadsAccount
<1>7. PICK k : k = Append(j, e1)
  OBVIOUS
<1>8. Undoable(n, k, Len(k), d)
  BY <1>3, <1>5, <1>6, <1>7, UndoableSet
<1>9. a \in DOMAIN n
  <2>1. SetsField(n, l, a, param, val)
    BY <1>3, <1>6, SetFieldIs
  <2>. QED  BY <1>6, <2>1 DEF SetsField
<1>10. PICK p, v : p = "touched" /\ v = TRUE
  OBVIOUS
<1>11. FieldType(p, v)
  BY <1>10 DEF FieldType, Params
<1>12. PICK o, i : o = SetField(n, a, p, v) /\ i = Append(k, Entry(n, a, p))
  OBVIOUS
<1>13. Undoable(o, i, Len(i), d)
  BY <1>8, <1>9, <1>11, <1>12, UndoableSet
<1>14. Write(s, a, param, val) = With(Root(d), o, i)
  BY <1>3, <1>4, <1>7, <1>10, <1>12
<1>15. o = Written(d, c, a, param, val)
  BY <1>3, <1>10, <1>12 DEF Written
<1>16. Tracks(o, d, Put(m, a, Field(AccountIn(m, a), param, val)))
  BY <1>1, <1>15, TracksWrite
<1>. QED  BY <1>13, <1>14, <1>16 DEF Within

\* So do set_balance and increment_nonce.
LEMMA WithinBalance ==
  ASSUME Laws, NEW d \in Accts, NEW m, NEW s, Within(s, d, m), NEW w \in WriteSet
  PROVE  Within(set_balance(s, w.addr, w.balance), d, Wrote(m, w))
<1>1. PICK a, b : a = w.addr /\ b = w.balance
  OBVIOUS
<1>2. a \in Addr /\ b \in Balances
  BY <1>1 DEF WriteSet
<1>3. FieldType("balance", b)
  BY <1>2 DEF FieldType, Params
<1>4. Within(Write(s, a, "balance", b), d, Put(m, a, Field(AccountIn(m, a), "balance", b)))
  BY <1>2, <1>3, WithinWrite
<1>5. PICK x : x = AccountIn(m, a)
  OBVIOUS
<1>6. x \in AccountType
  BY <1>5, AccountInType DEF Within, Tracks
<1>7. Field(x, "balance", b) = [x EXCEPT !.balance = b]
  BY <1>2, <1>6 DEF Field, AccountType
<1>. QED  BY <1>1, <1>4, <1>5, <1>7 DEF set_balance, Wrote

\* increment_nonce writes the nonce that the state reads.
LEMMA WithinNonce ==
  ASSUME Laws, NEW d \in Accts, NEW m, NEW s, Within(s, d, m), NEW a \in Addr
  PROVE  Within(increment_nonce(s, a), d, Put(m, a, [AccountIn(m, a) EXCEPT !.nonce = @ + 1]))
<1>1. PICK c, j : s = With(Root(d), c, j) /\ Tracks(c, d, m)
  BY DEF Within
<1>2. PICK l : l = Loaded(d, c, a)
  OBVIOUS
<1>3. Tracks(l, d, m) /\ a \in DOMAIN l
  BY <1>1, <1>2, TracksLoad
<1>4. Account(s, a) = l[a]
  BY <1>1, <1>2, LoadIs, WithFields DEF Account
<1>5. PICK x : x = AccountIn(m, a)
  OBVIOUS
<1>6. x \in AccountType
  BY <1>1, <1>5, AccountInType DEF Tracks
<1>7. l[a].nonce = x.nonce
  <2>1. rlp(l[a]) = x
    BY <1>3, <1>5 DEF Tracks
  <2>. QED  BY <1>6, <2>1 DEF rlp, AccountType
<1>8. PICK n : n = x.nonce + 1
  OBVIOUS
<1>9. FieldType("nonce", n)
  BY <1>6, <1>8 DEF AccountType, FieldType, Params
<1>10. Within(Write(s, a, "nonce", n), d, Put(m, a, Field(x, "nonce", n)))
  BY <1>5, <1>9, WithinWrite
<1>11. Field(x, "nonce", n) = [x EXCEPT !.nonce = x.nonce + 1]
  BY <1>6, <1>8 DEF Field, AccountType
<1>. QED  BY <1>4, <1>5, <1>7, <1>8, <1>10, <1>11 DEF increment_nonce

\* A write makes accounts of accounts.
LEMMA WroteAccts ==
  ASSUME NEW m \in Accts, NEW w \in WriteSet
  PROVE  Wrote(m, w) \in Accts
<1>1. PICK a, b, x : a = w.addr /\ b = w.balance /\ x = AccountIn(m, a)
  OBVIOUS
<1>2. a \in Addr /\ b \in Balances /\ x \in AccountType
  BY <1>1, AccountInType DEF WriteSet
<1>3. [x EXCEPT !.balance = b] \in AccountType
  BY <1>2 DEF AccountType
<1>4. PICK v : v = [x EXCEPT !.balance = b]
  OBVIOUS
<1>5. Wrote(m, w) = Put(m, a, v)
  BY <1>1, <1>4 DEF Wrote
<1>6. v \in AccountType
  BY <1>3, <1>4
<1>7. Puts(Put(m, a, v), m, a, v)
  BY <1>2, <1>6, PutAccts
<1>. QED  BY <1>5, <1>7 DEF Puts

\* And every state it leaves has the trie it found, a cache and a journal.
LEMMA BalanceKeeps ==
  ASSUME Laws, NEW d \in Accts, NEW c \in Caches, NEW j \in Seq(Entries), NEW w \in WriteSet
  PROVE  \E n \in Caches, k \in Seq(Entries) :
           set_balance(With(Root(d), c, j), w.addr, w.balance) = With(Root(d), n, k)
<1>1. PICK a, b : a = w.addr /\ b = w.balance
  OBVIOUS
<1>2. a \in Addr /\ b \in Balances
  BY <1>1 DEF WriteSet
<1>3. FieldType("balance", b)
  BY <1>2 DEF FieldType, Params
<1>4. PICK l : l = Loaded(d, c, a)
  OBVIOUS
<1>5. LoadsAccount(l, d, c, a)
  BY <1>2, <1>4, LoadedIs
<1>6. l \in Caches /\ a \in DOMAIN l
  BY <1>5 DEF LoadsAccount
<1>7. PICK m : m = SetField(l, a, "balance", b)
  OBVIOUS
<1>8. SetsField(m, l, a, "balance", b)
  BY <1>3, <1>6, <1>7, SetFieldIs
<1>9. m \in Caches /\ a \in DOMAIN m
  BY <1>6, <1>8 DEF SetsField
<1>10. PICK p, v : p = "touched" /\ v = TRUE
  OBVIOUS
<1>11. FieldType(p, v) /\ p \in Params /\ "balance" \in Params
  BY <1>10 DEF FieldType, Params
<1>12. PICK n : n = SetField(m, a, p, v)
  OBVIOUS
<1>13. SetsField(n, m, a, p, v)
  BY <1>9, <1>11, <1>12, SetFieldIs
<1>14. n \in Caches
  BY <1>13 DEF SetsField
<1>15. PICK e1, e2 : e1 = Entry(l, a, "balance") /\ e2 = Entry(m, a, p)
  OBVIOUS
<1>16. e1 \in Entries /\ e2 \in Entries
  BY <1>6, <1>9, <1>11, <1>15, EntryIs
<1>17. PICK k : k = Append(Append(j, e1), e2)
  OBVIOUS
<1>18. k \in Seq(Entries)
  BY <1>16, <1>17
<1>19. set_balance(With(Root(d), c, j), a, b) = With(Root(d), n, k)
  <2>1. PICK e : e = WrittenEntries(d, c, a, "balance", b)
    OBVIOUS
  <2>2. e[1] = e1 /\ e[2] = e2
    BY <1>4, <1>7, <1>10, <1>15, <2>1 DEF WrittenEntries
  <2>3. Written(d, c, a, "balance", b) = n
    BY <1>4, <1>7, <1>10, <1>12 DEF Written
  <2>4. Write(With(Root(d), c, j), a, "balance", b)
        = With(Root(d), Written(d, c, a, "balance", b), Append(Append(j, e[1]), e[2]))
    BY <1>2, <1>3, <2>1, WriteIs
  <2>. QED  BY <1>17, <2>2, <2>3, <2>4 DEF set_balance
<1>. QED  BY <1>1, <1>14, <1>18, <1>19

\* What apply_writes does to the state s and Wrote to the accounts d, write by write.
WriteRules(s, d) ==
  /\ apply_writes(s, <<>>) = s /\ FoldLeft(Wrote, d, <<>>) = d
  /\ \A ws \in Seq(WriteSet) :
       /\ FoldLeft(Wrote, d, ws) \in Accts
       /\ \A w \in WriteSet :
            /\ apply_writes(s, Append(ws, w)) = set_balance(apply_writes(s, ws), w.addr, w.balance)
            /\ FoldLeft(Wrote, d, Append(ws, w)) = Wrote(FoldLeft(Wrote, d, ws), w)

\* The loops over the writes of a transaction keep to these rules.
LEMMA WriteSteps ==
  ASSUME Laws, NEW d \in Accts, NEW A \in SUBSET Addr, NEW s, s = Holding(d, A)
  PROVE  WriteRules(s, d)
<1>. DEFINE D == {With(Root(d), c, j) : c \in Caches, j \in Seq(Entries)}
<1>1. s = Holding(d, A)
  OBVIOUS
<1>2. s \in D
  <2>1. PICK c : c = [a \in A |-> Untouched(AccountIn(d, a))]
    OBVIOUS
  <2>2. c \in Caches
    BY <2>1, TracksStart DEF Tracks
  <2>3. s = With(Root(d), c, <<>>)
    BY <1>1, <2>1 DEF Holding, With
  <2>4. PICK j : j = <<>>
    OBVIOUS
  <2>5. j \in Seq(Entries)
    BY <2>4
  <2>6. With(Root(d), c, j) \in D
    BY <2>2, <2>5
  <2>. HIDE DEF D
  <2>. QED  BY <2>3, <2>4, <2>6
<1>3. WriteFold!Closed(0, D, WriteSet)
  <2>1. ASSUME NEW r \in D, NEW w \in WriteSet PROVE set_balance(r, w.addr, w.balance) \in D
    <3>1. PICK c \in Caches, j \in Seq(Entries) : r = With(Root(d), c, j)
      OBVIOUS
    <3>2. PICK n \in Caches, k \in Seq(Entries) : set_balance(r, w.addr, w.balance) = With(Root(d), n, k)
      BY <3>1, BalanceKeeps
    <3>. QED  BY <3>2
  <2>. HIDE DEF D
  <2>. QED  BY <2>1 DEF WriteFold!Closed
<1>4. WroteFold!Closed(0, Accts, WriteSet)
  BY WroteAccts DEF WroteFold!Closed
<1>5. /\ WriteFold!Fold(0, s, <<>>) = s
      /\ \A ws \in Seq(WriteSet) : \A w \in WriteSet :
           WriteFold!Fold(0, s, Append(ws, w)) = set_balance(WriteFold!Fold(0, s, ws), w.addr, w.balance)
  <2>. HIDE DEF D
  <2>. QED  BY <1>2, <1>3, WriteFold!FoldStep
<1>6. /\ WroteFold!Fold(0, d, <<>>) = d
      /\ \A ws \in Seq(WriteSet) :
           /\ WroteFold!Fold(0, d, ws) \in Accts
           /\ \A w \in WriteSet : WroteFold!Fold(0, d, Append(ws, w)) = Wrote(WroteFold!Fold(0, d, ws), w)
  BY <1>4, WroteFold!FoldStep
<1>. QED  BY <1>5, <1>6, Loops DEF WriteRules

\* The writes of a transaction keep to the accounts it found and made.
LEMMA WithinWrites ==
  ASSUME Laws, NEW d \in Accts, NEW A \in SUBSET Addr, NEW ws \in Seq(WriteSet)
  PROVE  Within(apply_writes(Holding(d, A), ws), d, FoldLeft(Wrote, d, ws))
<1>1. PICK s : s = Holding(d, A)
  OBVIOUS
<1>. DEFINE G == { v \in Seq(WriteSet) : Within(apply_writes(s, v), d, FoldLeft(Wrote, d, v)) }
<1>2. /\ apply_writes(s, <<>>) = s /\ FoldLeft(Wrote, d, <<>>) = d
      /\ \A v \in Seq(WriteSet) :
           \A w \in WriteSet :
             /\ apply_writes(s, Append(v, w)) = set_balance(apply_writes(s, v), w.addr, w.balance)
             /\ FoldLeft(Wrote, d, Append(v, w)) = Wrote(FoldLeft(Wrote, d, v), w)
  <2>1. WriteRules(s, d)
    BY <1>1, WriteSteps
  <2>. QED  BY <2>1 DEF WriteRules
<1>3. <<>> \in G
  <2>1. PICK c : c = [a \in A |-> Untouched(AccountIn(d, a))]
    OBVIOUS
  <2>2. Tracks(c, d, d)
    BY <2>1, TracksStart
  <2>3. Undoable(c, <<>>, Len(<<>>), d)
    BY <2>1, UndoableStart
  <2>4. s = With(Root(d), c, <<>>)
    BY <1>1, <2>1 DEF Holding, With
  <2>5. Within(s, d, d)
    BY <2>2, <2>3, <2>4 DEF Within
  <2>. QED  BY <1>2, <2>5
<1>4. ASSUME NEW v \in Seq(WriteSet), NEW w \in WriteSet, v \in G PROVE Append(v, w) \in G
  <2>1. Within(apply_writes(s, v), d, FoldLeft(Wrote, d, v))
    BY <1>4
  <2>2. Within(set_balance(apply_writes(s, v), w.addr, w.balance), d, Wrote(FoldLeft(Wrote, d, v), w))
    BY <2>1, WithinBalance
  <2>3. Append(v, w) \in Seq(WriteSet)
    OBVIOUS
  <2>. QED  BY <1>2, <2>2, <2>3
<1>5. \A v \in Seq(WriteSet) : v \in G
  <2>. HIDE DEF G
  <2>. QED  BY <1>3, <1>4, SeqInduct
<1>. QED  BY <1>1, <1>5

-----------------------------------------------------------------------------
(* commit *)

\* The accounts d with those of t as they are in m.
Part(d, m, t) == [a \in DOMAIN d \cup t |-> IF a \in t THEN m[a] ELSE d[a]]

\* What storing the touched accounts of t gives.
Nodes == {Root(e) : e \in Accts}
NodePuts == UNION {trie_update(Root(e), sha3[a], v).puts : e \in Accts, a \in Addr, v \in AccountType}
Preimages == {Preimage(a) : a \in Addr}
Stores == NodePuts \cup Preimages
Stored(r, d, m, t) ==
  /\ r.node = Root(Part(d, m, t))
  /\ IsFiniteSet(r.puts)
  /\ trie_nodes(r.node) \subseteq trie_nodes(Root(d)) \cup r.puts
  /\ {Preimage(a) : a \in t} \subseteq r.puts

\* One more account stored.
LEMMA PartIs ==
  ASSUME NEW d \in Accts, NEW m, NEW c, Tracks(c, d, m), NEW t \in SUBSET Touched(c)
  PROVE  /\ Part(d, m, t) \in Accts
         /\ \A a \in Touched(c) : /\ a \in Addr /\ m[a] \in AccountType /\ rlp(c[a]) = m[a]
                                  /\ Put(Part(d, m, t), a, m[a]) = Part(d, m, t \cup {a})
<1>1. /\ c \in Caches /\ m \in Accts /\ DOMAIN m = DOMAIN d \cup Touched(c)
      /\ \A a \in DOMAIN c : rlp(c[a]) = AccountIn(m, a)
  BY DEF Tracks
<1>2. /\ DOMAIN d \subseteq Addr /\ \A a \in DOMAIN d : d[a] \in AccountType
      /\ \A a \in DOMAIN m : m[a] \in AccountType
      /\ Touched(c) \subseteq Addr /\ Touched(c) \subseteq DOMAIN c
  BY <1>1, AccountInType, CachesIs DEF Touched
<1>3. DOMAIN d \cup t \in SUBSET Addr
  BY <1>2
<1>4. Part(d, m, t) \in [DOMAIN d \cup t -> AccountType]
  BY <1>1, <1>2 DEF Part
<1>5. Part(d, m, t) \in Accts
  BY ONLY <1>3, <1>4 DEF Accts
<1>6. ASSUME NEW a \in Touched(c)
      PROVE  /\ a \in Addr /\ m[a] \in AccountType /\ rlp(c[a]) = m[a]
             /\ Put(Part(d, m, t), a, m[a]) = Part(d, m, t \cup {a})
  <2>1. a \in Addr /\ a \in DOMAIN m /\ rlp(c[a]) = m[a]
    BY <1>1, <1>2 DEF AccountIn
  <2>2. Put(Part(d, m, t), a, m[a]) = Part(d, m, t \cup {a})
    <3>1. DOMAIN Part(d, m, t) \cup {a} = DOMAIN d \cup (t \cup {a})
      BY DEF Part
    <3>2. \A b \in DOMAIN d \cup (t \cup {a}) :
            (IF b = a THEN m[a] ELSE Part(d, m, t)[b]) = IF b \in t \cup {a} THEN m[b] ELSE d[b]
      BY DEF Part
    <3>. QED  BY <3>1, <3>2 DEF Put, Part
  <2>. QED  BY <1>2, <2>1, <2>2
<1>. QED  BY <1>5, <1>6

\* When all touched accounts are stored the trie is that of the second dictionary.
LEMMA PartEnds ==
  ASSUME NEW d \in Accts, NEW m, NEW c, Tracks(c, d, m)
  PROVE  Part(d, m, {}) = d /\ Part(d, m, Touched(c)) = m
<1>1. /\ m \in Accts /\ DOMAIN m = DOMAIN d \cup Touched(c) /\ c \in Caches
      /\ \A a \in Addr \ Touched(c) : AccountIn(m, a) = AccountIn(d, a)
  BY DEF Tracks
<1>2. \A t \in SUBSET Touched(c) : Part(d, m, t) \in Accts
  BY PartIs
<1>3. DOMAIN d \subseteq Addr
  BY AccountInType
<1>4. Part(d, m, {}) = d
  <2>1. DOMAIN Part(d, m, {}) = DOMAIN d /\ \A a \in DOMAIN d : Part(d, m, {})[a] = d[a]
    BY DEF Part
  <2>2. PICK e : e = Part(d, m, {})
    OBVIOUS
  <2>3. e \in Accts
    BY <1>2, <2>2
  <2>. QED  BY <2>1, <2>2, <2>3, SameAccts
<1>5. Part(d, m, Touched(c)) = m
  <2>1. PICK e : e = Part(d, m, Touched(c))
    OBVIOUS
  <2>2. e \in Accts
    BY <1>2, <2>1
  <2>3. DOMAIN e = DOMAIN m
    BY <1>1, <2>1 DEF Part
  <2>4. \A a \in DOMAIN m : e[a] = m[a]
    <3>1. \A a \in DOMAIN m : a \notin Touched(c) => m[a] = d[a]
      BY <1>1, <1>3 DEF AccountIn
    <3>. QED  BY <1>1, <2>1, <3>1 DEF Part
  <2>. QED  BY <1>1, <2>1, <2>2, <2>3, <2>4, SameAccts
<1>. QED  BY <1>4, <1>5

\* Storing one account.
LEMMA StoreOne ==
  ASSUME Laws, NEW d \in Accts, NEW m, NEW c, Tracks(c, d, m), NEW t \in SUBSET Touched(c),
         NEW a \in Touched(c), NEW r \in [node : Nodes, puts : SUBSET Stores], Stored(r, d, m, t)
  PROVE  LET u == trie_update(r.node, sha3[a], rlp(c[a]))
             n == [node |-> u.node, puts |-> r.puts \cup u.puts \cup {Preimage(a)}]
         IN  n \in [node : Nodes, puts : SUBSET Stores] /\ Stored(n, d, m, t \cup {a})
<1>1. PICK e : e = Part(d, m, t)
  OBVIOUS
<1>2. PICK v : v = m[a]
  OBVIOUS
<1>3. e \in Accts /\ a \in Addr /\ v \in AccountType /\ rlp(c[a]) = v
      /\ Put(e, a, v) = Part(d, m, t \cup {a})
  BY <1>1, <1>2, PartIs
<1>4. PICK u : u = trie_update(Root(e), sha3[a], v)
  OBVIOUS
<1>5. /\ u.node = Root(Put(e, a, v)) /\ IsFiniteSet(u.puts)
      /\ trie_nodes(u.node) \subseteq trie_nodes(Root(e)) \cup u.puts
  BY <1>3, <1>4, RootUpdate
<1>6. r.node = Root(e) /\ IsFiniteSet(r.puts) /\ r.puts \subseteq Stores
      /\ trie_nodes(r.node) \subseteq trie_nodes(Root(d)) \cup r.puts
      /\ {Preimage(b) : b \in t} \subseteq r.puts
  BY <1>1 DEF Stored
<1>7. u.puts \subseteq Stores /\ Preimage(a) \in Stores
  <2>1. u.puts \subseteq NodePuts
    <3>. DEFINE P == {trie_update(Root(x), sha3[b], w).puts : x \in Accts, b \in Addr, w \in AccountType}
    <3>1. u.puts \in P
      BY <1>3, <1>4
    <3>2. NodePuts = UNION P
      BY DEF NodePuts
    <3>. HIDE DEF P
    <3>. QED  BY <3>1, <3>2
  <2>2. Preimage(a) \in Preimages
    BY <1>3 DEF Preimages
  <2>. QED  BY <2>1, <2>2 DEF Stores
<1>8. Put(e, a, v) \in Accts
  BY <1>3, PutAccts DEF Puts
<1>9. u.node \in Nodes
  BY <1>5, <1>8 DEF Nodes
<1>10. PICK p : p = r.puts \cup u.puts \cup {Preimage(a)}
  OBVIOUS
<1>11. IsFiniteSet(p)
  BY <1>5, <1>6, <1>10, FS_Union, FS_Singleton
<1>12. p \subseteq Stores /\ {Preimage(b) : b \in t \cup {a}} \subseteq p
  BY <1>6, <1>7, <1>10
<1>13. trie_nodes(u.node) \subseteq trie_nodes(Root(d)) \cup p
  BY <1>5, <1>6, <1>10
<1>14. PICK n : n = [node |-> u.node, puts |-> p]
  OBVIOUS
<1>15. n \in [node : Nodes, puts : SUBSET Stores] /\ n.node = u.node /\ n.puts = p
  BY <1>9, <1>12, <1>14
<1>16. Stored(n, d, m, t \cup {a})
  BY <1>3, <1>5, <1>11, <1>12, <1>13, <1>15 DEF Stored
<1>17. trie_update(r.node, sha3[a], rlp(c[a])) = u
  BY <1>3, <1>4, <1>6
<1>. QED  BY <1>10, <1>14, <1>15, <1>16, <1>17

\* commit leaves a state that holds the second dictionary, and stores what the
\* first had not.
LEMMA CommitIs ==
  ASSUME Laws, NEW d \in Accts, NEW m, NEW s, Within(s, d, m)
  PROVE  /\ m \in Accts
         /\ commit(s).state = Holding(m, {})
         /\ IsFiniteSet(commit(s).puts)
         /\ trie_nodes(Root(m)) \subseteq trie_nodes(Root(d)) \cup commit(s).puts
         /\ \A a \in DOMAIN m \ DOMAIN d : Preimage(a) \in commit(s).puts
<1>1. PICK c, j : s = With(Root(d), c, j) /\ Tracks(c, d, m)
  BY DEF Within
<1>. DEFINE S == Touched(c)
            Box == [node : Nodes, puts : SUBSET Stores]
            Q == [t \in SUBSET S |-> {r \in Box : Stored(r, d, m, t)}]
            base == [node |-> Root(d), puts |-> {}]
            r == StoreFold!SetFold(c, base, S)
<1>2. m \in Accts /\ c \in Caches /\ DOMAIN m = DOMAIN d \cup S
  BY <1>1 DEF Tracks
<1>3. IsFiniteSet(S)
  <2>1. S \subseteq DOMAIN c /\ IsFiniteSet(DOMAIN c)
    BY <1>2, CachesIs DEF Touched
  <2>. QED  BY <2>1, FS_Subset
<1>4. s.trie = Root(d) /\ s.cache = c
  BY <1>1, WithFields
<1>5. store_touched(s) = r
  BY <1>4, Loops DEF Touched
<1>6. base \in Q[{}]
  <2>1. Part(d, m, {}) = d
    BY <1>1, PartEnds
  <2>2. IsFiniteSet({})
    BY FS_EmptySet
  <2>3. Stored(base, d, m, {})
    BY <2>1, <2>2 DEF Stored
  <2>4. base \in Box
    BY DEF Nodes
  <2>. HIDE DEF base, Box, S
  <2>. QED  BY <2>3, <2>4
<1>7. ASSUME NEW t \in SUBSET S, NEW a \in S \ t, NEW q \in Q[t]
      PROVE  [node |-> trie_update(q.node, sha3[a], rlp(c[a])).node,
              puts |-> q.puts \cup trie_update(q.node, sha3[a], rlp(c[a])).puts \cup {Preimage(a)}]
             \in Q[t \cup {a}]
  <2>1. q \in Box /\ Stored(q, d, m, t)
    BY <1>7
  <2>2. PICK n : n = [node |-> trie_update(q.node, sha3[a], rlp(c[a])).node,
              puts |-> q.puts \cup trie_update(q.node, sha3[a], rlp(c[a])).puts \cup {Preimage(a)}]
    OBVIOUS
  <2>3. n \in Box /\ Stored(n, d, m, t \cup {a})
    <3>. HIDE DEF Q
    <3>. QED  BY <1>1, <2>1, <2>2, StoreOne
  <2>4. t \cup {a} \in SUBSET S
    OBVIOUS
  <2>5. n \in Q[t \cup {a}]
    <3>. HIDE DEF Box, S
    <3>. QED  BY <2>3, <2>4
  <2>. QED  BY <2>2, <2>5
<1>8. r \in Q[S]
  <2>1. StoreFold!LeadsUp(c, Q, S)
    <3>. HIDE DEF Q, S, r, base
    <3>. QED  BY <1>7 DEF StoreFold!LeadsUp
  <2>2. StoreFold!IsFiniteSet(S)
    BY <1>3 DEF IsFiniteSet, StoreFold!IsFiniteSet
  <2>. HIDE DEF Q, S, base
  <2>. QED  BY <1>6, <2>1, <2>2, StoreFold!SetFoldTo
<1>9. Stored(r, d, m, S)
  <2>. HIDE DEF r, S, Box
  <2>. QED  BY <1>8
<1>10. Part(d, m, S) = m
  BY <1>1, PartEnds
<1>11. PICK p : p = r
  OBVIOUS
<1>12. /\ p.node = Root(m) /\ IsFiniteSet(p.puts)
       /\ trie_nodes(Root(m)) \subseteq trie_nodes(Root(d)) \cup p.puts
       /\ {Preimage(a) : a \in S} \subseteq p.puts
  <2>. HIDE DEF r, S
  <2>. QED  BY <1>9, <1>10, <1>11 DEF Stored
<1>13. commit(s).state = StateAt(p.node) /\ commit(s).puts = p.puts
  <2>. HIDE DEF r
  <2>. QED  BY <1>5, <1>11 DEF commit
<1>14. StateAt(Root(m)) = Holding(m, {})
  BY DEF StateAt, Holding
<1>. HIDE DEF r, S, Box, Q, base
<1>. QED  BY <1>2, <1>12, <1>13, <1>14

\* What reading all of a trie of accounts fetches.
LEMMA NeededIs ==
  ASSUME Laws, NEW d \in Accts
  PROVE  Needed(Root(d)) = trie_nodes(Root(d)) \cup {Preimage(a) : a \in DOMAIN d}
<1>1. StateAt(Root(d)).trie = Root(d)
  BY DEF StateAt
<1>2. addresses(StateAt(Root(d))) = DOMAIN d
  BY <1>1, RootIs
<1>. QED  BY <1>2 DEF Needed

\* With what was there and what a commit stores all of the new trie can be read.
LEMMA CommitNeeds ==
  ASSUME Laws, NEW d \in Accts, NEW m, NEW s, Within(s, d, m)
  PROVE  Needed(Root(m)) \subseteq Needed(Root(d)) \cup commit(s).puts
<1>1. /\ m \in Accts
      /\ trie_nodes(Root(m)) \subseteq trie_nodes(Root(d)) \cup commit(s).puts
      /\ \A a \in DOMAIN m \ DOMAIN d : Preimage(a) \in commit(s).puts
  BY CommitIs
<1>2. Needed(Root(m)) = trie_nodes(Root(m)) \cup {Preimage(a) : a \in DOMAIN m}
  BY <1>1, NeededIs
<1>3. Needed(Root(d)) = trie_nodes(Root(d)) \cup {Preimage(a) : a \in DOMAIN d}
  BY NeededIs
<1>4. ASSUME NEW x \in {Preimage(a) : a \in DOMAIN m}
      PROVE  x \in Needed(Root(d)) \cup commit(s).puts
  <2>1. PICK a \in DOMAIN m : x = Preimage(a)
    OBVIOUS
  <2>2. CASE a \in DOMAIN d
    BY <1>3, <2>1, <2>2
  <2>3. CASE a \notin DOMAIN d
    BY <1>1, <2>1, <2>3
  <2>. QED  BY <2>2, <2>3
<1>5. PICK N : N = {Preimage(a) : a \in DOMAIN m}
  OBVIOUS
<1>6. trie_nodes(Root(d)) \subseteq Needed(Root(d))
  BY <1>3
<1>7. \A x \in N : x \in Needed(Root(d)) \cup commit(s).puts
  BY <1>4, <1>5
<1>8. Needed(Root(m)) = trie_nodes(Root(m)) \cup N
  BY <1>2, <1>5
<1>. QED  BY <1>1, <1>6, <1>7, <1>8

-----------------------------------------------------------------------------
(* Transactions *)

\* A state that holds the accounts is at the beginning of a transaction.
LEMMA WithinStart ==
  ASSUME NEW d \in Accts, NEW A \in SUBSET Addr
  PROVE  Within(Holding(d, A), d, d)
<1>1. PICK c, j : c = [a \in A |-> Untouched(AccountIn(d, a))] /\ j = <<>>
  OBVIOUS
<1>2. Tracks(c, d, d)
  BY <1>1, TracksStart
<1>3. Undoable(c, j, Len(j), d)
  <2>1. Undoable(c, <<>>, 0, d)
    BY <1>1, UndoableStart
  <2>. QED  BY <1>1, <2>1
<1>4. Holding(d, A) = With(Root(d), c, j)
  BY <1>1 DEF Holding, With
<1>. QED  BY <1>2, <1>3, <1>4 DEF Within

\* apply_transaction leaves a state that holds the accounts that the transaction
\* makes, and stores what is missing of its trie.
LEMMA ApplyTransactionIs ==
  ASSUME Laws, NEW d \in Accts, NEW A \in SUBSET Addr, NEW tx \in Tx
  PROVE  LET r == apply_transaction(Holding(d, A), tx)
             e == After(d, tx)
         IN  /\ e \in Accts /\ r.state = Holding(e, {}) /\ IsFiniteSet(r.puts)
             /\ Needed(Root(e)) \subseteq Needed(Root(d)) \cup r.puts
<1>1. tx.sender \in Addr /\ tx.writes \in Seq(WriteSet)
  BY StateAssumption DEF WriteSet
<1>2. PICK B : B = A \cup {tx.sender}
  OBVIOUS
<1>3. B \in SUBSET Addr /\ get_and_cache_account(Holding(d, A), tx.sender) = Holding(d, B)
  BY <1>1, <1>2, LoadHolding
<1>4. PICK s, m : s = apply_writes(Holding(d, B), tx.writes) /\ m = FoldLeft(Wrote, d, tx.writes)
  OBVIOUS
<1>5. Within(s, d, m)
  BY <1>1, <1>3, <1>4, WithinWrites
<1>6. PICK t, e : /\ t = increment_nonce(s, tx.sender)
                  /\ e = Put(m, tx.sender, [AccountIn(m, tx.sender) EXCEPT !.nonce = @ + 1])
  OBVIOUS
<1>7. Within(t, d, e)
  BY <1>1, <1>5, <1>6, WithinNonce
<1>8. apply_transaction(Holding(d, A), tx) = commit(t)
  BY <1>3, <1>4, <1>6 DEF apply_transaction
<1>9. After(d, tx) = e
  BY <1>4, <1>6 DEF After
<1>10. /\ e \in Accts /\ commit(t).state = Holding(e, {}) /\ IsFiniteSet(commit(t).puts)
  BY <1>7, CommitIs
<1>11. Needed(Root(e)) \subseteq Needed(Root(d)) \cup commit(t).puts
  BY <1>7, CommitNeeds
<1>. QED  BY <1>8, <1>9, <1>10, <1>11

\* The accounts after a list of transactions.
LEMMA AfterSteps ==
  ASSUME Laws, NEW d \in Accts
  PROVE  /\ AfterAll(d, <<>>) = d
         /\ \A txs \in Seq(Tx) :
              /\ AfterAll(d, txs) \in Accts
              /\ \A tx \in Tx : AfterAll(d, Append(txs, tx)) = After(AfterAll(d, txs), tx)
<1>1. ASSUME NEW e \in Accts, NEW tx \in Tx PROVE After(e, tx) \in Accts
  <2>1. PICK A : A = {}
    OBVIOUS
  <2>2. A \in SUBSET Addr
    BY <2>1
  <2>. QED  BY <2>2, ApplyTransactionIs
<1>2. AfterFold!Closed(0, Accts, Tx)
  BY <1>1 DEF AfterFold!Closed
<1>3. /\ AfterFold!Fold(0, d, <<>>) = d
      /\ \A txs \in Seq(Tx) :
           /\ AfterFold!Fold(0, d, txs) \in Accts
           /\ \A tx \in Tx : AfterFold!Fold(0, d, Append(txs, tx)) = After(AfterFold!Fold(0, d, txs), tx)
  BY <1>2, AfterFold!FoldStep
<1>. QED  BY <1>3, Loops

\* The accounts after the first transactions of a list, one by one.
LEMMA AfterPrefix ==
  ASSUME Laws, NEW d \in Accts, NEW txs \in Seq(Tx)
  PROVE  /\ AfterAll(d, SubSeq(txs, 1, 0)) = d
         /\ AfterAll(d, SubSeq(txs, 1, Len(txs))) = AfterAll(d, txs)
         /\ \A k \in 0..(Len(txs) - 1) :
              AfterAll(d, SubSeq(txs, 1, k + 1)) = After(AfterAll(d, SubSeq(txs, 1, k)), txs[k + 1])
<1>1. SubSeq(txs, 1, 0) = <<>> /\ SubSeq(txs, 1, Len(txs)) = txs
  OBVIOUS
<1>2. ASSUME NEW k \in 0..(Len(txs) - 1)
      PROVE  /\ SubSeq(txs, 1, k) \in Seq(Tx) /\ txs[k + 1] \in Tx
             /\ SubSeq(txs, 1, k + 1) = Append(SubSeq(txs, 1, k), txs[k + 1])
  <2>1. txs[k + 1] \in Tx /\ SubSeq(txs, 1, k) \in Seq(Tx)
    OBVIOUS
  <2>2. SubSeq(txs, 1, k + 1) = Append(SubSeq(txs, 1, k), txs[k + 1])
    OBVIOUS
  <2>. QED  BY <2>1, <2>2
<1>3. /\ AfterAll(d, <<>>) = d
      /\ \A t \in Seq(Tx) : \A tx \in Tx : AfterAll(d, Append(t, tx)) = After(AfterAll(d, t), tx)
  BY AfterSteps
<1>4. AfterAll(d, SubSeq(txs, 1, 0)) = d
  BY <1>1, <1>3
<1>5. AfterAll(d, SubSeq(txs, 1, Len(txs))) = AfterAll(d, txs)
  BY <1>1
<1>6. ASSUME NEW k \in 0..(Len(txs) - 1)
      PROVE  AfterAll(d, SubSeq(txs, 1, k + 1)) = After(AfterAll(d, SubSeq(txs, 1, k)), txs[k + 1])
  <2>1. PICK t, tx : t = SubSeq(txs, 1, k) /\ tx = txs[k + 1]
    OBVIOUS
  <2>2. t \in Seq(Tx) /\ tx \in Tx /\ SubSeq(txs, 1, k + 1) = Append(t, tx)
    BY <1>2, <2>1
  <2>3. AfterAll(d, Append(t, tx)) = After(AfterAll(d, t), tx)
    BY <1>3, <2>2
  <2>. QED  BY <2>1, <2>2, <2>3
<1>. QED  BY <1>4, <1>5, <1>6

\* Applying the transactions to a clone leaves a state that holds what they make.
LEMMA ApplyAllIs ==
  ASSUME Laws, NEW d \in Accts, NEW A \in SUBSET Addr, NEW txs \in Seq(Tx)
  PROVE  apply_all(clone(Holding(d, A)), txs).trie = Root(AfterAll(d, txs))
<1>. DEFINE D == {Holding(e, B) : e \in Accts, B \in SUBSET Addr}
            s == Holding(d, {})
            G == {t \in Seq(Tx) : Clean(apply_all(s, t), AfterAll(d, t))}
<1>1. clone(Holding(d, A)) = s
  <2>1. PICK c, n : c = [a \in A |-> Untouched(AccountIn(d, a))] /\ n = <<>>
    OBVIOUS
  <2>2. [a \in {} |-> Untouched(AccountIn(d, a))] = n
    BY <2>1
  <2>3. Holding(d, A) = With(Root(d), c, n) /\ s = With(Root(d), n, n)
    BY <2>1, <2>2 DEF Holding, With
  <2>4. clone(With(Root(d), c, n)) = With(Root(d), n, n)
    <3>1. PICK w, r : w = With(r, c, n) /\ r = Root(d)
      OBVIOUS
    <3>2. \A x : [w EXCEPT !.cache = x] = With(r, x, n)
      BY <3>1 DEF With
    <3>3. clone(w) = [w EXCEPT !.cache = n]
      BY <2>1 DEF clone
    <3>. QED  BY <3>1, <3>2, <3>3
  <2>. HIDE DEF s
  <2>. QED  BY <2>3, <2>4
<1>2. ApplyFold!Closed(0, D, Tx)
  <2>1. ASSUME NEW e \in Accts, NEW B \in SUBSET Addr, NEW tx \in Tx
        PROVE  apply_transaction(Holding(e, B), tx).state \in D
    <3>1. PICK f, C : f = After(e, tx) /\ C = {}
      OBVIOUS
    <3>2. f \in Accts /\ apply_transaction(Holding(e, B), tx).state = Holding(f, C)
      BY <3>1, ApplyTransactionIs
    <3>3. C \in SUBSET Addr
      BY <3>1
    <3>4. Holding(f, C) \in D
      BY <3>2, <3>3
    <3>. HIDE DEF D
    <3>. QED  BY <3>2, <3>4
  <2>. QED  BY <2>1 DEF ApplyFold!Closed
<1>3. s \in D
  <2>1. {} \in SUBSET Addr
    OBVIOUS
  <2>. QED  BY <2>1
<1>4. /\ apply_all(s, <<>>) = s
      /\ \A t \in Seq(Tx) : \A tx \in Tx :
           apply_all(s, Append(t, tx)) = apply_transaction(apply_all(s, t), tx).state
  <2>. HIDE DEF D, s
  <2>1. /\ ApplyFold!Fold(0, s, <<>>) = s
        /\ \A t \in Seq(Tx) : \A tx \in Tx :
             ApplyFold!Fold(0, s, Append(t, tx)) = apply_transaction(ApplyFold!Fold(0, s, t), tx).state
    BY <1>2, <1>3, ApplyFold!FoldStep
  <2>. QED  BY <2>1, Loops
<1>5. /\ AfterAll(d, <<>>) = d
      /\ \A t \in Seq(Tx) :
           /\ AfterAll(d, t) \in Accts
           /\ \A tx \in Tx : AfterAll(d, Append(t, tx)) = After(AfterAll(d, t), tx)
  BY AfterSteps
<1>6. <<>> \in G
  <2>1. Clean(s, d)
    BY DEF Clean
  <2>2. <<>> \in Seq(Tx)
    OBVIOUS
  <2>. HIDE DEF s
  <2>. QED  BY <1>4, <1>5, <2>1, <2>2
<1>7. ASSUME NEW t \in Seq(Tx), NEW tx \in Tx, t \in G PROVE Append(t, tx) \in G
  <2>1. PICK e : e = AfterAll(d, t)
    OBVIOUS
  <2>2. e \in Accts
    BY <1>5, <2>1
  <2>3. PICK B \in SUBSET Addr : apply_all(s, t) = Holding(e, B)
    BY <1>7, <2>1 DEF Clean
  <2>4. apply_transaction(Holding(e, B), tx).state = Holding(After(e, tx), {})
    BY <2>2, ApplyTransactionIs
  <2>5. Append(t, tx) \in Seq(Tx)
    OBVIOUS
  <2>6. apply_all(s, Append(t, tx)) = Holding(After(e, tx), {})
    <3>. HIDE DEF s
    <3>. QED  BY <1>4, <2>3, <2>4
  <2>7. AfterAll(d, Append(t, tx)) = After(e, tx)
    BY <1>5, <2>1
  <2>. HIDE DEF s
  <2>. QED  BY <2>5, <2>6, <2>7 DEF Clean
<1>8. \A t \in Seq(Tx) : t \in G
  <2>. HIDE DEF G
  <2>. QED  BY <1>6, <1>7, SeqInduct
<1>9. Clean(apply_all(s, txs), AfterAll(d, txs))
  <2>. HIDE DEF s
  <2>. QED  BY <1>8
<1>10. PICK B : apply_all(s, txs) = Holding(AfterAll(d, txs), B)
  BY <1>9 DEF Clean
<1>. HIDE DEF s
<1>. QED  BY <1>1, <1>10 DEF Holding

-----------------------------------------------------------------------------
(* revert *)

\* Undoing an entry of the journal sets its field.
LEMMA UndoIs ==
  ASSUME NEW r, NEW c, NEW j, NEW e
  PROVE  undo(e, With(r, c, j)) = With(r, SetField(c, e.addr, e.param, e.preval), j)
<1>1. PICK s : s = With(r, c, j)
  OBVIOUS
<1>2. PICK a, p, v : a = e.addr /\ p = e.param /\ v = e.preval
  OBVIOUS
<1>3. s.trie = r /\ s.cache = c /\ s.journal = j
  BY <1>1, WithFields
<1>4. \A x : [s EXCEPT !.cache = x] = With(r, x, j)
  BY <1>1 DEF With
<1>5. [s.cache EXCEPT ![a][p] = v] = SetField(c, a, p, v)
  BY <1>3 DEF SetField
<1>6. undo(e, s) = [s EXCEPT !.cache = [s.cache EXCEPT ![a][p] = v]]
  BY <1>2 DEF undo
<1>. QED  BY <1>1, <1>2, <1>4, <1>5, <1>6

\* Emptying the journal gives back the accounts that the transaction found.
LEMMA PopIs ==
  ASSUME Laws, NEW d \in Accts, NEW m, NEW s, Within(s, d, m)
  PROVE  Clean(pop_journal(s, 0), d) /\ s.trie = Root(d)
<1>1. PICK c, j : s = With(Root(d), c, j) /\ Undoable(c, j, Len(j), d)
  BY DEF Within
<1>2. PICK r, X, l : r = Root(d) /\ X = DOMAIN c /\ l = Len(j)
  OBVIOUS
<1>3. /\ c \in Caches /\ j \in Seq(Entries) /\ l \in Nat
      /\ \A i \in 1..l : j[i].addr \in X
      /\ X \in SUBSET Addr
  BY <1>1, <1>2, CachesIs DEF Undoable
<1>. DEFINE Caches1 == {n \in Caches : DOMAIN n = X}
            D == {With(r, n, j) : n \in Caches1}
            E == {e \in Entries : e.addr \in X}
            Q == [k \in 0..l |-> {With(r, n, j) : n \in {n \in Caches1 : Undoable(n, j, k, d)}}]
<1>4. UndoFold!Closed(0, D, E)
  <2>1. ASSUME NEW n \in Caches1, NEW e \in E PROVE undo(e, With(r, n, j)) \in D
    <3>1. PICK a, p, v : a = e.addr /\ p = e.param /\ v = e.preval
      OBVIOUS
    <3>2. n \in Caches /\ a \in DOMAIN n /\ FieldType(p, v)
      BY <3>1, EntryFields
    <3>3. PICK o : o = SetField(n, a, p, v)
      OBVIOUS
    <3>4. SetsField(o, n, a, p, v)
      BY <3>2, <3>3, SetFieldIs
    <3>5. o \in Caches1
      BY <3>4 DEF SetsField
    <3>6. undo(e, With(r, n, j)) = With(r, o, j)
      BY <3>1, <3>3, UndoIs
    <3>. QED  BY <3>5, <3>6
  <2>2. \A t \in D : \A e \in E : undo(e, t) \in D
    <3>. HIDE DEF Caches1, E
    <3>. QED  BY <2>1
  <2>. HIDE DEF D, E
  <2>. QED  BY <2>2 DEF UndoFold!Closed
<1>5. s \in D /\ s \in Q[l] /\ j \in Seq(E)
  <2>1. c \in Caches1 /\ s = With(r, c, j) /\ Undoable(c, j, l, d)
    BY <1>1, <1>2, <1>3
  <2>2. j \in Seq(E)
    <3>1. \A i \in 1..l : j[i] \in E
      BY <1>2, <1>3
    <3>2. DOMAIN j = 1..l /\ j = [i \in 1..l |-> j[i]]
      BY <1>2, <1>3
    <3>. HIDE DEF E
    <3>3. j \in [1..l -> E]
      BY <3>1, <3>2
    <3>4. l \in Nat
      BY <1>3
    <3>. QED  BY ONLY <3>3, <3>4
  <2>3. l \in 0..l
    BY <1>3
  <2>. HIDE DEF Caches1, E
  <2>. QED  BY <2>1, <2>2, <2>3
<1>6. UndoFold!LeadsDown(0, Q, j)
  <2>1. ASSUME NEW k \in 1..l, NEW t \in Q[k] PROVE undo(j[k], t) \in Q[k - 1]
    <3>1. k \in 0..l /\ k - 1 \in 0..l /\ k # 0
      BY <1>3
    <3>2. PICK n \in Caches1 : t = With(r, n, j) /\ Undoable(n, j, k, d)
      <4>. HIDE DEF Caches1
      <4>. QED  BY <3>1
    <3>3. PICK o : o = SetField(n, j[k].addr, j[k].param, j[k].preval)
      OBVIOUS
    <3>4. Undoable(o, j, k - 1, d) /\ DOMAIN o = DOMAIN n
      BY <3>1, <3>2, <3>3, UndoableLast
    <3>5. o \in Caches1
      BY <3>2, <3>4 DEF Undoable
    <3>6. undo(j[k], t) = With(r, o, j)
      BY <3>2, <3>3, UndoIs
    <3>. HIDE DEF Caches1
    <3>. QED  BY <3>1, <3>4, <3>5, <3>6
  <2>2. Len(j) = l
    BY <1>2
  <2>. HIDE DEF Q
  <2>. QED  BY <2>1, <2>2 DEF UndoFold!LeadsDown
<1>7. UndoFold!RFold(0, s, j) \in Q[0]
  <2>1. s \in Q[Len(j)]
    BY <1>2, <1>5
  <2>. HIDE DEF Q, D, E
  <2>. QED  BY <1>4, <1>5, <1>6, <2>1, UndoFold!RFoldTo
<1>8. PICK n \in Caches1 : UndoFold!RFold(0, s, j) = With(r, n, j) /\ Undoable(n, j, 0, d)
  <2>1. 0 \in 0..l
    BY <1>3
  <2>. HIDE DEF Caches1
  <2>. QED  BY <1>7, <2>1
<1>9. n = [a \in X |-> Untouched(AccountIn(d, a))]
  <2>1. DOMAIN n = X
    OBVIOUS
  <2>. QED  BY <1>8, <2>1, UndoableNone
<1>10. SubSeq(s.journal, 1, Len(s.journal)) = j /\ s.trie = r
  BY <1>1, <1>2, <1>3, WithFields
<1>11. SubSeq(j, 1, 0) = <<>>
  BY <1>3
<1>12. pop_journal(s, 0) = [With(r, n, j) EXCEPT !.journal = SubSeq(@, 1, 0)]
  <2>1. FoldRight(undo, j, s) = With(r, n, j)
    BY <1>8, ListLoops
  <2>2. 0 + 1 = 1
    OBVIOUS
  <2>. QED  BY <1>10, <2>1, <2>2 DEF pop_journal
<1>13. [With(r, n, j) EXCEPT !.journal = SubSeq(@, 1, 0)] = With(r, n, <<>>)
  BY <1>11 DEF With
<1>14. With(r, n, <<>>) = Holding(d, X)
  BY <1>2, <1>9 DEF With, Holding
<1>. QED  BY <1>2, <1>3, <1>10, <1>12, <1>13, <1>14 DEF Clean

\* revert goes back to the accounts of the snapshot, by the journal or by the root.
LEMMA RevertIs ==
  ASSUME Laws, NEW b \in Accts, NEW d \in Accts, NEW m, NEW s, Within(s, d, m)
  PROVE  Clean(revert(s, [root |-> Root(b), len |-> 0]), b)
<1>1. PICK p : p = pop_journal(s, 0)
  OBVIOUS
<1>2. PICK A \in SUBSET Addr : p = Holding(d, A) /\ s.trie = Root(d)
  BY <1>1, PopIs DEF Clean
<1>3. PICK snap : snap = [root |-> Root(b), len |-> 0]
  OBVIOUS
<1>4. snap.root = Root(b) /\ snap.len = 0
  BY <1>3
<1>5. revert(s, snap) = IF snap.root = s.trie THEN p
                        ELSE [trie |-> snap.root, cache |-> <<>>, journal |-> p.journal]
  BY <1>1, <1>4 DEF revert
<1>6. CASE snap.root = s.trie
  <2>1. b = d
    BY <1>2, <1>4, <1>6, RootInjective
  <2>. QED  BY <1>2, <1>3, <1>5, <1>6, <2>1 DEF Clean
<1>7. CASE snap.root # s.trie
  <2>1. p.journal = <<>>
    BY <1>2 DEF Holding
  <2>2. PICK n : n = <<>>
    OBVIOUS
  <2>3. [a \in {} |-> Untouched(AccountIn(b, a))] = n
    BY <2>2
  <2>4. revert(s, snap) = Holding(b, {})
    BY <1>4, <1>5, <1>7, <2>1, <2>2, <2>3 DEF Holding
  <2>. QED  BY <1>3, <2>4 DEF Clean
<1>. QED  BY <1>6, <1>7

-----------------------------------------------------------------------------
(* States built from a list of accounts *)

\* The accounts of t of a dictionary.
Some(e, t) == [a \in t |-> e[a]]

\* The accounts of a dictionary, one by one.
LEMMA SomeIs ==
  ASSUME NEW e \in Accts, NEW t \in SUBSET DOMAIN e
  PROVE  /\ Some(e, t) \in Accts
         /\ \A a \in DOMAIN e \ t :
              /\ AccountIn(Some(e, t), a) = BlankAccount
              /\ Put(Some(e, t), a, e[a]) = Some(e, t \cup {a})
              /\ \A x : Put(Put(Some(e, t), a, x), a, e[a]) = Some(e, t \cup {a})
<1>1. DOMAIN e \subseteq Addr /\ \A a \in DOMAIN e : e[a] \in AccountType
  BY AccountInType
<1>2. Some(e, t) \in [t -> AccountType] /\ t \in SUBSET Addr
  BY <1>1 DEF Some
<1>3. Some(e, t) \in Accts
  BY ONLY <1>2 DEF Accts
<1>4. ASSUME NEW a \in DOMAIN e \ t
      PROVE  /\ AccountIn(Some(e, t), a) = BlankAccount
             /\ Put(Some(e, t), a, e[a]) = Some(e, t \cup {a})
             /\ \A x : Put(Put(Some(e, t), a, x), a, e[a]) = Some(e, t \cup {a})
  <2>1. AccountIn(Some(e, t), a) = BlankAccount
    BY DEF AccountIn, Some
  <2>2. Put(Some(e, t), a, e[a]) = Some(e, t \cup {a})
    <3>1. DOMAIN Some(e, t) = t /\ \A b \in t : Some(e, t)[b] = e[b]
      BY DEF Some
    <3>. QED  BY <3>1 DEF Put, Some
  <2>3. ASSUME NEW x PROVE Put(Put(Some(e, t), a, x), a, e[a]) = Some(e, t \cup {a})
    <3>1. PICK f : f = Put(Some(e, t), a, x)
      OBVIOUS
    <3>2. DOMAIN f = t \cup {a} /\ \A b \in t : f[b] = e[b]
      BY <3>1 DEF Put, Some
    <3>3. Put(f, a, e[a]) = [b \in t \cup {a} |-> e[b]]
      BY <3>2 DEF Put
    <3>. QED  BY <3>1, <3>3 DEF Some
  <2>. QED  BY <2>1, <2>2, <2>3
<1>. QED  BY <1>3, <1>4

\* None of them, and all.
LEMMA SomeEnds ==
  ASSUME NEW e \in Accts
  PROVE  Some(e, {}) = <<>> /\ Some(e, DOMAIN e) = e
<1>1. PICK f : f = Some(e, {})
  OBVIOUS
<1>2. f \in Accts /\ DOMAIN f = {}
  BY <1>1, SomeIs DEF Some
<1>3. f = <<>>
  BY <1>2, ByHashEmpty
<1>4. PICK g : g = Some(e, DOMAIN e)
  OBVIOUS
<1>5. g \in Accts /\ DOMAIN g = DOMAIN e /\ \A a \in DOMAIN g : g[a] = e[a]
  BY <1>4, SomeIs DEF Some
<1>6. g = e
  BY <1>5, SameAccts
<1>. QED  BY <1>1, <1>3, <1>4, <1>6

\* The states with the trie of the accounts d, a cache and a journal.
StatesOn(d) == {With(Root(d), c, j) : c \in Caches, j \in Seq(Entries)}

\* A state in a transaction is one of these.
LEMMA WithinStates ==
  ASSUME NEW d, NEW m, NEW s, Within(s, d, m)
  PROVE  s \in StatesOn(d)
BY DEF Within, Undoable, StatesOn

\* The state before the first account.
LEMMA BlankState ==
  ASSUME Laws
  PROVE  /\ <<>> \in Accts /\ StateAt(BLANK) = Holding(<<>>, {}) /\ Needed(Root(<<>>)) = {}
         /\ Within(StateAt(BLANK), <<>>, <<>>)
<1>1. PICK n : n = <<>>
  OBVIOUS
<1>2. n \in Accts /\ DOMAIN n = {} /\ Root(n) = BLANK /\ trie_nodes(BLANK) = {}
  BY <1>1, ByHashEmpty, RootEmpty
<1>3. [a \in {} |-> Untouched(AccountIn(n, a))] = n
  BY <1>1
<1>4. StateAt(BLANK) = Holding(n, {})
  BY <1>1, <1>2, <1>3 DEF StateAt, Holding
<1>5. Needed(Root(n)) = {}
  BY <1>2, NeededIs
<1>6. PICK A : A = {}
  OBVIOUS
<1>7. A \in SUBSET Addr
  BY <1>6
<1>8. Within(Holding(n, A), n, n)
  BY <1>2, <1>7, WithinStart
<1>. QED  BY <1>1, <1>2, <1>4, <1>5, <1>6, <1>8

\* One more account of a listing.
LEMMA AllocOne ==
  ASSUME Laws, NEW e \in Accts, NEW t \in SUBSET DOMAIN e, NEW a \in DOMAIN e \ t,
         NEW n \in Accts, NEW s, Within(s, n, Some(e, t))
  PROVE  Within(set_nonce(set_balance(s, a, e[a].balance), a, e[a].nonce), n, Some(e, t \cup {a}))
<1>1. a \in Addr /\ e[a] \in AccountType
  BY AccountInType
<1>2. PICK b, k : b = e[a].balance /\ k = e[a].nonce
  OBVIOUS
<1>3. b \in Balances /\ k \in Nat /\ e[a] = [nonce |-> k, balance |-> b]
  BY <1>1, <1>2 DEF AccountType
<1>4. FieldType("balance", b) /\ FieldType("nonce", k)
  BY <1>3 DEF FieldType, Params
<1>5. PICK m, x : m = Some(e, t) /\ x = Field(AccountIn(m, a), "balance", b)
  OBVIOUS
<1>6. PICK o, w : o = Put(m, a, x) /\ w = Write(s, a, "balance", b)
  OBVIOUS
<1>7. Within(w, n, o)
  BY <1>1, <1>4, <1>5, <1>6, WithinWrite
<1>8. Within(Write(w, a, "nonce", k), n, Put(o, a, Field(AccountIn(o, a), "nonce", k)))
  BY <1>1, <1>4, <1>7, WithinWrite
<1>9. AccountIn(o, a) = x
  BY <1>6 DEF AccountIn, Put
<1>10. Field(x, "nonce", k) = e[a]
  BY <1>3, <1>5 DEF Field
<1>11. Put(o, a, e[a]) = Some(e, t \cup {a})
  BY <1>5, <1>6, SomeIs
<1>. QED  BY <1>2, <1>6, <1>8, <1>9, <1>10, <1>11 DEF set_nonce, set_balance

\* A state built from a listing holds the accounts of the listing.
LEMMA FromSnapshotIs ==
  ASSUME Laws, NEW e \in Accts
  PROVE  from_snapshot(e) = Holding(e, {})
<1>. DEFINE S == DOMAIN e
<1>1. PICK n, base : n = <<>> /\ base = StateAt(BLANK)
  OBVIOUS
<1>2. n \in Accts /\ Within(base, n, n)
  BY <1>1, BlankState
<1>3. IsFiniteSet(S)
  BY AccountInType
<1>. DEFINE Q == [t \in SUBSET S |-> {s \in StatesOn(n) : Within(s, n, Some(e, t))}]
<1>4. base \in Q[{}]
  <2>1. Some(e, {}) = n
    BY <1>1, SomeEnds
  <2>2. base \in StatesOn(n)
    BY <1>2, WithinStates
  <2>3. {} \in SUBSET S
    OBVIOUS
  <2>. HIDE DEF S
  <2>. QED  BY <1>2, <2>1, <2>2, <2>3
<1>5. ASSUME NEW t \in SUBSET S, NEW a \in S \ t, NEW s \in Q[t]
      PROVE  set_nonce(set_balance(s, a, e[a].balance), a, e[a].nonce) \in Q[t \cup {a}]
  <2>1. Within(s, n, Some(e, t))
    OBVIOUS
  <2>2. PICK r : r = set_nonce(set_balance(s, a, e[a].balance), a, e[a].nonce)
    OBVIOUS
  <2>3. Within(r, n, Some(e, t \cup {a}))
    <3>. HIDE DEF Q
    <3>. QED  BY <1>2, <2>1, <2>2, AllocOne
  <2>4. r \in StatesOn(n)
    <3>. HIDE DEF Q, S
    <3>. QED  BY <2>3, WithinStates
  <2>5. t \cup {a} \in SUBSET S
    OBVIOUS
  <2>6. r \in Q[t \cup {a}]
    <3>. HIDE DEF S
    <3>. QED  BY <2>3, <2>4, <2>5
  <2>. QED  BY <2>2, <2>6
<1>6. AllocFold!SetFold(e, base, S) \in Q[S]
  <2>1. AllocFold!LeadsUp(e, Q, S)
    <3>. HIDE DEF Q, S
    <3>. QED  BY <1>5 DEF AllocFold!LeadsUp
  <2>2. AllocFold!IsFiniteSet(S)
    BY <1>3 DEF IsFiniteSet, AllocFold!IsFiniteSet
  <2>. HIDE DEF Q, S
  <2>. QED  BY <1>4, <2>1, <2>2, AllocFold!SetFoldTo
<1>7. PICK s : s = AllocFold!SetFold(e, base, S)
  OBVIOUS
<1>8. Within(s, n, Some(e, S))
  <2>. HIDE DEF S
  <2>. QED  BY <1>6, <1>7
<1>9. Some(e, S) = e
  BY SomeEnds
<1>10. Within(s, n, e)
  <2>. HIDE DEF S
  <2>. QED  BY <1>8, <1>9
<1>11. commit(s).state = Holding(e, {})
  BY <1>2, <1>10, CommitIs
<1>. QED  BY <1>1, <1>7, <1>11, ListLoops

\* One more account of the genesis declaration.
LEMMA GenesisOne ==
  ASSUME Laws, NEW e \in Accts, e = GenesisAccounts, NEW t \in SUBSET DOMAIN e,
         NEW a \in DOMAIN e \ t, NEW n \in Accts, NEW s, Within(s, n, Some(e, t))
  PROVE  Within(set_balance(s, a, Genesis[a]), n, Some(e, t \cup {a}))
<1>1. a \in Addr
  BY AccountInType
<1>2. PICK b : b = Genesis[a]
  OBVIOUS
<1>3. e[a] = [nonce |-> 0, balance |-> b] /\ b \in Balances
  BY <1>2, StateAssumption DEF GenesisAccounts
<1>4. FieldType("balance", b)
  BY <1>3 DEF FieldType, Params
<1>5. PICK m : m = Some(e, t)
  OBVIOUS
<1>6. Within(Write(s, a, "balance", b), n, Put(m, a, Field(AccountIn(m, a), "balance", b)))
  BY <1>1, <1>4, <1>5, WithinWrite
<1>7. AccountIn(m, a) = BlankAccount /\ Put(m, a, e[a]) = Some(e, t \cup {a})
  BY <1>5, SomeIs
<1>8. Field(BlankAccount, "balance", b) = e[a]
  BY <1>3 DEF Field, BlankAccount
<1>. QED  BY <1>2, <1>6, <1>7, <1>8 DEF set_balance

\* The genesis state holds the genesis accounts, and all of its trie is stored.
LEMMA GenesisIs ==
  ASSUME Laws
  PROVE  LET g == state_from_genesis_declaration
         IN  /\ GenesisAccounts \in Accts
             /\ g.state = Holding(GenesisAccounts, {})
             /\ IsFiniteSet(g.puts)
             /\ Needed(Root(GenesisAccounts)) \subseteq g.puts
<1>1. PICK e : e = GenesisAccounts
  OBVIOUS
<1>2. DOMAIN e = DOMAIN Genesis /\ DOMAIN e \in SUBSET Addr
  BY <1>1, StateAssumption DEF GenesisAccounts
<1>3. e \in Accts
  <2>1. \A a \in DOMAIN Genesis : Genesis[a] \in Balances /\ 0 \in Nat
    BY StateAssumption
  <2>2. e \in [DOMAIN e -> AccountType]
    BY <1>1, <2>1 DEF GenesisAccounts, AccountType
  <2>. QED  BY <1>2, <2>2 DEF Accts
<1>. DEFINE S == DOMAIN e
<1>4. PICK n, base : n = <<>> /\ base = StateAt(BLANK)
  OBVIOUS
<1>5. n \in Accts /\ Within(base, n, n) /\ Needed(Root(n)) = {}
  BY <1>4, BlankState
<1>6. IsFiniteSet(S)
  BY <1>3, AccountInType
<1>. DEFINE Q == [t \in SUBSET S |-> {s \in StatesOn(n) : Within(s, n, Some(e, t))}]
<1>7. base \in Q[{}]
  <2>1. Some(e, {}) = n
    BY <1>3, <1>4, SomeEnds
  <2>2. base \in StatesOn(n)
    BY <1>5, WithinStates
  <2>3. {} \in SUBSET S
    OBVIOUS
  <2>. HIDE DEF S
  <2>. QED  BY <1>5, <2>1, <2>2, <2>3
<1>8. ASSUME NEW t \in SUBSET S, NEW a \in S \ t, NEW s \in Q[t]
      PROVE  set_balance(s, a, Genesis[a]) \in Q[t \cup {a}]
  <2>1. Within(s, n, Some(e, t))
    OBVIOUS
  <2>2. PICK r : r = set_balance(s, a, Genesis[a])
    OBVIOUS
  <2>3. Within(r, n, Some(e, t \cup {a}))
    <3>. HIDE DEF Q
    <3>. QED  BY <1>1, <1>3, <1>5, <2>1, <2>2, GenesisOne
  <2>4. r \in StatesOn(n)
    <3>. HIDE DEF Q, S
    <3>. QED  BY <2>3, WithinStates
  <2>5. t \cup {a} \in SUBSET S
    OBVIOUS
  <2>6. r \in Q[t \cup {a}]
    <3>. HIDE DEF S
    <3>. QED  BY <2>3, <2>4, <2>5
  <2>. QED  BY <2>2, <2>6
<1>9. GenesisFold!SetFold(0, base, S) \in Q[S]
  <2>1. GenesisFold!LeadsUp(0, Q, S)
    <3>. HIDE DEF Q, S
    <3>. QED  BY <1>8 DEF GenesisFold!LeadsUp
  <2>2. GenesisFold!IsFiniteSet(S)
    BY <1>6 DEF IsFiniteSet, GenesisFold!IsFiniteSet
  <2>. HIDE DEF Q, S
  <2>. QED  BY <1>7, <2>1, <2>2, GenesisFold!SetFoldTo
<1>10. PICK s : s = GenesisFold!SetFold(0, base, S)
  OBVIOUS
<1>11. Within(s, n, Some(e, S))
  <2>. HIDE DEF S
  <2>. QED  BY <1>9, <1>10
<1>12. Some(e, S) = e
  BY <1>3, SomeEnds
<1>13. Within(s, n, e)
  <2>. HIDE DEF S
  <2>. QED  BY <1>11, <1>12
<1>14. commit(s).state = Holding(e, {}) /\ IsFiniteSet(commit(s).puts)
  BY <1>5, <1>13, CommitIs
<1>15. Needed(Root(e)) \subseteq Needed(Root(n)) \cup commit(s).puts
  BY <1>5, <1>13, CommitNeeds
<1>16. state_from_genesis_declaration = commit(s)
  BY <1>2, <1>4, <1>10, ListLoops
<1>. QED  BY <1>1, <1>3, <1>5, <1>14, <1>15, <1>16

-----------------------------------------------------------------------------
(* The invariant *)

\* The fields of a state that holds the accounts.
LEMMA HoldingFields ==
  ASSUME NEW d, NEW A
  PROVE  /\ Holding(d, A).trie = Root(d) /\ Holding(d, A).journal = <<>>
         /\ Holding(d, A).cache = [a \in A |-> Untouched(AccountIn(d, a))]
         /\ Snapshot(Holding(d, A)) = [root |-> Root(d), len |-> 0]
         /\ StateAt(Root(d)) = Holding(d, {})
<1>1. Holding(d, A).trie = Root(d) /\ Holding(d, A).journal = <<>>
      /\ Holding(d, A).cache = [a \in A |-> Untouched(AccountIn(d, a))]
  BY DEF Holding
<1>2. Snapshot(Holding(d, A)) = [root |-> Root(d), len |-> 0]
  BY <1>1 DEF Snapshot
<1>3. PICK n : n = <<>>
  OBVIOUS
<1>4. [a \in {} |-> Untouched(AccountIn(d, a))] = n
  BY <1>3
<1>5. StateAt(Root(d)) = Holding(d, {})
  BY <1>3, <1>4 DEF StateAt, Holding
<1>. QED  BY <1>1, <1>2, <1>5

\* The trie alone.
LEMMA HoldingTrie ==
  ASSUME NEW d, NEW A
  PROVE  Holding(d, A).trie = Root(d)
BY DEF Holding

\* The state that a first start has, and all of it is stored.
LEMMA FirstStart ==
  ASSUME Laws
  PROVE  LET g == state_from_genesis_declaration
         IN  /\ GenesisAccounts \in Accts /\ Clean(load_all(g.state), GenesisAccounts)
             /\ load_all(g.state).trie = Root(GenesisAccounts)
             /\ IsFiniteSet(g.puts) /\ Needed(Root(GenesisAccounts)) \subseteq g.puts
<1>1. PICK g, e : g = state_from_genesis_declaration /\ e = GenesisAccounts
  OBVIOUS
<1>2. /\ e \in Accts /\ g.state = Holding(e, {}) /\ IsFiniteSet(g.puts)
      /\ Needed(Root(e)) \subseteq g.puts
  BY <1>1, GenesisIs
<1>3. PICK A, B : A = {} /\ B = A \cup DOMAIN e
  OBVIOUS
<1>4. A \in SUBSET Addr /\ B \in SUBSET Addr
  BY <1>2, <1>3, AccountInType
<1>5. load_all(g.state) = Holding(e, B)
  BY <1>2, <1>3, <1>4, LoadAllIs
<1>6. Clean(load_all(g.state), e)
  BY <1>4, <1>5 DEF Clean
<1>7. load_all(g.state).trie = Root(e)
  BY <1>5, HoldingTrie
<1>. QED  BY <1>1, <1>2, <1>6, <1>7

\* A first start.
LEMMA InitSInv ==
  ASSUME Laws, Init
  PROVE  SInv
<1>1. PICK e : e = GenesisAccounts
  OBVIOUS
<1>2. /\ pc = "idle" /\ block = NoBlock /\ done = 0
      /\ head = load_all(state_from_genesis_declaration.state)
      /\ uncommitted = {} /\ disk = state_from_genesis_declaration.puts
      /\ db_root = head.trie /\ height = 0 /\ accounts = e /\ before = e /\ crashes = 0
  BY <1>1 DEF Init, GenesisAccounts
<1>3. /\ e \in Accts /\ Clean(head, e) /\ head.trie = Root(e) /\ IsFiniteSet(disk)
      /\ Needed(Root(e)) \subseteq disk
  BY <1>1, <1>2, FirstStart
<1>4. HistoryOK /\ HeadOK /\ PhaseOK
  BY <1>2, <1>3 DEF HistoryOK, HeadOK, PhaseOK
<1>5. DiskOK /\ DbClosed
  BY <1>1, <1>2, <1>3, FS_EmptySet DEF DiskOK, DbClosed
<1>6. CountersOK
  BY <1>2, StateAssumption DEF CountersOK
<1>. QED  BY <1>4, <1>5, <1>6 DEF SInv

\* Reading an account.
LEMMA ReadAccountSInv ==
  ASSUME Laws, SInv, NEW a \in Addr, ReadAccount(a)
  PROVE  SInv'
<1>1. /\ pc = "idle" /\ head' = get_and_cache_account(head, a)
      /\ pc' = pc /\ block' = block /\ done' = done /\ uncommitted' = uncommitted /\ disk' = disk
      /\ db_root' = db_root /\ height' = height /\ accounts' = accounts /\ before' = before
      /\ crashes' = crashes
  BY DEF ReadAccount, dbvars
<1>2. accounts \in Accts /\ before \in Accts /\ Clean(head, accounts)
  BY <1>1 DEF SInv, HistoryOK, HeadOK
<1>3. PICK A \in SUBSET Addr : head = Holding(accounts, A)
  BY <1>2 DEF Clean
<1>4. PICK B : B = A \cup {a}
  OBVIOUS
<1>5. B \in SUBSET Addr /\ head' = Holding(accounts, B)
  BY <1>1, <1>2, <1>3, <1>4, LoadHolding
<1>6. Clean(head, accounts)'
  BY <1>1, <1>5 DEF Clean
<1>7. head'.trie = head.trie
  <2>1. head.trie = Root(accounts)
    BY <1>3, HoldingTrie
  <2>2. head'.trie = Root(accounts)
    BY <1>5, HoldingTrie
  <2>. QED  BY <2>1, <2>2
<1>8. HistoryOK' /\ HeadOK'
  BY <1>1, <1>2, <1>6 DEF HistoryOK, HeadOK
<1>9. PhaseOK'
  BY <1>1 DEF SInv, PhaseOK
<1>10. DiskOK' /\ DbClosed' /\ CountersOK'
  BY <1>1, <1>7 DEF SInv, DiskOK, DbClosed, CountersOK
<1>. QED  BY <1>8, <1>9, <1>10 DEF SInv

\* A block begins, on a state that holds the accounts, with the right root in its header.
LEMMA BeginSInv ==
  ASSUME Laws, SInv, pc = "idle", height < MaxHeight, NEW txs \in TxLists,
         NEW A \in SUBSET Addr, NEW root, root = Root(AfterAll(accounts, txs)),
         Begin(Holding(accounts, A), [txs |-> txs, state_root |-> root])
  PROVE  SInv'
<1>1. PICK b, s : b = [txs |-> txs, state_root |-> root] /\ s = Holding(accounts, A)
  OBVIOUS
<1>2. b.txs = txs /\ b.state_root = root
  BY <1>1
<1>3. /\ head' = FoldLeft(LAMBDA t, tx : get_and_cache_account(t, tx.sender), s, txs)
      /\ block' = b /\ done' = 0 /\ snapshot' = Snapshot(head') /\ before' = accounts
      /\ pc' = "apply" /\ accounts' = accounts /\ crashes' = crashes
      /\ uncommitted' = uncommitted /\ disk' = disk /\ db_root' = db_root /\ height' = height
  BY <1>1, <1>2 DEF Begin, dbvars
<1>4. accounts \in Accts /\ before = accounts /\ Clean(head, accounts)
  BY DEF SInv, HistoryOK, PhaseOK, HeadOK
<1>5. txs \in Seq(Tx)
  BY StateAssumption
<1>6. Clean(head', accounts)
  BY <1>1, <1>3, <1>4, <1>5, ReadSenders
<1>7. PICK B \in SUBSET Addr : head' = Holding(accounts, B)
  BY <1>6 DEF Clean
<1>8. snapshot' = [root |-> Root(accounts), len |-> 0] /\ head'.trie = Root(accounts)
  <2>1. snapshot' = Snapshot(Holding(accounts, B))
    BY <1>3, <1>7
  <2>2. Snapshot(Holding(accounts, B)) = [root |-> Root(accounts), len |-> 0]
    BY HoldingFields
  <2>3. head'.trie = Root(accounts)
    BY <1>7, HoldingTrie
  <2>. QED  BY <2>1, <2>2, <2>3
<1>9. head.trie = Root(accounts)
  BY <1>4, HoldingTrie DEF Clean
<1>10. HistoryOK' /\ HeadOK'
  BY <1>3, <1>4, <1>6 DEF HistoryOK, HeadOK
<1>11. AfterAll(accounts, SubSeq(txs, 1, 0)) = accounts
  BY <1>4, <1>5, AfterPrefix
<1>12. BlockOK'
  <2>1. block'.txs = txs /\ block'.state_root = Root(AfterAll(accounts, txs))
    BY <1>2, <1>3
  <2>2. Len(txs) \in Nat
    BY <1>5
  <2>3. accounts' = AfterAll(before', SubSeq(block'.txs, 1, done'))
    BY <1>3, <1>11, <2>1
  <2>4. block'.state_root = Root(AfterAll(before', block'.txs))
    BY <1>3, <2>1
  <2>5. done' \in 0..Len(block'.txs)
    <3>1. 0 \in 0..Len(txs)
      BY <2>2
    <3>. QED  BY <1>3, <2>1, <3>1
  <2>. QED  BY <1>3, <1>8, <2>1, <2>3, <2>4, <2>5 DEF BlockOK
<1>13. PhaseOK'
  BY <1>3, <1>12 DEF PhaseOK, BlockOK
<1>14. DiskOK' /\ DbClosed' /\ CountersOK'
  BY <1>3, <1>4, <1>8, <1>9 DEF SInv, DiskOK, DbClosed, CountersOK
<1>. QED  BY <1>10, <1>13, <1>14 DEF SInv

\* A block of this node: the clone it is computed on reaches the root that the
\* transactions make.
LEMMA CreateBlockSInv ==
  ASSUME Laws, SInv, NEW txs \in TxLists, CreateBlock(txs)
  PROVE  SInv'
<1>1. /\ pc = "idle" /\ height < MaxHeight
      /\ Begin(load_all(head), [txs |-> txs, state_root |-> apply_all(clone(head), txs).trie])
  BY DEF CreateBlock
<1>2. accounts \in Accts /\ Clean(head, accounts)
  BY <1>1 DEF SInv, HistoryOK, HeadOK
<1>3. PICK A \in SUBSET Addr : head = Holding(accounts, A)
  BY <1>2 DEF Clean
<1>4. PICK B : B = A \cup DOMAIN accounts
  OBVIOUS
<1>5. B \in SUBSET Addr /\ load_all(head) = Holding(accounts, B)
  BY <1>2, <1>3, <1>4, AccountInType, LoadAllIs
<1>6. txs \in Seq(Tx)
  BY StateAssumption
<1>7. PICK root : root = apply_all(clone(head), txs).trie
  OBVIOUS
<1>8. root = Root(AfterAll(accounts, txs))
  BY <1>2, <1>3, <1>6, <1>7, ApplyAllIs
<1>9. Begin(Holding(accounts, B), [txs |-> txs, state_root |-> root])
  BY <1>1, <1>5, <1>7
<1>. QED  BY <1>1, <1>5, <1>8, <1>9, BeginSInv

\* A block of another node.
LEMMA ReceiveBlockSInv ==
  ASSUME Laws, SInv, NEW txs \in TxLists, ReceiveBlock(txs)
  PROVE  SInv'
<1>1. PICK root : root = Root(AfterAll(accounts, txs))
  OBVIOUS
<1>2. /\ pc = "idle" /\ height < MaxHeight
      /\ Begin(head, [txs |-> txs, state_root |-> root])
  BY <1>1 DEF ReceiveBlock, Root
<1>3. Clean(head, accounts)
  BY <1>2 DEF SInv, HeadOK
<1>4. PICK A \in SUBSET Addr : head = Holding(accounts, A)
  BY <1>3 DEF Clean
<1>. QED  BY <1>1, <1>2, <1>4, BeginSInv

\* In the middle of a block.
LEMMA InBlock ==
  ASSUME Laws, SInv, pc = "apply"
  PROVE  /\ accounts \in Accts /\ before \in Accts /\ BlockOK
         /\ \E A \in SUBSET Addr : head = Holding(accounts, A)
         /\ head.trie = Root(accounts) /\ db_root = Root(before)
         /\ block.txs \in Seq(Tx) /\ done \in 0..Len(block.txs)
         /\ done < Len(block.txs) => block.txs[done + 1] \in Tx
<1>1. accounts \in Accts /\ before \in Accts /\ Clean(head, accounts) /\ db_root = Root(before)
  BY DEF SInv, HistoryOK, HeadOK, DiskOK
<1>2. BlockOK
  BY DEF SInv, PhaseOK
<1>3. PICK A \in SUBSET Addr : head = Holding(accounts, A)
  BY <1>1 DEF Clean
<1>4. head.trie = Root(accounts)
  BY <1>3, HoldingTrie
<1>5. block.txs \in Seq(Tx) /\ done \in 0..Len(block.txs)
  BY <1>2, StateAssumption DEF BlockOK
<1>6. done < Len(block.txs) => block.txs[done + 1] \in Tx
  BY <1>5
<1>. QED  BY <1>1, <1>2, <1>3, <1>4, <1>5, <1>6

\* A transaction of the block.
LEMMA ApplyTxSInv ==
  ASSUME Laws, SInv, ApplyTx
  PROVE  SInv'
<1>1. PICK tx : tx = block.txs[done + 1]
  OBVIOUS
<1>2. PICK r : r = apply_transaction(head, tx)
  OBVIOUS
<1>3. /\ pc = "apply" /\ done < Len(block.txs)
      /\ head' = r.state /\ uncommitted' = uncommitted \cup r.puts
      /\ accounts' = After(accounts, tx) /\ done' = done + 1
      /\ pc' = pc /\ block' = block /\ snapshot' = snapshot /\ disk' = disk
      /\ db_root' = db_root /\ height' = height /\ before' = before /\ crashes' = crashes
  BY <1>1, <1>2 DEF ApplyTx
<1>4. /\ accounts \in Accts /\ before \in Accts /\ BlockOK
      /\ head.trie = Root(accounts) /\ db_root = Root(before)
      /\ block.txs \in Seq(Tx) /\ done \in 0..Len(block.txs) /\ tx \in Tx
  BY <1>1, <1>3, InBlock
<1>5. PICK A \in SUBSET Addr : head = Holding(accounts, A)
  BY <1>3, InBlock
<1>6. PICK e : e = After(accounts, tx)
  OBVIOUS
<1>7. /\ e \in Accts /\ r.state = Holding(e, {}) /\ IsFiniteSet(r.puts)
      /\ Needed(Root(e)) \subseteq Needed(Root(accounts)) \cup r.puts
  BY <1>2, <1>4, <1>5, <1>6, ApplyTransactionIs
<1>8. accounts' = e /\ head' = Holding(e, {}) /\ head'.trie = Root(e)
  <2>1. accounts' = e
    BY <1>3, <1>6
  <2>2. head' = Holding(e, {})
    BY <1>3, <1>7
  <2>3. head'.trie = Root(e)
    BY <2>2, HoldingTrie
  <2>. QED  BY <2>1, <2>2, <2>3
<1>9. HistoryOK'
  BY <1>3, <1>4, <1>7, <1>8 DEF HistoryOK
<1>10. HeadOK'
  <2>1. {} \in SUBSET Addr
    OBVIOUS
  <2>2. Clean(head', accounts')
    BY <1>8, <2>1 DEF Clean
  <2>. QED  BY <1>3, <2>2 DEF HeadOK
<1>11. BlockOK'
  <2>1. PICK k, l : k = done /\ l = block.txs
    OBVIOUS
  <2>2. k \in 0..(Len(l) - 1) /\ k + 1 \in 0..Len(l)
    BY <1>3, <1>4, <2>1
  <2>3. AfterAll(before, SubSeq(l, 1, k + 1)) = After(AfterAll(before, SubSeq(l, 1, k)), l[k + 1])
    BY <1>4, <2>1, <2>2, AfterPrefix
  <2>4. accounts' = AfterAll(before, SubSeq(l, 1, k + 1))
    BY <1>1, <1>4, <1>6, <1>8, <2>1, <2>3 DEF BlockOK
  <2>. QED  BY <1>3, <1>4, <2>1, <2>2, <2>4 DEF BlockOK
<1>12. PhaseOK'
  BY <1>3, <1>11 DEF PhaseOK, BlockOK
<1>13. DiskOK'
  BY <1>3, <1>7, FS_Union DEF SInv, DiskOK
<1>14. DbClosed'
  <2>1. Needed(db_root) \subseteq disk /\ Needed(Root(accounts)) \subseteq disk \cup uncommitted
    BY <1>4 DEF SInv, DbClosed
  <2>2. Needed(Root(e)) \subseteq disk \cup (uncommitted \cup r.puts)
    BY <1>7, <2>1
  <2>. QED  BY <1>3, <1>8, <2>1, <2>2 DEF DbClosed
<1>15. CountersOK'
  BY <1>3 DEF SInv, CountersOK
<1>. QED  BY <1>9, <1>10, <1>12, <1>13, <1>14, <1>15 DEF SInv

\* An exception in a transaction: the state goes back to the accounts of the snapshot.
LEMMA ApplyRaisesSInv ==
  ASSUME Laws, SInv, ApplyRaises
  PROVE  SInv'
<1>1. PICK tx : tx = block.txs[done + 1]
  OBVIOUS
<1>2. PICK some \in Prefixes(tx.writes) : head' = revert(apply_writes(head, some), snapshot)
  BY <1>1 DEF ApplyRaises
<1>3. /\ pc = "apply" /\ done < Len(block.txs) /\ crashes < MaxCrash
      /\ accounts' = before /\ pc' = "stopping"
      /\ block' = block /\ done' = done /\ snapshot' = snapshot /\ uncommitted' = uncommitted
      /\ disk' = disk /\ db_root' = db_root /\ height' = height /\ before' = before
      /\ crashes' = crashes
  BY DEF ApplyRaises, dbvars
<1>4. /\ accounts \in Accts /\ before \in Accts /\ BlockOK /\ db_root = Root(before)
      /\ block.txs \in Seq(Tx) /\ done \in 0..Len(block.txs) /\ tx \in Tx
  BY <1>1, <1>3, InBlock
<1>5. PICK A \in SUBSET Addr : head = Holding(accounts, A)
  BY <1>3, InBlock
<1>6. some \in Seq(WriteSet)
  <2>1. PICK w : w = tx.writes
    OBVIOUS
  <2>2. w \in Seq(WriteSet)
    BY <1>4, <2>1, StateAssumption DEF WriteSet
  <2>3. some \in Prefixes(w)
    BY <1>2, <2>1
  <2>4. PICK k \in 0..Len(w) : some = SubSeq(w, 1, k)
    BY <2>2, <2>3 DEF Prefixes
  <2>. QED  BY <2>2, <2>4
<1>7. PICK s, m : s = apply_writes(head, some) /\ m = FoldLeft(Wrote, accounts, some)
  OBVIOUS
<1>8. Within(s, accounts, m)
  BY <1>4, <1>5, <1>6, <1>7, WithinWrites
<1>9. snapshot = [root |-> Root(before), len |-> 0]
  BY <1>4 DEF BlockOK
<1>10. Clean(head', before)
  BY <1>2, <1>4, <1>7, <1>8, <1>9, RevertIs
<1>11. head'.trie = Root(before)
  BY <1>10, HoldingTrie DEF Clean
<1>12. HistoryOK' /\ HeadOK'
  BY <1>3, <1>4, <1>10 DEF HistoryOK, HeadOK
<1>13. PhaseOK'
  BY <1>3, <1>4 DEF PhaseOK, BlockOK
<1>14. DiskOK' /\ CountersOK'
  BY <1>3 DEF SInv, DiskOK, CountersOK
<1>15. DbClosed'
  BY <1>3, <1>4, <1>11 DEF SInv, DbClosed
<1>. QED  BY <1>12, <1>13, <1>14, <1>15 DEF SInv

\* The block is written: the root in its header is that of the state.
LEMMA CommitBlockSInv ==
  ASSUME Laws, SInv, CommitBlock
  PROVE  SInv'
<1>1. /\ pc = "apply" /\ done = Len(block.txs)
      /\ disk' = disk \cup uncommitted /\ uncommitted' = {}
      /\ db_root' = block.state_root /\ height' = height + 1
      /\ block' = NoBlock /\ done' = 0 /\ before' = accounts /\ pc' = "idle"
      /\ head' = head /\ accounts' = accounts /\ crashes' = crashes
  BY DEF CommitBlock
<1>2. /\ accounts \in Accts /\ before \in Accts /\ BlockOK
      /\ head.trie = Root(accounts) /\ block.txs \in Seq(Tx)
  BY <1>1, InBlock
<1>3. AfterAll(before, SubSeq(block.txs, 1, Len(block.txs))) = AfterAll(before, block.txs)
  BY <1>2, AfterPrefix
<1>4. block.state_root = Root(accounts)
  BY <1>1, <1>2, <1>3 DEF BlockOK
<1>5. Clean(head, accounts) /\ height \in 0..MaxHeight /\ height < MaxHeight
  BY <1>1 DEF SInv, HeadOK, CountersOK
<1>6. HistoryOK' /\ HeadOK' /\ PhaseOK'
  BY <1>1, <1>2, <1>5 DEF HistoryOK, HeadOK, PhaseOK
<1>7. MaxHeight \in Nat
  BY StateAssumption
<1>8. height' # 0 /\ height' \in 0..MaxHeight
  BY <1>1, <1>5, <1>7
<1>9. IsFiniteSet(disk') /\ IsFiniteSet(uncommitted')
  BY <1>1, FS_Union, FS_EmptySet DEF SInv, DiskOK
<1>10. DiskOK' /\ CountersOK'
  BY <1>1, <1>4, <1>8, <1>9 DEF SInv, DiskOK, CountersOK
<1>11. DbClosed'
  BY <1>1, <1>2, <1>4 DEF SInv, DbClosed
<1>. QED  BY <1>6, <1>10, <1>11 DEF SInv

\* The process ends.
LEMMA StopSInv ==
  ASSUME Laws, SInv, Stop
  PROVE  SInv'
<1>1. /\ crashes < MaxCrash /\ pc' = "down" /\ crashes' = crashes + 1
      /\ head' = StateAt(BLANK) /\ uncommitted' = {} /\ block' = NoBlock /\ done' = 0
      /\ accounts' = before /\ disk' = disk /\ db_root' = db_root /\ height' = height
      /\ before' = before
  BY DEF Stop
<1>2. HistoryOK' /\ HeadOK' /\ PhaseOK'
  BY <1>1 DEF SInv, HistoryOK, HeadOK, PhaseOK
<1>3. DiskOK'
  BY <1>1, FS_EmptySet DEF SInv, DiskOK
<1>4. CountersOK'
  BY <1>1, StateAssumption DEF SInv, CountersOK
<1>5. DbClosed'
  <2>1. head'.trie = BLANK
    BY <1>1 DEF StateAt
  <2>2. Needed(BLANK) = {}
    BY BlankState, RootEmpty
  <2>. QED  BY <1>1, <2>1, <2>2 DEF SInv, DbClosed
<1>. QED  BY <1>2, <1>3, <1>4, <1>5 DEF SInv

\* The process starts again, with the genesis accounts or from the root on disk.
LEMMA RestartSInv ==
  ASSUME Laws, SInv, Restart
  PROVE  SInv'
<1>1. /\ pc = "down" /\ pc' = "idle" /\ block' = block /\ done' = done
      /\ uncommitted' = uncommitted /\ db_root' = db_root /\ height' = height
      /\ accounts' = accounts /\ before' = before /\ crashes' = crashes
  BY DEF Restart
<1>2. /\ accounts \in Accts /\ before = accounts /\ block = NoBlock /\ done = 0
      /\ db_root = Root(accounts)
  BY <1>1 DEF SInv, HistoryOK, PhaseOK, DiskOK
<1>3. Clean(head', accounts) /\ IsFiniteSet(disk') /\ disk \subseteq disk'
      /\ Needed(head'.trie) \subseteq disk'
  <2>1. CASE /\ height = 0 /\ head' = load_all(state_from_genesis_declaration.state)
             /\ disk' = disk \cup state_from_genesis_declaration.puts
    <3>1. accounts = GenesisAccounts /\ IsFiniteSet(disk)
      BY <1>2, <2>1 DEF SInv, DiskOK
    <3>2. PICK g : g = state_from_genesis_declaration
      OBVIOUS
    <3>3. /\ Clean(load_all(g.state), accounts) /\ load_all(g.state).trie = Root(accounts)
          /\ IsFiniteSet(g.puts) /\ Needed(Root(accounts)) \subseteq g.puts
      BY <3>1, <3>2, FirstStart
    <3>4. IsFiniteSet(disk \cup g.puts)
      BY <3>1, <3>3, FS_Union
    <3>. QED  BY <2>1, <3>2, <3>3, <3>4
  <2>2. CASE head' = StateAt(db_root) /\ disk' = disk
    <3>1. head' = Holding(accounts, {}) /\ {} \in SUBSET Addr
      BY <1>2, <2>2, HoldingFields
    <3>2. head'.trie = db_root
      BY <1>2, <3>1, HoldingTrie
    <3>3. Clean(head', accounts)
      BY <3>1 DEF Clean
    <3>4. IsFiniteSet(disk) /\ Needed(db_root) \subseteq disk
      BY DEF SInv, DiskOK, DbClosed
    <3>. QED  BY <2>2, <3>2, <3>3, <3>4
  <2>. QED  BY <2>1, <2>2 DEF Restart
<1>4. HistoryOK' /\ HeadOK' /\ PhaseOK'
  BY <1>1, <1>2, <1>3 DEF HistoryOK, HeadOK, PhaseOK
<1>5. DiskOK' /\ CountersOK'
  BY <1>1, <1>2, <1>3 DEF SInv, DiskOK, CountersOK
<1>6. DbClosed'
  BY <1>1, <1>3 DEF SInv, DbClosed
<1>. QED  BY <1>4, <1>5, <1>6 DEF SInv

\* Every step keeps the invariant.
LEMMA NextSInv ==
  ASSUME Laws, SInv, [Next]_vars
  PROVE  SInv'
<1>1. CASE UNCHANGED vars
  BY <1>1 DEF vars, SInv, HistoryOK, HeadOK, Clean, PhaseOK, BlockOK, DiskOK, DbClosed, CountersOK
<1>2. ASSUME NEW a \in Addr, ReadAccount(a) PROVE SInv'
  BY <1>2, ReadAccountSInv
<1>3. ASSUME NEW txs \in TxLists, CreateBlock(txs) \/ ReceiveBlock(txs) PROVE SInv'
  BY <1>3, CreateBlockSInv, ReceiveBlockSInv
<1>4. CASE ApplyTx
  BY <1>4, ApplyTxSInv
<1>5. CASE ApplyRaises
  BY <1>5, ApplyRaisesSInv
<1>6. CASE CommitBlock
  BY <1>6, CommitBlockSInv
<1>7. CASE Stop
  BY <1>7, StopSInv
<1>8. CASE Restart
  BY <1>8, RestartSInv
<1>. QED  BY <1>1, <1>2, <1>3, <1>4, <1>5, <1>6, <1>7, <1>8 DEF Next

\* The invariant of the account state: between blocks the state holds the accounts
\* and nothing to undo, inside a block it holds what the transactions applied so
\* far have left, and the header names the root of what they will leave.
THEOREM StateInvariant ==
  ASSUME Laws
  PROVE  Spec => []SInv
<1>1. Init => SInv
  BY InitSInv
<1>2. SInv /\ [Next]_vars => SInv'
  BY NextSInv
<1>. QED  BY <1>1, <1>2, PTL DEF Spec

-----------------------------------------------------------------------------
(* The properties *)

\* The shape of the state: cached accounts have their fields, journal entries are
\* about cached accounts, what is stored stays finite.
THEOREM StateTypeOK ==
  ASSUME Laws
  PROVE  Spec => []TypeOK
<1>1. ASSUME SInv PROVE TypeOK
  <2>1. /\ pc \in {"idle", "apply", "stopping", "down"}
        /\ height \in 0..MaxHeight /\ crashes \in 0..MaxCrash
        /\ IsFiniteSet(disk) /\ IsFiniteSet(uncommitted)
    BY <1>1 DEF SInv, PhaseOK, CountersOK, DiskOK
  <2>2. block.txs \in TxLists \cup {<<>>} /\ done \in 0..Len(block.txs)
    <3>1. CASE pc \in {"idle", "down"}
      <4>1. block.txs = <<>> /\ done = 0
        BY <1>1, <3>1 DEF SInv, PhaseOK, NoBlock
      <4>. QED  BY <4>1
    <3>2. CASE pc \in {"apply", "stopping"}
      BY <1>1, <3>2 DEF SInv, PhaseOK
    <3>. QED  BY <2>1, <3>1, <3>2
  <2>3. PartialOn(accounts, AccountType) /\ PartialOn(before, AccountType)
    BY <1>1, AccountInType DEF SInv, HistoryOK, PartialOn
  <2>4. \E d \in Accts, A \in SUBSET Addr : head = Holding(d, A)
    <3>1. CASE pc = "down"
      <4>1. head = Holding(<<>>, {}) /\ <<>> \in Accts
        BY <1>1, <3>1, BlankState DEF SInv, HeadOK
      <4>2. PICK d, A : d = <<>> /\ A = {}
        OBVIOUS
      <4>3. d \in Accts /\ A \in SUBSET Addr /\ head = Holding(d, A)
        BY <4>1, <4>2
      <4>. QED  BY <4>3
    <3>2. CASE pc # "down"
      BY <1>1, <2>1, <3>2 DEF SInv, HistoryOK, HeadOK, Clean
    <3>. QED  BY <3>1, <3>2
  <2>5. PICK d \in Accts, A \in SUBSET Addr : head = Holding(d, A)
    BY <2>4
  <2>6. head.journal = <<>> /\ head.cache = [a \in A |-> Untouched(AccountIn(d, a))]
    BY <2>5, HoldingFields
  <2>7. DOMAIN head = {"trie", "cache", "journal"}
    BY <2>5 DEF Holding
  <2>8. PartialOn(head.cache, [nonce : Nat, balance : Balances, touched : BOOLEAN])
    <3>1. \A a \in A : Untouched(AccountIn(d, a)) \in [nonce : Nat, balance : Balances, touched : BOOLEAN]
      BY AccountInType DEF Untouched, AccountType
    <3>. QED  BY <2>6, <3>1 DEF PartialOn
  <2>9. \A i \in DOMAIN head.journal : head.journal[i].addr \in DOMAIN head.cache
    BY <2>6
  <2>10. IsFiniteSet(disk \cup uncommitted)
    BY <2>1, FS_Union
  <2>. QED  BY <2>1, <2>2, <2>3, <2>7, <2>8, <2>9, <2>10 DEF TypeOK
<1>2. Spec => []SInv
  BY StateInvariant
<1>. QED  BY <1>1, <1>2, PTL

\* While the process runs the state holds the accounts.
LEMMA RunningHolds ==
  ASSUME SInv, pc # "down"
  PROVE  accounts \in Accts /\ \E A \in SUBSET Addr : head = Holding(accounts, A)
BY DEF SInv, HistoryOK, PhaseOK, HeadOK, Clean

\* Reads return what the transactions have written, through cache, journal and trie.
THEOREM StateAccountsReadBack ==
  ASSUME Laws
  PROVE  Spec => []AccountsReadBack
<1>1. ASSUME SInv PROVE AccountsReadBack
  <2>1. SUFFICES ASSUME pc # "down", NEW a \in Addr
                 PROVE  rlp(Account(head, a)) = AccountIn(accounts, a)
    BY DEF AccountsReadBack
  <2>2. accounts \in Accts
    BY <1>1, <2>1, RunningHolds
  <2>3. PICK A \in SUBSET Addr : head = Holding(accounts, A)
    BY <1>1, <2>1, RunningHolds
  <2>. QED  BY <2>2, <2>3, LoadHolding
<1>2. Spec => []SInv
  BY StateInvariant
<1>. QED  BY <1>1, <1>2, PTL

\* The state root is a function of the accounts, whatever way led to them.
THEOREM StateRootIndependentOfHistory ==
  ASSUME Laws
  PROVE  Spec => []RootIndependentOfHistory
<1>1. ASSUME SInv PROVE RootIndependentOfHistory
  <2>1. SUFFICES ASSUME pc # "down" PROVE head.trie = trie_of(ByHash(accounts))
    BY DEF RootIndependentOfHistory
  <2>2. PICK A \in SUBSET Addr : head = Holding(accounts, A)
    BY <1>1, <2>1, RunningHolds
  <2>3. head.trie = Root(accounts)
    BY <2>2, HoldingTrie
  <2>. QED  BY <2>3 DEF Root
<1>2. Spec => []SInv
  BY StateInvariant
<1>. QED  BY <1>1, <1>2, PTL

\* When the block is done the state is the one its header names: a restart finds it.
THEOREM StateHeaderRootMatches ==
  ASSUME Laws
  PROVE  Spec => []HeaderRootMatches
<1>1. ASSUME SInv PROVE HeaderRootMatches
  <2>1. ASSUME pc = "apply", done = Len(block.txs) PROVE block.state_root = head.trie
    <3>1. /\ accounts \in Accts /\ before \in Accts /\ BlockOK
          /\ head.trie = Root(accounts) /\ block.txs \in Seq(Tx)
      BY <1>1, <2>1, InBlock
    <3>2. AfterAll(before, SubSeq(block.txs, 1, Len(block.txs))) = AfterAll(before, block.txs)
      BY <3>1, AfterPrefix
    <3>. QED  BY <2>1, <3>1, <3>2 DEF BlockOK
  <2>2. ASSUME pc = "idle" PROVE db_root = head.trie
    <3>1. db_root = Root(accounts)
      BY <1>1, <2>2 DEF SInv, DiskOK, PhaseOK
    <3>2. PICK A \in SUBSET Addr : head = Holding(accounts, A)
      BY <1>1, <2>2, RunningHolds
    <3>3. head.trie = Root(accounts)
      BY <3>2, HoldingTrie
    <3>. QED  BY <3>1, <3>3
  <2>. QED  BY <2>1, <2>2 DEF HeaderRootMatches
<1>2. Spec => []SInv
  BY StateInvariant
<1>. QED  BY <1>1, <1>2, PTL

\* No read of the trie, running or after a restart, fails for a node not stored.
THEOREM StateDbClosed ==
  ASSUME Laws
  PROVE  Spec => []DbClosed
<1>1. SInv => DbClosed
  BY DEF SInv
<1>2. Spec => []SInv
  BY StateInvariant
<1>. QED  BY <1>1, <1>2, PTL

\* When a block is created or the state loaded there is nothing to undo or to store.
THEOREM StateCleanBetweenBlocks ==
  ASSUME Laws
  PROVE  Spec => []CleanBetweenBlocks
<1>1. ASSUME SInv PROVE CleanBetweenBlocks
  <2>1. SUFFICES ASSUME pc = "idle"
                 PROVE  /\ head.journal = <<>>
                        /\ \A a \in DOMAIN head.cache : ~head.cache[a].touched
    BY DEF CleanBetweenBlocks
  <2>2. PICK A \in SUBSET Addr : head = Holding(accounts, A)
    BY <1>1, <2>1, RunningHolds
  <2>3. head.journal = <<>> /\ head.cache = [a \in A |-> Untouched(AccountIn(accounts, a))]
    BY <2>2, HoldingFields
  <2>. QED  BY <2>3 DEF Untouched
<1>2. Spec => []SInv
  BY StateInvariant
<1>. QED  BY <1>1, <1>2, PTL

\* The scratch state of create_block, rebuilt from a listing, reads like the state.
THEOREM StateSnapshotRoundTrip ==
  ASSUME Laws
  PROVE  Spec => []SnapshotRoundTrip
<1>1. ASSUME SInv PROVE SnapshotRoundTrip
  <2>1. SUFFICES ASSUME pc = "idle", NEW a \in Addr
                 PROVE  rlp(Account(from_snapshot(to_snapshot(head)), a)) = rlp(Account(head, a))
    BY DEF SnapshotRoundTrip
  <2>2. PICK d : d = accounts
    OBVIOUS
  <2>3. d \in Accts
    BY <1>1, <2>1, <2>2, RunningHolds
  <2>4. PICK A \in SUBSET Addr : head = Holding(d, A)
    BY <1>1, <2>1, <2>2, RunningHolds
  <2>5. PICK B : B = A \cup DOMAIN d
    OBVIOUS
  <2>6. B \in SUBSET Addr /\ load_all(head) = Holding(d, B)
    BY <2>3, <2>4, <2>5, AccountInType, LoadAllIs
  <2>7. PICK e : e = to_snapshot(head)
    OBVIOUS
  <2>8. PICK c : c = [b \in B |-> Untouched(AccountIn(d, b))]
    OBVIOUS
  <2>9. e = [b \in DOMAIN c |-> rlp(c[b])]
    BY <2>6, <2>7, <2>8, HoldingFields DEF to_snapshot, cached_accounts
  <2>10. \A b \in B : AccountIn(d, b) \in AccountType /\ rlp(c[b]) = AccountIn(d, b)
    <3>1. \A b \in B : AccountIn(d, b) \in AccountType
      BY <2>3, AccountInType
    <3>. QED  BY <2>8, <3>1 DEF rlp, Untouched, AccountType
  <2>11. DOMAIN e = B /\ \A b \in B : e[b] = AccountIn(d, b)
    BY <2>8, <2>9, <2>10
  <2>12. e \in Accts
    <3>1. e \in [B -> AccountType]
      BY <2>8, <2>9, <2>10
    <3>. QED  BY <2>6, <3>1 DEF Accts
  <2>13. AccountIn(e, a) = AccountIn(d, a)
    BY <2>5, <2>11 DEF AccountIn
  <2>14. PICK C : C = {}
    OBVIOUS
  <2>15. C \in SUBSET Addr /\ from_snapshot(e) = Holding(e, C)
    BY <2>12, <2>14, FromSnapshotIs
  <2>16. rlp(Account(Holding(e, C), a)) = AccountIn(e, a)
    BY <2>12, <2>15, LoadHolding
  <2>17. rlp(Account(Holding(d, A), a)) = AccountIn(d, a)
    BY <2>3, LoadHolding
  <2>. QED  BY <2>4, <2>7, <2>13, <2>15, <2>16, <2>17
<1>2. Spec => []SInv
  BY StateInvariant
<1>. QED  BY <1>1, <1>2, PTL
=============================================================================
