\* Three blocks of up to two transactions, one stop of the process.
CONSTANTS
  BLANK_NODE = BLANK_NODE
  BLANK = BLANK_NODE
  trie_get <- MCget
  trie_update <- MCupdate
  trie_to_dict <- MCto_dict
  trie_of <- MCof
  trie_nodes <- MCnodes
  none = none
  x = x
  y = y
  Nibble <- MCNibble
  Addr <- MCAddr
  sha3 <- MCsha3
  Balances <- MCBalances
  NoBalance <- none
  Genesis <- MCGenesis
  Tx <- MCTx
  TxLists <- MCTxLists
  MaxHeight = 3
  MaxCrash = 1
SPECIFICATION Spec
INVARIANTS
  TypeOK
  AccountsReadBack
  RootIndependentOfHistory
  HeaderRootMatches
  DbClosed
  CleanBetweenBlocks
  SnapshotRoundTrip
  TrieIsDictionary
