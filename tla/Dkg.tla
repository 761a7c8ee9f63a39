--------------------------------- MODULE Dkg ---------------------------------
(***************************************************************************)
(* One renewal of the group key (consensus.py, Consensus/dkg.py, the DKG,  *)
(* block, share and bootstrap sections of blockchaincba.py).               *)
(*                                                                         *)
(* Before every DKG_RENEWAL_INTERVAL-th block the nodes, once they have    *)
(* the group signature, choose a new group.  Its members exchange          *)
(* contributions; a member with all of them has its secret key and the     *)
(* group key.  A member chosen by the random number signs the next block,  *)
(* which carries the new key to everybody else.  Shares of the next round  *)
(* are signed with the new keys.  A node that has not triggered its DKG    *)
(* when block 1 comes, or that may sign, treats block 1 as any other:      *)
(* the account behind the selected IP signs it, and the old key stays.     *)
(*                                                                         *)
(* Block 0 here is the last one before the renewal and block 1 the one     *)
(* with the new key; block 2 is beyond the model.  A key is known by the   *)
(* contributions it is the sum of: [a |-> k] says that member a put in the *)
(* k-th that it generated.  A random number is known by the block that     *)
(* carries it, and stands for the group signature it is the hash of.       *)
(* The queues of the P2P process are sets, and every message reaches it.   *)
(***************************************************************************)
EXTENDS Integers, SequencesExt, FiniteSetsExt

CONSTANTS
  Node,          \* nodes
  Addrs,         \* Addrs[n]: the addresses in the keystore of node n
  Old, New,      \* the groups before and after the renewal
  Signer,        \* signing_addr: the member of New chosen to sign block 1
  Fresh,         \* nodes that still process blocks in perform_bootstrap
  THRESHOLD,     \* shares that make a group signature
  OldKey,        \* the key of the old group
  IP,            \* IPs that the random number of block 0 may select
  Holder, Owner, \* Holder[ip]: the address the prefix tree names; Owner[ip]: whose own it is
  Nobody,        \* no address
  MaxRestart     \* bound

Addr == UNION {Addrs[n] : n \in Node}

ASSUME DkgAssumption ==
  /\ \A m, n \in Node : m # n => Addrs[m] \cap Addrs[n] = {}
  /\ Old \cup New \subseteq Addr /\ Signer \in New
  /\ Fresh \subseteq Node /\ \A n \in Fresh : Addrs[n] \cap (Old \cup New) = {}
  /\ IsFiniteSet(Old) /\ IsFiniteSet(New)
  /\ THRESHOLD \in Nat \ {0} /\ MaxRestart \in Nat
  /\ Nobody \notin Addr /\ OldKey \notin [New -> Nat]

VARIABLES
  main,          \* main[n]: the variables of the main loop
  consensus,     \* consensus[n]: the Consensus object
  dkg_cache,     \* Share_Cache.dkg_share_cache
  bls_future,    \* Share_Cache.bls_future_shares
  generated,     \* generated[a]: how often address a has generated contributions
  dkg_shares,    \* contributions at, or on the way to, the P2P process of a node
  bls_shares,    \* the same for BLS shares
  blocks,        \* the blocks 1 that reach the P2P process of a node, which keeps the first
  expired,       \* DKG_TIMEOUT has passed since block 0; so may TIMEOUT, which is longer
  dropped,       \* history: contributions thrown away unread by their destination
  lost,          \* history: nodes that threw a BLS share away unread
  cut,           \* history: members that read block 1 before their DKG was done
  ahead,         \* history: nodes past block 1 that had not triggered, or took one with the old key
  restarts       \* history: number of restarts

netvars == <<dkg_shares, bls_shares, blocks>>
history == <<dropped, lost, cut, ahead, restarts>>
vars == <<main, consensus, dkg_cache, bls_future, generated, netvars, expired, history>>

-----------------------------------------------------------------------------
(* The Consensus object.  raised is the exception that ends the process. *)

Blank(ip) == [members |-> {}, own_ids |-> {}, received |-> <<>>, secretKeys |-> <<>>,
              group_key |-> OldKey, previous_group_key |-> OldKey, shares |-> {},
              verified |-> TRUE, random |-> 0, next_signer |-> ip, raised |-> "no"]

\* Without contributions the value is 0 (receivedShare is None).
allSharesReceived(c, id) == \A a \in New : c.received[id][a] # 0
all_node_dkgs_finished(c) == \A id \in c.own_ids : allSharesReceived(c, id)

\* Mutant: a secret key that is there already stays.
with_key_keep(keys, id, key) ==
  [a \in DOMAIN keys \cup {id} |-> IF a \in DOMAIN keys THEN keys[a] ELSE key]

\* The dictionary of secret keys, with the one of id set.
with_key(keys, id, key) == [a \in DOMAIN keys \cup {id} |-> IF a = id THEN key ELSE keys[a]]

\* Only the first contribution of a member counts; with the last one the secret
\* key of that ID and the group key are there.
verify_dkg_contribution(c, s) ==
  LET d == [c EXCEPT !.received[s.to][s.source] = s.contrib]
  IN  CASE c.received[s.to][s.source] # 0 -> c
        [] c.received[s.to][s.source] = 0 /\ allSharesReceived(d, s.to) ->
             [d EXCEPT !.secretKeys = with_key(@, s.to, d.received[s.to]),
                       !.group_key = d.received[s.to]]
        [] OTHER -> d

\* The contributions of the addresses ids to the IDs in to.
Contributions(ids, to, gen) ==
  {[source |-> a, to |-> b, contrib |-> gen[a]] : a \in ids, b \in to}

\* new_dkg: tables for the IDs of this node, and their contributions to each other.
new_dkg(c, ids, gen) ==
  FoldSet(LAMBDA s, d : verify_dkg_contribution(d, s),
          [c EXCEPT !.previous_group_key = c.group_key, !.members = New, !.own_ids = ids,
                    !.received = [id \in ids |-> [a \in New |-> 0]]],
          Contributions(ids, ids, gen))

\* store_ids: a node outside the group only needs to know who is in it.
store_ids(c, group) ==
  [c EXCEPT !.previous_group_key = c.group_key, !.members = group, !.own_ids = {}]

\* The ID of the source is looked up before anything else: a share of an address
\* that is not in the group the node knows of raises.  The message it should have
\* signed holds the random number of the last block and the block's number.
store_share(c, share, last_random_no) ==
  LET got   == c.shares \cup {share}
      full  == Cardinality(got) >= THRESHOLD
      valid == \A s \in got : s.key = c.group_key /\ s.random = last_random_no
  IN  CASE share.source \notin c.members -> [c EXCEPT !.raised = "unknown source"]
        [] share.source \in c.members /\ (c.verified \/ \E s \in c.shares : s.source = share.source) -> c
        [] OTHER -> [c EXCEPT !.shares = got, !.verified = full /\ valid,
                              !.random = IF full /\ valid THEN share.block_number + 1 ELSE @,
                              !.raised = IF full /\ ~valid THEN "invalid signature" ELSE @]

\* Mutant: the shares of the last round stay.
reset_bls_keep(c) == [c EXCEPT !.verified = FALSE]

reset_bls(c) == [c EXCEPT !.shares = {}, !.verified = FALSE]

\* One share for every ID whose secret key is there, also if it is the old one.
new_shares(c, last_random_no, num) ==
  {[source |-> a, key |-> c.secretKeys[a], random |-> last_random_no, block_number |-> num] :
     a \in c.own_ids \cap DOMAIN c.secretKeys}
\* They are stored one by one, until one of them raises.
create_shares(c, last_random_no, num) ==
  FoldSet(LAMBDA s, d : IF d.raised = "no" THEN store_share(d, s, last_random_no) ELSE d,
          c, new_shares(c, last_random_no, num))

-----------------------------------------------------------------------------
Running(n) == main[n].at = "loop"

\* An exception stops the process.
Stopped(m, c) == IF c.raised = "no" THEN m ELSE [m EXCEPT !.at = c.raised]

\* Contributions are of use only where there is an address of the new group: other
\* nodes throw them away or never fetch them.
\* A node that has seen one ignores it.
send_dkg(net, n, msgs) ==
  [m \in Node |-> IF m = n \/ Addrs[m] \cap New = {} THEN net[m]
                  ELSE net[m] \cup (msgs \ dkg_cache[m])]
send(net, n, msgs) == [m \in Node |-> IF m = n THEN net[m] ELSE net[m] \cup msgs]

\* Block 0 has just come: members of the old group have stored their own shares and
\* sent them.  A fresh node set its Consensus object up with the group at its start.
\* Whose the selected IP is, is all that the steps below ask of it.
Init ==
  /\ main = [n \in Node |->
       [at |-> IF n \in Fresh THEN "bootstrap" ELSE "loop", block_num |-> 0,
        last_random_no |-> 0, dkg_on |-> FALSE, exit_from_dkg |-> FALSE,
        in_dkg_group |-> Addrs[n] \cap Old # {}, create_shares |-> n \notin Fresh,
        due |-> FALSE, served |-> FALSE]]
  /\ \E ip \in IP : consensus = [n \in Node |->
       LET c == [Blank(ip) EXCEPT !.members = Old, !.own_ids = Addrs[n] \cap Old,
                                  !.secretKeys = [a \in Addrs[n] \cap Old |-> OldKey]]
       IN  IF n \in Fresh THEN c ELSE create_shares(reset_bls(c), 0, 0)]
  /\ bls_shares = [n \in Node |-> IF n \in Fresh THEN {} ELSE
       {[source |-> a, key |-> OldKey, random |-> 0, block_number |-> 0] : a \in Old \ Addrs[n]}]
  /\ dkg_cache = [n \in Node |-> {}] /\ bls_future = [n \in Node |-> {}]
  /\ generated = [a \in New |-> 0]
  /\ dkg_shares = [n \in Node |-> {}] /\ blocks = [n \in Node |-> {}]
  /\ expired = FALSE
  /\ dropped = {} /\ lost = {} /\ cut = {} /\ ahead = {} /\ restarts = 0

-----------------------------------------------------------------------------
(* The share section.  The trigger follows it in the same pass of the loop:  *)
(* a node that has its group signature from it is due and does nothing else  *)
(* before.  A node that has just been started counts as having the group     *)
(* signature, and comes to the block and the signing section first.          *)

Due(n) ==
  /\ main[n].block_num = 0 /\ ~main[n].dkg_on /\ ~main[n].exit_from_dkg
  /\ consensus[n].verified

\* The main loop after the share section left it with the Consensus object c.
AfterShares(m, c) ==
  Stopped([m EXCEPT !.due = m.block_num = 0 /\ ~m.exit_from_dkg /\ c.verified], c)

ReceiveShare(n, s) ==
  LET m == main[n]
      c == IF s.block_number = m.block_num THEN store_share(consensus[n], s, m.last_random_no)
           ELSE consensus[n]
  IN  /\ Running(n) /\ ~m.dkg_on
      /\ s \in bls_shares[n]
      /\ bls_shares' = [bls_shares EXCEPT ![n] = @ \ {s}]
      /\ consensus' = [consensus EXCEPT ![n] = c]
      /\ main' = [main EXCEPT ![n] = AfterShares(m, c)]
      /\ bls_future' = IF s.block_number > m.block_num
                       THEN [bls_future EXCEPT ![n] = @ \cup {s}] ELSE bls_future
      /\ UNCHANGED <<dkg_cache, generated, dkg_shares, blocks, expired, history>>

\* A share is fetched before dkg_on is looked at: during the DKG every pass of the
\* loop throws one away.
LoseShare(n, s) ==
  /\ Running(n) /\ main[n].dkg_on
  /\ s \in bls_shares[n]
  /\ bls_shares' = [bls_shares EXCEPT ![n] = @ \ {s}]
  /\ lost' = lost \cup {n}
  /\ UNCHANGED <<main, consensus, dkg_cache, bls_future, generated, dkg_shares, blocks,
                 expired, dropped, cut, ahead, restarts>>

TakeFutureShare(n, s) ==
  LET c == store_share(consensus[n], s, main[n].last_random_no)
  IN  /\ Running(n)
      /\ s \in bls_future[n] /\ s.block_number = main[n].block_num
      /\ bls_future' = [bls_future EXCEPT ![n] = @ \ {s}]
      /\ consensus' = [consensus EXCEPT ![n] = c]
      /\ main' = [main EXCEPT ![n] = AfterShares(@, c)]
      /\ UNCHANGED <<dkg_cache, generated, netvars, expired, history>>

-----------------------------------------------------------------------------
(* The DKG sections *)

\* Mutant: dkg_on stays.
finish_on(m, c) ==
  IF m.in_dkg_group /\ all_node_dkgs_finished(c) THEN [m EXCEPT !.exit_from_dkg = TRUE] ELSE m

\* Mutant: the end of the DKG is not noticed.
finish_never(m, c) == m

finish(m, c) ==
  IF m.in_dkg_group /\ all_node_dkgs_finished(c)
  THEN [m EXCEPT !.dkg_on = FALSE, !.exit_from_dkg = TRUE] ELSE m

\* find_me_in_dkg_group, then new_dkg or store_ids.
TriggerDkg(n) ==
  LET ids == Addrs[n] \cap New
      gen == [a \in New |-> generated[a] + (IF a \in ids THEN 1 ELSE 0)]
      c   == IF ids # {} THEN new_dkg(consensus[n], ids, gen) ELSE store_ids(consensus[n], New)
      out == Contributions(ids, New \ ids, gen)
  IN  /\ Running(n) /\ Due(n)
      /\ generated' = gen
      /\ consensus' = [consensus EXCEPT ![n] = c]
      /\ main' = [main EXCEPT ![n] =
                    finish([@ EXCEPT !.dkg_on = TRUE, !.create_shares = TRUE,
                                     !.in_dkg_group = ids # {}, !.due = FALSE], c)]
      /\ dkg_cache' = [dkg_cache EXCEPT ![n] = @ \cup out]
      /\ dkg_shares' = send_dkg(dkg_shares, n, out)
      /\ UNCHANGED <<bls_future, bls_shares, blocks, expired, history>>

\* A contribution for this node is checked and stored, one for another is passed
\* on, a known one is ignored.  Without the last one the timeout is looked at.
PopDkgShare(n, s) ==
  LET new  == s \notin dkg_cache[n]
      mine == s.to \in consensus[n].own_ids
      c    == IF new /\ mine THEN verify_dkg_contribution(consensus[n], s) ELSE consensus[n]
      rest == [dkg_shares EXCEPT ![n] = @ \ {s}]
  IN  /\ Running(n) /\ main[n].in_dkg_group /\ main[n].dkg_on
      /\ s \in dkg_shares[n]
      /\ consensus' = [consensus EXCEPT ![n] = c]
      /\ main' = [main EXCEPT ![n] =
                    IF new /\ mine /\ expired /\ ~all_node_dkgs_finished(c)
                    THEN [@ EXCEPT !.at = "timeout"] ELSE finish(@, c)]
      /\ dkg_cache' = [dkg_cache EXCEPT ![n] = @ \cup {s}]
      /\ dkg_shares' = IF new /\ ~mine THEN send_dkg(rest, n, {s}) ELSE rest
      /\ UNCHANGED <<bls_future, generated, bls_shares, blocks, expired, history>>

\* It is fetched before dkg_on is looked at: a member of the old group that has not
\* triggered yet throws a contribution away with every pass of the loop.
DropDkgShare(n, s) ==
  /\ Running(n) /\ main[n].in_dkg_group /\ ~main[n].dkg_on /\ ~Due(n)
  /\ s \in dkg_shares[n]
  /\ dkg_shares' = [dkg_shares EXCEPT ![n] = @ \ {s}]
  /\ dropped' = IF s.to \in Addrs[n] /\ s \notin dkg_cache[n] THEN dropped \cup {s} ELSE dropped
  /\ UNCHANGED <<main, consensus, dkg_cache, bls_future, generated, bls_shares, blocks,
                 expired, lost, cut, ahead, restarts>>

\* The timeouts after block 0.
Expire ==
  /\ ~expired /\ \E n \in Node : main[n].block_num = 0
  /\ expired' = TRUE
  /\ UNCHANGED <<main, consensus, dkg_cache, bls_future, generated, netvars, history>>

\* A node outside the group looks at the timeout in every pass.
OutsiderTimeout(n) ==
  /\ Running(n) /\ main[n].dkg_on /\ ~main[n].in_dkg_group /\ expired
  /\ main' = [main EXCEPT ![n].at = "timeout"]
  /\ UNCHANGED <<consensus, dkg_cache, bls_future, generated, netvars, expired, history>>

-----------------------------------------------------------------------------
(* Block 1 *)

\* What the main loop does after a correct block.
NextRound(n, m, c) ==
  LET d   == IF m.in_dkg_group /\ m.create_shares
             THEN create_shares(reset_bls(c), m.last_random_no, 1) ELSE reset_bls(c)
      out == IF m.in_dkg_group /\ m.create_shares THEN new_shares(c, m.last_random_no, 1) ELSE {}
  IN  /\ consensus' = [consensus EXCEPT ![n] = d]
      /\ main' = [main EXCEPT ![n] = Stopped([m EXCEPT !.block_num = 1], d)]
      /\ bls_shares' = send(bls_shares, n, IF d.raised = "no" THEN out ELSE {})

\* No node gets past this when nobody has signed for TIMEOUT.
BlockTimeout(n) ==
  /\ Running(n) /\ main[n].block_num = 0 /\ ~main[n].due /\ expired
  /\ main' = [main EXCEPT ![n].at = "block timeout"]
  /\ UNCHANGED <<consensus, dkg_cache, bls_future, generated, netvars, expired, history>>

\* Shares ready, or the DKG just finished, and not dkg_on.
MaySign(n) ==
  /\ Running(n) /\ main[n].block_num = 0 /\ ~main[n].due
  /\ ~main[n].dkg_on /\ (consensus[n].verified \/ main[n].exit_from_dkg)

\* After the DKG the member it has chosen signs, before it the address that the prefix
\* tree names for the selected IP.
signing_addr(n) == IF main[n].exit_from_dkg THEN Signer ELSE Holder[consensus[n].next_signer]

\* The block carries the random number of the Consensus object and its group key.
CreateBlock(n) ==
  LET m == main[n]
      c == consensus[n]
  IN  /\ MaySign(n) /\ signing_addr(n) \in Addrs[n]
      /\ blocks' = send(blocks, n, {[group_pubkey |-> c.group_key, signer |-> signing_addr(n),
                                     random |-> c.random]})
      /\ NextRound(n, [m EXCEPT !.exit_from_dkg = FALSE, !.served = TRUE,
                                !.last_random_no = c.random], c)
      /\ ahead' = IF m.exit_from_dkg THEN ahead ELSE ahead \cup {n}
      /\ UNCHANGED <<dkg_cache, bls_future, generated, dkg_shares, expired, dropped, lost, cut,
                     restarts>>

\* get_addr_from_ip raises for an IP that the prefix tree does not know.
SignUnowned(n) ==
  /\ MaySign(n) /\ signing_addr(n) = Nobody
  /\ main' = [main EXCEPT ![n].at = "unowned IP"]
  /\ UNCHANGED <<consensus, dkg_cache, bls_future, generated, netvars, expired, history>>

\* The group signature is that of the old group over block 0: it verifies with the old
\* key, unless the signer was just started and still had the signature in block 0.
sig_verifies(key, b) == key = OldKey /\ b.random = 1

expected_key(m, c) == IF m.exit_from_dkg \/ m.dkg_on THEN c.previous_group_key ELSE c.group_key

\* Mutant: the key in the block is not compared with the node's own.
key_matches_any(c, b) == TRUE

key_matches(c, b) == b.group_pubkey = c.group_key

\* The signer must own the first IP of the chosen member, or the selected IP.
signer_correct(m, c, b) ==
  b.signer = IF m.exit_from_dkg \/ m.dkg_on THEN Signer ELSE Owner[c.next_signer]

\* A node with dkg_on takes the key of the block.
block_key(m, c, b) == IF m.dkg_on THEN [c EXCEPT !.group_key = b.group_pubkey] ELSE c

\* The P2P process hands over one block 1.  A node with dkg_on takes its key and ends
\* the DKG before it knows whether the signer is right.
ReceiveBlock(n, b) ==
  LET m    == [main[n] EXCEPT !.served = TRUE]
      c    == consensus[n]
      over == [m EXCEPT !.dkg_on = FALSE, !.exit_from_dkg = FALSE]
      d    == block_key(m, c, b)
  IN  /\ Running(n) /\ ~m.due /\ ~main[n].served
      /\ b \in blocks[n]
      /\ \/ /\ ~sig_verifies(expected_key(m, c), b)
            /\ main' = [main EXCEPT ![n] = m]
            /\ UNCHANGED <<consensus, bls_shares, cut, ahead>>
         \/ /\ sig_verifies(expected_key(m, c), b) /\ m.exit_from_dkg /\ ~key_matches(c, b)
            /\ main' = [main EXCEPT ![n] = [over EXCEPT !.at = "group key"]]
            /\ UNCHANGED <<consensus, bls_shares, cut, ahead>>
         \/ /\ sig_verifies(expected_key(m, c), b) /\ ~m.exit_from_dkg /\ ~m.dkg_on
            /\ Holder[c.next_signer] = Nobody
            /\ main' = [main EXCEPT ![n] = [m EXCEPT !.at = "unowned IP"]]
            /\ UNCHANGED <<consensus, bls_shares, cut, ahead>>
         \/ /\ sig_verifies(expected_key(m, c), b)
            /\ m.exit_from_dkg => key_matches(c, b)
            /\ m.exit_from_dkg \/ m.dkg_on \/ Holder[c.next_signer] # Nobody
            /\ cut' = IF m.dkg_on /\ m.in_dkg_group THEN cut \cup {n} ELSE cut
            /\ \/ /\ signer_correct(m, c, b)
                  /\ NextRound(n, [over EXCEPT !.last_random_no = b.random], d)
                  /\ ahead' = IF (m.exit_from_dkg \/ m.dkg_on) /\ b.group_pubkey # OldKey
                              THEN ahead ELSE ahead \cup {n}
               \/ /\ ~signer_correct(m, c, b)
                  /\ main' = [main EXCEPT ![n] = over]
                  /\ consensus' = [consensus EXCEPT ![n] = d]
                  /\ UNCHANGED <<bls_shares, ahead>>
      /\ UNCHANGED <<dkg_cache, bls_future, generated, dkg_shares, blocks, expired, dropped, lost,
                     restarts>>

-----------------------------------------------------------------------------
(* Start *)

\* perform_bootstrap: the renewal block gives the key and nothing else; the table of
\* members stays the one of the start, and the round is not reset.  The key is set
\* before the group signature, of which a bad one ends the process, and the signer are
\* looked at.
BootstrapBlock(n, b) ==
  LET m == [main[n] EXCEPT !.served = TRUE]
      c == [consensus[n] EXCEPT !.group_key = b.group_pubkey]
      valid == sig_verifies(c.previous_group_key, b)
  IN  /\ main[n].at = "bootstrap" /\ ~main[n].served
      /\ b \in blocks[n]
      /\ \/ /\ ~valid
            /\ main' = [main EXCEPT ![n] = [m EXCEPT !.at = "bootstrap signature"]]
            /\ consensus' = [consensus EXCEPT ![n] = c]
            /\ UNCHANGED ahead
         \/ /\ valid /\ b.signer = Signer
            /\ main' = [main EXCEPT ![n] = [m EXCEPT !.block_num = 1, !.last_random_no = b.random]]
            /\ consensus' = [consensus EXCEPT ![n] = [c EXCEPT !.random = b.random]]
            /\ ahead' = IF b.group_pubkey = OldKey THEN ahead \cup {n} ELSE ahead
         \/ /\ valid /\ b.signer # Signer
            /\ main' = [main EXCEPT ![n] = m]
            /\ consensus' = [consensus EXCEPT ![n] = c]
            /\ UNCHANGED ahead
      /\ UNCHANGED <<dkg_cache, bls_future, generated, netvars, expired, dropped, lost, cut,
                     restarts>>

\* No more blocks: the main loop begins.
BootstrapEnds(n) ==
  /\ main[n].at = "bootstrap"
  /\ main' = [main EXCEPT ![n].at = "loop"]
  /\ UNCHANGED <<consensus, dkg_cache, bls_future, generated, netvars, expired, history>>

\* A node is stopped and started again before it has block 1.  Secret keys and queues
\* are gone.  A node in the new group has no table of members until it triggers.
Restart(n) ==
  LET ids == Addrs[n] \cap New
      c   == Blank(consensus[n].next_signer)
  IN  /\ restarts < MaxRestart /\ main[n].block_num = 0 /\ n \notin Fresh
      /\ restarts' = restarts + 1
      /\ main' = [main EXCEPT ![n] =
                    [at |-> "bootstrap", block_num |-> 0, last_random_no |-> 0, dkg_on |-> FALSE,
                     exit_from_dkg |-> FALSE, in_dkg_group |-> ids # {}, create_shares |-> FALSE,
                     due |-> FALSE, served |-> FALSE]]
      /\ consensus' = [consensus EXCEPT ![n] = IF ids = {} THEN store_ids(c, New)
                                                 ELSE [c EXCEPT !.own_ids = ids]]
      /\ dkg_cache' = [dkg_cache EXCEPT ![n] = {}]
      /\ bls_future' = [bls_future EXCEPT ![n] = {}]
      /\ dkg_shares' = [dkg_shares EXCEPT ![n] = {}]
      /\ bls_shares' = [bls_shares EXCEPT ![n] = {}]
      /\ UNCHANGED <<generated, blocks, expired, dropped, lost, cut, ahead>>

-----------------------------------------------------------------------------
Next ==
  \/ Expire
  \/ \E n \in Node :
       \/ \E s \in bls_shares[n] : ReceiveShare(n, s) \/ LoseShare(n, s)
       \/ \E s \in bls_future[n] : TakeFutureShare(n, s)
       \/ TriggerDkg(n)
       \/ \E s \in dkg_shares[n] : PopDkgShare(n, s) \/ DropDkgShare(n, s)
       \/ OutsiderTimeout(n)
       \/ BlockTimeout(n)
       \/ CreateBlock(n)
       \/ SignUnowned(n)
       \/ \E b \in blocks[n] : ReceiveBlock(n, b) \/ BootstrapBlock(n, b)
       \/ BootstrapEnds(n)
       \/ Restart(n)

\* The main loop of a node comes back to each of its sections.  Every step uses
\* something up, so less is enough: while a section of some node has something to do,
\* one is done.
Fairness ==
  WF_vars(\E n \in Node :
    \/ \E s \in bls_shares[n] : ReceiveShare(n, s) \/ LoseShare(n, s)
    \/ \E s \in bls_future[n] : TakeFutureShare(n, s)
    \/ TriggerDkg(n)
    \/ \E s \in dkg_shares[n] : PopDkgShare(n, s)
    \/ CreateBlock(n)
    \/ \E b \in blocks[n] : ReceiveBlock(n, b)
    \/ BootstrapEnds(n))

Spec == Init /\ [][Next]_vars /\ Fairness
-----------------------------------------------------------------------------
(* Properties *)

Reasons == {"group key", "invalid signature", "unknown source", "timeout", "block timeout",
            "unowned IP", "bootstrap signature"}

\* A key is the sum of contributions that were generated.
IsKey(k) == k \in [New -> Nat] /\ \A a \in New : k[a] \in 1..generated[a]

\* The variables have their types; a DKG is on or over, never both, and a node in the
\* group has a table with a line for each of its IDs while it is on.
TypeOK ==
  /\ \A n \in Node :
       LET m == main[n]
           c == consensus[n]
       IN  /\ m.at \in {"bootstrap", "loop"} \cup Reasons /\ m.block_num \in {0, 1}
           /\ m.block_num = 1 => m.served
           /\ ~(m.dkg_on /\ m.exit_from_dkg)
           /\ m.dkg_on /\ m.in_dkg_group => DOMAIN c.received = Addrs[n] \cap New
           /\ c.own_ids \subseteq Addrs[n] /\ c.members \subseteq Old \cup New
           /\ c.group_key = OldKey \/ IsKey(c.group_key)
           /\ c.previous_group_key = OldKey
           /\ Cardinality(c.shares) <= THRESHOLD
  /\ expired \in BOOLEAN /\ lost \cup cut \cup ahead \subseteq Node

\* All nodes that have the renewal block have the same group key, although some
\* computed it, in different orders of contributions and perhaps of two different
\* generations of them, and some read it in the block.  Only a node that is ahead,
\* because it went past block 1 before its trigger, or took a block made by such a
\* node, has a different one, that of the old group.
OneGroupKey ==
  \A m, n \in Node : main[m].block_num = 1 /\ main[n].block_num = 1 =>
    IF m \in ahead THEN consensus[m].group_key = OldKey
    ELSE n \notin ahead => consensus[m].group_key = consensus[n].group_key

\* A node with several members of the group computes a key for each of them.  They
\* are the same (consensus.py:247) unless another member generated contributions
\* twice, and its first ones reached one of them and the second the other.
Regenerated == \E a \in New : generated[a] > 1
Mixed(n) == Regenerated /\ Cardinality(Addrs[n] \cap New) > 1

\* Past the renewal block a node signs with secret keys that belong to the group key,
\* unless the block overtook its DKG (blockchaincba.py:237), when it still has the
\* key of the old group or none, or its members computed different keys.
SecretsFitKey ==
  \A n \in Node : main[n].block_num = 1 =>
    \/ n \in cut
    \/ Mixed(n)
    \/ \A a \in consensus[n].own_ids \cap DOMAIN consensus[n].secretKeys :
         consensus[n].secretKeys[a] = consensus[n].group_key

\* A node alone on a block of its own: just started, it signed with the old random number.
Alone(n) == main[n].block_num = 1 /\ main[n].last_random_no = 0

\* What can end a process in a renewal.  The fatal key mismatch needs a member that
\* generated contributions twice, or a block signed before the trigger.  An invalid
\* group signature needs a member that was cut off and signs with its old key, one
\* with another key than the group's, a node ahead or a node alone.  A share whose
\* source is not in the table is a late one of the old group while the node waits for
\* the block, or the node took the block in perform_bootstrap, or was restarted, or
\* some node is ahead.  An IP without owner stops who looks it up.
StopsExplained ==
  \A n \in Node :
    /\ main[n].at = "group key" => Regenerated \/ ahead # {}
    /\ main[n].at = "invalid signature" =>
         cut # {} \/ ahead # {} \/ \E m \in Node : Mixed(m) \/ Alone(m)
    /\ main[n].at = "unknown source" =>
         \/ main[n].exit_from_dkg /\ main[n].block_num = 0
         \/ n \in Fresh /\ main[n].block_num = 1
         \/ restarts > 0 \/ ahead # {}
    /\ main[n].at \in {"timeout", "block timeout"} => expired
    /\ main[n].at = "unowned IP" => Holder[consensus[n].next_signer] = Nobody
    /\ main[n].at = "bootstrap signature" => \E m \in Node : Alone(m)

\* A renewal ends: unless a contribution is thrown away, the block overtakes a member,
\* a node refuses it or is ahead of it, a node stops or is restarted, or a timeout
\* expires, every node gets the block with the new key, and every member that has
\* thrown no share away gets the first group signature of the new group.
Fault ==
  \/ dropped # {} \/ cut # {} \/ ahead # {} \/ restarts > 0 \/ expired
  \/ \E n \in Node : main[n].at \in Reasons \/ (main[n].served /\ main[n].block_num = 0)
Renewed ==
  <>(\/ Fault
     \/ \A n \in Node :
          /\ main[n].block_num = 1
          /\ Addrs[n] \cap New # {} /\ n \notin lost => consensus[n].verified)

\* perform_bootstrap treats the renewal block as a node outside the group does when it
\* triggers: it can process the shares of the new group afterwards.
JoinerKnowsGroup == \A n \in Fresh : main[n].at # "unknown source"
=============================================================================
