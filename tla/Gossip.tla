------------------------------- MODULE Gossip -------------------------------
(***************************************************************************)
(* Engine with the transactions: mempools, the transfer of headers before  *)
(* bodies (src/src/consensus/engine.py, on_proposal, on_body_request and   *)
(* on_body_response), and the state each node executes its blocks on.      *)
(*                                                                         *)
(* A proposal is delivered as its header with the hashes of its            *)
(* transactions.  The receiver puts the block together from the copies in  *)
(* its own mempool, and asks the proposer for the ones it lacks.  Every    *)
(* event that Engine has is here the same event of node, with what it does *)
(* to the mempool and the state of the node.                               *)
(***************************************************************************)
EXTENDS Engine, Execution

CONSTANTS
    Offered,   \* Offered[m]: the lists of transactions that clients hand to m
    MaxPool    \* bound: none are handed to a mempool of this length

ASSUME OfferedAssumption ==
    \A m \in Honest : Offered[m] \subseteq Seq(Transaction)

ASSUME DataAssumption ==
    \A d \in Data :
        /\ d.transactions \in Seq(Transaction)
        /\ d.hashed.tx_root \in Seq({tx_hash(t) : t \in Transaction})

VARIABLES
    mempool,           \* mempool[m]: a list of transactions
    state,             \* state[m]: the execution state
    pending_headers,   \* pending_headers[m]: the proposals parked, by round
    requests,          \* every BODY_REQUEST sent
    responses          \* every BODY_RESPONSE sent

vars == <<node, mempool, state, pending_headers, requests, responses>>

-----------------------------------------------------------------------------
(* Transactions and blocks.                                                *)

\* The entries of a list that are in S, in order.
those(list, S) ==
    FoldLeft(LAMBDA have, x : IF x \in S THEN Append(have, x) ELSE have,
             <<>>, list)

hashes(pool) == {tx_hash(t) : t \in Range(pool)}

\* tx_by_hash: the last of several copies.
tx_by_hash(pool, h) ==
    pool[CHOOSE i \in DOMAIN pool :
            /\ tx_hash(pool[i]) = h
            /\ \A j \in DOMAIN pool : tx_hash(pool[j]) = h => j <= i]

\* The copies a node has of the transactions with these hashes, in order.
bodies(pool, wanted) ==
    LET here == those(wanted, hashes(pool))
    IN  [i \in DOMAIN here |-> tx_by_hash(pool, here[i])]

missing(pool, wanted) == those(wanted, Range(wanted) \ hashes(pool))

\* The contents of a block (see Engine): the node's copies of the transactions,
\* the roots in the header, and whether it finds these and the signatures in
\* order.  The block a proposer builds packs its whole mempool.
packed(pool, st) ==
    [transactions |-> pool,
     hashed |-> [tx_root |-> tx_root(pool),
                 state_root |-> state_root(apply_all(st, pool))],
     valid |-> \A t \in Range(pool) : t.verifies]

tx_hashes(p) == p.block.data.hashed.tx_root

\* The proposal p with the copies of the mempool, and whether validate_block
\* finds the roots and signatures in order.
assembled(p, pool, st) ==
    LET txs == bodies(pool, tx_hashes(p))
        hashed == p.block.data.hashed
    IN  [p EXCEPT !.block.data =
            [transactions |-> txs, hashed |-> hashed,
             valid |-> /\ state_root(apply_all(st, txs)) = hashed.state_root
                       /\ tx_root(txs) = hashed.tx_root
                       /\ \A t \in Range(txs) : t.verifies]]

\* Mutant: bodies are taken without their signatures being checked.
absorb_anything(pool, received) ==
    FoldLeft(LAMBDA have, t : IF tx_hash(t) \in hashes(have) THEN have
                              ELSE Append(have, t), pool, received)

absorb(pool, received) ==
    FoldLeft(LAMBDA have, t : IF ~t.verifies \/ tx_hash(t) \in hashes(have)
                              THEN have ELSE Append(have, t), pool, received)

-----------------------------------------------------------------------------
(* The events.                                                             *)

GossipInit ==
    /\ Init
    /\ mempool = [m \in Honest |-> <<>>]
    /\ state = [m \in Honest |-> NewState]
    /\ pending_headers = [m \in Honest |-> {}]
    /\ requests = {} /\ responses = {}

\* Mutant: the headers parked at the old height stay.
parked_after_keeping(parked, txs) == parked

\* A commit replaces the ConsensusState, and the parked headers with it.
parked_after(parked, done) == IF done = <<>> THEN parked ELSE {}

\* What is left after a commit: t not in block.transactions compares the
\* signatures as well.
pruned(pool, txs) == those(pool, Range(pool) \ Range(txs))

\* What an event does that leaves m with this ledger: if it commits, the block's
\* transactions are applied and leave the mempool.
Settle(m, ledger, pool, parked) ==
    LET done == SubSeq(ledger, Len(node[m].ledger) + 1, Len(ledger))
        txs  == IF done = <<>> THEN <<>> ELSE Last(done).data.transactions
    IN  /\ mempool' = [mempool EXCEPT ![m] = pruned(pool, txs)]
        /\ state' = [state EXCEPT ![m] = apply_all(@, txs)]
        /\ pending_headers' = [pending_headers EXCEPT ![m] = parked_after(parked, done)]

\* Node m, with this mempool and these headers parked, handles an event.
\* event(d) is what the event makes of its engine if d are the contents of a
\* block it builds.  It builds one after it has settled what it commits.
Handle(m, pool, parked, event(_)) ==
    /\ Settle(m, event(packed(pool, state[m])).ledger, pool, parked)
    /\ \E data \in {packed(mempool'[m], state'[m])} :
          data \in Data /\ Become(m, event(data))

GossipStart ==
    /\ ~Started
    /\ \E m \in Honest : ~node[m].crashed
    /\ \A m \in Honest : packed(mempool[m], state[m]) \in Data
    /\ node' = [m \in Honest |->
                  IF node[m].crashed THEN node[m]
                  ELSE enter_round(node[m], 0, packed(mempool[m], state[m]))]
    /\ UNCHANGED <<mempool, state, pending_headers, requests, responses>>

Up(m) == Running(m) /\ ~node[m].crashed

\* In the next actions s is node[m], to which votes may have been delivered
\* just before (see MCGossip).

\* The header is accepted and all bodies are here.
DeliverHeader(m, s) ==
    /\ Up(m)
    /\ \E p \in Proposals :
          LET q == assembled(p, mempool[m], state[m])
          IN  /\ p.block.proposer # m
              /\ accept_header(node[m], p.block, p.round)
              /\ missing(mempool[m], tx_hashes(p)) = <<>>
              /\ q.block.data \in Data
              /\ Handle(m, mempool[m], pending_headers[m],
                        LAMBDA d : on_proposal(s, q, d))
    /\ UNCHANGED <<requests, responses>>

\* The header is accepted, parked, and the missing bodies are asked for.
ParkHeader(m) ==
    /\ Up(m)
    /\ \E p \in Proposals :
          LET wanted == missing(mempool[m], tx_hashes(p))
          IN  /\ p.block.proposer # m
              /\ accept_header(node[m], p.block, p.round)
              /\ wanted # <<>>
              /\ pending_headers' = [pending_headers EXCEPT
                    ![m] = {q \in @ : q.round # p.round} \cup {p}]
              /\ requests' = requests \cup
                    {[to |-> p.block.proposer, from |-> m, round |-> p.round,
                      tx_hashes |-> wanted]}
    /\ UNCHANGED <<node, mempool, state, responses>>

\* on_body_request: what is asked for and held is sent.
ServeBodies(m) ==
    /\ Up(m)
    /\ \E q \in requests :
          /\ q.to = m
          /\ responses' = responses \cup
                {[to |-> q.from, round |-> q.round,
                  bodies |-> bodies(mempool[m], q.tx_hashes)]}
    /\ UNCHANGED <<node, mempool, state, pending_headers, requests>>

\* on_body_response: the bodies enter the mempool, and the header parked for
\* the round leaves its place.  It is handled if all its bodies are here.
AbsorbBodies(m, s) ==
    /\ Up(m)
    /\ \E x \in responses :
          /\ x.to = m
          /\ \E pool \in {absorb(mempool[m], x.bodies)} :
             LET here == {p \in pending_headers[m] : p.round = x.round}
                 rest == pending_headers[m] \ here
                 ready == {p \in here : missing(pool, tx_hashes(p)) = <<>>}
             IN  \/ /\ ready = {}
                    /\ mempool' = [mempool EXCEPT ![m] = pool]
                    /\ pending_headers' = [pending_headers EXCEPT ![m] = rest]
                    /\ UNCHANGED <<node, state>>
                 \/ \E p \in ready :
                       LET q == assembled(p, pool, state[m])
                       IN  /\ q.block.data \in Data
                           /\ Handle(m, pool, rest,
                                LAMBDA d : handle_proposal_local(
                                             s, q.block, q.round, d))
    /\ UNCHANGED <<requests, responses>>

GossipVote(m, s) ==
    /\ Up(m)
    /\ \E v \in Votes :
          Handle(m, mempool[m], pending_headers[m], LAMBDA d : on_vote(s, v, d))
    /\ UNCHANGED <<requests, responses>>

GossipTimeout(m) ==
    /\ Running(m)
    /\ \E t \in node[m].timers :
          LET s == [node[m] EXCEPT !.timers = @ \ {t}]
          IN  Handle(m, mempool[m], pending_headers[m],
                     LAMBDA d : enter_round(s, s.round + 1, d))
    /\ UNCHANGED <<requests, responses>>

GossipCrash(m) ==
    /\ Crash(m)
    /\ UNCHANGED <<mempool, state, pending_headers, requests, responses>>

\* Clients hand over transactions, perhaps not for the first time.
submit_tx(m) ==
    /\ node[m].height < MaxHeight /\ Len(mempool[m]) < MaxPool
    /\ \E txs \in Offered[m] : mempool' = [mempool EXCEPT ![m] = @ \o txs]
    /\ UNCHANGED <<node, state, pending_headers, requests, responses>>

\* The harness empties all mempools, to drop a tampered transaction (scenario T3).
reset_mempool ==
    /\ \E m \in Honest : /\ node[m].height < MaxHeight
                         /\ \E t \in Range(mempool[m]) : ~t.verifies
    /\ mempool' = [m \in Honest |-> <<>>]
    /\ UNCHANGED <<node, state, pending_headers, requests, responses>>

GossipNext ==
    \/ GossipStart
    \/ reset_mempool
    \/ \E m \in Honest :
          \/ DeliverHeader(m, node[m]) \/ ParkHeader(m)
          \/ ServeBodies(m) \/ AbsorbBodies(m, node[m])
          \/ GossipVote(m, node[m]) \/ GossipTimeout(m) \/ GossipCrash(m)
          \/ submit_tx(m)

GossipSpec == GossipInit /\ [][GossipNext]_vars

-----------------------------------------------------------------------------
(* Properties.                                                             *)

GossipTypeOK ==
    /\ mempool \in [Honest -> Seq(Transaction)]
    /\ state \in [Honest -> State]
    /\ pending_headers \in [Honest -> SUBSET Proposal]
    /\ \A m \in Honest : \A p, q \in pending_headers[m] :
          p.round = q.round => p = q
    /\ \A q \in requests :
          /\ q.to \in Validator /\ q.from \in Honest /\ q.round \in Rounds
          /\ q.tx_hashes \in Seq({tx_hash(t) : t \in Transaction})
    /\ \A x \in responses :
          x.to \in Honest /\ x.round \in Rounds /\ x.bodies \in Seq(Transaction)

\* All transactions in the ledger of m, in order.
History(m) ==
    FlattenSeq([i \in DOMAIN node[m].ledger |->
                  node[m].ledger[i].data.transactions])

\* The state of a node is what its ledger means: each transaction counts
\* once, for its owner, however often it was submitted, fetched again after
\* its block was committed, and packed into later blocks (scenario T4).
StateIsLedger == \A m \in Honest : state[m] = Meaning(History(m))

\* Transactions with these payloads, and good signatures.
Signed(payloads) ==
    [i \in DOMAIN payloads |->
       [sender |-> payloads[i].sender, key |-> payloads[i].key,
        value |-> payloads[i].value, nonce |-> payloads[i].nonce,
        verifies |-> TRUE]]

\* What the headers of the first i blocks of m commit to.
Promised(m, i) ==
    FlattenSeq([j \in 1 .. i |-> Signed(node[m].ledger[j].data.hashed.tx_root)])

\* Rule 3: whatever a node finalizes, although the commit does not validate it,
\* extends its chain, was built by a proposer of that height and contains only
\* transactions that their senders signed.
FinalizedBlocksAreValid ==
    \A m \in Honest : \A i \in 1 .. Len(node[m].ledger) :
        LET b == node[m].ledger[i]
        IN  /\ b.height = i - 1
            /\ b.parent = (IF i = 1 THEN <<>>
                           ELSE block_hash(node[m].ledger[i - 1]))
            /\ \E r \in Rounds : b.proposer = proposer_for(b.height, r)
            /\ \A h \in Range(b.data.hashed.tx_root) :
                  \E k \in Honest : \E txs \in Offered[k] : \E t \in Range(txs) :
                     t.verifies /\ tx_hash(t) = h

\* The nodes that have executed one of the first i blocks on a copy that is
\* badly signed, and so skipped a transaction of it.
Strayed(i) ==
    {k \in Honest : \E j \in 1 .. i :
        /\ j <= Len(node[k].ledger)
        /\ \E t \in Range(node[k].ledger[j].data.transactions) : ~t.verifies}

\* Rule 3 for the state root: unless so many nodes have strayed that they make a
\* quorum with the Byzantine ones, the header of a finalized block has the root
\* of the state that all transactions up to it amount to.
StateRootsAreRight ==
    \A m \in Honest : \A i \in 1 .. Len(node[m].ledger) :
        Cardinality(Byzantine \cup Strayed(i - 1)) < quorum =>
            node[m].ledger[i].data.hashed.state_root
                = state_root(Meaning(Promised(m, i)))

\* The bodies of a parked header may arrive late, and on_body_response does
\* not look at the header again: what it parks is a header of the height and
\* chain the node is at now.
ParkedIsAcceptable ==
    \A m \in Honest : \A p \in pending_headers[m] :
        accept_header(node[m], p.block, p.round)

\* Nobody's mempool gets a badly signed transaction from another node.
NothingSmuggled ==
    \A m \in Honest : \A t \in Range(mempool[m]) :
        t.verifies \/ \E txs \in Offered[m] : t \in Range(txs)

-----------------------------------------------------------------------------
(* What the repository says and the code does not do.                      *)

\* Nodes with the same ledger have the same state ("state roots diverged
\* after body fetch", tests/test_gossip.py).
SameLedgerSameState ==
    \A m, k \in Honest :
        parent_hash(node[m]) = parent_hash(node[k]) =>
            state_root(state[m]) = state_root(state[k])
=============================================================================
