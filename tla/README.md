# A verification of the blockchain application

The repository is a small blockchain in Python: a Tendermint-style consensus
engine, a key-value execution layer, and a simulated network driven by a
virtual clock, with eight scenarios (T1 to T8) that exercise it. This directory
holds TLA+ models of it, the TLC runs that check them and the TLAPS proofs about
them. Paths below are from the repository's root.

## The system

| Component | Source | State it keeps | Operations |
|---|---|---|---|
| Consensus engine | `src/consensus/engine.py` | height, round, step, lock, valid block, proposals and votes by round, its timer, ledger | enter a round, propose, handle a proposal, vote, tally, lock, commit, time out |
| Validator node | `src/node.py` | mempool, state, ledger, `crashed` | dispatch a message, start, crash |
| Byzantine validator | `src/byzantine.py` | as a node | two conflicting votes or proposals, one for each half of its peers |
| Virtual clock | `src/network/simulator.py:22-87` | time, heap of events, next id, cancelled ids | `schedule`, `cancel`, `reset`, `run` |
| Rate limiter | `src/network/simulator.py:180-219` | send times by sender, blocks by receiver and sender | pass, suppress, block, unblock |
| Simulated network | `src/network/simulator.py:221-296` | registered nodes, reorder list, random numbers | send (drop, delay, duplicate), deliver, broadcast |
| Transaction gossip | `engine.py:278-366` | mempool, parked headers | header before body: request, serve and absorb bodies |
| Execution layer | `src/execution/state.py` | key-value map, nonces seen | `can_apply`, `apply`, `apply_all`, roots |
| Message types, signatures, encoding | `src/types`, `src/crypto` | none | build, sign, verify, hash |
| Scenario harness | `main.py` | none of its own | start the nodes, run the clock, crash, stabilise, assert |

How they interact. The harness starts every node and calls `run()` of the
clock. An event of the clock is a delivery or a round timeout; its callback runs
to its end before the next event, although it is written with `async`: nothing
it awaits ever suspends. A handler of the engine broadcasts votes and proposals
through the network, which schedules one delivery per receiver and copy (or
none), cancels and schedules the node's timer, and at a commit appends to the
ledger, applies the transactions and prunes the mempool. Engine, node and
execution state share the same ledger, mempool and state objects.

What is hard. There is no data race, but everything else a distributed protocol
meets: any order of deliveries across rounds and heights, duplicates, losses,
validators that sign contradictory statements, crashes with a timer pending,
timers of rounds already left, quorums completed late, by a node's own vote, or
before the messages that explain them. A unit test fixes one order; the
scenarios fix one seed.

What makes each component correct:

- engine: honest validators never finalize different blocks at one height; each
  signs once for a height, round and phase; a lock has a prevote quorum and is
  left only for a later one; what is decided was decided by a quorum of one
  round, is valid and extends the chain; no node goes back; a node always has
  the one timer of its round;
- clock: events in the order of (time, id), across cancellations, callbacks and
  several calls of `run()`; none lost, none executed twice or after it was
  cancelled; time never goes back; due events are executed;
- rate limiter: the limit holds in every window; nothing is suppressed without
  an excess;
- gossip: no body before an accepted header; a header whose bodies arrive is
  acted on; finalized transactions do not come back;
- execution: a transaction is applied once, by its owner, and the same list of
  transactions gives every node the same root.

## The modules

| Module | Models | |
|---|---|---|
| `Chain` | what consensus promises: one chain | abstract specification |
| `Engine` | engine, nodes, faults and the network around them | |
| `Execution` | transactions, state, roots, and what a list of transactions means | |
| `Gossip` | `Engine` with mempools, bodies and the state each node executes on | extends `Engine`, `Execution` |
| `Simulator` | `Engine` on the event queue of the clock, with the delays and faults of the network and `ByzantineEngine` as written | extends `Engine` |
| `MCEngine`, `MCGossip`, `MCSimulator` | their instances, two of them with a reduction | for TLC |
| `VirtualClock` | the scheduler | |
| `RateLimiter` | the outbound rate limit | |
| `ChainProofs`, `VirtualClockProofs`, `RateLimiterProofs` | theorems about them | for TLAPS |
| `EngineProofs` | theorems about each node of `Engine` by itself | for TLAPS |
| `EngineSafetyProofs` | agreement, and what it rests on, of all nodes together; no prevote quorum is left unused | extends `EngineProofs` |
| `ExecutionProofs` | executing a list leaves what the list means; induction and folds | extends `Execution` |
| `GossipProofs` | `Gossip` implements `Engine`; parked headers, mempools and states | extends `Gossip`, `EngineSafetyProofs` and `ExecutionProofs` |
| `SimulatorProofs` | `Simulator` implements `Engine`; the event queue | extends `Simulator` and `EngineSafetyProofs` |

### Engine

`node[m]` is the state of the honest validator `m`: the fields of
`ConsensusEngine`, `Node` and `ConsensusState` under their Python names, plus
what it has broadcast (`sent_votes`, `sent_proposals`) and its pending timers.
A method of the engine is an operator of the same name from a node's state to
its state afterwards, with the nested calls in the order of the code; an action
is one event of the clock: `DeliverProposal`, `DeliverVote`, `RoundTimeout`, and
`Start` and `Crash` by the harness.

- `proposals` and `votes` are sets with the round (and phase) inside; an entry
  is written where the code writes the dictionary. `setdefault` keeps the first
  proposal of a round, `_propose` overwrites.
- `decided` and the step COMMIT exist only inside `_on_precommit_quorum`, which
  replaces the `ConsensusState` before it returns, so they are not state.
- A block hash is what it commits to: the header fields and, through the parent
  hash, those of every ancestor. The timestamp is the round (a height adds a
  constant the header has already).
- What a node has of the transactions and roots of a block is one value of
  `Data`: `hashed` is what the block hash covers, `valid` whether signatures and
  roots are in order. Each node puts its own copies of the transactions into a
  block, and the hash covers no signature, so two nodes may hold one block with
  different `Data` (`AsHeld`) and judge it differently.
- A proposal is delivered when its header is accepted and its bodies are there
  (`on_proposal` up to `_handle_proposal_local`, through `on_body_response` if
  bodies were missing). The header check cannot change its result while the
  header is parked, since a commit drops the parked headers (`ParkedIsAcceptable`
  in `Gossip`); a header that never gets its bodies is a proposal that was lost.
- The network is what was sent: any message may arrive at any time, again, or
  never. This covers drop, delay, duplication, the reorder list, the rate limit
  and the instability before stabilisation.
- A Byzantine validator signs any vote on anything proposed, or NIL, and in the
  rounds it leads proposes two timestamps and any contents on every chain an
  honest node has. This includes what `ByzantineEngine` does; the fabricated
  hash it votes for can never win a bucket, as no honest validator votes for it.
  Vote messages carry the phase that was signed, as all senders here do.
  It does not send a proposal of another validator, or of an earlier round, as
  one of a later round: the signature covers no round, but `ByzantineEngine` does
  not do so, and the header check refuses such a proposal unless its proposer
  leads the later round too.
- A `Silent` validator never sends anything, like the crashed one of T6.
- `propose` leaves out the tally of the proposer's own prevote, which the code does
  inside the call that enters the round (`engine.py:212`, 390, 421). It finds no
  quorum: only the proposer's own vote and Byzantine ones can be in the bucket, and
  `LeaderAssumption` says that these are fewer than `quorum` (with n = 3f + 1 and f
  of them Byzantine, f + 1 < 2f + 1). `ProposerFindsNoQuorum` checks it, and
  `EngineProposerFindsNoQuorum` proves it. Every theorem about `Engine`, `Gossip`
  and `Simulator` has this assumption.

### Execution and Gossip

`Execution` has the methods of `State` under their names. A transaction is a
record of sender, key, value, nonce, and whether this copy of its signature
verifies (`verifies`), which `tx_hash` does not cover. `apply_all` is the fold
of `apply`; `Meaning` says without executing what a list of transactions amounts
to, and is what the state is compared with.

`Gossip` adds to `node` the `mempool`, the execution `state` and the
`pending_headers` of each validator, and the body requests and responses that
were sent. Each of its actions is an event of the clock: a proposal arrives and
its bodies are here (`DeliverHeader`) or not (`ParkHeader`), `ServeBodies`,
`AbsorbBodies`, and the votes, timeouts, starts and crashes of `Engine`.
Clients submit, and the harness empties the mempools (T3). `Handle` makes an
event of the engine an event of the node: the operators of `Engine` decide what
happens to `node`, and what they commit is applied to the state and pruned from
the mempool before a block for the next height is packed, as in
`_on_precommit_quorum`. `Data` is here what `packed` and `assembled` make of
mempools and states. The honest validators' proposals carry the header and the
hashes; the instances of this module have no Byzantine validator.

### Simulator

Where the network of `Engine` delivers anything at any time, here a `queue` of
events decides: timers, and one event for each receiver and copy of a message,
in the order of time and of scheduling. `Turn` is one turn of
`VirtualClock.run`. `Emitted` reads off two states of an engine what it
scheduled and sent in between, in the order of the code; `addressed` is the
broadcast in the order of registration, or the two halves of `ByzantineEngine`;
`Send` is `Network.send` for all of it: dropped, slow (`max_delay` instead of
`min_delay`), copied, taken from the reorder list, or `bounded_delay` once
stable; `in_order` puts what is added in its place. A cancelled timer leaves the
queue at once (`kept`), which `VirtualClock` shows to be what `run()` makes of
cancellations. `Stabilize` and
`Finish` are the steps of a timeline. The rate limit is off, as in the
scenarios. Times are in hundredths of a virtual second.

The Byzantine validator runs an engine (`byz`), votes for what that engine says
to the first half of its peers and for no block to the others, and proposes two
blocks with different timestamps. Or it is down from the start, as in T6, and so
are the `Silent` ones.

### VirtualClock

The heap is a set; `First` is its least element in the order of the tuple
`(when, event_id)`. `Skip`, `Pause` and `Fire` are the three outcomes of one
turn of the loop of `run()`, `Return` its end. `Schedule` and `Cancel` may
happen between two turns, as a callback's or the harness's doing. `Cancel` takes
any id, also one not handed out yet, as an id kept over a `reset()` would be
(nothing in the repository calls `reset()`). `Run` has a deadline, as in the
harness, or `None`, as in most tests; a deadline before `now` is left out, which
no caller gives and which would set the time back. Time is a natural number, so
the rounding to nine digits is exact. `fired` and `revoked` are history.

### RateLimiter

`send_times` holds the times of a sender with a number each, as the Python list
may repeat a time; `blocked_until` is 0 where the dictionary has no entry, and an
expired entry, which the code deletes on the next message, is overwritten by
that message. `attempts` is history. The code's time is a float, the model's a
natural number: only differences and comparisons with the two durations matter.

## What is checked

Passing runs:

| Run | Instance | Properties |
|---|---|---|
| `engine_events` | 4 validators, one silent, one perhaps crashed; 1 height, 2 rounds; every single delivery | `TypeOK`, `OneTimer`, `PrevoteQuorumIsActedOn`, `ProposerFindsNoQuorum` |
| `engine_proposer` | 4 validators, the proposer v0 Byzantine; 1 height, 2 rounds; symmetry of v2, v3 | `Agreement`, `UnlockIsJustified`, `DecisionIsCertified`, `VoteOnce`, `LockIsCertified`, `BuildsOneChain`, `ForwardOnly` |
| `gossip` | 4 honest validators, one of them down in four of five instances; different transactions for each, or the same unsigned one for all; 2 heights, 2 rounds at one of them | `GossipTypeOK`, `StateIsLedger`, `ParkedIsAcceptable`, `NothingSmuggled`, `FinalizedBlocksAreValid`, `StateRootsAreRight` |
| `simulator` | 4 validators, v1 equivocating or down; 2 heights, 3 rounds; the network stabilizes at 0.4 s; a reorder list; at most two of: a message lost, slow, copied | `SimTypeOK`, `RoundsEndForCause`, `ImplementsEngine`, `TargetIsReached` |
| `clock` | 4 events, delays 0, 1, 2, deadlines until time 3 or none; any id cancelled | `TypeOK`, `FiredInOrder`, `RevokedNeverFires`, `NothingIsLost`, `TimeForward`, `DueEventFires` |
| `rate_limit` | 3 peers, limit 2, window 1, block 2, 5 messages until time 4 | `TypeOK`, `RateRespected`, `SuppressedForCause` |

Two are refinements. `BuildsOneChain`: `Engine` implements `Chain` when each
ledger is read as the hashes of its blocks. `ImplementsEngine`: what the clock,
the delays and `ByzantineEngine` do is a behaviour of `Engine`, so what is
checked and proved of `Engine` holds for the scenarios. Time is not part of
`Engine`; that a timer of an old round never cuts off a working proposer is
`RoundsEndForCause`.

`StateIsLedger`, `FinalizedBlocksAreValid` and `StateRootsAreRight` are about
the detours of a transaction: submitted twice, replayed with another value,
written to another owner's key, handed over with a bad signature, fetched again
by a duplicated response after its block was committed, packed again. None of
them changes what a ledger means or gets something unsigned into a block.
`StateRootsAreRight`, that the root in a finalized header is the one that the
headers so far amount to, counts faults: a node that has executed a badly signed
copy of a transaction others have well signed (`Strayed`, see run
`gossip_diverge`) computes another root from then on, and when such nodes make
up a quorum with the Byzantine ones they may finalize it.

Bounds. Four validators are the least with a fault to tolerate (f = 1, quorum
3). Two rounds are the least in which a lock meets another proposal; all the
lock rules compare two rounds. Two heights are the least in which something of an
old height could be used. `InBounds` drops the events that would take a node
past the last round, `Running` stops a node at the last height as
`run_until_height` does; both are named in the module and are the reason
deadlock is not checked there. Every property has a mutant of the code under
which its run fails, so the instances do reach the cases. `EngineEvents.cfg` has
the constraint `CrashedFromTheStart`: a validator may crash at any time, and
where it crashes after it was started the state is checked and not continued.
`Gossip.cfg` explores five instances in one run (`instance`, `InInstance`), all of
honest validators:

- `heights`: both heights without timeouts; transactions for each case of
  `can_apply` (good, a replayed nonce, a badly signed copy of a good one, another
  owner's key), of which each node may be handed its list or nothing;
- `rounds`: both rounds of the first height, with timeouts and a crash;
- `blocks`: v1 has more transactions than v0, so that the second block is not empty
  and holds a replay of a nonce that the first block used; two rounds at height 1;
- `outvoted`: no validator is down, v1 has a badly signed copy of the transaction in the
  block, prevotes NIL on it, and commits it when the others' votes make a quorum;
- `tampered`: everyone is handed a transaction that nobody signed, as in T3.

v3 is down in all but `outvoted`. In `heights` and `tampered` only the first
proposer of the height is handed transactions after the start, in `blocks` and
`outvoted` nobody, and the nodes of `blocks` time out in one order. More blocks
after a node has strayed (`Strayed`), Byzantine proposers, and lists that differ
at every node are left to the theorems. In `Simulator.cfg` two faults
(`TwoFaults`) of different kinds are enough to delay one quorum and repeat
another; the run ends at 1.3 s, by which time a fault-free chain has passed the
second height even if the equivocating validator costs it rounds; `Ended` names
the bound `MaxRound`, which no run without a lost or slow message reaches. In
the clock, four events give two at one time, one cancelled and one left over by
a deadline; in the limiter, five messages give an excess, a block, its end and a
message after it. Some cases of the properties of `Engine` need more than 4
validators, 1 height and 2 rounds, and only the theorems cover them: a prevote
quorum that is complete before the proposal comes (`PrevoteQuorumIsActedOn`), a
round whose proposer has led an earlier one (`DecisionIsCertified`), and a
height that is played after a commit (`LockIsCertified`).

The reduction of `MCEngine`. Most deliveries only put a vote into a bucket of
the receiver: nobody else sees it and it commutes with every other step.
`CollectSpec` delivers such votes just before the step that first depends on
them: a tally that reaches a quorum, including the tally of a vote the node
casts in the same event. Which votes of one hash make up a quorum does not
matter to the receiver, except that a validator counts once, so one choice per
number is explored. No invariant checked under it can be broken by a vote that
only waits in a bucket. `MCGossip` does the same for `Gossip`. On the instance
with a Byzantine voter and one round, `Spec` and `CollectSpec` reach the same
states once votes are erased. `engine_events` and `engine_resolve`, whose
properties do speak of buckets, use `Spec` itself. The symmetry of
`engine_proposer` exchanges v2 and v3: with height 0 and rounds 0 and 1 only v0
and v1 ever propose (after a commit height 1 starts with v1, and nodes stop
there).

Fairness. `Engine` and `Gossip` state none: a network that may lose everything
justifies none, and no liveness is claimed of them. In `VirtualClock` the loop of
`run()` is weakly fair, because nothing else runs between two turns of it:
`DueEventFires` says that a due event is executed unless it is cancelled or
`run()` stops. `Simulator` has the same fairness of the loop, for the same
reason: as long as the run has not ended, it goes on (`DrainsTheQueue`, weak
fairness of `SimNext` with what enables it written out, which TLC evaluates
faster than `ENABLED`). Under it `TargetIsReached` is the promise of T6 and
`run_until_height`: every honest validator finalizes the target although one
validator equivocates or is down, if no message is lost or slow.

One slow message is enough to break that promise. With v0 equivocating and one
vote of height 0 delayed by 0.15 instead of 0.01 s, v3 decides height 0 after
the proposal of height 1 has come and been dropped. v1 alone locks that proposal
and prevotes NIL on the others' from then on (its own re-proposals are rejected,
see `engine_repropose`), v3 enters each round a little after the proposal for it
has come, which is kept and never looked at (`engine.py:376`), and with v0 on
both sides no round has a quorum. TLC finds this run, with ten rounds as well as
with two, when `TargetIsReached` does not except slow messages and `Byzantine =
{v0}`. `TargetIsReached` and `RoundsEndForCause` therefore speak of runs without
lost and slow messages; the other two properties of the run speak of all.

Runs that end in a violation, each of a statement made in the repository:

| Run | Statement | What the code does |
|---|---|---|
| `engine_five` | `src/byzantine.py:19-22`: conflicting quorums are impossible | quorum is 2f+1 for any n: with n = 5 or 8 two quorums may share only the f Byzantine validators. `config/scenarios.json` runs T7 with n = 8, two of them Byzantine; that the scenario passes is due to its schedule. The run uses n = 5 |
| `engine_resolve` | `engine.py:57-61`: a quorum of a round is always resolved against that round's block | `_on_precommit_quorum` uses the lock, and ignores a precommit quorum that is there before the lock |
| `engine_repropose` | `engine.py:173-177`: a valid block must be re-proposed, for liveness | the header names its first proposer, so everyone rejects the re-proposal of another one |
| `gossip_diverge` | `src/execution/state.py:50-51`, `tests/test_gossip.py:83`: the same blocks give every node the same state root | a transaction's hash does not cover its signature. A node that was handed a copy with a bad signature prevotes NIL, is outvoted, commits its own copy of the block and skips the transaction: same ledger, another state, with no faulty validator |
| `simulator_stall` | `main.py:411-412`: once the network is stable a quorum agrees | two lost messages leave two validators at height 0 and two at height 1; votes of another height are dropped (`engine.py:428`), nothing is sent again, and neither side has a quorum |
| `engine_crash` | `src/node.py:46-48`: a crashed node stops proposing and voting | its round timer still fires and makes it propose and prevote in the rounds it leads |

## What is proved

For every validator set (n at least 4 and not 6), every set of Byzantine,
silent and crashing validators, all contents and bounds
(`EngineProofs`):

- `EngineTypeOK`, `EngineVoteOnce`, `EngineOneTimer`, `EngineForwardOnly`.

The inductive invariant `Inv` is a conjunction over the honest validators.
`VoteOnce` alone is not inductive: a second vote is prevented because what a node
has signed at its height is in its own bucket and in no round ahead
(`VotesOK`), so that the duplicate check finds it and a new round is fresh.
`OneTimer` needs that `timeout_event` is the pending timer (`TimerOK`), or
`cancel` would miss it. Types need that the ledger has one block per height and
that all a node holds extends it (`ChainOK`), or a Byzantine proposal could be
built on a chain longer than its height. There is one lemma per operator of the
engine, each saying what `Outcome` it has: the node is `Good` again, has gone
`Forward`, and is the same node, unless it has passed the last round. `Compose`
chains them, the four events follow, and the theorems with them. The proofs do not
use `LeaderAssumption`, since these facts are each node's own; but `Engine` has it,
for the tally that `propose` leaves out.

`EngineSafetyProofs` follows the same operators through the states of all
honest validators together:

- `EngineLockIsCertified`, `EngineDecisionIsCertified`,
  `EnginePrevoteQuorumIsActedOn` and `EngineProposerFindsNoQuorum`: no hypothesis
  but `LeaderAssumption`.
- `EngineUnlockIsJustified`, `EngineAgreement` and `EngineBuildsOneChain`, from
  `FewFaults`: `2 * quorum > n + Cardinality(Byzantine)`, that is, two quorums
  always share an honest validator. With n = 3f + 1 it holds of up to f
  Byzantine validators (`FewFaultsOf3f1`), the case the code is written for.
  With other n it asks for more than the code does: `quorum` is 2f + 1 whatever
  n is, so that n = 5 with one Byzantine validator satisfies the code's f and
  not `FewFaults`, and the run `engine_five` finds two decisions there.

The inductive invariant is `SafeInv`, which is `Inv` and `Safe`. Its first part,
`Backed`, says of every node that its votes were really cast, and that its lock,
its valid block, what it has precommitted at any height and every block of its
ledger have a quorum behind them; it needs no hypothesis, since a quorum that was
once there stays. The second part is the classical argument about locks, made
inductive. Call a block hopeless in a round when the validators that have
precommitted it there, or still could because they have not passed the round,
are no quorum. `SwitchSafe`: when an honest validator has prevoted another block
after it precommitted one, the first is hopeless in that round. A quorum of
precommits contradicts hopelessness, hence everything prevoted in later rounds
is the decided block (`Settled`), hence no other block gets a prevote quorum and
none a precommit quorum (`EarlierDecision`, `OneDecision`). That it is preserved
is the step with the content: a node that unlocks has seen a prevote quorum of
a later round for the other block, and an honest member of that quorum and of
the possible precommitters would itself have switched before (`Unlocks`).
`SwitchJustified` is `UnlockIsJustified` with the block prevoted for named.

`EngineBuildsOneChain` is the refinement of `Chain`, step by step: a step of the
engine appends at most one block to one ledger (`OneGrows`, proved along with
`Inv`), and what it appends is what every ledger of that length already has
(`SafeAgreement` in the state after it), so it is a step of `Chain` or leaves the
hashes alone (`ChainStep`).

The attempt corrected a property. `UnlockIsJustified` used to ask that the
justifying quorum be of a round up to that of the later prevote. But a node locks
on a quorum of a round ahead of its own as soon as it has it, and may then prevote
that block in a round before that one: the quorum may be of any later round, and
the node's own votes of rounds it has yet to reach are not part of it. The small
runs are too short for the difference.

Its last part proves `EnginePrevoteQuorumIsActedOn` and
`EngineProposerFindsNoQuorum`, from `LeaderAssumption`. Both need a fact about
all nodes: nobody prevotes in a round before its proposer has (`Led`). A
proposer that enters its round therefore finds its own prevote and those of
Byzantine validators, which are no quorum (`ProposersUnanswered`), so the tally
in `_propose` does nothing. Every other prevote is followed by a tally, in
`handle_proposal_local` or on its arrival. `Awaits` says that who has not
precommitted in a round still can, and who has prevoted there has a proposal.

`GossipProofs`:

- `GossipImplementsEngine`: `GossipSpec => Spec`, step by step. A header that finds
  all bodies in the mempool, and one that is parked and completed later by a
  response, are both `DeliverProposal` of the proposal with the copies the node
  has; parking, serving bodies, and what clients submit leave `node` alone.
  Everything proved of `Engine` therefore holds with the transactions, whatever
  becomes of them: `GossipAgreement` states it for agreement, from `FewFaults`.
- `GossipParkedIsAcceptable`, `GossipTypes`, `GossipNothingSmuggled` and
  `GossipStateIsLedger`, without further hypothesis.
- `GossipFinalizedBlocksAreValid` and `GossipStateRootsAreRight`, from `FewFaults`.

The first inductive invariant is `Parked`, which contains `Inv`. It says that a
parked header is one of `Proposals` and is acceptable to the node:
`on_body_response` does not check it again, and `DeliverProposal` asks for both.
It stays so because only a commit moves the height or the parent hash, and a
commit clears what is parked, and because what was proposed stays among
`Proposals` (`ProposalStays`). `Handle` runs an event twice, once to learn what it
commits and once with the contents of the block that the mempool has left for the
next proposal. That the first run is right is `Alike` (`OnVoteAlike` and the lemmas
before it): the contents of a block that an event builds do not change what the
event commits. Each event then is `Moves`: a step of `Next` that settles what
became of the ledger, on the mempool as it was or with absorbed bodies.

The second is `Books`: the types, `NothingSmuggled` and `StateIsLedger` together.
With `Parked` it is inductive as it stands: an event appends one block or none
(`OneGrows`), and executes its transactions (`HandledExecutes`), so that what is
left to show is about lists, in `ExecutionProofs`:

- `ExecutionIsMeaning`: `apply_all(NewState, txs) = Meaning(txs)` for every list.
  `MeaningAppend` is the step: a transaction can be applied exactly when it counts
  (`CanApplyMeaning`), since of those with its sender and nonce that are in order
  the first one counts (`FirstCounts`), and it then is the last to write its key.

That takes induction over a list. The library's induction rules take an operator,
which the provers cannot instantiate, so the principle is proved here for a set
(`Induction`: a set with 0 and the successors of its members contains `Nat`, since
otherwise subtracting one would be an injection of a finite set into a smaller
one), and used on sets of numbers. `FoldLeft` is a `CHOOSE` of a function on sets of
indices: `FoldExists` shows that there is one, and `FoldSteps` that it takes the
list one entry at a time.

The third is `Vouching`, for the two theorems about what is finalized. The commit
validates nothing, so they rest on the prevotes: a finalized block had a prevote
quorum (`DecisionHasPrevotes`), an honest member of it called `validate_block`, and
what it found then is what the theorems say, for whoever finalizes the block.
`Vouched` says that of each prevote, in terms of the first blocks of the ledger of
who cast it, which no later event changes. For it to be true when the prevote is
cast, the contents of all that a node holds must be `Sound`: the node's copies
hash to the header's transactions (`BodiesMatch`, about `missing` and `tx_by_hash`),
clients have handed them over, and `valid` was computed from the state the node
still has. `Effect` says which blocks a handler may use for that: those the node
had, those it was given, and, after a commit that forgets all of these, one it
builds on the new state. It is proved once for every operator of the engine, in
the order of the module. For the state root the honest member must also not have
`Strayed`; its ledger is the finalizer's (`SafeAgreement`) and its copies are what
the headers commit to (`ExecutedPromised`).

`SimulatorProofs`, from `FewFaults` and what `NetworkAssumption` says of the
network's parameters, for any delays, any reorder list, any number of faults and any
number of Byzantine validators that equivocate, are silent or were never started:

- `SimulatorImplementsEngine`: `SimSpec => Spec`, step by step. What is proved of
  `Engine` holds for the scenarios; `SimulatorAgreement` states it for agreement.
- `SimulatorTypeOK`: the queue is in order, holds nothing from the past and each
  pending timer once.

For an honest validator a turn of the clock is the event of `Engine` of the same
name, provided that `Engine` could deliver what is on the queue. So the invariant
`SimInv` says of every event (`Sound`) that it is the timer its validator has, a
proposal that honest validators sent or a Byzantine one could forge, or a vote that
was cast or that names something proposed. Here the two models of a Byzantine
validator have to meet: `Engine` lets it propose on the chain of any honest
validator and vote for what was proposed, whereas `ByzantineEngine` runs an engine
and proposes on the chain *it* has, which may be longer than that of every honest
one. `Vouched` therefore follows a Byzantine engine through every operator
(`Speaks`), as `Outcome` follows an honest one: what it holds was genuine, and each
block of its ledger had a precommit quorum. Its proposals are on a chain that was
decided in this sense (`Forged`, `Decidable`), and when an honest validator acts on
one, that chain is the receiver's own: it has the length of the receiver's ledger,
and by the argument of agreement no other chain of that length is decided
(`OneParent`). What an honest validator does not act on, for its height is another
one, changes nothing and is a stutter. The hash that an equivocating validator makes
up (`Fabricated`) names no block and stays one of the votes of `Engine`.

The order of the code matters too: `Emitted` lists what an event of the engine sent,
and the proof shows that this is all of it, for `Keeps` says that an event proposes
at most once and `VotesOK` that it casts one vote per round and phase.

`QueueInv`, for the second theorem, is inductive together with `SimInv`. It says
that no validator has two timers on the queue, that one which has a timer pending
and is not at the last height has one on the queue, and that before the start the
time is 0. An event takes the timer it fires or cancels off the queue and schedules
the new one, which is not yet there because what is kept belongs to the engine's
state before and after (`TurnedQueue`). Sending is merging: `in_order` of a sorted
queue and a list is sorted and has each of their events once (`Merges`,
`SendSorted`, `SendAlarms`). An expired wait of the harness (`Stabilize`, `Finish`)
moves the time to a deadline, which is still before the first event.

`ChainProofs`: `ChainOneChain`, the abstract chain has one history.

`VirtualClockProofs`: `ClockTypeOK`, `ClockFiresInOrder`,
`ClockRevokedNeverFires`, `ClockLosesNothing`, `ClockTimeForward`. The invariant
adds that nothing pending is in the past or before anything executed (`History`
and `Pending`), and that a revoked id whose event is pending, or still to be
scheduled, is in `cancelled`: `run()` forgets it only with the event.
`NothingIsLost` needs the converse too (`Accounted`): an id in `cancelled` whose
event has not been executed was revoked, so what `run()` drops is what was
cancelled before it fired.

`RateLimiterProofs`: `RateTypeOK`, `RateIsRespected`, `RateSuppressedForCause`.
The invariant says that the times kept are exactly enough (`Remembered`: every
passed message of the window is among them, and each stands for an attempt),
that the limit holds for windows that end at any time, not only at a message
(`RateAtAnyTime`), and that each block has an excess behind it
(`BlockedForCause`). Sets of attempts and of stamps are compared by injections
(`StampsCount`).

The proofs assume only the `ASSUME`s of the modules, which TLC evaluates in the
runs.

Every inductive invariant was checked by TLC on the runs' instances, where necessary
with its infinite sets cut down to what occurs in a state.

Only model-checked: `DueEventFires` and `TargetIsReached`, which are liveness
under fairness, and `RoundsEndForCause`. Liveness, ENABLED and recursive operators
are outside what the prover does. `RoundsEndForCause` is a safety property, but one of
numbers: it holds when the delays of a run, added up over the phases of a round and
over what a reorder list and an equivocating proposer cost before it, stay below
`round_timeout`, and this depends on the values in `Simulator.cfg`, as it does on who
is Byzantine: an equivocating proposer that leaves one validator locked makes the
next round fail too (`engine_repropose`). The repository does not say for which values
it should hold, so there is no theorem.

## What is not modelled

- The rate limit inside `Simulator`: it is off in every scenario and has its own
  module. Delays between `min_delay` and `max_delay`.
- Byzantine validators that send bodies or headers of their own making in
  `Gossip`: `ByzantineEngine` equivocates on votes and timestamps only, which
  `Engine` and `Simulator` have.
- n = 6, where quorum is 3 and two quorums need share nobody: one bucket could
  then hold two winners, which `_tally` handles one after the other.
- Signatures and hashing: assumed to be unforgeable and injective.
- Logging, printing, key generation, configuration, the command line, tests.

## Plan

Done: `Chain`, `Engine` and their runs; `VirtualClock`, `RateLimiter`; `Execution`
and `Gossip`; `Simulator` with `ByzantineEngine`; the proofs above, of every safety
property of the passing runs but `RoundsEndForCause`.

1. A condition on the delays and the Byzantine validators under which
   `RoundsEndForCause` holds, and its proof.
2. `Gossip` with a Byzantine validator, and with the delays of `Simulator`.
