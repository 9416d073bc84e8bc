# A verification of A-Less-Writey-Paxos in TLA+

The repository implements multi-instance Paxos in C: `paxos/` holds the state
machines of the roles, `evpaxos/` the libevent loops and connections around them.
There are two protocols, the standard one and one with epochs in front of the
ballots, and three acceptors: one that writes every promise, one that writes ballots
ahead of the promises, one that writes only epochs and votes. This directory holds
TLA+ modules translated from that code, TLC configurations that check them and
TLAPS proofs about them.

## The system

| part | code | state | operations |
|---|---|---|---|
| standard acceptor | `standard_acceptor.c`, `ev_standard_acceptor.c` | trim, promises and votes in memory, LMDB records | prepare, accept, repeat, chosen, trim, restart |
| write-ahead acceptor | `writeahead_ballot_acceptor.c`, `ev_write_ahead_ballot_acceptor.c` | as above, a copy of the records in memory, ballots to write ahead | as above, two timers that find and write ballots |
| epoch acceptor | `epoch_acceptor.c`, `epoch_paxos_storage.c`, `ev_epoch_acceptor.c` | promises in memory only, votes and the current epoch in LMDB | as the acceptor, with prepares in an epoch |
| acceptor storage | `hash_mapped_memory.c`, `stable_storage_lmdb.c`, `storage_utils.c` | tables of promises, votes, chosen marks; the database | store, get, trim, reload; transactions |
| standard proposer | `standard_proposer.c`, `evproposer.c` | instances in phase 1 and 2, chosen instances, trim, window, backoff timers | promise, accepted, preempted, chosen, trim, client value, peer states, timers |
| epoch proposer | `epoch_proposer.c`, `ev_epoch_proposer.c` | as above, highest epoch known, instances to skip | as above, epoch notification |
| client values | `value_proposal_manager.c` | values to propose, values proposed, wait for a NOP | enqueue, next, close, requeue |
| learners | `learner.c`, `evlearner.c`, `epoch_learner.c`, `ev_epoch_learner.c` | acceptances counted per instance, next instance to execute | accepted, chosen, trim, hole timer, restore |
| connections | `standard_paxos_peers.c`, `writeahead_epoch_paxos_peers.c` | peers, clients, timers to reconnect | connect, accept, error, send, read |
| messages | `paxos_types_pack.c`, `*_message.c` | a buffer of msgpack objects | pack, unpack |

Every process runs one libevent loop, so a handler or timer callback runs to its
end before the next: it is one action. Processes talk over TCP; a connection may
go down, requests go to a group of peers only, and timers send requests again, so
messages are late, lost, repeated and out of order. What is hard: the memory an
acceptor answers from against the database it restarts from; what stands on disk for
promises that were never written; votes reported to a proposer that was preempted
before; quorum sizes that differ per phase; client values that lose their instance;
retries that fire late; holes in the sequence a learner delivers; unsigned arithmetic
on instance numbers.

## Modules

| module | models |
|---|---|
| `Ballots`, `PaxosTypes` | `ballot.c`; ids, instances, values, requests |
| `HashMappedMemory` | the chosen prefix and the bound of a trim, which the acceptors share |
| `StandardAcceptor`, `EvStandardAcceptor`, `MCStandardAcceptor` | operations of the acceptor on `mem`, `chosen`, `disk`; its handlers among open peers with a history of promises, votes, notices |
| `WriteAheadBallotAcceptor`, `EvWriteAheadBallotAcceptor`, `MCWriteAheadAcceptor` | operations on `volatile_storage`, `dup` (the copy of the records) and `disk`; handlers and the two timers |
| `EpochBallots` | `epoch_ballot.c`, and the order the algorithm needs beside the one the code has |
| `EpochAcceptor`, `EvEpochAcceptor`, `MCEpochAcceptor` | operations of the epoch acceptor on promises, votes, epoch and disk; its handlers among open peers |
| `ValueProposalManager`, `ProposerCommon` | the two queues of client values; what both proposers share |
| `StandardProposer`, `EvProposer` | a proposer as a record, one operator per C function; handlers and timers as actions |
| `ProposerAlone`, `MCProposerAlone` | a proposer among open peers that keep to the protocol |
| `StandardPaxos`, `MCStandardPaxos` | standard proposers and acceptors together |
| `Learner`, `EvLearner`, `MCEvLearner` | the learner and its event loop, among acceptors reduced to their votes |
| `EpochProposer`, `EvEpochProposer`, `EpochLearner`, `EvEpochLearner` | the epoch protocol's proposer and learner, in the same way |
| `EpochPaxos`, `MCEpochPaxos` | epoch proposers, epoch acceptors and a learner together |
| `PaxosTypesPack` | what each message type is packed to and unpacked from, and the reading of a stream |
| `Peers`, `MCPeers` | the connections of a listening process and of those that connect to it |
| `LmdbStorage`, `MCLmdbStorage` | the table in LMDB, transactions and recovery |
| `ReplicatedLog`, `Channel`, `StableStorage` | abstract: what a learner promises the application, a connection its handlers, the database the acceptors |
| `PaxosLemmas` | laws of the ballot order; least elements; lemmas on the chosen prefix |
| `EvStandardAcceptorProofs`, `EvWriteAheadBallotAcceptorProofs`, `EvEpochAcceptorProofs` | inductive invariant of each acceptor, handlers that keep it, theorems |
| `EvLearnerProofs` | the same for the learner, and that it implements the log |
| `StandardProposerProofs` | what the operations and loops of a standard proposer keep |
| `StandardPaxosSteps`, `StandardPaxosProofs` | what the messages of standard Paxos say, kept by every step; agreement |

Definitions keep the names of the C functions and fields where they can. Operators
whose name ends in `_Something` next to a definition are deliberately wrong
variants of it; no specification uses them. Each shows that a property notices
that mistake.

Some code has undefined outcomes, which are choices in the model:
`value_proposal_manger_get_next` can end without a `return` (`undefined` in
`GetNext`), `all_up` in `evproposer.c` reads times nobody wrote (`up` in
`HandleAcceptorState`), and after the recovery of an epoch acceptor a promise is
read from beyond the four bytes that were allocated (`stray` in `Restart`).
`CopiesNull` is the promise after which an epoch proposer follows a null pointer; it
stops there (`crashed`).

## Runs

| run | instance | shows |
|---|---|---|
| `standard_acceptor` | open peers, restarts, failing transactions | memory and disk agree, what is acknowledged is durable, promises report votes, trims and CHOSEN answers repeat what was told |
| `epoch_acceptor` | the same, 2 epochs | no epoch is used before it is on disk, votes stay on disk over any restarts, promises report votes although restarts forget promises |
| `writeahead_acceptor` | the same, 3 ballots, both timers | every answer is at or below the promise on disk; the copy of the records mirrors the disk; promises report votes; both sources of a CHOSEN answer agree |
| `standard_paxos` | 3 acceptors, q1 = q2 = 2, 2 proposers, 1 instance | agreement, unless a reported vote was dropped |
| `standard_paxos_learners` | 2 acceptors, q1 = 1, q2 = 2, CHOSEN notices | proposers close only decided instances |
| `standard_paxos_stale` | as above, one more ballot, no notices | **violated**: agreement without the condition |
| `proposer` | 1 proposer, 2 instances, open peers | no client value is lost or stranded, one value per ballot |
| `learner` | 3 acceptors, 2 instances, 2 ballots | deliveries are chosen and in order, trims cover deliveries, holes are filled, the learner implements `ReplicatedLog` |
| `epoch_paxos` | 2 acceptors, q1 = 1, q2 = 2, 2 proposers, 2 epochs, restarts | agreement, one value per epoch ballot, closing and delivering only decided values, while the run is `Sound` |
| `epoch_delivery` | 1 acceptor, 1 proposer, 2 instances, a learner, all timers and trims | every submitted value is delivered, nothing is trimmed before it is, proposers close only decided instances, the whole implements `ReplicatedLog` |
| `transport` | 1 listener, 1 connector, up to 3 connections, every message type | each direction of a connection implements `Channel`, and nothing of a lost one shows on the next; clients in the table are live; connections come back; what is sent is handled; a request always goes to the same group |
| `storage` | 3 instances, failing puts and commits, crashes | the LMDB table implements `StableStorage` |

### What the violation says

`standard_proposer.c:667` clears `last_accepted_ballot` only together with a
`last_accepted_value`, which is NULL once its value is being proposed. After a
preemption in phase 2 a report of the same vote is no longer "higher" and is dropped,
and the proposer may get another value chosen. The history variable `ignored` records
that this happened.

### What the properties except

Where the code departs from what its safety needs, the properties name the case and
show that it is the only one. None of these exceptions hides an outcome in the model:
the step is there, and the history variable remembers it.

* `Intact` (acceptors) leaves out instances that lost a record. In the standard
  acceptor those are a failed commit and the trim of `standard_acceptor.c:420`, where
  `trim->iid - 50000` wraps below 50000 and a chosen notice erases open instances.
* In the epoch acceptor these are two histories, `unstored` (a commit of a vote failed)
  and `wiped` (a trim erased an open instance), beside `below`: `epoch_ballot.c:26`
  compares the ballots when the epoch is lower too, so a late request of an old epoch
  with a high ballot is answered, which the comments at `epoch_acceptor.c:286` and
  `:402` rule out; and `unsynced`: an epoch was taken that is not on disk, because its
  commit failed or the transaction of the start did not begin (`epoch_acceptor.c:64`),
  in which case the acceptor starts empty in epoch 1. `Kept` is what none of these
  touched, and `VotesDurable` is about all of it. `EpochPromiseReportsVotes` leaves out
  `forgotten` as well: `epoch_paxos_storage.c:33` converts every vote that a restart
  reads back into a local variable and drops it. The vote stays on disk, but a promise
  does not report it.
* In the write-ahead acceptor `unwritten`: the copy got a record that the disk did not,
  by a failed commit or by the timer, which writes without a transaction
  (`writeahead_ballot_acceptor.c:187`); `unfenced`: a record was stored with a promise
  below one given (a chosen notice at `:782`, or a vote above the ballot written
  ahead); `reopened`: a lower trim took back instances.
* `Sound` (epoch composition) asks that nothing of the above happened, no reported
  vote was dropped, and no proposer was sent back to phase 1 at the epoch ballot it
  had used by a preemption of the epoch alone (`resumed`).
* `OverStaleBallot` (proposer): a client value proposed over the stale ballot of the
  violation is not requeued when it loses.
* `Unread` (connections): `current_instance` in the state of an epoch acceptor is set
  (`epoch_acceptor.c:544`) and never packed (`paxos_types_pack.c:456`), so it does not
  arrive. No handler reads it.
* `Answerable` (learner), see Fairness. `Skipped` (epoch delivery): a learner that
  starts late leaves out the instances before its first.

`standard_proposer.c:643` sends an instance preempted in phase 2 back to phase 1 with
the phase 2 quorum size. With q2 < q1 that phase 1 is too small and agreement fails
(2 acceptors, q1 = 2, q2 = 1); the runs take q1 <= q2.

`epoch_proposer.c:481` closes an instance once q2 promises reported the same vote. The
step is in the model, but `epoch_paxos` does not reach it: with q1 = 1 and q2 = 2 an
instance leaves phase 1 at its first promise, and the count would only go on where phase
1 is resumed, which is not `Sound`.

## Bounds

* `MaxBallot` and `MaxDraw` bound the ballots proposers draw. Three numbers allow
  both proposers a first attempt and a retry; a fourth is needed for the violation.
* One instance in the contended compositions: instances only share the window and
  the queues, which `proposer` and `epoch_delivery` cover with two.
* `Announced` bounds the instances learners announce; `standard_paxos_learners`
  turns it on. With three acceptors and announcements the state space was explored for
  15 minutes (765,000 states) without a violation and without an end.
* `PossibleVotes` and `Forgetful` bound the acceptors around the learner: in
  instance 1 a ballot competes with a higher one that carries the same or another
  value, one acceptor is trimmed.
* `TrimBacklog` and `IidModulus` stand for 50000 and 2^32, `KeyModulus` for 2^32 in
  the database. `standard_acceptor` and `epoch_acceptor` have trims on both sides of
  the wrap.
* `MaxEpoch` bounds the epochs a restart opens. Two let a restart come between a
  promise and a vote; with three the properties of `epoch_acceptor` were checked once
  (3,026,653 states) and hold.
* `View` of `epoch_acceptor` keeps of the four histories only the sets the properties
  are about, `Kept` and `Intact` of each acceptor.
* The compositions leave failing transactions out (`StorageOutcomes` is `"committed"`):
  they are for the runs of the acceptors, and with them the compositions grow too large.
* `Chunks`, the size of a hole a learner does not ask for, is 0 in the epoch runs;
  `src/paxos_acceptor.conf:97` sets 500. `epoch_delivery` was checked once with 1 as
  well. Its fairness has the broadcasts arrive, so no hole stays open for good.
* `StrayBallots` stands for what the undefined read may give: nothing, or a ballot
  in use. `epoch_paxos` takes the first only.
* `BallotWindow` is 1 and `MaxWrittenAhead` 4: ballots 1 to 3 are asked for, so the
  written-ahead promise is reached, passed and raised by the timer and by a restart.
* `epoch_paxos` stops at states that are not `Sound`: its properties say nothing
  beyond them, and what is lost is never found again. `VoteSpec` leaves the notices of
  the learner to `epoch_delivery`.
* `epoch_delivery` has one acceptor and one proposer: the question is whether values
  pass through window, queues, learner and trims, not who wins.
* `MaxConnections` is 3. In one scenario both sides send two messages and one connection
  is lost, so that messages are under way on the old connection and on the new; in
  another two connections are lost, one after the other. Messages of all types go over a
  connection that stays, in all cuts into pieces, with a second message behind. Two
  messages each way and two lost connections were checked once (543,511 states).
* Acceptors are symmetric in the compositions. `View` drops replies that no proposer
  can react to any more. For the standard protocol that a dead reply stays dead was
  checked as a property of the composition without the view: complete with q1 = 1,
  q2 = 2 and `MaxBallot` 3 without announcements, and with `MaxBallot` 2 with them.
  With `MaxBallot` 3 and announcements that check was stopped before it was complete,
  after 2.7 million states, without a violation. For the epoch protocol the argument
  is given at `Live` in `MCEpochPaxos`.
* Deadlock is checked for the acceptors and the storage. The compositions, the learner
  and the connections come to rest when ballots, votes or connections run out.

## Fairness

Three runs use fairness.

* `learner`: the hole timer is set again whenever it fires (`evlearner.c:108`), and
  repeats and their answers travel over TCP connections that are up in the end.
  Broadcast acceptances need not arrive. `HolesFilled` is conditional on `Answerable`:
  the acceptors' last votes hold a quorum at a ballot not below the one the learner
  saw. Without it the property fails in two ways the code really has, a higher
  acceptance that hides the quorum below it and a trim that erased the votes.
* `epoch_delivery`: processes keep running, their event loops get to the messages that
  arrived, and the periodic timers fire, as each sets itself again. No fairness is
  asked of clients, of the timers for late answers, or of what a process only overhears.
* `transport`: libevent calls back for what is ready and for timers that are due, and
  a connection attempt is answered one way or the other. Nothing obliges a process to
  send or a connection to break; the bound on connections is what makes breaking end.

## Refinements

* `EvLearner` and `EpochPaxos` implement `ReplicatedLog` with `decided` the instances
  that have a quorum and `log` the deliveries: the application gets one decided value
  per instance, in order, without gap, starting anywhere.
* `Peers` implements `Channel`, one per direction of a connection: handled messages are
  a prefix of those sent. A message has every field of its struct in `paxos_types.h`;
  `PaxosTypesPack` writes out the structs, the packing and the unpacking ends
  separately, and a field that is not unpacked is garbage. The refinement mapping drops
  the one field in `Unread` on both sides.
* `LmdbStorage` implements `StableStorage`: a commit takes effect as a whole or not at
  all, and a recovery, which asks for the instances between trim and highest instance
  one by one, finds every committed record above the trim. This is what the acceptor
  modules assume of `disk`.

## Proofs

All theorems hold for all sets of acceptors, proposers, instances, ballots and values,
and for any number of restarts. They rest on the assumptions named in the modules,
which the runs evaluate.

* `EvStandardAcceptorProofs` (`AcceptorAssumption`, `RequestsAssumption`): the
  properties of the run `standard_acceptor`. They are not inductive by themselves: that
  a promise reports every vote needs that memory holds at least the highest promise and
  vote sent, which needs memory and disk to agree on intact instances, which needs the
  record of a settled instance not to matter. `IInv` is the conjunction; `Invariance`
  has one step per handler.
* `EvEpochAcceptorProofs` (`EpochAcceptorAssumption`, `EpochRequestsAssumption`): the
  properties of the run `epoch_acceptor`. Here a restart forgets promises, so memory
  does not hold what was promised. The invariant that replaces it is `Fence`: the pair
  of the current epoch and the promise in memory is not before any answer given in an
  open instance that is `Kept`. A restart lowers the promise but raises the epoch first,
  and the order puts epochs first (`EpochOrder`), so the fence never goes down
  (`FenceKept`). That the epoch in memory is on disk (`EpochWrittenAhead`) is what makes
  the raised epoch higher than every earlier one. A vote on disk is then only replaced by
  one at or above the fence, which is why it is durable although memory forgot it.
* `EvWriteAheadBallotAcceptorProofs` (`WriteAheadAssumption`,
  `WriteAheadRequestsAssumption`): the properties of the run `writeahead_acceptor`.
  Promises live in memory only and a restart takes them from the ballot written ahead,
  so the invariant is about three records of an instance: the copy is the record on disk
  and the vote in memory is the one in the copy (`MirrorInv`), and everything said is
  covered by the promise on disk, and until the trim by the one in memory (`AckedInv`).
  That both sources of a CHOSEN answer agree (`GroundedInv`) needs that a ballot carries
  one value in an instance. This is an assumption on the requests here; for standard
  proposers it is `OneValue` in `StandardProposerProofs`.
* `EvLearnerProofs` (`LearnerAssumption`): a learner delivers only chosen values, in
  order, trims only what it delivered, and implements `ReplicatedLog`. The invariant
  ties the learner's table to the votes: an open entry counts only acceptors that voted
  for the pair it holds, the pair of a closed entry has a quorum (`EntryInv`), and
  deliveries and trims lie below the instance it waits for (`Below`). Then every step
  appends decided entries one after the other or leaves the log alone
  (`NextImplementsLog`). The guard of `Vote`, that no two values are chosen in an
  instance, is what `Agreement` establishes for standard Paxos, in the cases it covers.
* `StandardPaxosProofs` (`ProposerAssumption`, `AcceptorAssumption`,
  `CompositionAssumption`): `AgreementUnlessIgnored` and `ClosedIsDecided`, the properties
  of `standard_paxos` and `standard_paxos_learners`, for any number of proposers,
  acceptors and instances, and any q1 and q2 such that q2 acceptors meet every q1 and
  every q2 others (the second because a preemption in phase 2 starts a phase 1 of q2).
  The argument has four layers.
  - `StandardProposerProofs`, about one proposer and any set of messages: in an instance
    its ballots only grow, late retries included, so that each carries one value
    (`OrderInv`); what phase 1 and 2 hold, and every value proposed unless a vote was
    dropped, rests on promises and votes that were sent (`ReasonInv`). The loops of
    `proposer_preexecute` and `try_accept` are recursive functions over instances. What
    each round keeps carries over to their result by taking the least round that breaks
    it (`Iterates`, `StaysIn`, from `LeastNatural`), as the library's induction rules have
    an operator as a parameter.
  - `EvStandardAcceptorProofs` is instantiated with the messages of the composition as
    the history of the acceptors, so its invariant is not proved twice.
  - `StandardPaxosSteps`: what every message says is so (`MsgOK`), and votes on record
    were asked for (`VotesAsked`); one lemma per handler.
  - A value decided at the least ballot is the value of every later proposal
    (`ProposedIsDecided`): the quorum of its reason meets the deciding one in an acceptor
    whose promise reports the vote, which needs that acceptor's record to be intact.

  `GARBAGE # NULL` in the assumptions: what an unfilled buffer holds is not taken for the
  absence of a value, which the code tells by comparing pointers (`proposer_common.c:14`).
  `AgreementUnlessIgnored` speaks of the instances whose records are `Intact` at every
  acceptor. In the runs, which leave failing commits out as too large, that is every
  instance; the theorem covers failing commits too.
* `PaxosLemmas`: the ballot order is a total order with the invalid ballot least, and
  what the chosen prefix is, which the acceptors share.

Leaves without arithmetic name Zenon, or leave it to the `USE Zenon` at the head of
`StandardPaxosSteps`: an SMT attempt would be tried first, and the translation to SMT is
what takes long in modules of this size.

Only model-checked, with TLC on the instances above:

* All liveness (`HolesFilled`, `ValuesDelivered`, and that connections come back and what
  is sent is handled), which is outside this prover's reach, as is `ENABLED`.
* `proposer`: that the queues lose no value is proved operation by operation (`Keeps` in
  `StandardProposerProofs`), but not `NoValueLost` and `NoValueStranded` as wholes, which
  also follow a value from the queues into an instance and back. `OneValuePerBallot` is
  proved of proposers in `StandardPaxos` (`OneValue` in `OrderInv`), not for this run's
  open peers.
* The epoch composition. The proof of the standard one does not carry over: its
  proposers skip instances, take epochs from notifications and may resume phase 1 at a
  ballot they used, and a proof has to exclude each by `Sound`.
* The connections, whose reading of a stream is a recursive operator, which no module
  with a theorem may reach, and the refinement of the storage.

## Not modelled

* The length of backoffs (`backoff.c`, `backoff_manager.c`): a timer may fire at any time.
* The ring buffer of `carray.c`: its users see a sequence. `pending_client_values.c` is
  used by no role.
* Configuration parsing, logging, timing of handlers, the sample programs.
* `evreplica.c`, which runs the three roles in one process. Each delivery of its learner
  calls `proposer_set_current_instance`, which may set the next instance of the proposer
  back and so prepare one again that is in phase 2. With that step added to the run
  `proposer`, a ballot can carry two values; the roles are modelled as processes of
  their own, where the call does not happen.
* The fake leader of `evproposer.c`.
* The option `preemptive-preempt`, which `src/paxos_acceptor.conf:42` turns on: an acceptor
  that promises or votes also sends PREEMPTED to the proposer it had promised before.
  After a promise of the epoch acceptor that is one more message of a kind that is
  modelled. After its votes the message is the address of a `bool`
  (`ev_epoch_acceptor.c:107`), and the standard acceptor gives a `paxos_preempted` where
  a whole message is read (`ev_standard_acceptor.c:82`, `:118`): what is sent is
  undefined. The message may also name the ballot that was just answered again;
  `ReceivePreempted` of the epoch proposer has the branch for it, a value requeued
  although neither epoch nor ballot is ahead (`epoch_proposer.c:869`), but no
  acceptor of the models sends it.
* The option `acceptor-trash-files`, which removes the database at a start
  (`stable_storage_lmdb.c:201`; `src/paxos_acceptor.conf:148` turns it on, the default is
  off). With it nothing is durable; `Restart_TrashFiles` shows that `VotesDurable` fails.
* A start of the write-ahead acceptor whose transaction does not begin
  (`writeahead_ballot_acceptor.c:389`): the result is not tested. For the epoch acceptor
  it is an outcome of `Restart`; the standard acceptor does not start.
* `lmdb_storage_trim`, which no acceptor calls; crashes of the machine with unsynced
  commits, as what the file system keeps is not in the code.
* Restarts of proposers: they keep nothing, start from their first ballots again, and
  the code has no step that would keep them from reusing one.
