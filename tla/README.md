# nexum: specifications, model checks and proofs

TLA+ models of the agreement kernel (`src/internal/nexum`), the public client and
its durable store (`src/nex`), the consent-gated message exchange
(`src/internal/message`) and the sealing of batches (`src/internal/pow`, `l2`,
`settle`), TLC runs on small instances, and TLAPS proofs, for every value of the
constants, of every safety property of every component: invariants, action properties
and both refinements. `PROJECT.json` lists the components,
runs, mutants, the map from definitions to source lines, findings, hazards and
theorems; this file explains them.

## 1. The system

### Components, state, operations

| Part | Source | State it keeps | Operations |
|---|---|---|---|
| agreement kernel | `internal/nexum/agreement.go`, `room.go`, `token.go` | one `Agreement`: status, deadline, moments, payee, receipt chain, meter, sealed ledger, sealed locks and their sum | `openAgreement`, `WithUnit`, `Lock`, `StartSealed`, `SealLock`, `Accept`, `Reject`, `SetDeadline`, `Expire`, `Note`, `AcceptWithEvidence`, `Takeback` |
| encrypted ledger | `internal/settle/encsum.go`, `internal/he` | key pair and remembered blinding factors | `SealLock`, `Aggregate`, `ProveEqual`, `VerifyEqual`, `Clone` |
| private checkpoint | `internal/nexum/checkpoint.go` | none | `PrivateCheckpoint`, `RestorePrivate` |
| contract client | `nex/contract.go`, `identity.go` | `Contract`: agreement and `agreed` | `New`, `Command`, `Apply`, `Execute` |
| durable store | `nex/store.go` and the per-OS lock and directory files | one encrypted file per contract ID, one lock file, the index of committed operations | `OpenStore`, `Create`, `View`, `Prepare`, `Apply` |
| council | `internal/nexum/council.go` | requirements, citations, opt-ins, status, metered receipts | `OpenCouncil`, `Satisfy`, `OptIn`, `Execute`, `Refuse` |
| delegation | `internal/nexum/delegate.go` | status, proof, payee, metered receipts | `OpenDelegate`, `Claim`, `SubmitProof`, `AcceptProof`, `RejectProof`, `Cancel` |
| workflow | `internal/nexum/workflow.go` | the cleaned tree, the recorded path | `OpenWorkflow`, `Walk`, `Execute` |
| message exchange | `internal/message/contract.go`, `crypto.go` | whoever holds it: one `Record` per offer, with the decision and the key release once they arrive | `Seal`, `Decide`, `WrapKey`, `ApplyDecision`, `ApplyRelease`, `Record.Verify`, `State`, `Open` |
| trade protocol | `internal/message/trade_protocol.go` | a link in each offer to its parent | `TradeLink.Validate`, `ValidateTradeSuccessor` |
| proof of work | `internal/pow/pow.go` | two atomics shared by the workers of one search | `Search`, `Header.Valid` |
| L2 batches | `internal/l2` | none | `Root`, `Seal`, `ReceiptRoot`, `SealReceipts`, `Verify`, `VerifyReceiptBatch` |
| settlement batch | `internal/settle/batch.go` | none | `Root`, `Commit` |
| command line, examples, keccak | `cmd`, `examples`, ... | none | not modelled |

How they interact: the store holds contracts; a contract translates a signed
command into calls of the kernel and nothing else; the kernel calls the encrypted
ledger on its sealed path. Signed commands travel outside the library. Callers
serialize access to an in-memory agreement, council, delegation or workflow; store
handles are serialized by an OS file lock only. Messages are signed values that travel
by themselves; each holder of records checks them against its own record. A batch
folds agreements, which it shares by pointer with their owners, or receipt
commitments into a root; the search seals the root.

### What is hard

* Half-done calls. `AcceptWithEvidence` makes two appends and `SealLock` draws a
  factor before its append; each may be refused after it has begun.
* Long legal sequences that end in a state some later check refuses:
  `RestorePrivate` and the store's `restore` re-derive everything from the chain.
* Commands replayed, reordered, late or signed over an older head.
* Crashes and power loss between write, sync, rename and directory sync, and callers
  that retry after an uncertain answer.
* Step limits and budgets that may leave value stranded.
* Go map iteration order in `OpenWorkflow`.
* Decisions and releases delivered late, twice, to several holders in different
  orders, under clocks that disagree; a recipient who signs both answers; a sender who
  answers an agreement the holder did not record.
* Trades that fork because two answers to one message are both legal.
* Workers that share a nonce and a flag in two separate stores, and agreements that
  move while the search for their seal goes on.
* Merkle trees that pair an odd last node with itself.
* Empty values at the edges: an empty string that is both a key and "no child", a batch of
  nothing.

### What makes each part correct

* Kernel: the chain is the record of the outcome; sealed value is released only
  against a proved exact sum; locked value cannot be taken back; nothing that was
  refused leaves a trace; every state survives a checkpoint.
* Contract: value is conserved and leaves escrow once; payment needs both parties;
  expiry is always possible.
* Store: what was reported survives; one operation ID has one result; no update is
  lost; every file that may be left can be read; every call returns.
* Council: execution is justified by the receipts; one outcome.
* Delegation: the receipts tell the story; the reward is assigned once.
* Workflow: the recorded path is the one the tree prescribes; a walk ends, with an action
  exactly when one is prescribed and reached without the empty key.
* Exchange: text opens only for a recipient who agreed; an answer is final, and its
  exact retry is honoured at any time; a key recorded as released works.
* Trade: on every branch turns alternate, each answer follows a message its author
  could read, and a settlement follows one accepted proposal fulfilled by its author.
* Sealing: a search with a solution returns a batch that verifies, and the seal is
  bound to what was sealed.

## 2. The modules

| Module | Models | Uses |
|---|---|---|
| `Kernel` | the methods of one agreement as operators, the ledger, the checkpoint verdict, the named parts of the invariants | |
| `Agreement` | one agreement under every sequence of calls | `Kernel` |
| `KernelProofs`, `AgreementProofs` | lemmas on the methods and the signed commands; theorems | `Commands`, `Agreement` |
| `Commands` | `applyVerified` and the store's replay check `restore` as operators | `Kernel` |
| `Lifecycle` | abstract escrow: open, escrowed, consented, closed, and where the units are | |
| `Contract` | one contract fed with any signed command; refines `Lifecycle` | `Commands` |
| `ContractProofs` | lemmas and theorems | `KernelProofs`, `Contract` |
| `OpLog` | abstract durable log: one entry per ID, a durable prefix, what callers were told | |
| `Store` | handles, lock, temporary file, rename, directory sync, faults; refines `OpLog` | `Commands` |
| `StoreProofs` | lemmas and theorems | `KernelProofs`, `Store` |
| `Metering` | the counting append of council, delegation and workflow | |
| `Council`, `Delegate`, `Workflow` | the three other kinds of agreement | `Metering` |
| `CouncilProofs`, `DelegateProofs` | lemmas and theorems | `Council`, `Delegate` |
| `Messages` | the signed values of the exchange, their verifiers and the trade links, as operators | |
| `Exchange` | agents, the network and several holders of records | `Messages` |
| `ExchangeProofs` | lemmas and theorems | `Exchange` |
| `Sealing` | roots, the worker search, the verifiers | |
| `InductionProofs` | lemmas and theorems on the two components that recurse over their data | `Workflow`, `Sealing` |
| `MC*` | instances for TLC | |

### Kernel and Agreement

A Go method `M` is a pair: `CanM` is the conjunction of its checks, in the code's
order where the order matters, and `DoM` the agreement it leaves. `Agreement` turns
each pair into an action on the variable `agr`; `reply` says whether the last call
returned an error after it had started to work. Methods that fail their first checks
change nothing and are not steps. Two half-done calls are actions of their own:
`SealLockRefused` (append refuses after the factor was drawn on the clone) and
`EvidenceRefused` (acceptance refuses after the evidence was appended to the copy).
`SpendBudget` is the host, who owns `Meter.CostUSD`. The caller supplies every time,
so times are not monotone.

Abstractions:

* a receipt hash stands for the whole chain up to it; the head is the chain;
* a Paillier ciphertext is its key, its plaintext and the set of blinding factors
  multiplied into it. Addition adds and unites. An equality transcript verifies
  exactly when key, plaintext and the product of the remembered factors fit. A
  factor is never drawn twice;
* cost and budget appear only as the outcome of their comparison, `over`;
* time is an integer, `SecondTicks` ticks a second, so that the receipt of a deadline
  (RFC 3339, whole seconds) is a real conversion: `DeadlineNote`;
* `MaxSteps` is at most 128, which `RestorePrivate` enforces.

### Commands, Contract, Lifecycle

A signature is the pair of signer and body. `Contract.Signable` is every command
anybody may have signed so far, over any earlier head and also for another contract.
The loop of `restore` is stated as the entries it visits (`Visits`): which turn it is, and
with it status and consent, is told by the entries of the turns before.
`Lifecycle` is the promise: the refinement mapping reads the escrowed units from the
plaintext of the stored aggregate and the seller's units from that of the locks, so
an amount that was not wholly sealed would be seen.

### Store

A call of a handle goes through `waiting`, `locked`, then either `confirm` (nothing
to write, but the directory must be synced before success is reported) or `staged`,
`synced`, `renamed`. The file system is external: `dir` is what the path names now,
`disk` the set of files a power loss may leave. `Rename` adds to `disk`, a directory
sync reduces it to what is visible. `IOError` may hit any I/O call, `Die` ends a
process (the OS releases its lock), `PowerLoss` resets everything but the disk. AES-GCM
and JSON are reduced to whether a file restores or is `Torn`. `OpenStore` is the
initial state. `acked` and `viewed` are histories of what callers were told.

`OpLog` is the promise. Its log is what the visible file stands for (`LogOf`: the
creation, then the committed operations in the order of their receipts), its durable
part the shortest file a power loss may leave, and what callers were told is `acked`.
Locks, temporary files, failed calls and deaths are stuttering steps of it.

### Metering, Council, Delegate, Workflow

Unlike the bilateral agreement, these three count a step *before* they check the
limits, so refused attempts use up steps; `TurnedAway` is that outcome. The count
stops one above `MaxSteps`, past which the code cannot tell counts apart. `Workflow`
makes the iteration order of the nodes map a choice of `OpenWorkflow` (`Cleaned`).
Facts are the set of those that are true. `Turn` is one turn of the loop of `Walk`, its
checks in the order of the code's early returns; `Turns` is the recursive function of
the states after each turn, up to more turns than the code's own length bound allows, and
`Walk` the last of them. `NoKey` is the empty string: no ID, no child chosen, and, since
`OpenWorkflow` refuses it only as the root, possibly a key of the nodes map too. It is not
assumed to differ from the keys.

### Messages and Exchange

`Messages` follows `Terms`, `Offer`, `Decision`, `Release` and `Record`. A fresh random
ID makes an offer's hash as good as its ID, and the model uses that; the hash of a
decision is the decision. A signature is the field `by`. An offer's ciphertext opens
under one content key, and a wrapped key opens for the recipient of the offer and the
acceptance it was made for, which is what the HPKE context binds.

In `Exchange` the sets `decisions` and `releases` are everything agents have signed;
an element may reach any holder, never, late or repeatedly. `PresentedDecisions` and
`PresentedReleases` add values that somebody other than the right party signed. Every call brings its own
clock reading, in no order. The library has no relay: that a holder keeps a record per
offer and calls `ValidateTradeSuccessor` before it takes up a trade message is taken
from the comments of the package and marked external in the map. Sealing a message and
the first holder taking it up are one step, because an offer nobody took up is not
seen again.

### Sealing

One call of `SealReceipts`, `Seal` or `settle.Commit`, chosen at the start. A worker of
`pow.Search` is a program counter: `poll` the flag, `test` the nonce, `store` the nonce,
set the `flag`; the nonce advances by the number of workers modulo `Nonces`. `zeros`,
the number of leading zero bits for each nonce, is an arbitrary function. An agreement
is its ID, the rest of its terms and its receipt tail; `Move` is its owner calling the
kernel at any time, also between the root and the return of `Seal`. Hashes are tuples, hence
injective; `Layers` repeats `Pairs` until one node is left and `Merkle` is that node. The
receipt tree tags its leaves (`Leaf`), the settlement tree does not, so a settlement leaf is
the hash itself and only lists of one length are compared under one root. At most `MaxReceipts` commitments, the code's 4096, have a root.

## 3. The runs

| Run | Checks | Shows |
|---|---|---|
| `agreement` | `TypeOK`, `ChainTellsOutcome`, `FundedExactly`, `SealsReceipted`, `ProofAvailable`, `CheckpointRestores`, `DeadlineOnLedger`, `NoSilentChange`, `NoTakeback` | the kernel, plain and sealed, with overruns, half-done calls and moving deadlines |
| `contract` | `PaidByBothSignatures`, `HistoryReplays`, `ExpiryNeverBlocked`, `ImplementsLifecycle` | signed commands in any order; refinement of `Lifecycle` |
| `store` | `StTypeOK`, `FilesRestore`, `AckedDurable`, `ViewedDurable`, `OneResultPerID`, `RetryHonoured`, `HistoryOnlyGrows`, `ImplementsOpLog` | two handles with faults; refinement of `OpLog` |
| `store_live` | `CallsReturn` | every call returns |
| `council` | `CouncilTypeOK`, `UnanimousIsReady`, `ExecutionJustified`, `CouncilOutcomeFinal` | every order of the council's calls |
| `delegate` | `DelegateTypeOK`, `StoryOnChain`, `RewardAssignedOnce` | every order of the delegation's calls |
| `workflow` | `PathPrescribed`, `WalkSettles`, `ValidatedTreeWalks` | the walk against a reference definition |
| `exchange` | `ConsentGatesText`, `ReleasedOpens`, `ExactRetryHonoured`, `TradeStory`, `ConsentFinal` | messages and trades between agents through several holders |
| `sealing` | `SealVerifies`, `BatchBinds`, `SearchReturns` | roots, search and verifiers |
| `deadline_shortened` | `DeadlineNeverShortened` | violated: finding 1 |
| `workflow_hosts` | `SameFactsSamePath` | violated: finding 2 |
| `empty_batch` | `EmptyBatchRefused` | violated: finding 3 |

Each property of a passing run has a mutant in `PROJECT.json`: a plausible change of
the code under which TLC finds that property violated.

### Bounds

* `agreement`: five receipts hold open, two seals, evidence and acceptance, or open,
  two deadlines, a lock and an end, the longest stories that matter; amount 2 with
  partials -1, 1 and 2 gives an exact sum in one or two locks, too little and too
  much; two factors and two keys, so that a second `StartSealed` differs from the
  first; an outsider next to the parties; calls before and at the earlier of two
  deadlines, one on and one off a whole second. Keys and factors are symmetric.
* `contract`: no contract can have more than six receipts (open, deadline, seal,
  consent, evidence, accept), so the state space is finite under the 128 steps that
  `nex` passes. Times lie on both edges of the window.
* `store`: two handles, seven calls, two faults, two operation IDs: enough for
  create, two prepares, two competing applies, a retry and a view, with an I/O error
  followed by a power loss. Actions `lock` and `agree` suffice, since the store
  treats all actions alike; the others are covered by `contract`. The seller and the
  buyer both sign.
* `council`: three parties (the least the code takes), up to two requirements with
  every assignment; seven steps hold open, two citations, three opt-ins and the
  execution exactly, so execution and exhaustion by refused attempts both happen.
* `delegate`: eight steps, twice the longest story.
* `workflow`: trees over three keys, the third one named or empty, with every list of at
  most two children and at most one requirement a node; the third node may claim the ID of
  the second, the others have none. Two-key trees add children and roots that are missing or
  empty, which `OpenWorkflow` refuses. Longer lists, more requirements and other IDs are
  covered by the proofs.
* `exchange` explores four instances. One offer at two holders, with every window and
  clock reading in 1..4, up to two signed decisions and two releases: boundaries, skew
  and conflicting answers. Two offers between three agents at one holder: receipts
  applied to the wrong offer. One trade of up to six messages with one extra answer:
  the longest story has request, offer, counteroffer, acceptance, fulfilment and
  settlement, and one fork may branch off anywhere. Two trades at two holders: links
  across trades, and a parent released at one holder only.
* `sealing`: four nonces and up to three workers make the nonces wrap around with
  strides that divide their number and strides that do not; 0 and 1 zero bits cover
  every set of solutions. Every list of up to four of four commitments goes through
  one worker; four is the first length at which an odd tree and its padded twin
  collide. Difficulties outside both ranges are refused.

`CHECK_DEADLOCK FALSE` is set where the system really stops: a closed contract takes
no further command, an executed workflow is finished, a sealing call returns, and the
store and exchange runs are bounded by the number of calls and messages.

### Fairness

`sealing` assumes weak fairness of each worker and of the return of `wg.Wait`: the Go
scheduler preempts goroutines, so each of them keeps running. `SearchReturns` is
claimed only where some nonce is valid; without one the code searches for ever, as the
model does.

`store_live` assumes weak fairness of each handle's next step: a live process keeps
running, and a handle blocked on the lock file gets it once it stays free. Nothing is
assumed of faults, of callers or of the choice between handles. With a bounded
number of calls the lock does become free for good; the code has no queue for the
lock, so against an unbounded stream of other callers the same claim would need the
operating system to be fair, which the code does not ask for.

## 4. The proofs

Every statement is about all values of the constants: any number of parties, keys,
handles, holders, messages and calls, any amount, any step bound, any set of times.
The assumptions are named where the constants are declared and evaluated by TLC on every
run: buyer and seller are distinct parties, the amount is positive, `MaxSteps` is in
1..128 (`RestorePrivate` takes no more), the absent values are no values and times are
naturals (`PartyAssumption`, `TermsAssumption`, `NothingAssumption`, `TimeAssumption`,
`ContractTimeAssumption`); a contract is created before its deadline and has at least six
steps, where `New` gives it 128 (`ProperTerms`, assumed by `Contract` and `Store` in
`ContractTermsAssumption` and `StoreTermsAssumption`, not by the kernel); nobody is no
handle (`StoreAssumption`); a council has three to seven members and the two sides of a
delegation differ (`CouncilAssumption`, `DelegateAssumption`, `MeterAssumption`); an
instance of the exchange names agents and holders (`StudiesAssumption`); a nodes map is
finite and holds nodes (`TreesAssumption`, `WorkflowAssumption`); a job of the sealing is
one of the three calls with an integer difficulty, at least one worker (the code's
default when fewer are asked for) and at most one per nonce, and a list of the right kind (`JobsAssumption`, `SealingAssumption`).

Each proof has the shape: the initial states satisfy the invariant, every action keeps it
(one lemma per action or per kind of step), and the invariant implies the property. The
properties are not inductive by themselves; what had to be added is said below.

### The kernel: `KernelProofs`, `AgreementProofs`

| Theorem | Statement |
|---|---|
| `TypeCorrect` | `Spec => []TypeOK` |
| `SettlesFunded` | `Spec => []FundedExactly` |
| `ChainIsRecord` | `Spec => []ChainTellsOutcome` |
| `ProofNeverLost` | `Spec => []ProofAvailable` |
| `CheckpointsRestore` | `Spec => []CheckpointRestores` |
| `DeadlineIsOnLedger` | `Spec => []DeadlineOnLedger` |
| `SealsAreReceipted` | `Spec => []SealsReceipted` |
| `NoSilentChangeHolds` | `Spec => NoSilentChange` |
| `NoTakebackHolds` | `Spec => NoTakeback` |

The inductive invariant is `Sound` in `KernelProofs`, a conjunction of named parts;
`IInv` adds the type of `reply`.

* `FundedExactly` speaks of the locks at acceptance, while the code checks the stored
  sum. It needs that the sum of a locked agreement *is* the aggregate of its locks
  (`SumMatchesLocks`). Its second half, `PartialsAddUp`, counts the partials one after
  another and never mentions `Aggregate`; that the fold arrives at the same number for
  any number of locks is `AggregateIsSum`, by induction: the recursion on sets of
  positions behind `FoldLeft` has a solution (`FoldDefined`), on initial segments it adds
  the last element (`FoldLeftSteps`), and running totals of natural numbers never pass
  the last one.
* `ProofAvailable` would break when `StartSealed` is called a second time after a
  lock. It needs that an open agreement has no locks.
* `CheckpointRestores` needs that every receipt was counted by exactly one step, and
  that moments and payee follow the status.
* `ChainTellsOutcome` needs that the chain of an agreement that is not terminal has
  no terminal receipt, so that the one appended is the only one.

Each method gets one lemma: it keeps `Sound` (`LockSound`, `SealLockSound`,
`AcceptSound`, `RejectSound`, `ExpireSound`, `NoteSound`, `SetDeadlineSound`,
`StartSealedSound`). `AcceptWithEvidence` is `NoteSound` followed by `AcceptSound`.
`NextInv` has one step per action. `NoTakeback` follows from what each action does to the
status (`NextStatus`), `NoSilentChange` from what it does to the chain (`NextMoves`).

A second invariant on top of it, `ChainInv`, says that the deadline in force is that of
the last deadline receipt and that the locks are the notes of the seal receipts in
order. A step leaves chain, deadline and locks alone, or appends a receipt of another
kind, or moves a deadline, or seals; `LongerChain`, `BearsDeadline` and `BearsSeals` say
what each does to the two enumerations.

### Contract: `KernelProofs`, `ContractProofs`

| Theorem | Statement |
|---|---|
| `PaymentTakesBoth` | `CSpec => []PaidByBothSignatures` |
| `ReplayAgrees` | `CSpec => []HistoryReplays` |
| `NeverStranded` | `CSpec => []ExpiryNeverBlocked` |
| `ContractImplements` | `CSpec => ImplementsLifecycle` |

The second half of `KernelProofs` is about one contract record. `SoundContract` adds to `Sound` what only
the commands guarantee: the number of receipts is told by status and consent
(`ReceiptCount`, at most six, hence `NeverStranded`), and a locked contract has one lock
over the whole amount (`OneLock`, hence the conservation of units in
`ContractImplements`). `Effect` is what a command does to status, consent and chain;
`ApplyEffect` has a lemma for each of the five actions. `Accounted` is what `restore` demands of
the entries next to a sound contract. That a replay which accepts a history also accepts
it with one command more (`ReplaysOneMore`) takes the trace of the shorter replay,
extends it by the new entry and shows that the turns before do not notice the longer
chain (`SameVisit`); this is why the replay is a trace in the model and no recursion.

`CInv` ties the record to `applied`: the contract is sound and accounted for by the
entries of `applied`, and `Story` says which commands those were. The refinement has one
case per command; `MappedValues` computes the mapping from `SoundContract`.

### Store: `StoreProofs`

| Theorem | Statement |
|---|---|
| `StoreTyped` | `StSpec => []StTypeOK` |
| `CrashesLeaveReadableFiles` | `StSpec => []FilesRestore` |
| `AcknowledgedIsDurable` | `StSpec => []AckedDurable` |
| `ShownIsDurable` | `StSpec => []ViewedDurable` |
| `IdempotentResults` | `StSpec => []OneResultPerID` |
| `RetriesHonoured` | `StSpec => RetryHonoured` |
| `NoLostUpdate` | `StSpec => HistoryOnlyGrows` |
| `StoreImplements` | `StSpec => ImplementsOpLog` |

The invariant `SInv` has five parts. `Exclusive`: whoever is past `withLock` holds the
lock. `FilesSound`: every file in sight is absent or a stored contract that is
`Accounted`, has one entry per operation ID and ranks its entries by their heads without
ties (`Ranked`). `ProcsSound`: what a call wants to write *grows* the file the directory
names now (`Grows`: longer chain, more entries, same key) by exactly one entry
(`OneMore`), and what it will report is in that file; since only the holder of the lock may
change the directory, this stays true while others wait. `Told`: every acknowledged entry
and every shown chain is in every file. `Bounded`: the two counters.

The step that carries the argument is `Rename` (`RenameKeeps`): the new file joins those a
power loss may leave, and everything that was told stays in it because the file grew;
`SyncDirectory` may then report what the visible file holds because that file is the only
one left. `PowerLoss` picks a file that `FilesSound` and `Told` already spoke about.

For the refinement every step is one of four kinds (`KindsOfStep`): it is not seen, it
replaces the visible file by one with one entry more, it settles on the visible file, or
it cuts back to a file the disk may hold. They map to stuttering, `Extend`, `Confirm` and
`Lose`. A second invariant, `DiskInv`, says that the log of every file a power loss may
leave begins the visible log and that one of them is the shortest. The order in the log
comes from counting heads; that a new entry ranks after all others and moves none of them
(`RankedOneMore`) is kept from step to step, so no induction over the entries is needed.

### Council and delegation: `CouncilProofs`, `DelegateProofs`

| Theorem | Statement |
|---|---|
| `CouncilTyped` | `CouncilSpec => []CouncilTypeOK` |
| `UnanimityIsReady` | `CouncilSpec => []UnanimousIsReady` |
| `ReceiptsJustifyExecution` | `CouncilSpec => []ExecutionJustified` |
| `OutcomeIsFinal` | `CouncilSpec => CouncilOutcomeFinal` |
| `DelegateTyped` | `DelegateSpec => []DelegateTypeOK` |
| `ReceiptsTellStory` | `DelegateSpec => []StoryOnChain` |
| `RewardOnce` | `DelegateSpec => RewardAssignedOnce` |

`RecordKeeps` and `ChargeKeeps` say what the counting append leaves in both outcomes.
`CoInv` needs, next to the shape, that every citation is on the chain (`CitedOnChain`),
that every opt-in is on it after its party's own citations (`OptInsOnChain`), which a
later citation must not disturb (`CitingGrows`), and that everybody had opted in when
the execution was written (`Executed`). `DInv` needs who is paid in which status and the
list of receipts each status stands for (`Story`).

### Exchange: `ExchangeProofs`

| Theorem | Statement |
|---|---|
| `ConsentGates` | `ExSpec => []ConsentGatesText` |
| `ReleaseWorks` | `ExSpec => []ReleasedOpens` |
| `RetryHonoured` | `ExSpec => []ExactRetryHonoured` |
| `ConsentIsFinal` | `ExSpec => ConsentFinal` |
| `TradeIsOneStory` | `ExSpec => []TradeStory` |

The inductive invariant `EInv` says where a held record comes from: it is about the
offer it is filed under, it verifies, and its decision and release are ones that were
signed (`HeldSound`); a signed release wraps the key of the offer it names
(`ReleasesSound`); offers verify and are filed under their own id (`OffersSound`).
`ReleasedOpens` needs `ReleasesSound`, because no verifier of a record looks inside the
wrapping: only that `WrapKey` tries the key before it signs makes a release work. A
presented value that nobody signed fails its verifier (`VerifiedIsSigned`,
`ReleaseIsSigned`). `NextSound` has one step per action; the actions that file a record
go through `FilingSound`, and for `ConsentFinal` through `FilingKeeps`.

`TradeStory` is about a thread of any length, and no induction along it is available. The
thread behind a message is therefore the least set of messages closed under "parent"
(`Thread`), and a fact about all of it is proved by exhibiting the set of messages it
holds of and showing that set closed (`ThreadWithin`). The second invariant `TInv` says of
every held answer that it is linked to a parent which its holder holds, which its author
could open and whose action admits the answer. `ThreadParties`, `ThreadEnds`,
`ThreadOrder` and `OneAcceptance` each name such a closed set.

### Workflow and sealing: `InductionProofs`

| Theorem | Statement |
|---|---|
| `PathsPrescribed` | `WSpec => []PathPrescribed` |
| `WalksSettle` | `WSpec => []WalkSettles` |
| `ValidatedTreesWalk` | `WSpec => []ValidatedTreeWalks` |
| `SealsVerify` | `SealSpec => []SealVerifies` |
| `BatchesBind` | `SealSpec => []BatchBinds` |

These hold for trees and lists of every size, so what a recursive function computes has
to be shown by induction. The library's induction theorems take an operator as a
parameter, which the provers cannot instantiate. `Inductive` states induction with a
*set* of numbers instead: it follows from the well-foundedness of `<` on the naturals
(`LeastNumber`), and a proof names the set of the numbers its claim holds of. A recursive
function is first shown to have a solution (`LayersDefined`, `TurnsDefined`), which TLC
takes for granted.

*Walk.* `WalkState` is the invariant of the loop after `k` turns. While it goes on, the
path has length `k`, repeats no node, meets every requirement, leaves each gate by its
first open child (`Trail`) and leads to `cur`; when it is done, `cur` ends the path and is
an action. `TurnKeeps` has a case for each return. A path without repetition is no longer
than there are nodes (`InjectiveShort`), so the loop has returned by the last turn and its
length bound is never what stops it (`WalkEnds`). Conversely, where a path is prescribed
that avoids the empty key the walk follows it (`PrescribedIsWalked`): induction along the path, then over the turns
after its end. No walk stands at the empty key (`WalkAvoids`), because the first open child
is unique (`FirstChildOne`) and a turn takes the empty key for none. A node is missed only when a child was filed under another ID
(`WalkFinds`). `FlowInv` ties this to the hosts: whichever node stayed under a shared ID,
an opened host holds a finite map with the root in it (`CleanedGood`), and an executed one
what the walk found, with its receipt.

*Search.* `SealInv` says of each worker that past its test it holds a solution, and of the
shared variables that `found` is one from the moment some worker is about to raise the
flag: another worker overwrites it with another solution only. No worker returns before
the flag is up, so a call that returns has a nonce to return, and what was rooted is
remembered while agreements move. `WorkerKeeps` has a case for each program counter.

*Roots.* The layers of a tree are a `Tower`: each is the `Pairs` of the one below, the last
is one node. Lists of one length under one root are the same list (`SameHeightSameBase`),
from the root down, since `Pairs` is injective on lists of one length (`PairsInjective`).
That is the settlement case. Receipt roots have no fixed length, and a list shares its root
with the one that repeats its last entries. Strictly increasing sequence numbers make
the leaves distinct (`RootableDistinct`), and then all nodes of a layer are; among distinct
nodes a pair of two equal nodes can only be the padding of an odd layer, so a layer tells
the length of the one below (`DistinctPairsInjective`). Two towers cut at their first
single node (`TowerCut`) therefore agree from the top down, and neither reaches its leaves
before the other because a leaf is no pair (`CutTowersAgree`). `ReceiptRootBinds` and
`SettleRootBinds` are the results; `FoldedBinds` is the one for folded agreements.

Two things about the model came out of these proofs. The turn of the walk had been a
`CASE` whose guards overlap, to which TLC gives the first branch and TLA+ no particular one: it is now a
chain in the order of the code's returns. And the limit of 4096 receipts, which bounds no
list TLC can enumerate, is now part of `CanRoot`.

### Only model-checked

Liveness under fairness (`CallsReturn`, `SearchReturns`) and everything with `ENABLED`
are out of the prover's reach. The three violated properties are shown by their
counterexamples. Every other property of a run is also a theorem.

## 5. Findings

1. `SetDeadline` is documented as "set or extend" (`agreement.go:205`), but it takes
   any deadline after now, also one earlier than the one in force.
2. `OpenWorkflow` accepts two nodes with one ID. Which of them stays depends on Go's
   map order, so two hosts may walk one "deterministic" tree differently.
3. The comment of `TestVerifyEmptyRoot` (`internal/l2/verify_test.go:185`) says that `Root`
   errors on an empty batch, "so nothing seals without barter behind it". `Root` of no
   agreements succeeds (its loop has nothing to refuse, `batch.go:60`), so `Seal` of an empty
   list returns a batch that `Verify` accepts; the test passes because its header carries
   a zero root.

Two more disagreements have no run of their own, because a property that holds already
says how far the comment is true:

* `Walk` promises the "First matching child in Next order whose Require facts are all true"
  (`workflow.go:97`), and keeps it in a string whose zero value means that none matched
  (`workflow.go:121`, `129`). `OpenWorkflow` refuses the empty string as the root (`51`) but
  accepts it as a key and as a child, so a matching child there ends in `ErrNoPath`.
  `WalkSettles` is the exact statement: a walk ends with an action if and only if a path is
  prescribed that avoids the node under the empty key.
* A deadline with a fraction of a second is enforced to the fraction and receipted to the
  second (`agreement.go:217`, `220`), so the field is not quite "derived" from the receipt as
  `agreement_test.go:172` says. `DeadlineOnLedger` is the exact statement: the last deadline
  receipt carries the deadline in force to the second.

## 6. Not modelled

Paillier arithmetic, hashes, signatures, AES-GCM, JSON and base64 are reduced to what
the code relies on. Wording, logging and printing are left out. `EncryptedLedger.Release`
has no caller on the settlement path. The range checks on big integers in
`RestorePrivate` are left out, and so is its refusal of an empty agreement ID and of more
than 128 steps, which `nex.New` never produces (the latter is assumed). In the store's
`restore` an entry is one value, so that its key, its operation ID and its result agree is
part of its shape; of the signature the signer is compared. The command line and the examples drive the packages
and keep no state of their own. The trade payload behind a commitment is validated by
the receiving agent alone and reaches no other check; of the two key suites of a
message only what they have in common is modelled, and the reserved third one is
refused by every verifier. `settle.Root` is modelled for receipt hashes in one
spelling and of one length, as the kernel writes them; upper and lower case hex of
one hash are one leaf in the code. Keccak is a permutation over 1600 bits taken from
another project.

## 7. Plan

Done, in this order: kernel and agreement with proofs, commands and contract with its
abstract lifecycle, store, metering with council, delegation and workflow, the message
exchange with trades, the sealing of batches, and the abstract log that the store
implements.

Proved, in this order: the kernel, the exchange, the contract and its refinement, the
store, the delegation, the council, the trades, the refinement of the store, the search
and the roots of sealed batches, the walk of a workflow, and what the aggregate of a
sealed agreement adds up to.

Further work would have to leave the abstractions of section 6: the arithmetic behind a
Paillier equality proof, and the trade payload behind a commitment.
