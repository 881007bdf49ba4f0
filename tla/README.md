# A formal model of the fresh-milk supply chain

This directory holds TLA+ modules that model the two chaincodes, the Fabric
channel they run on, the oracle that anchors sensor readings, the verification
of anchored readings, the regulator's archive of verdicts, the shopper's page
and the demo console; the TLC configurations that check them on small
instances; and proofs, checked by TLAPS, that hold for instances of any size.
Paths below are relative to the repository's root, which `PROJECT.json` calls
`src/`.

## 1. The system and its parts

Six companies (regulator, farm, processor, logistics, retailer, oracle) share a
Hyperledger Fabric channel. Each has a backend with its own Fabric identity.

| Part | Where | State it keeps | Operations that change it |
|---|---|---|---|
| Stakeholder chaincode | `fabric/chaincode/stakeholder` | identity records, a certificate index, a counter of active regulators, sensor keys | bootstrap, register, change role, suspend, reactivate; register, revoke, reactivate a key |
| Supply-chain chaincode, lifecycle | `fabric/chaincode/supplychain/src/contracts/BatchLifecycleContract.ts` | batch records and their key history | create, process, start transport, deliver, recall |
| Supply-chain chaincode, compliance | `.../TemperatureComplianceContract.ts` | evidence records, holds on batches | submit evidence, resolve a breach |
| Fabric channel | `docs/transaction-flow.md`, `fabric/network` | the world state, transactions in flight | endorse, order, validate, commit |
| Oracle | `services/oracle` | nothing of its own | verify, store, submit, read back, mark |
| Oracle's database | `services/storage` (`temperatureRepository.ts`, `initdb/01-oracle.sql`) | readings; evidence rows PENDING, ANCHORED or FAILED | saveEvidence, markAnchored, markFailed |
| Backend | `services/backend` | a file with the event checkpoint | forwards requests, each to one transaction or query |
| Event listener | `services/backend/src/events`, `fabric/gateway.ts` | its place in the stream | archive, check signatures, checkpoint |
| Verdict archive | `services/storage` (`verdictRepository.ts`, `initdb/02-regulator.sql`) | one row per evidence | recordVerdict, recordSignatureCheck |
| Sensor | `services/sensor` | a key pair | keygen, signing a file of readings |
| Evidence verification | `services/backend/src/services/evidenceVerification.ts`, `readingsSource.ts` | none | fetches readings and anchor, recomputes fingerprint, statistics, signatures |
| Consumer view | `services/backend/src/services/consumerView.ts`, `routes/public.ts` | none | two concurrent queries turned into one page |
| Demo server, tampering tool | `services/demo`, `storage/src/tamperEvidence.ts` | the oracle's database | run (honest, forged, with a false summary), tamper, follow the console's table, reset |
| Demo console, simulated | `apps/demo-console/src/SimApp.tsx` | batch, readings and a chain of blocks in the page | register, create, step, recall, clear, anchor, verify, edit |
| Demo console, live | `apps/demo-console/src/LiveApp.tsx` | what it last heard of backends and demo server | the same, as requests |
| Seeding | `docker/bootstrap/seed.sh` | none | bootstrap and register everybody, once |
| Network scripts, start script | `fabric/milk-network`, `fabric/network`, `backend/src/dev` | processes and files | outside the models |

How they interact: every supply-chain method first asks the registry, by a
chaincode-to-chaincode call in the same transaction, whether its caller is
active in the right role. The oracle posts to its backend, whose Fabric gateway
endorses, submits and waits for the commit, each with a deadline. A committed
submission emits one event, TemperatureEvidenceSubmitted or ColdChainBreach,
which the regulator's listener archives before it moves its checkpoint; the
signature check fetches the readings from the oracle's backend over HTTP. Any
company's backend can verify evidence: it fetches the readings (from its own
database, or from the oracle's backend) and the anchor (from the ledger) at once,
and the sensor's key after them. The demo server is a second writer of the
oracle's database and a second submitter. The console's live mode is a client of
all of these, one awaited request after the other.

What is hard in it: transactions are simulated on one state of the ledger and
committed on another; the answer to a submission may be lost although it
commits; readings and ledger are two stores without a common transaction; the
listener may stop between any two of its steps; authority can be withdrawn while
a transaction is in flight; a hold interrupts a batch at any stage and further
breaches arrive during it; a verification compares values read at different
moments from stores that others write; a page is made of answers to requests
that overtake each other. `PROJECT.json` lists each hazard at its line.

What makes the parts correct:

* registry: the index and the records agree, the counter is exact, somebody can
  always administer it, every identity goes back to the first one, nothing
  recorded is ever lost or replaced;
* batches: custody goes hand to hand in order, a hold returns to the stage it
  took the batch from, every unsafe verdict shows in the history;
* channel: what commits is what one atomic method would do on the ledger it
  commits on, with the authority its author has there;
* oracle: the database claims ANCHORED only what the ledger holds, the ledger
  holds only what the database can produce the readings for, no run hangs,
  retries recover lost answers;
* archive: no verdict is passed over, none is lost for good;
* verification: a clean result means values a sensor measured and an outcome
  that is theirs; an alarm means that somebody changed something;
* shopper's page: no breach is hidden, and what it says was so while it was made;
* console: the fingerprint is that of the table shown, what the feed shows of
  batches and evidence is on the ledger (what it shows of registrations need not
  be, section 6), the simulated chain tells what was done and what was edited.

## 2. The modules

| Module | Models | Notes |
|---|---|---|
| `StakeholderRegistry` | the registry contract | one action per transaction, atomic |
| `SupplyChain` | both contracts of the supply-chain chaincode over an instance of `StakeholderRegistry` | one action per transaction, atomic; the abstract specification of the channel |
| `FabricLedger` | the same transactions as Fabric executes them: simulated, ordered later, validated | refines `SupplyChain`, whose helpers it uses through an instance |
| `OracleSubmission` | oracle runs, the submission's path through backend and Fabric, the oracle's rows | Fabric is reduced to one look at the ledger at commit, which `FabricLedger` justifies |
| `VerdictArchive` | the regulator's listener, its archive and its checkpoint | |
| `Custody` | what the supply-chain chaincode promises about a batch, without records, identities or evidence | `SupplyChain` implements it (`ImplementsCustody`) |
| `ConsumerView` | the public page, beside `SupplyChain` | extends it: transactions commit between the page's queries |
| `ReadingSets` | fingerprint, statistics, outcome, signatures and completeness of a run of readings | operators only |
| `EvidenceChecks` | sensor, oracle run, demo server, tampering and verification over one database and one ledger | extends `ReadingSets` |
| `SimConsole`, `LiveConsole` | the two modes of the demo console | |
| `DemoConsole` | the console's entry point, which is one or the other | extends both |
| `StakeholderRegistryProofs`, `SupplyChainProofs`, `ConsumerViewProofs`, `FabricLedgerProofs`, `OracleSubmissionProofs`, `VerdictArchiveProofs`, `EvidenceChecksProofs`, `DemoConsoleProofs` | | the theorems about the module they are named after (section 4) |
| `MC...` | instances of these for TLC | |

**State and code.** In `StakeholderRegistry` and `SupplyChain`, a variable is a
key prefix of the world state (`stakeholders`, `certificates`, `sensorKeys`,
`batches`, `evidence`) or a single key (`initialised`,
`activeRegulatorCount`). `history` is what `getHistoryForKey` returns for a
batch. A method that throws writes nothing, so it is an action that is not
enabled; the conjuncts follow the order of the method's checks. Time stamps,
transaction ids, reasons and places are stored and shown, never decided on, and
left out. Argument parsing is represented by the sets it accepts (`Roles`,
`PublicKeys`, `Hashes`, `Statistics`): an argument it refuses is a transaction
that does not happen.

`FabricLedger` gives each method its read set and its write set, with the keys
the code reads and writes. A transaction in flight is `stale` once a key it read
has been written, which is Fabric's comparison of key versions. `Commit` requires
that it is not. Endorsement is one agreed simulation: peers that disagree yield
no transaction, and a peer that lags is a transaction that waits longer.

`OracleSubmission` follows one call after the other of `runOracle`,
`anchorEvidence` and `oracleClient.ts`. `txs` are submissions, which live on when
their run gives up or dies. `Deadline` ends the wait for a submission that is
lost; `AnswerLost` is the deadline that passes too early, a broken connection or
a lost 201, and the run cannot tell which. Two runs may work on the same
readings, as when somebody retries before the first has ended.

`VerdictArchive` follows `consumeComplianceEvents`. `at` is where the listener is
with one event; everything but `archive` and `checkpoint` is forgotten by a stop.

`Custody` has two variables. `SupplyChain` maps a batch's record to its stage with
`StageOf` (the remembered stage during a hold) and its holds with `OnHold`; a
second breach during a hold, evidence without a breach and everything the registry
does are stutters.

`ConsumerView` has one variable beside the ledger, `page`: the request and what
each query returned. The code turns both answers into a page without waiting
again, so the page is an operator, `ShownColdChain`. A host that is suspended
while a request runs fails both queries, as the contract's caller check does.

In `ReadingSets` temperatures are integers in ten-thousandths of a degree, one
digit more than the code keeps, so that rounding is real: `RoundCelsius` is
`roundCelsius`, `Column` the `NUMERIC(6,3)` column. A fingerprint is the bag of
what is hashed, a signature the pair of key and payload: both are equal exactly
when what they cover is. In `EvidenceChecks`, `rows` and `stored` are the two
tables of the oracle's database, `evidence` and `sensorKey` the ledger, `run` what
the oracle and the demo server are doing, `check` a verification with what it
has fetched so far. `past` records what happened, for the properties only. The
recovery of an oracle run is reduced to its outcomes (`Unanswered`);
`OracleSubmission` has its steps.

`SimConsole` follows `SimApp.tsx` click by click; React state is the state, and
`deriveChain` is `Valid`. `LiveConsole` splits each handler of `LiveApp.tsx` at
its awaits: a task in a slot knows the batch, table and evidence of the moment its
button was pressed (the closure of the handler), and every answer may be missing.
A run whose answer is missing may have got as far as storing or anchoring
(`BrokenOffRun`) before the page submits the evidence itself; that it goes on while
the page does is left out.
The backends are seen from the page: a batch is the number of its events,
evidence the readings its fingerprint covers. Joining companies are the regulator
and one other, since the page treats the others and the sensors alike. `effect`
and `outdated` are the React effect that computes the fingerprint: its timer, its
request, and requests of effects that were disposed of.

## 3. The runs

| Run | Instance | Checks |
|---|---|---|
| `stakeholder_registry` | 3 ids, 3 certificates of which 2 are the regulator's, 2 roles, 1 sensor with 2 keys; 58,859 states | `IndexConsistent`, `CountMatches`, `NoLockout`, `VouchedFor`, `RecordsPersist`, `EditorWasRegulator` |
| `supply_chain` | the seeded consortium, 2 batches, 3 pieces of evidence, one page request at a time hosted by the retailer; 188,800 states | `HoldRemembersStage`, `CustodyInOrder`, `UnsafeEvidenceOnRecord`, `ColdChainInferred`, `PageHidesNothing`, `PageWasTrue`, `ImplementsCustody` |
| `evidence_checks` | 1 of 2 sensors in use, 2 key pairs, runs of 2 readings on the limits of the safe range, files of up to 2 rows, 2 programs; 1,610,123 states | `CleanMeansMeasured`, `AlarmsAreReal`, `OracleTakesMeasured`, `OutcomesAgree` |
| `demo_console` | both modes; 2 readings, 2 batch ids, two or three buttons pressed in live mode beside the page's own loading; 1,593,356 states | `EditsBreakLaterBlocks`, `ChainTellsState`, `CleanIsMeasured`, `FingerprintFollowsTable`, `FeedOnLedger` |
| `fabric_registry` | 2 identities, 2 transactions in flight, from an empty ledger; 24,229 states | `NoLockout`, `ImplementsSupplyChain` |
| `fabric_chain` | 5 identities of which 2 are regulators, 1 batch, 2 pieces of evidence, 2 transactions in flight; 120,034 states | `EveryCommitSerial`, `AuthorityAtCommit`, `EvidenceFinal` |
| `oracle_submission` | 2 runs, 2 reading sets, 1 failure; 309,130 states | `AnchoredRowsOnLedger`, `ReadingsBehindEveryAnchor` |
| `oracle_liveness` | 2 runs, 1 reading set, 2 failures; 151,912 states | `RunsEnd`, `Reconciled` |
| `verdict_archive` | 3 events, 3 pieces of evidence, 2 failures; 195,224 states | `NoGap`, `ArchivedInLedgerOrder`, `EveryVerdictArchived` |
| `supply_chain_doc`, `oracle_doc`, `verdict_doc` | as above | one sentence of the repository each, which the code does not keep (section 6) |

Each component has a type invariant `TypeOK` in one of its runs, and every
property has a mutated definition in its module, commented "Defect", that breaks
it: the property can fail, and it fails for the bug it is meant to catch.

**Bounds and why they are enough.**

* Registry: lockout needs two regulators and someone else; index conflicts need
  an id and a certificate already taken, and a free one of each. The state space
  is finite without a bound on steps, so every sequence of transactions is
  covered, of any length. In `NoLockout`'s mutant, two regulators suffice.
* Supply chain: histories end by themselves, since each piece of evidence is
  anchored once, each resolution needs a breach and each custody step is taken
  once. Three pieces of evidence allow a hold within a hold and a second hold at
  a later stage. `Statistics` holds one pair on the bounds and one beyond them.
  The administration of the registry is reduced to suspending and reactivating
  the retailer, who acts last and hosts the page; the registry's own run covers
  the rest. One batch goes through everything, the other is created, checked and
  held beside it. A page has two queries and keeps nothing, so one request at a
  time, begun at any moment, shows every way they can be torn apart.
* Fabric: a conflict is between two transactions, so two are in flight. The two
  runs divide the methods by `Workload`: all registry methods, and then those of
  the chain that race most (start of transport and delivery behave as
  `recordProcessingEvent`, with other names; `TransitionOk` and `Transition` are
  common to the three, and `supply_chain` runs all three). In `fabric_chain` one
  regulator suspends three of the others, to bound the number of states.
* Oracle: races are between two runs on the same row or on rows of the same
  batch. `Transactions` has one id more than can be live at once; ids that came
  to nothing are used again, which changes no outcome and closes the state
  space. Liveness is checked with two failures, so that a retry can fail too.
* Evidence: `Allowances` gives what may happen in a behaviour: both programs once,
  or one of them with one edit (or reset) and one switch of the key; the key pair
  may be replaced once in each. A wrong verdict needs one writer and one change
  between the fetches of a check, or two writers of one row. The temperatures are
  -0.0004, 5.0004, 5.0006 and the 3.2 degrees that tampering writes: safe by
  rounding, safe by rounding, a breach by rounding. A file for the oracle is put
  together of up to `FileRows` signed rows of any runs and either key pair, in the
  order of their times (`Assemblies`), and then has at most one value changed or one
  row given to another sensor (`Deliveries`). With two rows that is a whole run, one
  that lost its first or its last row, one with a row doubled, and one with rows of
  two runs. All runs of the model measure at the same times, the place of a reading
  in its run standing for its time of day, so that rows of runs with different times
  are not put together.
* Console: `Clicks` and `Presses` bound, by kind, the clicks whose effects add up
  (blocks, edits) and leave the others free; `Lies` are a summary that hides a
  breach and one that invents it. In live mode two or three buttons of any two
  kinds that meet, with two tasks at once: an overtaking takes two. The sets of
  tables are the two presets, the tampered one and one edited by hand.
* Archive: events before, at and after the one where the listener stops, and a
  stop during the replay.

**Fairness.** The safety runs assume none, except `verdict_archive`, which has a
liveness property as well.

* `Liveliness` in `OracleSubmission`: the peers and the orderer decide what is
  submitted (unless it is lost), and a run that lives goes on. The code justifies
  the second: each await is a call to Fabric with a deadline
  (`fabric/gateway.ts:99-106`) or to the database; `Deadline` is a step of the
  run, and without it `RunsEnd` fails.
* `Retried` is an assumption about people, and named as one: nothing in the
  repository starts a run again. `Reconciled` says what retrying achieves. It is
  strong fairness because a retry is impossible while both processes are busy.
* `WF(Listener)`: the `for await` loop goes on while the process lives.
  `WF(Restart)` is an assumption about operation as well: the code stops the
  listener on an error and asks for a restart in its message
  (`complianceEvents.ts:69`); `compose.yaml` restarts a process that ends, not
  a listener that stops inside one.

The runs of the page, the checks and the console state no liveness: a request that
is never answered, a user who never clicks, are allowed.

No fairness is put on failures, on the oracle's return, or on anybody's request.

## 4. What is proved

Every invariant and every safety property of an action that a passing run checks
is also a theorem, for every value of the constants that the modules' assumptions
admit, and so are the two refinements. Sets of identities, batches, evidence,
slots, runs and tasks are arbitrary, finite or not, and so are the bounds on
clicks, failures and events. Each proof has the same shape: an inductive
invariant `IInv` (`ViewInv`, `ConsoleInv`), a lemma for the initial states, one
lemma or step for each action, and the theorems as its consequences.

### The registry: `StakeholderRegistryProofs`

| Theorem | Property |
|---|---|
| `TypeCorrect` | `TypeOK` |
| `IndexIsConsistent` | `IndexConsistent` |
| `CounterIsExact` | `CountMatches` |
| `NeverLockedOut` | `NoLockout` |
| `AllVouchedFor` | `VouchedFor` |
| `RecordsNeverReplaced` | `RecordsPersist` |
| `EditsAreAuthorised` | `EditorWasRegulator` |

Assumptions: `RolesAssumption` (REGULATOR is a role), `CertificatesAssumption`
(RegulatorMSP's certificates are certificates), `AbsentAssumption` (a free key is
distinguishable from a record).

The inductive invariant is `IInv == TypeOK /\ IndexConsistent /\ CountInv`.
`CountMatches` alone is not inductive: `Cardinality` says nothing of an infinite
set, so `CountInv` adds that the set of active regulators is finite (each
transaction changes it by at most one member); and the bootstrap writes 1, which
is right only if no record exists before it, so `CountInv` adds that a registry
that is not initialised is empty. The latter is itself inductive only because any
caller other than the bootstrap's is found through the index
(`CallerMeansInitialised`), which needs `IndexConsistent`. `NoLockout` is then a
consequence: the guard keeps the counter at one or more, the counter is the
cardinality, a set of that cardinality has a member, and the index leads to it
from its certificate. `VouchedFor` speaks of chains of creators without recursion
(every set that contains the creators of its members contains the root); it
is kept because a new identity's creator is registered already and because edits
leave certificates and creators alone (`VouchInv`). The two action properties
need the type invariant only, one step of the proof for each transaction.

### The two contracts: `SupplyChainProofs`

| Theorem | Property |
|---|---|
| `TypeCorrect` | `TypeOK` |
| `HoldsRememberTheirStage` | `HoldRemembersStage` |
| `CustodyAlwaysInOrder` | `CustodyInOrder` |
| `UnsafeVerdictsOnRecord` | `UnsafeEvidenceOnRecord` |
| `ImplementsRegistry` | the registry's specification, `Registry!Spec` |
| `CustodyImplemented` | the abstract chain of custody, `Custody!Spec` (`ImplementsCustody`) |

Assumptions: `RegistryAssumption` (the registry's own, restated because INSTANCE
does not carry them), `StatisticsAssumption` (not used by these proofs) and
`ChainAbsentAssumption` (a free key is neither a record nor a status).

The argument goes through one lemma, `BatchStep`: whatever transaction runs, a
batch is left alone, or it gets one record that is appended to its history and
`Follows` its present record as a creation, a custody step, a recall, a hold or a
resolution. The inductive invariant is `TypeOK /\ HoldRemembersStage /\
HistoryCurrent /\ CustodyInOrder`. `HistoryCurrent` (the last entry of a history
is the present record) connects the guards, which read the present record, with
the property, which reads the history; `HoldRemembersStage` is needed because a
resolution is a legal successor only if the stage it returns to is the one the
hold came from, and the contract's fallback to transport is never taken.
`UnsafeEvidenceOnRecord` compares two cardinalities, so `RecordInv` adds that the
unsafe evidence of a batch is finite; a step either leaves both counts alone or
adds one to each (`QuietOrVerdict`). `CustodyImplemented` is the refinement: with
`HoldRemembersStage`, each successor that `Follows` a record maps to a hand-over, a
hold, its lifting, a recall, or nothing at all, and the stage a resolution writes
is the stage the mapping showed all along. The type invariant of the registry is
carried over from `StakeholderRegistryProofs` by showing that its step relation
and that of the instance are the same.

### The channel: `FabricLedgerProofs`

| Theorem | Property |
|---|---|
| `LedgerTyped` | the type invariant of `SupplyChain`, on the channel's ledger |
| `ChannelImplementsSupplyChain` | `ImplementsSupplyChain` |
| `CommitsAreSerial` | `EveryCommitSerial` |
| `NeverLockedOut` | `NoLockout` |
| `EvidenceIsFinal` | `EvidenceFinal` |
| `AuthorityHoldsAtCommit` | `AuthorityAtCommit` |

Assumption: `ChainAssumption`, which restates what the two contracts assume.

This is the refinement that justifies modelling the contracts as atomic. The
inductive invariant is `Chain!TypeOK /\ PendingOK`: a transaction in flight that is
not outdated is `Fresh`, that is, simulating its call on the present ledger would
pass the same checks and give the same reads and writes. A commit of another
transaction either writes a key that this one read, and it is outdated from then
on, or it leaves all of them alone; then every condition of the simulation has its
old value, method by method. This is where the read sets must be complete: a
method that decided on a key without reading it (`CountRead_Cached`,
`BatchResult_BlindWrite`) would break the step. Committing a fresh transaction is
the atomic action of `SupplyChain`. With the refinement, the contracts' theorems
hold on the channel: `NeverLockedOut` here is the registry's, carried over;
`EvidenceIsFinal` and `AuthorityHoldsAtCommit` are proved of `SupplyChain`'s steps.

### The oracle: `OracleSubmissionProofs`

| Theorem | Property |
|---|---|
| `TypeCorrect` | `TypeOK` |
| `AnchoredMeansOnLedger` | `AnchoredRowsOnLedger` |
| `EveryAnchorHasItsReadings` | `ReadingsBehindEveryAnchor` |

Assumptions: `EvidenceIdAssumption`, `TransactionsAssumption`, `FaultsAssumption`,
`AbsentAssumption`. The last two theorems have the hypothesis
`EvidenceIdsDistinct` in their statement: two reading sets of the batch have
different ids. The code cuts the hash to 32 bits (`runOracle.ts:84`), so this is
not a fact about the code, and no module assumes it; what happens when it fails is
a listed hazard.

The row is what ties run, submission and ledger together: it is written before
anything is submitted and never removed. The invariant says so at each place: a
run past its save has its row (`RunsOK`), so has every submission, also of a run
that died (`SubmissionsStored`), and every anchor (`AnchorsStored`). A run waits to
mark a row ANCHORED only with the transaction that is on the ledger.

### The archive: `VerdictArchiveProofs`

| Theorem | Property |
|---|---|
| `TypeCorrect` | `TypeOK` |
| `ArchiveHasNoGap` | `NoGap` |
| `ArchiveInLedgerOrder` | `ArchivedInLedgerOrder` |

Assumptions: `EventsAssumption` (the bounds are numbers), `AbsentAssumption`.

`NoGap` is not inductive: that the checkpoint may move needs the event it moves
past to be archived. `PlaceOK` says this of each place the listener can be at, and
`RowsFromLog` that a row is that of its own event, so that a replay rewrites the row
it finds. `EventsOnce` (evidence has one event) is what the ledger guarantees.

### The shopper's page: `ConsumerViewProofs`

| Theorem | Property |
|---|---|
| `InferenceIsRight` | `ColdChainInferred` |
| `PageNeverHides` | `PageHidesNothing` |
| `PageTellsAMoment` | `PageWasTrue` |

Assumptions: those of `SupplyChain`.

`ViewInv` extends the invariants of `SupplyChainProofs` by two. `HistoriesGood` adds
to the order of custody that a recall keeps the stage it found, from which
`coldChainStatus` tells a recall out of a hold from one after it; what it infers
is then right for every good history. `PageInv` says that the record a page has
received is an entry of the history not older than the request, and the history
it has received an earlier part of the present one, not shorter than at the
request. The theorems compare the two, whichever was answered first.

### Evidence: `EvidenceChecksProofs`

| Theorem | Property |
|---|---|
| `TypeCorrect` | `TypeOK` |
| `CleanIsMeasured` | `CleanMeansMeasured` |
| `NoFalseAlarm` | `AlarmsAreReal` |
| `OracleReadsMeasured` | `OracleTakesMeasured` |
| `OneOutcome` | `OutcomesAgree` |

Assumptions: `AllowancesAssumption`, `FileRowsAssumption` (the bound is a number),
`TablesAssumption` (a sensor measures at least one integer), `AbsentAssumption`.

Three kinds of facts carry the proof. Readings keep places and signatures from the
sensor to the database, whatever happens to their values (`IsFile`); readings under
an id nobody edited still have that fingerprint, and the summary on the ledger is
theirs unless it was a lie (`IsSound`, `IsTrueAnchor`); and what a check has read is as
good as what it read, since `past` only grows. `RunOK`, `StoredOK`, `AnchorOK` and
`CheckOK` say this of each place a value can be in. That a clean check means
measured values follows from the signatures alone; that its outcome is theirs,
from the statistics. `OracleReadsMeasured` is about a file put together of any rows:
numbers from 1 to N, none twice and none left out, and times that do not decrease put
each row in its place (`InOrder`, by the least place that is wrong), and a good
signature makes its value that of the run it was signed in. More is not true: the
rows need not be of one run (section 6).

The proof attempt corrected the model: `applyReadings` joins the table with the
stored readings by time of day (`services/demo/src/demoServer.ts:363`), and so leaves a reading alone
that the table does not have, where the model had taken the table to be as long
as the stored run.

### The console: `DemoConsoleProofs`

| Theorem | Property |
|---|---|
| `TypeCorrect` | `TypeOK` |
| `EditsShow` | `EditsBreakLaterBlocks` |
| `ChainIsComplete` | `ChainTellsState` |
| `CleanReadings` | `CleanIsMeasured` |
| `FingerprintFresh` | `FingerprintFollowsTable` |
| `FeedIsOnLedger` | `FeedOnLedger` |

Assumptions: `ClicksAssumption`, `PressesAssumption`, `CellsAssumption` and
`LiesAssumption` (edited cells and typed summaries hold integers), `FirstBatchAssumption` (the batch of a used network is a batch).

The simulation's invariant is `SimInv`: each block was committed on the one before
it (`Chained`) and the blocks tell the state (`TellsAll`). That a block reads as valid
exactly when no text up to it differs is an induction along the chain. It is done
without an induction schema: the set of places that are wrong, if not empty, has a
least member (`LeastMember`, from the well-foundedness of the naturals), and the
place before that one gives the contradiction; the same shows that the recursive
function of derived hashes exists (`HashesExist`), without which nothing could be
said of its values. The live page's invariant is `LiveInv`: what a task has in hand
`Fits` what it waits for, whatever became of the page meanwhile, and the ledger only
grows, so that what an answer found there is still there when it is shown.

### From the ledger the runs start on

| Theorem | Says, of a seeded ledger |
|---|---|
| `SupplyChainProofs!SeededLedgerIsGood` | it satisfies `Good`, all inductive invariants of both contracts |
| `SupplyChainProofs!SeededSystemStaysGood` | the invariants of the contracts and of their registry always hold |
| `FabricLedgerProofs!SeededChannelKeepsItsPromises` | `EveryCommitSerial`, `EvidenceFinal`, `AuthorityAtCommit`, `NoLockout` |
| `ConsumerViewProofs!SeededPageTellsTheTruth` | `ColdChainInferred`, `PageHidesNothing`, `PageWasTrue` |

The theorems above start from an empty ledger, as the contracts' specifications
do, while the runs of the contracts, the channel and the page start from
`SeededInit`, the ledger `seed.sh` leaves. These theorems close the gap. They have
one hypothesis, `Consortium`, which says what `seed.sh` registers: finitely many
companies, no two with the same certificate, one of them the regulator who
registers the others, and a public key for each sensor. The consortium of the
configurations is an instance of it (TLC evaluates it to true). `Good` is the
conjunction of `IInv` and `RecordInv` with the registry's `IInv` and `VouchInv`:
unlike in the specifications that start empty, the registry's invariants have to be
established for the seeded records directly, the exact counter and the chain of
vouchers among them. `SameCounting` is needed because a definition reached through
two INSTANCEs is two operators to the provers.

### What TLC confirms of the proofs

TLC evaluates every assumption in the runs of its module. The inductive invariants
of the channel, the oracle, the archive, the page and the evidence, and `SimInv` and
`TasksFit` of the console, hold as invariants of the instances of section 3 as well
(a module that extends the `MC` module and the proof module, with the same
configuration); the console's `Typed` compares values of different kinds and is
beyond TLC's evaluation.

## 5. What is only model-checked, and what cannot be proved here

* Liveness under fairness (`RunsEnd`, `Reconciled`, `EveryVerdictArchived`), as TLAPS
  has no support for the arguments about ENABLED they need.
* The three violations of section 6: counterexamples, found by TLC.
* That the state spaces of the instances are what section 3 says, that no run
  deadlocks, and that every action can happen: a theorem says nothing of this.
* What depends on the model and not on the theorems: the ids of evidence are
  distinct in `EvidenceChecks` (an id is a fingerprint there), digests and
  signatures are ideal, and endorsement is one agreed simulation.

## 6. Where the code and its words disagree

* `supply_chain_doc`: `models/Batch.ts:29-31` says the remembered stage is absent
  unless a breach is open. Recalling a batch on hold keeps it.
* `oracle_doc`: `runOracle.ts:147` (and `temperatureRepository.ts:40`) says that a
  row is marked FAILED only when no committed record exists. The look at the
  ledger and the update are separate, and the update ignores the row's status: a
  submission that commits in between leaves a FAILED row for evidence on the
  ledger. A later retry repairs it (`Reconciled`).
* `verdict_doc`: `verdictRepository.ts:22` and `:75` say that a replay reproduces
  the archive and that its writes are idempotent. A replay repeats the signature
  check, and an oracle that does not answer at that moment turns a completed check
  into UNKNOWN.

Two more sentences that the code does not keep, each seen in one action of a model
and without a run of its own:

* `verifyReadings.ts:26` says that one sensor produced a complete, ordered run. The
  signed payload (`sensorSignature.ts:43-49`) names no run, and nothing on the ledger
  says how long a run is: a file with the first row of one run and the second of
  another verifies, and so does a run without its last rows. `OracleRun` does both.
  What remains true is `OracleTakesMeasured`: one reading for each number, each as
  the sensor measured it at that time.
* `LiveApp.tsx:283-284` says that accepted registrations are kept for the feed, and
  the feed says of each (`:1494-1495`) that it was logged when the ledger accepted
  it. "Register all" (`:546-592`) ignores the answers and shows everyone as
  registered, also those that were refused (`RegisteredAll`); one by one, only
  accepted ones are added. `FeedOnLedger` is therefore about the rows of batches and
  evidence and leaves those of registrations out.

Noted as well, because no sentence of the repository is contradicted, or because
the sentence is about something the models leave out:

* `docs/transaction-flow.md:118` and `fabric/network/src/config.ts:61` describe
  different endorsement policies for the stakeholder chaincode;
  `complianceEvents.ts:103` says a check can be repeated later, and nothing does;
  `temperatureRepository.ts:69-70` says that readings are not replaced once
  anchored, which depends on the row's status, which a late `markFailed` resets.
* The shopper's page may say UNRESOLVED_BREACH of a batch whose hold is being
  lifted at that moment (record from after, history from before); `PageWasTrue`
  states exactly this exception.
* A demo run that gets no answer leaves a PENDING row for evidence that may be on
  the ledger; a later oracle run of the same readings repairs it, the demo server
  never does. `seed.sh:36` takes a registered regulator as the sign that everybody
  is, so a seeding that stopped after the bootstrap is not continued.
* Halfway cases of rounding (`toFixed` against `NUMERIC(6,3)`) depend on binary
  floats; the temperatures in play avoid them.
* Live console, all of them behaviours of `LiveConsole`: a refresh that was under
  way when a new batch was opened fills the page with the old one
  (`LiveApp.tsx:403`), and so does a verification; evidence of the old batch may
  stay selected, and later edits of the table then go to its rows; a change of
  preset after anchoring changes the table and not the database; `/demo/reset` is
  not awaited and may empty the database after the next anchoring (`:921`).
* Simulated console: a flagged batch can be processed and transported, and the
  flag of a recalled one cleared; the contract refuses both.

## 7. The plan

Done: registry, batches and their abstract chain of custody, the channel's
optimistic execution, the oracle's two stores, the archive, the verification of
evidence, the shopper's page, the console; theorems for every safety property of
theirs that a run checks. To come, in order:

1. `Seeding`: an interrupted `seed.sh` and its early exit over
   `StakeholderRegistry`.
2. The endorsement policies: which organisations' peers must agree, extending
   `FabricLedger`.
3. The oracle's commit as a step of `FabricLedger`: that `OracleSubmission`'s ledger
   implements the evidence part of `SupplyChain`, which is so far an argument in words.

Not modelled, and not planned: the parsing of CSV files and of requests, the
conversion of errors to HTTP answers, digests and signature schemes themselves
(taken as ideal), TLS, wallets, containers and process management, the page's
milestones and all presentation, and the network scripts, which start, stop and
deploy a Fabric test network and keep nothing a model could hold them to. The
evidence id's truncation to 8 hexadecimal digits is taken to cause no collision
among the readings in play.

## 8. Running it

    tlc -workers 2 -config MCConsumerView.cfg MCConsumerView.tla
    tlapm FabricLedgerProofs.tla

Each of the eight proof modules is checked by `tlapm`, from nothing in at most a few
minutes.

`PROJECT.json` lists the module and configuration of every run, the mutated
definition of every property, and the source lines each definition stands for.
