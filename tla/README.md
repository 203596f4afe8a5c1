# TLA+ specifications of kube-sre

kube-sre is an SRE agent for Kubernetes: it watches a cluster, answers questions
in chat, proposes fixes that a human approves, and on its own investigates what
its detectors find. This directory holds specifications of the parts whose
correctness rests on order and failure: who may act, what a human approved, what
is seen of the cluster, and what the records of all that are worth. They are read
beside the code; every definition names in `PROJECT.json` ("map") the lines it
stands for.

Contents: [inventory](#inventory) · [modules](#modules-and-how-they-correspond-to-the-code)
· [runs](#runs) · [bounds](#bounds) · [fairness](#fairness) · [proofs](#proofs)
· [divergences](#known-divergences) · [not modelled](#what-is-not-modelled)

## Inventory

| part | state it keeps | operations | how it is used |
|---|---|---|---|
| flight recorder (`recorder/`) | queue of 10000, cached chain heads, pending losses, counters; tables `decision_log`, `decision_log_head` | `Record`, the `drain` goroutine (`flush`, `build`, `chainState`, `insert`), `Close`, connect and retry | every event emitter and the detector engine call `Record`; replay, postmortem and export read the tables |
| chain maintenance (`chainops/`, `api/memory.go`, `recorder/truncation.go`) | `chain_truncation`, archive files | `BuildExport`, `VerifyExport`, `TruncateChain`, replay | works on the recorder's tables while it appends |
| leader election (`store/leader.go`) | one connection, the advisory lock, `leader` | `Start`, poll (`tryAcquire`, `stillHeld`), `Stop` | callbacks start and stop the singleton workers |
| singleton workers (`app/app.go`, `perception/`) | `stopWorkers`, the engine, the watcher, the recorded reason | `runSingletons`, `stopSingletons`, `Service.Start/Stop` | driven by the election, feed the watchtower |
| agent turn (`agent/`) | the saved session (messages, pending call, role), the loop, its round and step budgets | `RunTurn`, the coordinator loop, `resolvePending`, save and load | called by chat and the watchtower |
| event stream (`events/`, `api/chat.go`) | per session: queue, wake-up token, history | `Prepare`, `Emit`, `Close`, `Stream`; the SSE handler | one handler, turn and stream goroutine per request |
| sensorium (`sensorium/`) | a watch stream per resource and namespace, drop-oldest queue, stream health | connect, list, `read`, `enqueue`, back-off | feeds the engine through one consumer |
| detector engine (`detect/`) | detectors, armed and fired keys, findings | `Process`, `Tick`, the metric sweep, refresh | fed by the sensorium, calls the watchtower |
| detector store (`detectstore/`, `detect/shape.go`) | rows of authored and learned detectors | author, stage, propose, `Promote`, `Demote`, `Load` | people and consolidation write it, the engine's refresh reads it |
| watchtower and ladder (`autonomy/`, `app/trust.go`, `app/recheck.go`, `memory/prospective.go`) | cooldowns, investigation slots, `promotion_outcomes`, `prospective_memory` | `OnFinding`, the decision on a fix, `recordAsync`, `ScheduleRecheck`, `RunProspectiveOnce`, pruning | called by the detector engine, calls the agent |
| kubectl tool (`kube/`, `nsguard`) | rollback points | `Plan`, approval, capture, run, filter | tool of the agent, under every verb of `aci/` |
| guarded verbs (`aci/`) | none | read verbs, `PlanMutation`, `ExecuteTransactional`, sandbox, fix as a pull request | clients of the kubectl tool |
| memory audit (`memory/security.go`) | `memory_audit`, its head, the cached head of each replica | append, `VerifyChainOnce` | every memory write appends |
| memory graph (`memory/kg.go` and its queue) | entities, edges with validity, the observation queue | ingest, stale pass, write-back | fed by the sensorium, read by turns |
| memory learning (`memory/`) | outcomes, failure patterns, episodes, rules, preferences, themes | write-back of a turn, the consolidation passes, a person's word | read by turns as context |
| public demo (`api/public.go`, `chat.go`) | spend of the day, slots, hourly windows | admit, refuse, charge, give back | in front of chat for callers without a key |
| front door (`api/ratelimit.go`, `auth.go`, `server.go`, `audit/`) | token buckets, sessions, lockouts, the audit log | limit, authenticate, check, record | in front of every handler |

What makes each of them correct, and what is hard about it:

- **Recorder.** A chain that nobody tampered with verifies; an event is written,
  declared lost where it was lost, or still carried. Hard: a queue refusal lands
  in the middle of a flush, a commit may be durable though it returned an error,
  rows and anchor are separate writes, a crash falls between any two of them, and
  replicas cache heads of a chain that others append to.
- **Chain maintenance.** No housekeeping reads as tampering, and no loss of
  anchored rows reads as housekeeping. Hard: reads of rows and anchor are not one
  transaction, archives are stale by the time they justify a truncation.
- **Election and workers.** No two connected leaders; a standby does not observe;
  a process never runs two engines. Hard: a cut connection is noticed by the two
  ends at different times; `Start` is asynchronous and races `Stop`.
- **Agent turn.** No write without its licence; the approval runs what was shown,
  once. Hard: requests of a session are not serialised and the state is saved
  only at the end of a turn.
- **Event stream.** In-order delivery of the own turn, no lost wake-up, every
  request returns. Hard: a shared queue, one token, and clients that go away.
- **Perception.** What failed on a connected stream is reported; only what a person
  promoted acts; a detector leaves the engine only by what a read said, or by a read
  that broke off. Hard: four goroutines over one engine, a queue that sheds, re-lists
  after a lost connection, a refresh that swaps the detectors under the sweep, and
  detectors of one name that share their keys.
- **Unattended action.** A write without approval is licensed at the moment it is
  made by settings, outcomes and the kind of the finding; a re-check is graded once
  by what was seen. Hard: the decision is taken before the wait for a slot, the
  outcome is filed later, the lead moves and processes restart in between.
- **Cluster actions.** Nothing is changed unasked or in a protected namespace, and
  what is reported of a change was seen. Hard: the same command line is read by six
  gates and then, by rules of its own, by kubectl; every verdict is read back from the
  tool's text.
- **Memory.** The verdict on the audit can be trusted, what is learned was earned,
  what is missing from a context is said. Hard: everything is a sequence of single
  statements, most of whose failures are only logged, beside passes that read first
  and write later.
- **HTTP.** The spend and the slots are bounded and given back, nobody enters faster
  or as more than proved. Hard: answers that end after midnight or after their
  client left, evicted buckets, an audit log that opens late.

The hazards behind this, each at its line, are in `PROJECT.json` ("hazards"). One has
no property: an executed write is pending again after a crash before the save
(`agent.go:172`), because the code keeps no record of it until then.

## Modules and how they correspond to the code

Records of what was decided and done:

- **`HashChain`**: rows, links, `VerifyChain`, the anchor's verdict
  (`recorder/chain.go`, `chainState`, `HeadVerdict`). A hash is the sequence of
  what it covers: equal hashes mean equal content, which is all the code relies on.
- **`FlightRecorder`** (`recorder/recorder.go`): one action per step that another
  goroutine, replica or failure can fall between. `Enqueue`/the refused send and
  `noteLoss` are two steps because the mutex is released in between; `flush`
  starts a batch, `build` takes one item at a time (`chainState` reads row and
  anchor in two steps), the insert is one transaction with three outcomes
  (committed, rolled back, committed but reported as failed), each anchor upsert
  is a step. `Close` and crashes are included. `given` is a history variable: the
  events the log has to account for.
- **`FlightRecorderProperties`**: what it must guarantee, and the invariants the
  proofs rest on. **`EpisodeLedger`** is the abstract specification: an
  append-only ledger of entries and declared losses whose debt shrinks only by
  being entered, or by the end of its writer. `ImplementsLedger` is the refinement.
- **`ChainOps`** (`chainops.go`, `truncation.go`, the replay handler): one
  recorder, exports (two reads), truncations (one transaction), readers (three
  reads) and a database that loses its newest rows. `excuses` names the two steps
  after which a loss no longer shows.
- **`MemoryAudit`** (`memory/security.go`): the same chain under another writer.
  Replicas share nothing but the unique number of a row; a check reads rows, links
  and head as three steps and holds no lock. It uses `HashChain`.

Who acts:

- **`LeaderElection`** (`store/leader.go`): the replica's end of the connection
  (`conn`) and the database's (`lock`) are separate variables. A closed connection
  leaves an orphan session that holds the lock until the pool, to which an open
  connection goes back, or the database ends it; only `Stop` of a leader unlocks.
- **`Singletons`** EXTENDS it with `app.go`, `perception.go` and the queue of
  `watchtower.go`: each acquisition gives a numbered context, `Start` is four
  steps, `Stop` three, `Close` waits for the investigations.
- **`AutonomyStats`** (`autonomy/stats.go`, `promotion.go`): the window of outcomes,
  Wilson's bound (compared with a threshold by squaring, without a root), CUSUM, the
  hysteresis and the rungs, as functions of a set of events.
- **`Autonomy`** (`watchtower.go`, `ladder.go`, `trust.go`, `recheck.go`,
  `prospective.go`) EXTENDS it: a finding spawns an investigation, which decides,
  queues, runs, fixes and returns as separate steps; `FileOutcome` is the goroutine
  of `recordAsync`; `claimDue`, `Dispatch` and `Grade` are the statement, the read
  and the statement of a pass. `gen` and `clean` are history: which scheduling of a
  row a look was made for, and what the record said at the decision. The lead moves
  by `Failover`; `Restart` re-reads the operator's brakes.
- **`AgentTurn`** (`agent.go`, `coordinator.go`, `tools.go`, `hitl.go`): the stages
  of a turn from load to save. A write is a numbered proposal of a command; the
  model's choices (answer, route, batch of calls, failure) are nondeterministic.
  `overlaps` and `faults` tell whether the session's turns came one after the
  other and were saved: properties that need this say `InTurn`.
  **`AgentTurnProperties`** states them.
- **`EventStream`** (`emitter.go`, `chat.go`): queue and token of a session,
  and per request the handler, the turn and the stream goroutine.

What is seen:

- **`Sensorium`** (`sensorium/`): the cluster is the environment; each stream
  connects, lists, writes documents into a pipe and is lost; the reader normalises a
  pod's status and queues it, shedding the oldest.
- **`DetectorEngine`** (`detect/engine.go`, `models.go`): arming, debounce, firing,
  withdrawal, the time to live, shadow detectors, and the sweep of metrics, which
  reads the list of detectors again at every step. Regular expressions are the sets
  they match and a trend's fit its answer; times are ages saturated past the longest
  limit. A detector is an identifier, and `Playbook` its name in the code: keys bear the
  name, and the compiled detectors advance before the stored ones, so of two of one name
  the second sees, arms and deletes the key as the first has left it.
- **`DetectorStore`** (`detectstore/`, `detect/shape.go`, consolidation's proposals):
  rows, validation of predicates, promotion in two statements, loading. A row may bear
  the name of a compiled playbook. A load reads all rows, fails, or breaks off after
  some of them without an error; `unread` are those it did not reach.
- **`Perception`** (`perception/`) composes the three: the consumer, the loops, the
  refresh, a panic that takes the process down, `Gaps` and the states it reports.

What is done to the cluster:

- **`CommandLine`** (`kube/flags.go`, `guard.go`, `manifest.go`): one walk over the
  tokens, as the set of positions it stops at, from which verb, operand, namespaces,
  risk and rollback targets are read.
- **`GuardedKubectl`** (`kube/tool.go`, `filter.go`): `Plan`, approval, capture target by
  target, run, and the labelled answer. Others change the cluster between any two. kubectl is
  external and parses the line by its own rules, which share nothing with the tool's: it
  knows every flag that takes a value, flags end at `--`, the last of several counts,
  and a deleted namespace takes its contents along.
- **`AciVerbs`** (`aci/`) EXTENDS it with its clients; each reads the answer's text
  (`ClassifyOutput`) back into a verdict.

What is remembered and who is let in:

- **`MemoryGraph`**, **`MemoryLearning`**, **`MemoryContext`** (`memory/`,
  `app/memory.go`): one pod and its nodes, one pattern and its rule, one context of
  eight sections, of which some say when they leave rows out and some do not
  (`Announced`). In each every statement is a step and may fail on its own; the notice
  of a failed ping names three sections (`UnavailableNotice`).
- **`PublicDemo`**, **`FrontDoor`** (`api/`, `audit/`): counters and windows of a
  process, request by request.

**`Gathering`** holds the two helpers that several parts share: the elements of a
sequence at a set of positions, as the filtering loops of the code collect them
(`Picked`), and the sum of a function of naturals (`Total`), counted as the pairs of a
place and one of its units, so that the sum of any finite function can be reasoned
about with cardinalities.

**`MCAutonomy`**, **`MCPerception`**, **`MCAciVerbs`**, **`MCMemory`** and **`MCApi`**
give constants their values, and the last two run parts that share no state side by
side: a variable `part` says which one a behaviour is of. The other modules are run
directly. **`FlightRecorderProofs`**, **`ChainOpsProofs`**, **`SingletonsProofs`**,
**`AgentTurnProofs`**, **`AutonomyProofs`**, **`ClusterProofs`** (perception and the
commands), **`MemoryProofs`** and **`ApiProofs`** (streams, demo, front door): see
[proofs](#proofs).

A definition whose comment calls it a variant is another one with a plausible mistake;
no specification uses it. Substituted for the original it breaks the property
`PROJECT.json` pairs it with, which shows that the property depends on that line of
the code.

## Runs

`tlc -config <cfg> <module>`; sizes with 2 workers.

| cfg | module | checks | distinct states |
|---|---|---|---|
| `MCFlightRecorder` | `FlightRecorderProperties` | `TypeOK`, `ChainIsTrue`, `LossesInPlace`, the refinement `ImplementsLedger`, and under fairness `RecorderMovesOn`: one recorder, two episodes, two failures | 385,362 |
| `MCChainOps` | `ChainOps` | `NoFalseAlarm`, `RemovedRowsArchived`, `LossDetected` | 4,027,113 |
| `MCSingletons` | `Singletons` | the election's `OneConnectedLeader`, the workers' `StandbyIsBlind`, `OneObserver`, and under fairness `PerceptionMovesOn` | 307,566 |
| `MCAgentTurn` | `AgentTurnProperties` | `RunsAreLicensed`, `ApprovalsAreKept`, `TurnsRunDown` | 1,129,148 |
| `MCAgentTurn_swap` | `AgentTurnProperties` | *violated*: `ReplyAnswersWhatWasShown` | |
| `MCEventStream` | `EventStream` | `DeliveredInOrder`, `NoLostWakeup`, and under fairness `RequestsEnd` | 258,990 |
| `MCPerception` | `MCPerception` | `NothingMissed`, `OnlyPromotedActs`, `DetectorsStayLoaded`, and under fairness `StuckIsReported` | 325,259 |
| `MCPerception_sweep` | `MCPerception` | *violated*: `SweepNeverPanics` | |
| `MCAutonomy` | `MCAutonomy` | `UnattendedIsLicensed`, `TwoFailuresRevoke`, `RechecksAreSound`, and under fairness `InvestigationsEnd`, `ScheduledIsGraded` | 396,612 |
| `MCAciVerbs` | `MCAciVerbs` | `AskedBeforeChanged`, `InfrastructureWithheld`, `PartialIsSaid`, `VerdictsAreEarned`, `RestorableIsFaithful` | 84,356 |
| `MCMemory` | `MCMemory` | `VerdictsCanBeTrusted`, `LearnedIsEarned`, `HumanWordStands`, `MissingIsSaid`, and under fairness `GraphHeals` | 569,118 |
| `MCApi` | `MCApi` | `DemoIsBounded`, `LetInProperly`, `TurnsAccounted` | 192,695 |

Each run shows, in one sentence, what `PROJECT.json` says of it under "about".
Conjunctions such as `ChainIsTrue` or `ApprovalsAreKept` are one promise to one
reader of the system; their conjuncts are defined and commented one by one.

More configurations are kept beside these, with claims of a comment or a document
that do not hold; TLC finds a counterexample to each when it is checked by itself:

| cfg | claims |
|---|---|
| `MCFlightRecorder_overload` | `OnlyRefusedEventsAreLost` |
| `MCChainOps_seam` | `LossStaysVisible` |
| `MCSingletons_standby` | `StandbyBeginsNothing` |
| `MCEventStream`, with this property in place of its own | `CloseEndsStream` |
| `MCPerception_claims` | `FailedReadKeepsTheSet`, `NamesakesMissNothing` |
| `MCAutonomy_claims` | `NeverDuplicated`, `FiledFailuresRevoke` |
| `MCAciVerbs_claims` | `NothingUnasked`, `InfrastructureUntouched`, `InfrastructureUnread`, `RehearsalsChangeNothing`, `RestorableIsWhole` |
| `MCMemory_claims` | `CappedIsSaid`, `EverySectionIsNamed` |

See [divergences](#known-divergences).

Deadlock is checked in `MCPerception`, where something can always happen. The other
systems stop when the bounded inputs are used up and, in the code, when nothing
arrives.

## Bounds

- *Recorder*: a queue of 1 and batches of 2 make overflow and a full batch
  ordinary cases, three events suffice for refused + batched + queued at once,
  two failures for a commit of unknown outcome followed by a crash or a failed
  anchor. `MaxTracked` is 1 with two episodes, so the untracked case occurs. What
  several recorders do to one episode's numbers is proved.
- *ChainOps*: three rows are the smallest chain with a middle; two archives let a
  stale one justify a truncation after a newer one. The proof is for any number of
  rows, archives, failures and losses.
- *Singletons*: two replicas are enough to double up (the safety is proved for any
  number). Two failures give a cut and a crash, three starts a restart after each.
- *Turns*: three turns make a prompt, a second prompt and a reply; two proposals a
  batch with two writes; two rounds a pause inside the budget and one at its end.
  `MaxSteps` 5 lets the coordinator be visited twice. `MaxActive` is 1, because
  `ApprovalsAreKept` speaks of turns in order; overlapping turns are in
  `MCAgentTurn_swap` and, for `RunsAreLicensed` and `TurnsRunDown`, in the proofs.
- *Streams*: two requests overlap, follow one another, or abandon the first;
  three events are shared between them.
- *Perception*: six deployments (two pods that share the queue; one that flaps in a
  watched namespace; with Kubernetes events; authoring with consolidation; authoring
  with forecasts; a server without kubectl), because all features at once multiply
  states without meeting. A queue of 2 sheds with three observations; two base detectors
  and two stored ones let a refresh shorten a list; one stored row bears the name of a
  playbook; two reviewers race a promotion with a
  retirement; pipes of one document are enough for a stale one.
- *Autonomy*: days of two ticks and a window of a day; the clock starts at tick 20,
  so that a date in days is small beside it, as it is beside a Unix time. Promotion and
  re-checks are on one at a time (the proofs cover both). Three investigations are two failures and the
  decision they revoke; two where fixes are re-checked, for a row scheduled again
  while its check runs. One slot per replica makes everyone wait. Statistics are
  small (windows of 3, two failures) but computed by the code's formulas.
- *Commands*: one command for each shape the gates tell apart, by each role, and
  commands that kubectl and the tool read differently; one
  change by others between any two steps; six objects in an ordinary and a protected
  namespace.
- *Memory*: two replicas and three entries give a crossing, a cut and a truncated
  front; two nodes a move there and back; two investigations are the least that
  promote a pattern or a rule, and a sentence of the user before and after a pass.
  Two flaps take the database away and bring it back between any two sections, of which
  two settings switch each on, beside others that are off.
- *HTTP*: two days give an answer that ends after midnight; three clients contend
  for two slots; one hour window per tick; six kinds of server with the two or
  three requests that tell it from the others; one tracked bucket, so that the second
  caller evicts the first.

Bounds that exist only in the model are named in the guards they appear in
(`MaxFaults`, `MaxTime`, `MaxEvents`, ...); limits of the code (`MaxConcurrent`,
`BatchMax`, `QueueSize`, `PerHour`, ...) are constants with the same role.

## Fairness

Only what the runtime gives. Goroutines that can take a step take it (weak
fairness on each step of `drain`, `Start`, `Stop`, the handler and the stream).
The election's ticker fires and a query on a cut connection fails in the end; the
database ends dead sessions; a pod is restarted. Failures are bounded and never
fair. `EventStream` takes strong fairness for the cancelled context of a stream:
Go's `select` picks at random among ready cases, so a context that stays done is
not passed over for ever although events keep coming; the heartbeat is given no
fairness, so nothing rests on it. The agent's turn needs no fairness: `TurnsRunDown`
is a variant function, every step but an arrival lowers it.

`Perception` has weak fairness for the streams and the consumer together, the clock,
the tick loop, and the end and restart of a process; the refresh, the sweep, the
reviewers and the cluster have none. `Autonomy` has weak fairness for the clock, for
the goroutines of investigations (a turn is bounded by `TurnsRunDown`) and for the
statements of a pass, and strong fairness for a look that finds the cluster readable
(`CanRead`): it is needed for the re-check to close, because an unreadable look
reopens the row, and says no more than that the API server answers now and then.
`MemoryGraph` has weak fairness for the drainer, the stale pass, the re-list of the
watch, status updates and the passing of days; its failures are bounded.

## Proofs

Checked by `tlapm`, each for every value of the constants under the assumptions named
in the modules that declare them. They say what the code or its configuration fixes:
bounds are naturals and capacities positive (`RecorderAssumption`, `ChainOpsAssumption`,
`AuditBounds`, `ContextBounds`, `FaultsAssumption`, `StreamAssumption`,
`SingletonsAssumption`, `PublicAssumptions`, ...), replies, roles, severities and keys
are those of the code (`AgentAssumption`, `StatsAssumption`, `AutonomyAssumption`,
`FrontDoorBounds`, `LearningBounds`), commands and documents have their fields
(`GuardAssumption`, `JobsAssumption`), the base detectors have names pairwise
different, and so have the stored rows (the table's key), but a row may bear the name of
a base detector; a deployment watches finitely many pods (`EngineAssumption`,
`StoreAssumption`, `LegacyAssumption`, `SensoriumAssumption`).

**Flight recorder** (`FlightRecorderProofs`), any number of episodes, events, failures:

- `TypeCorrect`: `Spec => [](TypeOK /\ ControlOK)`. `TypeOK` alone is not inductive:
  that an item exists where `build` uses it, and rows where an anchor is written,
  follows from how program counter, batch and rows relate, which is `ControlOK`.
- `SeqsAlwaysConsecutive`, for any number of recorders. `SeqInv` strengthens it: no
  anchor is past the log, and a batch under construction either continues the log or
  collides with it, and then the unique constraint rejects it whole. That dichotomy is
  why stale caches, refused events and unknown commits can waste a batch but never
  tear a hole.
- `AnchorAlwaysTruthful`, for any number of recorders, from `AnchorInv`: an anchor is
  the number and hash of a row of the log, and so is each row an anchor will be
  taken from.
- `ChainAlwaysTrue`, for one recorder, as the divergences below say why: `ChainInv`
  adds that the rows under construction link to each other, and to the last row of the
  log unless they collide with it.
- `AnchorNeverMovesBack`, an action property, for one recorder: the rows it takes
  anchors from are the newest of the log (`NewestIsLast`).
- `NoLossIsEverSilent`, for any finite number of recorders. What all recorders owe an
  episode is a sum over recorders (`Owed`), and each step changes one summand: nothing
  is owed (`Quiet`), one event more (`Given`), a batch settled by its commit
  (`Settled`), or one that was committed, reported as failed and is carried beside its
  rows (`Doubled`). A crash forgets. That a commit enters exactly what it settles needs
  `AccountInv`: the rows a flush has built stand for its gap items and for the events it
  has passed.
- `LossesAlwaysInPlace`, for one recorder: `PlaceInv` bounds the number of each event in
  the log, in the rows under construction, in the batch and in the queue by what is
  accounted for before it. It is inductive because a flush writes the gap item of an
  episode before its events.
- `RecorderImplementsLedger`: the initial state maps to the ledger's, and each step to one
  of its steps or a stutter, for any finite number of recorders. The lemmas on sums it
  needs (a sum splits with its domain, a sum over a concatenation, one summand changed)
  are proved from the cardinality theorems of the library, without induction.

**Chain maintenance** (`ChainOpsProofs`): `NeverFalseAlarm`, `RemovedAlwaysArchived` and
`LossAlwaysDetected`, from one invariant. Rows, the recorder's cached head, archives
and truncations are in one order, that of the items they are about (`StateOK`); a
chain that lost nothing is one piece from its origin or its last truncation (`Whole`);
a loss leaves a place where the chain is torn although the anchor covers what came
after (`TornAt`), and no step but the two of `excuses` mends it (`LossStays`); a reader
or an export under way keeps what it has read apart from what is there now
(`ReaderKnows`, `ExportKnows`). Which row of a broken chain to look at is the first that
does not link: `LeastNumber` finds it through the well-foundedness of the naturals.
The proof found the exception `LossCaughtByReader` makes: between two reads of a reader a
further loss, which the recorder continues past unaware, can cover for the first.

**Election and workers** (`SingletonsProofs`), any number of replicas:

- `ElectionTypeCorrect`, `AtMostOneConnectedLeader`, `LeaderAlwaysHoldsLock`: over
  `ElectionInv`, that a leader over an open connection is the session the database
  gave the lock to.
- `WorkersElect`: `Spec => ElectionSpec`, so the election's theorems hold of the workers
  too. `StandbyAlwaysBlind`, `OneEngineEver`, `NeverTwoConnectedObservers` and, from the
  two, `OneObserverEver` follow from `Supervised`: a context that is alive is cancelled or
  is the one `App.stopWorkers` refers to, a replica that has dropped leadership and begun
  to stop has none of the latter, and while it stops it has no connection.

**Agent turn** (`AgentTurnProofs`):

- `TurnTypeCorrect`, `WritesAlwaysLicensed`, `TurnsAlwaysRunDown`: for any number of
  overlapping turns. `TypeInv` adds to `TypeOK` that a resumed turn has a call to decide
  (`Answering`) and that a loaded state carries the role of the turn's own caller
  (`OwnRole`), from which each new entry of `ran` gets its licence. `StepsBounded`, that
  the step budget is overrun by one routing at most, keeps the variant `Left` natural.
- `ApprovalsAlwaysKept`: for turns of a session that follow one another (`InTurn`).
  `SessionKept` says of the saved state between turns, and of the loaded one inside a
  turn, the same thing (`Carried`): the call that waits is the one on the screen, has
  not run and was not declined, and every write that ran is known to the session, in the
  hands of the turn, or was dropped by a failing model.

**Event stream** (`ApiProofs`): `EventsAlwaysInOrder` and `WakeupNeverLost`. What each
client has seen, what its stream holds in hand and what the queue keeps are pieces of
one sequence. `OnceInv` says that no event is in two of them, whatever overlaps;
`OrderInv` that for requests in turn they are consecutive; `StreamControl` relates
the places of the handler, the turn and the stream goroutine, which the token needs.

**Unattended action** (`AutonomyProofs`):

- `UnattendedAlwaysLicensed`: the authority is given at the decision and used at the
  write, with a wait for a slot in between. `FixInv` carries the licence across: it
  holds of every investigation that was decided, and the brakes of a process change only
  by a restart, which ends what the process had under way. For the decision itself
  the lemma `LadderNamesA3` shows that the ladder grants A3 only where the settings
  name it.
- `RechecksAlwaysSound`: `PassInv` says that only the leader has rows in hand, one claim
  per row, that the row of a claim that is still current is fired, and that a claim or a
  look never names a later scheduling than the row has had. The lemma `RowsMoveOn` is
  the reason why re-scheduling and pruning during a dispatch are harmless to it.
  `AutonomyTypeCorrect` (`TypeOK`) follows from the two.
- `WindowAlwaysRevokes`, `TwoFailuresAlwaysRevoke`, action properties, for the trigger of
  the code (`CusumFails` at most 2, `CusumWindowDays` 1). The lemma `TogetherRevoke` counts:
  the failures within a day of the earlier one are two at least, whatever else the window
  holds, and no other gate is asked before. The second theorem speaks of all recent
  outcomes in the store and needs them to fit the window (`MaxInv <= WindowMaxEvents`);
  `FiledInv` numbers them, one for an investigation.

**Perception** (`ClusterProofs`), any pods, detectors, streams and deployments:

- `TableAlways`, `OnlyPromotedEverActs`, `DetectorsAlwaysStay`: over `StoreInv`, that a
  row that is active was promoted by a person and that rows do not disappear. A
  detector is acting only if a refresh read its row as active. A refresh that fails
  keeps what the engine has; one that breaks off swaps in what it reached, and
  `DetectorsStayLoaded` excuses exactly the rows beyond that (`unread`).
- `NothingEverMissed`: of every base detector whose name no promoted row bears
  (`NameIsItsOwn`), unless the gaps say that observations were shed. `NothingMissed` speaks of a stream that is
  connected and drained, and is far from inductive. `ToldInv` says where the word of a
  failing pod is before that: on a connected stream, the pod is still to be listed, or
  its last document in the pipe or its last observation in the queue shows the
  failure, or the engine holds a key of it. `FiredInv` is needed for a key that fired
  and whose report was withdrawn by an observation from another stream: the word of
  the recovery is still ahead of the next failure's, and clears the key first. That
  is why the invariant is about the *last* entry of each pod, and why most lemmas are
  about sequences of which the last entry of some kind matters.

**Commands** (`ClusterProofs`), any commands, documents, objects and table of names:

- `PartialAlwaysSaid`, `RestorableAlwaysFaithful`: over `GuardInv`. While a capture is
  under way, what was read and what is left are targets of the call, together no more
  than it intends, and what was not read faithfully is not called restorable
  (`Capturing`). The lemmas on `Picked` (the position of the k-th element, by
  counting ranks) say what the filtering loops collect.
- `VerdictsAlwaysEarned`: over `Earning`, which follows what a client saw from step to
  step. An exit code that is an answer (`answer` of `RunEnds`, tool.go's
  `ExitIsAnAnswer`) is an end of its own, so that a listing can be partial there too.
- `NothingChangedUnasked`, `InfrastructureAlwaysWithheld`: over `AskedInv`, that from the
  gates to the run, with a person's answer, a capture and changes by others in between,
  the call in hand is one that passed the gates, and was approved or needs no approval.
  kubectl's reading is its own, so the statements say where it agrees with the gates.
  For the first: the same verb and operand (`Alike`), or a verb of kubectl's that is a
  destructive one, which the gates find wherever it stands; and at most one `--dry-run`,
  where kubectl takes it for a flag (`OneAndRead`). A drain and the deletion of
  namespaces are approved by a person even on a session that approves by itself, where
  both read the same (`ConfirmFirst`). For the second, `ReadInFull`: the words and the
  namespace flags are found by both, each flag once, and a namespace that is acted on as
  an object is named as a word of the line. The lemmas on `wordsFrom`, `NsIn` and
  `Touches` prove that the tool's gates then see every namespace reached. The second also
  needs a default namespace that is not one of the infrastructure. What lies outside
  these conditions is not silent: `MCAciVerbs_claims` shows what happens there.

**Memory** (`MemoryProofs`), any number of replicas, investigations, sayings, failures:

- `LessonsAlwaysEarned`, `HumanWordAlwaysStands`: over `LearnInv`. A pass reads and later
  writes; what it has read must still justify what it will write (`PassEarned`), which
  holds because outcomes and episodes only grow (`RecordsGrow`), and a pattern is counted
  at most once per recording that has passed it (`PatternEarned`).
- `MissingAlwaysSaid`: over `ContextInv`: each section that was to be loaded is in the
  pieces put together so far, or its failure is (`NothingDropped`). What a section leaves
  out is said where its loader announces it, and the notes of a session are excepted when
  the ping failed; `MCMemory_claims` shows both exceptions.
- `VerdictsAlwaysTrusted`: `AuditInv` is `excused \/ AuditGood`. Until an append
  continued from a head that was not the chain's (`excused`), the chain links
  and agrees with its head, or rows were removed and it is torn somewhere (`Sound`); what
  a writer continues from is the newest row or has a number that is taken, so that its
  insert conflicts (`WriterFits`); a check under way that saw the tear still sees it
  (`CheckFits`).

**Public demo and front door** (`ApiProofs`):

- `DemoAlwaysBounded`: the bound on the spend is not inductive, since the answers under
  way will be charged later. `DemoInv` counts each of them as spent at the dearest price
  already (`Committed`); a question is admitted only while the budget lasts and only
  into a free slot, so it never adds more than the slots allow, and the charge of an
  answer only moves a sum from one side to the other.
- `DoorAlwaysProper`, `TurnsAlwaysAccounted`: over `DoorInv`. `MeterInv` relates the
  tokens of a bucket to what it has let in since it was made, evicted buckets
  included; `ServedInv` says of each request under way that its role is proved;
  `TurnsInv` counts rows, losses and turns that are still to be recorded.

Only model-checked:

- liveness and everything that rests on ENABLED (`RecorderMovesOn`, `PerceptionMovesOn`,
  `RequestsEnd`, `StuckIsReported`, `InvestigationsEnd`, `ScheduledIsGraded`,
  `GraphHeals`), which is beyond the prover.
- which words a rollback point's reads keep of a command (`KeptFrom`): a recursive
  function over a sequence, whose values in general are an induction over data.
  `RestorableAlwaysFaithful` takes them as they come. The walk itself (`wordsFrom`,
  `Swallowed`) is a set of positions and is proved about.

The refinement theorem and the invariants above need no fairness; the runs that check
liveness state it.

No module with a theorem reaches a RECURSIVE operator.

## Known divergences

Checked by a run, with the quoted claims in `PROJECT.json` ("findings"):

1. *A yes can run another write than the one shown* (`agent.go:152`). Turns of a
   session are not serialised: the later save wins.
2. *The sweep of metrics can panic* (`detect/engine.go:305`). It counts the detectors
   once and indexes the list anew without its lock, after a refresh that made it
   shorter. The loop has no recover: the process ends.

Shown by the configurations kept beside the runs:

3. *A refused event costs a batch* (`recorder.go:231`). `noteLoss` drops the cached
   head while `build` is between two items; two rows get one number, the insert is
   rejected, and events that did reach the queue are declared lost although the
   database never failed (recorder.go:210, 367-368).
4. *A truncation can declare a loss* (`chainops.go:383`). After a loss the recorder
   continues past the anchor but from the hash of the last surviving row. An
   archive that ends at that row then justifies a truncation whose `resume_seq`
   covers the hole, and the chain verifies (recorder.go:423-425, chainops.go:305).
5. *A standby begins investigations* (`app.go:237`). The watchtower lives under the
   context of the process, not of the singleton workers (app.go:278-279).
6. *A closed turn may not end its stream* (`emitter.go:70`). `Prepare` of a second
   request clears the sentinel of the first (emitter.go:128).
7. *Replicas can repeat an autonomous action* (app.go:278-279). The cooldown is in
   memory and running investigations survive the loss of the lead (`NeverDuplicated`).
8. *Housekeeping gives revoked authority back* (`trust.go:16`). Outcomes are dated in
   days and pruned against a cutoff in seconds, so the first pruning empties the table
   (prospective.go:203-205; `FiledFailuresRevoke`).
9. *A restorable rollback point can lack objects* (`tool.go`, captureRollbackPoint).
   Items of a List are not captured although the point says restorable
   (`RestorableIsWhole`).
10. *A read that breaks off unloads detectors* (`detectstore/store.go:228`). `Load` does
   not look at `rows.Err()`, as `List` does (`:108`), so the rows read up to there are
   returned as the whole set and swapped in (perception.go:442), contrary to
   store.go:206-209 and perception.go:426-429 (`FailedReadKeepsTheSet`).
11. *A stored detector can disarm a playbook's* (`detect/engine.go:113`, `:140-142`). A
   staged row may bear any name (api/detectors.go:54-65). Promoted, it advances the key of
   the playbook of its name and deletes what that one armed (engine.go:52-53;
   `NamesakesMissNothing`).
12. *The first namespace is checked, the last is used* (`kube/flags.go:144`). kubectl takes
   the last `-n`, so a read can be of a namespace the gate did not see (tool.go:219;
   `InfrastructureUnread`).
13. *Namespaces are reached without being named* (`tool.go:361`). `delete namespaces --all`
   names none, and of a manifest the namespaces its documents are in are read, not those
   they are (tool.go:350-351; `InfrastructureUntouched`).
14. *A dry-run token skips the approval* (`tool.go:276`). It counts wherever it stands;
   kubectl ends its flags at `--` and takes the last value, `none` included (tool.go:11;
   `NothingUnasked`).
15. *A rehearsal can run* (`aci/write.go:120`). The dry-run flag is appended at the end,
   where after `--` it is no flag of kubectl's (write.go:123-124;
   `RehearsalsChangeNothing`).
16. *Capped sections read as complete ones* (`app/memory.go:46`, `:58`, `:66`). Episodes,
   rules and themes are the best few, without a notice that there are more, which the
   loaders of the pinned sections give for the reason at memory/store.go:197-199
   (`CappedIsSaid`).
17. *The session notes are not named* (`memory/store.go:182`). When the ping fails none of
   the pinned sections is read; the notice names three of four (app/memory.go:13-14;
   `EverySectionIsNamed`).

Met while modelling, and visible in the conditions of the properties that hold
rather than in a run of their own:

- `recorder.go:413`: the last row and the anchor are two reads. With a second
  replica between them the next row has the new number and the old link, so the
  chain does not verify. Hence `ChainIsTrue` is checked for one recorder, and
  `AnchorNeverRegresses` likewise: the anchor upsert (`:470`) is unconditional.
- `recorder.go:429`: a failed anchor read is only logged and the numbers of lost
  rows are used again (`excuses` in `LossShows`).
- `api/memory.go:105`, `chainops.go:198`: rows and anchor are read apart, so a
  flush in between makes an intact chain read as tampered, for an archive for good.
- `chainops.go:279`: an archive without rows verifies although it names an anchor.
- `leader.go:189`: until its next poll a cut leader observes beside the new one
  (`ConnectedReplicasShareNothing` asks for live sessions).
- `perception.go:200`: a `Start` that ends after `Stop` records "running" over an
  absent engine.
- `agent.go:172`: after a crash or a failed save an executed or cancelled write is
  pending again (`InTurn` in `RunsOnce`, `DeclinedNeverRuns`).
- `coordinator.go:136`: a model error after an executed write drops the loop that
  holds its result (`dropped` in `AnsweredWritesRemembered`).
- `hitl.go:11`: `/approve`, which the prompt offers (`chat.go:161`), is not among
  the approval phrases and cancels the write.
- Perception: `Gaps` is empty while a stream backs off beside a connected one
  (perception.go:330-338; `GapsEmptyMeansWatched`); a key that fired is forgotten after
  its time to live and fires again although the condition lasted; events are replayed on
  each reconnect; a pod deleted while its stream is down stays armed; shedding the oldest
  can lose the only observation of another pod (`"shed" \in Gaps` in `Noticed`); rows of
  the own cluster and of 'global' with the same name are both loaded; a promoted
  "learned" candidate without live predicates answers active and never loads; a promotion
  that read before a retirement writes after it and re-activates.
- Re-checks: the outcome is written by id (prospective.go:154), so a grade can close a
  row that was scheduled again meanwhile (`GradeIsCurrent` does not hold); a crash after
  the claim leaves a row fired for ever (`Orphaned` in `ScheduledIsGraded`).
- Commands: `[Error] kubectl timed out` is read as refused although it was sent
  (`RefusedWasNotSent` does not hold); a cancelled action reads as success; capture and
  run are not atomic; boolean flags are taken to have a value by `rollbackTargets`, and a
  flag's value before the operand may be taken for it; `set image`, cordon and drain get
  no useful rollback point. On a session that approves by itself, the deletion of a
  namespace is not asked about when a manifest names it (`delete -f -`) or when it is not
  the first operand (`delete pod/web ns/shop`). The write side of `aci/` has no production caller.
- Memory audit: an append between the two reads of a check reads as tampering
  (security.go:246-250), as does a cut row loop; an unreadable head counts as none
  (`:238`) and heals a loss; two replicas' first appends can cross and break the link;
  a conflict of numbers loses the entry (`excused`, `beside` in `VerdictsCanBeTrusted`).
- Memory graph: the stale pass closes only edges that start at the pod
  (consolidation.go:106-108); racing write-backs duplicate an edge; `OneNode` does not
  hold when statements fail; only a failed upsert of a pod counts as degraded.
- Learning: back-fill can count a live investigation twice, so a rule may rest on one
  (`RulesAreRecurrent` does not hold; rules.go:62-63, episodes.go:480-482); concurrent bumps lose or
  repeat a count (store.go:434-436); inferred preferences never decay below the
  threshold at which they would be forgotten.
- HTTP: `Retry-After` is truncated to a second too early (ratelimit.go:79-81); the time of
  a request is taken before the limiter's lock and may move a bucket back; two writers
  may reopen the audit log together; a lost reply to an insert is both a row and a
  count (`<=` in `TurnsAccounted`); a panic in the stream skips the record. Queues and
  histories of sessions are never forgotten (`Forget`, emitter.go:175, has no caller).
- Outside the models: the digest's row loops do not look at `rows.Err()`, so a cut read
  says that all was quiet (digest.go:140-175), nor do `BuildExport`'s (chainops.go:179-194); the postmortem says the chain is intact when it
  was not verified (postmortem.go:188-193).

## What is not modelled

Text, hashes as bytes, SQL and JSON forms, logging. Prompts, trimming, snapshots
and model output: the turn takes them as free choices. Readers of Prometheus,
Loki and Helm, the model client, metrics, configuration, setup, the command line
and the web interface: they keep no state the decisions above depend on. Digest and
postmortem only read tables that other modules write. Password hashing, text filters,
the file plane, redaction and the estimators without a caller are stateless. The
change ledger appends rows that only the context of a turn reads (a section of
`MemoryContext`); the watchdog of a rollout follows it and is the one stateful part
left out. In `AutonomyStats`, `CheckSpend`, `Compose`, `GateDisruption` and
`EngageKillSwitch` have no production caller, and the memory's
`AsOf`, `CurrentEdges`, `LinkIncident` and `ForgetSubject` have none either.
`PROJECT.json` ("components") gives the reason for each part.

Outcomes left out on purpose: events offered while the recorder is still
"starting" leave no trace in any state; a poll that hangs on a connection that
neither answers nor breaks is a step that is not taken; a re-check that panics or
errs is graded as one that could not see, as the code grades it. Of kubectl's forms of
a flag, groups of shorthands with `-A` among them, `-A=true`, kinds separated by commas
and the `-f` of `logs` (which the tool reads by the verb) are left out.

What would come next: the rollout watchdog beside the change ledger, and the forms of
flags just named.
