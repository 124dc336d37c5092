# pi8 in TLA+

A formal model of pi8, the extension that registers the synthetic model
`router/auto` in the Pi coding agent. For each user entry pi8 picks a model
(benchmark data, policy, candidate scoring), serves the request through a chain
of fallbacks, and follows the work through the entry's tool calls: gathering
context, handing off, committing a plan, executing it, reviewing it, completing
it. This directory holds the specifications, the TLC instances and the TLAPS
proofs. All paths are relative to the repository.

    tlc -workers 2 -config MCDelegation.cfg MCDelegation     # one model-checking run
    tlapm ExecutionContractProofs.tla                        # one module's proofs

## 1. The system

pi8 is one Node process, single-threaded, with many callbacks. Between two
`await`s a handler runs to completion; at every `await` any other handler may
run. That is the grain of the models: **one action is what runs between two
awaits**.

| Part | Source (`extensions/`) | State | Operations | Modelled by |
| --- | --- | --- | --- | --- |
| Turn pipeline | `serve/provider.ts`, `routing/policy/continuation.ts` | none of its own | `streamSimple`, `scoreRouterTurn`, `delegateRouterTurn`, `settleBoundary` | `SessionTurns` |
| Session state, pin, resume | `serve/router-session-state.ts`, `serve/manual-model.ts` | generation, decision, served, pin, snapshot, hold, levels, warm caches | `reset`, `setManualModel`, `resumeManual`, `setLastServed`, `rotateServed` | `SessionTurns` |
| Candidate scoring | `routing/score/scorer.ts` | none | `scoreWithinTiers`, `pickBest`, `escalationChain` | `Scoring` (operators) |
| Candidates and routing policy | `routing/policy/routing-policy.ts`, `routing/score/effort-estimate.ts`, `routing/policy/allowlist.ts` | none | `resolveWithPolicy`, candidate expansion | `RoutingPolicy` (operators) |
| Requirements of a phase | `routing/policy/{execution-difficulty,work-phase}.ts` | none | rubric and facts to a requirement | `TaskRequirement` (operators) |
| Trajectory and struggle | `routing/struggle/*` | tool cycles, pending escalation, owner, recovery | `noteToolCall`, `observeToolResult`, `abandonUnresolvedCalls`, `claimRecovery` | `Trajectory` (operators), `SessionTurns` |
| Request notes | `serve/{request-notes,router-tools-note}.ts` | recorded notes | plan, record, replay | `RequestNotes` (operators), `SessionTurns` |
| Subagent roles | `agents/*`, `index.ts` | role models, chains, pool | refresh, select, spawn | `SubagentRoles` (operators), `SessionTurns` |
| Semi-mode gate | `serve/provider.ts` 1296-1318, 1570-1706 | held model | `beforeFallback`, `resolveSemiGate`, `promptPin` | `SessionTurns` (before the turn), `Delegation` (in the walk) |
| Session blacklist | `serve/blacklist.ts` | excluded models, providers, patterns | add, remove, clear | `SessionTurns`, `Delegation` |
| Fallback walk | `serve/delegation.ts` | live chain, position, retry count, attempt buffer, dead providers, strikes | `runDelegationLoop`, `runWithRetries`, `runCandidateAttempt`, `settleAttempt` | `Delegation` |
| Escalation proof | `routing/score/scorer.ts` 538-809 | none | `isValidEscalationCandidate`, `isStrictlyStrongerCandidate`, `escalationChain` | `Scoring`, `Delegation` |
| Execution contract | `routing/policy/execution-contract.ts`, `serve/execution-contract-tool.ts` | the entry's contract, strikes, excluded executors | `commit_execution`, tool call/result observers, settle | `ExecutionContract`, abstractly `PlanLifecycle` |
| Work phase of an entry | `routing/policy/work-phase.ts`, `serve/provider.ts` | `WorkPhaseState` | `advanceWorkPhase`, `scoreRouterTurn`, `settleBoundary` | `ContextEntry` (what it owes), `ExecutionContract` (its plan), `SessionTurns` (its boundary) |
| Context acquisition | `routing/policy/context-acquisition.ts`, `serve/{gathering-gate,context-grounding}.ts` | request count, denials, read coverage | score, gate, observe | `ContextEntry` |
| Context resolution | `serve/context-resolution.ts`, `routing/context/*` | pending identity | catalog, choice, anchors, grounding | `ContextEntry`, `WorkLedger` |
| Lifecycle tools | `serve/{context-handoff,complete-work,reopen-work}-tool.ts` | item, deliverable, context status | `hand_off_context`, `complete_work`, `reopen_work` | `ContextEntry`, `ExecutionContract` |
| Work ledger, persistence | `routing/context/{ledger,persistence}.ts` | topics, items, incumbent, branch entries | `applyEvent`, `appendCommit`, `rebuildLedger` | `WorkLedger` (operators), `ContextEntry` |
| Settle reminder | `serve/settle-reminder.ts` | reminded flags | `settleReminder`, `logSettleOutcomes` | `ContextEntry` |
| Commands | `host/commands.ts` | none | manual, resume, blacklist | `SessionTurns` (their effect) |
| Change facts, reasoning-loop text, UI, config files, benchmark data, logs, evaluation | `routing/policy/change-facts.ts`, `host`, `bench`, `adapters`, `eval` | files | I/O, text and formatting | not modelled |

How they interact. `runRouterTurn` scores an invocation (reading the entry
state, the ledger, the pending escalation), hands the chain to the walk, and the
walk calls back: `beforeFallback` to ask the user, `settleServed` when the
answer is complete (boundary, handback, incumbent). The served model is
published at the *first* event of its answer; its tool calls run on Pi's side,
so `tool_call` and `tool_result` callbacks interleave with the end of the
router's own stream iteration. `agent_settled`, a new user entry, or
`session_start` may follow. Everything meets in `RouterSession`: the work-phase
state, the ledger, `lastServed`, the blacklist and the generation counter.

What is hard: aborts and session replacement at any await; retries, hand-offs,
hops and fallbacks that must compose without replaying an answer; a chain
rewritten under its own iteration; blame (strikes, exclusions, blacklists) for
the right model; state captured at scoring and used at settlement; plans closed
by four different handlers and logged once. `PROJECT.json` lists each hazard at
its line.

What makes each component correct, in a sentence: the *walk* delivers at most
one answer, never blames a model for the caller's abort or for a reasoning loop,
and ends; the *contract* strikes at most once per plan, only a model that really
executed it, keeps penalties with their work item, and stops releasing plans
that keep failing; the *lifecycle tools* take a plan through exactly one outcome
and ready an item only when its files were grounded; the *ledger* equals the
fold of its branch; a *gathering entry* never passes its request limit and is
reminded once; *struggle evidence* is held only against the model that produced
it, which gets one recovery before the router leaves it for a proven stronger
one; a *pin* is served alone; a *boundary* is closed by a model that meets its
minimum; a *reviewer* is of another family than the workers; and a *request*
repeats the previous one's prefix.

## 2. Modules

### Delegation

The walk of one routed request. A candidate is its row: provider, model id, the
effort that serves, and measured quality (0: unmeasured). `phase` says where the
walk is suspended: `confirm` (the semi-mode dialog), `auth` (request auth
pending), `stream` (the provider's iterator), `backoff` (the retry delay),
`choose` (the synchronous head of the loop), `done`.

| Action | Code |
| --- | --- |
| `SkipCandidate`, `MissingCandidate`, `AskSwitch`, `BeginCandidate`, `Exhaust` | head and end of the `for` loop of `runDelegationLoop` |
| `CancelSwitch`, `ProceedSwitch`, `SubstituteSwitch` | answers of `beforeFallback`, `applySubstitution` |
| `AuthReady`, `AuthFails`, `SeeAbort` | `runCandidateAttempt` up to the stream, and every rejecting await |
| `LifecycleEvent`, `ThinkingEvent`, `AnswerEvent`, `ErrorEvent`, `StreamThrows`, `StreamEnds` | `AttemptController.accept`, the attempt buffer, `classifyTerminalEvent`, then `settleAttempt`, which is part of the same step |
| `BackoffOver` | `runWithRetries` |
| `UserAborts`, `IntentMoves`, `SessionReplaced` | the environment, at any await |

`Forward` is the attempt buffer: hold an event, commit to live streaming when
full of thinking, or fail. `FailAttempt` is `settleAttempt` without a loop:
replay lock, retry, hand-off, or leave the candidate with its `Consequence`.
`LeaveForStronger` is `planCapabilityHop`. Abstracted: an event is its class;
the order of a hop's targets (price, band) is any order; usage accounting and
the cache notes are left out; the `finalize` of a cancelled dialog needs no
reason, so `CancelSwitch` is always possible.

### ExecutionContract and PlanLifecycle

One session's current entry: the `WorkPhaseState` record (`state`), the turn of
the invocation in flight, what that invocation was scored with (`route`), the
served model, the ledger's items and incumbent, the tool calls in flight
(`running`, `submission`). A model stands for its id, as the code compares ids
only (`sameModel`); requirements are the four bands of the legacy policy.

| Operators and actions | Code |
| --- | --- |
| `AcceptContract`, `Strike`, `BreakContract`, `ReworkContract`, `AttributeExecutor`, `NoteContractEdit`, `ExpireContract`, `EntryEndOutcome` | the pure functions of the same names in `execution-contract.ts` |
| `PenaltiesOf`, `WithContinuedPenalties` | `work-phase.ts` |
| `RouteNewEntry`, `RouteAgain` | `advanceWorkPhase`, `settleExecutionContract`, `executorPool` within `scoreRouterTurn` |
| `Serve`, `InvocationFails`, `Settle`, `EntrySettles` | first answer event, failed walk, `settleServed`, `closeContractOnSettle` |
| `SubmitPlan`, `JudgePlan` | `commit_execution` before and after its measurements |
| `CallEdit`, `EditReturns`, `ShellWrites` | `handleContractToolCall`, `trackContractToolResult` |
| `HandOffContext`, `CompleteWork`, `ReopenWork` | the lifecycle tools, for what they do to plan, item and penalties |

`blames`, `brokeAt`, `workers`, `accepted`, `logged` and `outcome` are history:
no guard reads them, except that `accepted` bounds the number of plans.

Nondeterminism stands for detail outside the model: `pool` (which models are
routable), `struggled` (the trajectory verdict), `qualified` (the served model
clears the phase's minimum), `measured` (the targets were all found in time),
`ok` (the edit succeeded).

`PlanLifecycle` is the outcome table of `docs/work-lifecycle.md` as a state
machine of one plan. `ExecutionContract` implements it under
`Lifecycle == INSTANCE PlanLifecycle WITH stage <- Stage(state.contract), ...`;
the run `contract` checks `LifecycleSpec` as a property and the theorem
`Refinement` proves it.

Left out of `ExecutionContract`: the two requirement-based policy versions; the
release grace (`releasePending`, `serveContractRelease`) and the temporary
return of a review to its submitter, which narrow who may serve and are
over-approximated by a free choice from the pool; reminders and the gate before
a first change; verifier results; clarification-only entries; a branch switch in
the session tree; manual and semi mode.

### WorkLedger and ContextEntry

`WorkLedger` has the pure part: the events and when each applies (`FoldCommit`
of a batch, all or nothing), the fold of a branch (`RebuildLedger`), anchors
and their roles, which files an item needs grounded, the catalog, and which of
the user's messages another model answered (`RequestRouting`).

`ContextEntry` puts it on Pi's session tree: `store` is the tree, the leaf and
the ledger in memory; `phase` is the entry's `WorkPhaseState`; `run` is Pi's
agent run, with the facts a tool captured before its await in `run.fly`.

| Actions | Code |
| --- | --- |
| `UserSends`, `Route` | `recordModelSelection`, `resolveEntryContext`, `advanceWorkPhase`, `scoreRouterTurn` |
| `AttemptFails`, `Serve` | `countAcquisitionRequest`, `settleBoundary`, `noteIncumbent`, `recordServedWork`, one action for the settlement |
| `StartRead`, `FinishRead`, `Edit`, `FinishEdit`, `RefuseEdit` | `observeNativeFileTool` before and after its fingerprint, `noteRead`, the gathering gate and its denials |
| `OpenForHandoff`, `StartHandOff`, `SubmitHandOff` | `hand_off_context`: stage, measurement, `submitContextHandoff` |
| `DeclareAnswer`, `AskUser`, `CompleteWork`, `StartReopen`, `SubmitReopen`, `UpdateWork` | the other lifecycle tools |
| `Remind`, `Settled` | `settleReminder`, `logSettleOutcomes` |
| `Navigate`, `SelectModel`, `Restart`, `UserAborts`, `ExternalEdit` | tree moves, model switches, a new process, and editors |

A failed branch write is `persisted = FALSE` (or `lost` for the incumbent and
served-work records): the write throws, and the code leaves the ledger as it
was. Pi awaits a tool and the handler of its result (`index.ts:857-889`), so a run
stopped during a call of its own ends (`run.pc = "stop"`) when the call has
landed; that Pi does so is assumed, since Pi is not part of the repository. A
*crash* is `Restart`: memory is rebuilt from the branch; entries may be
`damaged`. Titles, topics, excerpts and the text from which references are
taken are left out; a prompt's references are an input. An entry's key is
`Key(id)`, a negative number, so that a key used in place of a message id is
told apart from every id; `Unscored` is the cached score of a session before
its first routing.

### Scoring, RoutingPolicy, TaskRequirement, Trajectory, RequestNotes, SubagentRoles

Modules of operators, one per pure part of the code, used by `SessionTurns`.
Numbers are integers: index values in tenths, shares in hundredths,
requirements in thousandths, scores with `Unit` for 1.0. A cost is an exponent
of two, so the logarithmic utility of the source is an exact ratio, and
`MinSample` is a constant (section 3).

- `Scoring`: keys and efforts, axes and minimums, tiers, utilities, switch
  bonus, order and chain, the escalation proof. There is one deliberate
  abstraction, in its header: a cache credit always reaches the margin.
- `RoutingPolicy`: `ExpandModelCandidates` (measured and estimated efforts) and
  `ResolveWithPolicy` with its causes: pinned source, escalation, incumbent, margin.
- `TaskRequirement`: rubric and facts to a requirement for each policy version.
- `Trajectory`: the state of one entry's tool cycles, the detectors, the owner,
  late and abandoned results, the pending escalation, recovery and its notice.
- `RequestNotes`: which notes a request gets, and where.
- `SubagentRoles`: role pools, overrides, the pick, the reviewer's independence.

### SessionTurns

The turns of a session over `RouterSession`, composed from these operators.
`turn.pc` is the await at which a turn is suspended: `entry` (the entry's
context is read), `semi` and `gate` (dialogs), `walk` (a candidate is asked),
`settle` (it streams), `idle`.

| Actions | Code |
| --- | --- |
| `SendRequest`, `EntryRead` | `streamSimple` up to and after `resolveEntryContext`: intent, flush of unresolved calls, claim of recovery, resume, pin, scoring, policy, `delegateRouterTurn` |
| `DismissSwitch`, `AcceptSwitch`, `KeepIncumbent`, `PinOther` | the answers in `resolveSemiGate` |
| `AnswerUnavailable` | `resolveTrajectoryUnavailableGate` |
| `AttemptFails`, `AttemptServes`, `SettleTurn` | the walk as its callbacks see it, `settleServed`, consumption of the escalation |
| `CallTool`, `ToolResult`, `BlockCall`, `AcceptHandoff` | `tool_call` and `tool_result` handlers |
| `Spawn`, `SubagentResult` | `resolveLiveRoleModels`, the structured-call handler, capped children |
| `UserPin`, `ResumeManual`, `SetLevel`, `SelectConcrete`, `SelectRouter`, `ConcreteRequest`, `SessionStart`, `Compact`, `Tree`, `FlipHead`, `Blacklist*`, `ClearSessionBlacklist` | commands and the event handlers of `index.ts` |

A `TurnEffort` is resolved when the turn is delegated, an attempt's effort when
it is sent, as in the code. What the other modules own is cut to what the turn
reads: a failed attempt is one step here and `Delegation` there; the incumbent
is a key here and an event on the branch in `ContextEntry`.

## 3. Runs

| Run | Instance | Shows |
| --- | --- | --- |
| `walk` | five rows (one model on two providers and at two efforts, a stronger and an unmeasured one), three chains, semi mode, tool-loop continuation, three kinds of error | all safety and liveness properties of the walk |
| `strikes` | six models, five of one provider, one of them missing; no dialog | the provider circuit with its real limit of three |
| `contract` | two models, two interchangeable items, one file, three plans, two entries, three invocations each | strikes, exclusions, carry-over, refinement |
| `budget` | one entry of ten invocations, two files, one plan | expiry, blame and handback |
| `context` | two items, one file in two parts, a model or two; five workloads: files that change under an entry, paths of every kind, two entries with tree moves and restarts, two entries through the whole lifecycle, work with a file that is reopened | ledger and branch agree through crashes and failed writes; measured facts hold when they are used; limits and reminders |
| `session` | three models (one with two efforts, one unmeasured effort, one strong and dear), fourteen workloads | struggle, recovery and escalation; pins, holds and dialogs; boundaries; reviewers; prefixes |
| `commit`, `replaced`, `abandoned`, `rework`, `reopen`, `superseded` | small instances | one documented claim each that the code does not meet (section 6) |

Bounds, and why they are enough:

- `BufferCap = 1` (code: 10 000 events): one held event, then overflow. The
  buffer's behaviour depends only on full or not full and on whether it holds
  thinking.
- Strike and retry limits are the code's own (3, 2, 1). `SentCap` saturates the
  history counter `try.sent` above the value `RequestsBounded` allows.
- The three chains of three candidates produce a row skipped as a replay on another provider,
  a hop to a higher effort of the same model, a hop past a candidate that must
  stay in the chain for recovery, and hops without a target; the violation run `abandoned` uses four candidates, since it needs two hops.
- The smallest plan has a budget of 2*1 + 4 = 6, so an expiry needs a plan
  accepted at invocation 1 and a routing at 9 or later: `MaxInvocations = 10`.
- Two strikes exclude, and a plan gives at most one: three plans let a model be
  excluded and the next plan be judged. Two entries let penalties be carried to
  the same item and to another.
- `EasyPlans` asks band 1; `HardPlans` asks band 3, one exclusion short of the
  frontier, so one exclusion decides who keeps it.
- `Items` is a symmetry set in `contract`: items occur in state and history only
  as identities. The run checks no liveness. So are `Parts` in `context`.
- `context`: `RequestLimit = 3` stands for the code's 32, which is only compared
  with; `DenialLimit = 2` is the code's own. Two attempts per walk let a
  fallback pass the limit. Two parts distinguish a partial from a full read, and
  reads of two versions. Two items are enough for the active one to change, one
  to be superseded, and a catalog to be stale. A workload bounds each kind of step by
  itself, and `upsets` bounds tree moves, restarts, aborts, switches, lost
  writes and outside changes together: two of them meet in every order. What
  stands at a path is one of five `FileKinds`, the cases that `fingerprintFile`
  and `unmetArtifactPaths` tell apart; a workload says which of them its paths
  start as and may become (`kinds`). All five take part in `AllKinds`, with one
  upset; `Reopening` has an ordinary file and none.
- `session`: a workload (`MCSessionTurns`) says which operations a behaviour has,
  so that those which can interact are together and the rest does not multiply:
  `struggle`, `fix` (edits undone while a test fails), `gate` (nothing stronger
  is left), `late` (parallel and blocked calls), `pin`, `semi`, `phase`,
  `boundary`, `cheapest` (another policy version), `spawn`, `pinned-worker`,
  `notes`, `forget` (lost notes, new sessions), `switch` (another model is
  selected while an answer is out). The calls and requests of
  `struggle` and `fix` suffice for a first detection, the recovery, a second
  detection, and an escalation that is served and settled. `MinSample = 1` (code: 8) lets a
  ladder of two efforts yield an estimate; it is compared with a count only.

All runs set `CHECK_DEADLOCK FALSE`: a walk ends in `done`, and a session whose
bounds on entries, invocations and plans are used up stops.

Fairness. `ExecutionContract`, `ContextEntry` and `SessionTurns` have none: their
properties are safety, and nothing obliges a user or a model to go on. `Delegation!Spec`
assumes weak fairness of what the router does by itself: the synchronous head
(`Choose`), the rejection of an await once the signal is aborted (`SeeAbort`:
`nextWithAbort` and `waitForRetry` race the signal), the retry timer
(`BackoffOver`), and a dialog dismissed by the aborted signal. Nothing makes a
provider, a user or a session act. `AbortEndsTurn` rests on these alone.
`Terminates` needs more, and `ResponsiveSpec` says what: auth settles, an
iterator ends, a user answers. The code has no timeout that would give this.

## 4. Properties

Walk: `SingleAnswer`, `ReplayOnlyAfterLoop` (replay), `ServedIsAnswerer` (the
published server is the answerer, and never a stale one), `RequestsBounded`,
`ExhaustionIsComplete` (the chain rewritten under its iterator loses nobody),
`HopIsStronger`, `StrikesPerCandidate`, `ServerNotExcluded`,
`NoDispatchAfterAbort`, `AbortBlamesNobody`, `LoopIsNoDefect`, `AbortEndsTurn`,
`Terminates`.

Contract: `StruckAreExcluded`, `OneStrikePerPlan`, `NoForeignPenalties`,
`ReleaseConverges`, `BreakBlamesExecutor`, `HandbackReachesSubmitter`,
`BudgetBound`, `LifecycleSpec`.

`BudgetBound` allows one invocation more than the comment at
`execution-contract.ts:211` suggests: expiry is looked at when the *next*
invocation is routed, and the test at `execution-contract.test.ts:270` pins it.

Ledger and entry: `LedgerIsFold` (a restart at this leaf rebuilds what is in
memory), `ActiveIsNotDone`, `ReopenRecorded`, `ReadsWereShown` (a recorded
grounding is of a version the model saw all of), `ReadyIsGrounded` (below),
`UnroutedDropsActive`, `EventSourceOnBranch`, `AcquisitionBounded`,
`SettleOnce`. `LedgerIsFold` and `UnroutedDropsActive` except an entry whose
model selection could not be written: the code skips that write, and a rebuild
cannot know. `ActiveIsNotDone` is said of branches all of whose entries can be
read (section 6 says why).

`ReadyIsGrounded` says what an accepted handoff or reopening may rest on: each
file that the work *now* requires was compared with the disk when the call was
made, and the work *now* holds a grounding of the very version that stood there
then. Between the two the user, the branch, the files and the model selection move on. It
is as fresh as the measurement, no fresher: a file changed after it is grounded at
the older version, and is unmet again the next time it is measured. Three kinds of
path need no grounding, by the code's own comments (`grounding.ts:235-239`,
`267-272`): one that does not exist, since it "has no content to read"; a file
above `GROUNDING_MAX_BYTES`, since no read can meet it; and a directory, which the
accepted handoff closes (both tools pass an empty open context,
`context-handoff-tool.ts:490`, `reopen-work-tool.ts:178`). So work can be accepted
with such paths and nothing read. A special or unreadable file is never met, nor a
grounded path that is no ordinary file any more. Section 6 names the reopening the
property leaves out.

Turns: `PendingNamesProducer`, `RecoveryBeforeEscalation`,
`EscalationIsStronger`, `PinServesAlone`, `BoundaryMeetsMinimum`,
`ReviewerIndependent`, `PrefixStable`. Each states its scope in the formula:
`PinServesAlone` and `EscalationIsStronger` speak of turns whose pin was not
changed during the read of their entry (section 6 says what happens then);
`RecoveryBeforeEscalation` reads the history `claims`; `PrefixStable` ends
where the history is rewritten or a note could not be recorded;
`PendingNamesProducer` speaks of an entry all of whose results came in while a
served model was known (`traj.unserved` is false; section 6 says what the others
do).

Definitions named `..Mutant` are plausible bugs of the operator that follows
them; nothing uses them in the specification. Each property has one that breaks
it, listed in `PROJECT.json`.

## 5. Proofs

Every theorem is for any value of the constants that meets the named
assumptions (the `ASSUME`s of the modules; TLC evaluates them on every run).
Each invariant was checked on the run of its module before it was proved.

### The walk

`DelegationProofs` proves every property of the walk but the two about liveness.
An assumption says that a chain lists no key twice, as a scored pool has one
candidate per key (`scorer.ts`); a hop is described as a permutation of the live
tail, so that what it keeps can be proved.

| Theorem | Property | Inductive invariant, and why it is needed |
| --- | --- | --- |
| `WalkTypeCorrect` | `TypeOK` | `TypeInv`: a walk in its retry delay has a retry left, or counting it would leave the type |
| `AnswersOnce`, `ServedAnswered` | `SingleAnswer`, `ServedIsAnswerer` | the two together: an answered attempt is committed, and a committed one can only end the turn |
| `RequestsAreBounded` | `RequestsBounded` | `RequestInv`: each request after the first has been granted by a counted retry or the one hand-off, and a request not yet sent leaves its grant unspent |
| `HopsGoUp` | `HopIsStronger` | `HopInv`: a pending hop and the excluded source are abandoned candidates, and an attempted hop target is proven stronger than its source |
| `ServerIsNotExcluded` | `ServerNotExcluded` | `HealthInv`, `ServerInv`: who is out (circuit open, blacklisted) is never the candidate being tried, and a blacklisted key is only behind the walk's position |
| `ExhaustedIsComplete` | `ExhaustionIsComplete` | `CoverInv`: each routed candidate is accounted for or still ahead, however hops permute the tail under the iterator |
| `OneStrikePerCandidate` | `StrikesPerCandidate` | `StrikeInv`: the strikes of a provider are at most its candidates that are done with; a candidate tried is at or behind the position |
| `LoopsBlameNobody`, `ReplaysFollowLoops`, `AbortStopsDispatch`, `AbortsBlameNobody` | `LoopIsNoDefect`, `ReplayOnlyAfterLoop`, `NoDispatchAfterAbort`, `AbortBlamesNobody` | action properties; `ReplayInv` says that thinking already shown, with nobody abandoned, is that of the attempt still streaming, locked against a replay |

### The contract

`ExecutionContractProofs` proves

- `TypeCorrect`: `Spec => []TypeInv`. `TypeOK` alone is not inductive. `TypeInv`
  adds `Orderly`, what the handlers rely on without checking it: a served model
  is known while its tools run, calls are in flight only then, a waiting
  submission leaves room within the bound on plans, and only a broken contract
  is captured for a handback. One lemma per action or group of actions, then the
  case split over `Next`.
- `TypeOKAlways`, its consequence.
- `Refinement`: `Spec => LifecycleSpec`. Each action maps to a step of
  `PlanLifecycle` or to a stutter; a change of the contract alone, a close, a
  new plan and an edit are the only ways the mapped state moves.

`ContractBlameProofs` proves

- `StrikesExclude`: `Spec => []StruckAreExcluded`. The strengthening,
  `PenaltiesAgree`, says the same of the penalties kept for a later entry
  (`state.prior`), and that exclusions never come without strikes:
  `withContinuedPenalties` copies strikes and exclusions by two separate
  conditions, so an entry could otherwise mix an old and a new record.
- `OutcomePerPlan`: `Spec => []Lifecycle!OneOutcomeEach`, from an invariant of
  `PlanLifecycle` and the refinement.

and then what is left of the contract's properties. First it
reduces the steps: whatever an action does, the plan *continues* unchanged or
executed, *breaks* with at most one strike, is reworked, replaced or dropped
(`PlanSteps`, `CommitEffect`), and the history of blames grows by at most that
one (`WorkSteps` says the same of the work item and the penalties).

| Theorem | Property | Inductive invariant, and why it is needed |
| --- | --- | --- |
| `BudgetHolds` | `BudgetBound` | itself: a plan past its budget is broken before it is routed again |
| `PlansAreStruckOnce` | `OneStrikePerPlan` | `StruckPlansOver`: a struck plan is broken or gone, so it cannot be struck again |
| `BreaksBlameExecutors` | `BreakBlamesExecutor` | `LastServedWorked`: the model that `attributeExecutor` rotates out is the submitter or one that served this plan |
| `HandbacksReachSubmitters` | `HandbackReachesSubmitter` | `HandbackInv`: the contract an invocation was scored with is the one in force, broken before it, or never met again |
| `ReleasesConverge` | `ReleaseConverges` | `PenaltiesAgree`: each release excludes one more model of the band |
| `PenaltiesStayPut` | `NoForeignPenalties` | `OneItemPerEntry`, `PenaltiesInv`: an entry keeps one item, and the strikes it holds are at most the blames in history for that item; counted with `IndexSets` |

### The entry and its branch

Four modules, each of which extends the one before it, about `ContextEntry`.
They rest on `LedgerAssumption` and `EntryAssumption` (`None` is no
item, path, model, part, number or status; items and paths are finite, and a new
item has an id to get; limits and batch sizes are positive; the paths of a workload
have kinds there are, and one at least); the
invariants of the earlier modules are hypotheses of the later ones.

| Theorem | Property | Inductive invariant, and why it is needed |
| --- | --- | --- |
| `CollectingIsBounded` (`EntryProofs`) | `AcquisitionBounded` | `CollectInv`: what an entry has sent while it collects is what its phase counted, and one walk adds its attempts to a count below the limit; `KeysInv`: keys in use belong to messages of the tree, so a new message has a new key |
| `RemindersSettleOnce` (`EntryProofs`) | `SettleOnce` | `SettleInv`: while the run is at an entry, the log holds for it the reminders the phase remembers and no outcome, and nothing before its first request |
| `EventsFollowTheirSource` (`BranchProofs`) | `EventSourceOnBranch` | `PlaceInv`: the run's message, its source and its entry are on the branch, unless the branch is *bare* (it has no user message) |
| `GroundingsWereShown` (`ShownProofs`) | `ReadsWereShown` | `ShownInv`: a recorded grounding has gone through coverage, provisional reads and the facts of a call in flight; each is backed by what was shown, or the next would not be |
| `MemoryIsTheFold` (`FoldProofs`) | `LedgerIsFold` | `LedgerInv`, below |
| `OthersRequestsEndWork` (`FoldProofs`) | `UnroutedDropsActive` | `LedgerInv`: a request another model answered is a boundary at which the fold clears the active item, and nothing on its branch was caused by it |
| `FinishedIsNotActive` (`FoldProofs`) | `ActiveIsNotDone` | `LedgerInv`, with its parts `PlanInv` and `OpenInv`, below |
| `ReopeningIsRecorded` (`FoldProofs`) | `ReopenRecorded` | `LedgerInv`, and that an event which makes closed work open is an update with a new status or a boundary with a reopening in it |
| `ReadyWorkIsGrounded` (`FoldProofs`) | `ReadyIsGrounded` | `LedgerInv` and `ReadyInv`, below |
| `EntryTypeCorrect` (`FoldProofs`) | `TypeOK` | `LedgerInv` and `TypeInv`: an entry that is still collecting is below its limit of refusals, or counting the next would leave the type; a handoff in flight names an item there can be, a read in flight a part there is |

`EntryProofs` first reduces the steps. A step of the store (`StoreStep`) only
makes the tree longer; a node keeps all but its damage. A step within an entry
*follows* (`Follows`): collecting may end, but not begin, counts and flags only
rise. What is left are the few steps that begin an entry (`Route`), write to the
log (`Remind`, `Settled`) or drop the run.

`BranchProofs` has the ground for what is said of paths and folds. They are
recursive functions within operators, so the provers know nothing of them: each
is shown to exist from its definition by `CHOOSE` (`PathExists`, `FoldExists`,
`ScanExists`), by induction over the *set* of numbers for which it does
(`UpToNumber`, from the library's well-founded relation), and then unfolded one
step at a time (`PathSteps`, `FoldSteps`, `RebuildSteps`).

`FoldProofs` shows that memory is the fold in three moves.

1. What an event does to the work items depends on nothing else of the ledger
   (`ApplyEffect`), and the batches the code appends have a few forms
   (`CommitForm`): each is folded in memory as it will be by a restart
   (`FoldWhole`). A step writes at most two such commits (`Writes`), or it
   sends a message, moves in the tree, selects a model or restarts
   (`StoreChanges`).
2. A rebuild reads the branch left to right, so a longer branch continues the
   rebuild of the shorter one (`ScanAppend`). But it also asks, for every
   message, whether another model answered, which is known only from the whole
   branch. `RoutedSame` says when an append leaves this alone.
3. For that, three invariants: `ForeignInv`, a request another model answered
   causes no event, names no phase and no run, except that the run's entry is
   the newest message; `RoutedOK`, whether the newest record says `router/auto`
   agrees with the session; `FlightInv`, a call of the present session belongs
   to a run that waits for it (one of an earlier session writes nothing), and a
   handoff that waits has a plan of a known form. `LedgerInv` is the conjunction
   of these with `PlaceInv`, `ShownInv`, `FoldInv` (the ledger is exact for its
   branch), `PlanInv` and `OpenInv`.

That finished work is not active is not a property of the fold: the fold
activates what an event names, done or not. It holds because every commit that
begins with an activation was planned for an item that was not done
(`StartsOpen`), and this must be known of each node of the tree, since the user
can go back to any. `OpenInv` says it of the whole tree, relative to the items at
the node's parent, whenever the way there can be read. Those items do not depend
on who answered a request (`TreeItems`), so they are the items in memory even
while another model is selected, when the ledger is not exact. `PlanInv` carries
the fact from the handoff's call to its answer: a live call belongs to a run that
waits (`FlightInv`), and meanwhile the only change of the store that is possible
is a switch of the model, which leaves the items alone (`SelectOpen`).

That accepted work is grounded spans two steps as well: what is measured when the
call is made is used when it returns. `ReadyInv` says of a call in flight that
waits, and for which nothing was unmet, that each file of its item was measured,
and that what was measured is of a kind that needs no grounding or is at the version
it read or the item in memory has grounded (`Covered`). For a handoff the
item may not exist yet, or get more files from the plan's own events, so
`MeasuredFor` speaks of the events too. The answer then records a grounding for
each file read (`UpsertsList`), at the version it read, and the commit is followed
event by event: no event takes a file from a grounding, one that changes its version
is one of these, and none adds an anchor that is not covered (`HandOffGrounds`). A reopening names its item only when it returns; `ReadyInv`
speaks of the item the entry has then (`Looked`), which is the one that was
measured as long as the run waits. Its second commit, the incumbent, leaves the
items alone (`IncumbentKeepsItems`, `ReopenGrounds`). That no other step leaves an
entry ready is `ReadySteps`.

### The turns

`TurnProofs` is about `SessionTurns`. It needs no assumption on registry, prices
or families: what a decision picks does not matter for these.

| Theorem | Property | Inductive invariant, and why it is needed |
| --- | --- | --- |
| `TurnsKeepTheirEvidence` | | `TurnInv`, below |
| `EscalationRestsOnItsModel` | `PendingNamesProducer` | `EvidenceInv`: the cycles and the held results of an entry are of one owner, who is the model in service unless nobody is, except where a result came in unserved; what is pending names that owner |
| `RecoveryComesFirst` | `RecoveryBeforeEscalation` | `EvidenceInv`: a claimed recovery is of this entry, and the results since then are at most the calls made since then; every detector asks for three |
| `RequestsExtendTheLast` | `PrefixStable` | `PrefixInv`, below |

`TurnInv` is `StateOK /\ EvidenceInv /\ RecoveryBeforeEscalation`. `StateOK` says
what the handlers rely on: the fields of session, entry and turn, that no call is
open while a turn runs, and that nobody serves a turn before a candidate
answered. The actions are reduced to a few kinds of step: a step before the
answer *leads* (`Leads`: it changes no evidence, whether the turn waits for its
context, for a dialog, or starts the walk), a step of the user or of Pi is an
`EnvironmentStep`, and what touches the trajectory *grows* it (`Grown`) by one
call or one result, or resets it. The flush of results that were held back for a
batch, and the flattening of sequences, are recursive functions: each is shown to
exist and unfolded, as in `BranchProofs`.

`PrefixInv` says that every message has an anchor of its own below the next one,
that the notes in memory are those on the branch, that what was last sent, while
it is stable, starts what history and notes say *now*, and that the messages of a
turn that waits are the history's, unless its session is gone. A request then
extends the last because a note is only ever added behind the last message
(`ApplyNotePlans`, lemma `NotesApplied`), a message only behind its predecessor
(`LongerHistory`), and because flattening is monotone (`FlattenGrows`): parts
that only grow at the end give a text that only grows at the end. The last is
the one that needs the order of things: notes between messages would move what
follows them. The invariant was checked by TLC on all fourteen workloads before
it was proved.

### What is only model-checked

`AbortEndsTurn` and `Terminates` are liveness, out of the prover's reach.
Of the other properties those of `SessionTurns` about which candidate is picked
are not proved:
`EscalationIsStronger`, `PinServesAlone`, `BoundaryMeetsMinimum`,
`ReviewerIndependent`. Each needs that the ranking is an order, and so a
type for all benchmark data a score is computed from (section 7). The
library's induction theorems take an operator as a parameter, which the provers
cannot instantiate; what `BranchProofs` does instead is induction over a set, for
one function at a time. That `Scoring`, `RoutingPolicy`, `Trajectory` and the
other modules of operators compute what their references say is checked over
bounded inputs.

## 6. Where the code and its documents differ

- `commit`: `docs/delegation.md` stops replay after a thinking-buffer commit;
  `settleAttempt` handles a latched reasoning loop before the replay lock. What
  does hold is `ReplayOnlyAfterLoop`.
- `replaced`: `docs/overview.md` says a replaced generation cannot update the
  current session; the walk's blacklist writes and `settleServed` are not guarded.
  What does hold is `ServedIsAnswerer`.
- `abandoned`: `excludeSource` remembers only the last abandoned source.
- `rework`: a model that first serves after the submitter executed its own plan
  is recorded as executor and struck for rework. What does hold for breaks is
  `BreakBlamesExecutor`.
- `reopen`: `withContinuedPenalties` overwrites strikes earned since the older
  record it restores.
- `superseded`: `submitContextHandoff` checks a choice against the catalog the
  entry was shown, and `touchItem` asks the live item only whether it is done: an
  item superseded in the same entry is activated again, against
  `catalog.ts:107` and `reopen-work-tool.ts:71`. What does hold is
  `ActiveIsNotDone`.

Found while reading and modelled as the code has it, without a run of its own:

- Evidence without an owner. `router-session-state.ts:623-628` says that a pending
  claim always names the model whose own cycles produced it. When the user selects
  another model during an answer and comes back, `endServing` (`index.ts:444`) has
  forgotten who served, the late result is recorded without an owner,
  `bindOwner` (`trajectory.ts:119`) keeps cycles whose owner is unknown, and they
  count against the model served next. (TLC finds it with the workload `switch`
  and `ClaimNamesProducer`; `PendingNamesProducer` therefore leaves such entries
  out.)

- Exclusion at spawn. The walk blacklists candidate keys (with an effort,
  `delegation.ts:1449`); `excludedCandidate` (`subagents.ts:303`) and the live
  role routing test the bare `provider/id`, so a model that failed at one effort
  is spawned, against the comments at `subagents.ts:555-563` and
  `index.ts:534-539`. For the same reason `blacklist remove p/id` does not lift
  `p/id:high`.
- A pin changed while an entry is read: `delegateRouterTurn` reads the pin again,
  so a model chosen under the old pin is served at the level of the new one.
- The unavailable-escalation dialog (`provider.ts:1707`) does not compare session
  or pin afterwards, and the generation the walk is bound to is read only after
  it.
- Resume. A new entry carries a pending identity, so the resumed decision is
  served only when the entry's context could not be read (`provider.ts:1901`),
  unlike the notice at `commands.ts:574` says. Pinning A, resuming and pinning B
  snapshots A's manual decision (`docs/delegation.md:146`).
- Recovery is one slot: A recovers, B recovers, A may recover again in the same
  entry (`trajectory.ts:203-207`). It is claimed also by a turn that then serves
  a pin or never reaches the walk, and its note goes to the next delegated
  request, also of another entry, or of another session, since `reset` keeps
  `recoveryNoteDue`.
- The entry key counts the user messages of the context sent, so a compaction in
  a running entry makes it a new one (`continuation.ts:106`).
- A semi-mode override drops the pending boundary; a cancelled dialog leaves a
  decision that was never served as the last one, and `promptPin` snapshots it.
- `clearIncumbent` is undone by a walk that was in flight when Pi switched
  models: it records its incumbent when it settles (`types.ts:172`).
- After a switch or a tree move in the middle of a walk, an event's source is the
  entry key instead of a message id (`types.ts:139-141`). The model explores the
  switch (`SelectModel` during a walk); it moves in the tree only between runs
  (`Navigate`), so a tree move in the middle of a walk is read from the code alone.
- An edit's file is fingerprinted after the edit returned, so a change made
  outside in between is grounded as the model's own (`context-grounding.ts:103`).
- A damaged reopening. `ledger.ts:7` says that a damaged entry can only lose
  state, never invent it. When the entry that reopened an item cannot be read,
  the fold skips it, and a later commit that activates the item still applies,
  since `applyEvent` asks of `activate` only that the item exists: the item is
  active and done. (With three messages, four calls and two upsets TLC finds it;
  `ActiveIsNotDone` therefore speaks of branches without damage.)
- A stale reopening measurement. What `prepareReopenFacts` measured says neither
  the session nor the item it was measured for, and `submitReopenWork`
  (`reopen-work-tool.ts:247`) uses it for the target the entry has then, although
  the comment at `reopen-work-tool.ts:154` says it checks the same as
  `hand_off_context`, which compares the session. A reopening that is measured,
  outlives a restart and lands in a new entry reopens work whose files were not
  measured. (With two messages, three calls and one upset TLC finds it;
  `ReadyIsGrounded` therefore speaks of a reopening its own run waits for, and
  with that holds on the same workload.)
- A stale handoff measurement counts as a refusal even when the entry is another
  one.

## 7. Plan

Done since the first version: the ledger with crash and lost-write faults,
context acquisition, reminders, pins and resume, trajectories and recovery,
scoring, policy and requirements, notes, roles; the proofs of the walk, of the
contract, of the entry and its branch, and of the turns (section 5). What is left, in this
order:

1. That `Before` orders the scored candidates, from a type of the benchmark data.
2. From that, `PinServesAlone`, `ReviewerIndependent`, `BoundaryMeetsMinimum` and
   `EscalationIsStronger`.

Modelled with less detail than the code has:

- The caps of the lists. An item keeps 32 anchors and 32 groundings
  (`ledger.ts:106-117`), an entry 24 provisional reads (`context-grounding.ts:188`).
  The instances have two paths at most, and an item that forgets its oldest grounding is
  asked to read it again, but `ReadyIsGrounded` is proved of unbounded lists: a
  handoff that grounds more than 32 files at once is outside it.
- The result of a native `write` is taken to be an ordinary file, so a write never
  makes one above the size cap (`Edit`). An edit keeps the kind of its file.
- A path that changes its kind between the checks of one measurement: `stat` and
  the fingerprint are one look at the disk.
- `ExecutionContract!Settle` strikes the rotated model that served, where the code
  strikes `trajectory.fromModel` (`provider.ts:837-838`). They are the same model
  wherever the rotation was served, which is the only case modelled.
- `ExecutionContract!Handoff` does not ask for the missing handoff that
  `execution-contract-tool.ts:162-171` reports as `handoff-pending`: it accepts
  more than the code does.
- `Delegation!PlanTrajectory` compares the effort a row is served at with that of
  its source, and does not tell a labelled effort from an effective one
  (`delegation.ts:1324`).
- `Settled` writes the outcomes of reminders, which the code writes only after a
  completed settlement (`index.ts:795-797`). The record that closes an entry's
  context (`closeContextEntry`), which it writes after any run, aborted and failed
  ones included, is left out.

Not modelled, and why:

- Text: references in prompts and titles, the read-only shell grammar, error
  classification, command parsing, reasoning-loop statistics. A specification
  would restate the regular expressions; the models take their verdicts as
  inputs or as nondeterministic choices.
- Files, processes and network: the benchmark store, sync and name matching,
  agent files, change facts measured through git, verifier receipts, logs,
  configuration and UI.
- The evaluation harness, which is not part of the running router.
- In `ExecutionContract`, the requirement-based policy versions and the release
  grace (section 2).
