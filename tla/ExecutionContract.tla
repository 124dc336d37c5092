------------------------- MODULE ExecutionContract -------------------------
(***************************************************************************)
(* The execution contract: a model submits a closed plan (commit_execution)*)
(* and the router may release it to another model, break it, let it run to *)
(* completion or out of budget, have it reviewed, and strike the models    *)
(* that leave or botch plans.  Pure transitions are those of               *)
(* routing/policy/execution-contract.ts and work-phase.ts; the actions are *)
(* the handlers of serve/execution-contract-tool.ts, provider.ts and the   *)
(* lifecycle tools, which interleave with the invocations of one session.  *)
(*                                                                         *)
(* A model stands for its id: providers and efforts of one id are one      *)
(* executor.  Requirements are the four bands, economy = 1 .. frontier = 4.*)
(***************************************************************************)
EXTENDS Integers, FiniteSets, Sequences, Functions

CONSTANTS
  Model,
  Quality,       (* measured implement quality as a band; 0: not measured  *)
  Item,          (* work items of the ledger                               *)
  File,
  Plans,         (* plans a model may submit                               *)
  Deliverables,  (* task types an entry may have                           *)
  Pools,         (* sets of models that may be routable at an invocation   *)
  MaxEntries, MaxInvocations, MaxPlans,   (* bounds of the exploration     *)
  None

ASSUME ModelAssumption ==
  /\ None \notin Model /\ IsFiniteSet(Model) /\ Quality \in [Model -> 0..4]
  /\ Pools \subseteq (SUBSET Model) \ {{}}
ASSUME WorkAssumption ==
  /\ None \notin Item
  /\ Deliverables \subseteq {"gather", "plan", "review", "implement"}
ASSUME PlanAssumption ==
  Plans \subseteq [targets : SUBSET File, edits : SUBSET File, steps : 1..12,
                   assessed : 1..4, deletes : BOOLEAN, undecided : BOOLEAN]
ASSUME BoundAssumption ==
  {MaxEntries, MaxPlans} \subseteq Nat /\ MaxInvocations \in Nat \ {0}

ContractStrikeLimit == 2
Frontier            == 4

VARIABLES
  state,      \* the WorkPhaseState of the current entry
  entry,      \* number of that entry; 0 before the first
  turn,       \* "idle", "routed", "serving", "settled", "over"
  route,      \* what the current invocation was scored with
  served, previous,   \* lastServed and previousServed
  items, active,      \* the ledger: status of each item, the active one
  incumbent,          \* the ledger's incumbent [model, item]
  running,    \* files of native edits that were called and have no result
  submission, \* a commit_execution waiting for its measurements
  \* History, read by properties only (accepted is also a bound).
  accepted, logged, outcome,  \* plans accepted, outcomes logged, the last
  blames,     \* every strike: [plan, model, item, entry]
  brokeAt,    \* invocation in which the last broken plan broke
  workers     \* models that served while the current plan was active

ledger  == <<items, active, incumbent>>
tools   == <<running, submission>>
log     == <<accepted, logged, outcome>>
blamed  == <<blames, brokeAt>>
turnVars == <<turn, route, served, previous>>
vars == <<state, entry, turnVars, ledger, tools, log, blamed, workers>>

NoStrikes == [m \in Model |-> 0]
NoRoute   == [pool |-> {}, restored |-> None, boundary |-> FALSE,
              dimension |-> "gather"]

(* A fresh entry; no contract, strike or exclusion is inherited.           *)
FreshEntry(deliverable, status, completed, prior) ==
  [item |-> None, deliverable |-> deliverable, status |-> status,
   completion |-> None, priorCompletion |-> completed, prior |-> prior,
   strikes |-> NoStrikes, excluded |-> {}, invocation |-> 1,
   contract |-> None]

Has(s, st) == s.contract # None /\ s.contract.status = st

-----------------------------------------------------------------------------
(* Pure transitions of the entry state.                                    *)

ShapeBand(p) ==
  LET n == Cardinality(p.targets) IN
  IF n <= 2 /\ p.steps <= 4 THEN 1
  ELSE IF n <= 5 /\ p.steps <= 8 THEN 2 ELSE Frontier

AtMost(n, cap) == IF n <= cap THEN n ELSE cap
Larger(a, b) == IF a >= b THEN a ELSE b

ContractBudget(steps) == 2 * steps + 4

ExecutionBandMutant(s, p) == Larger(p.assessed, ShapeBand(p))

(* Every excluded executor raises the band one step.                       *)
ExecutionBand(s, p) ==
  AtMost(Larger(p.assessed, ShapeBand(p)) + Cardinality(s.excluded), Frontier)

(* The submitter keeps a plan whose files are not all known to exist, that *)
(* deletes, that is at the frontier by size, difficulty or exclusions, that*)
(* is undecided, or that is above the submitter's own measured quality.    *)
KeepsSubmitter(s, p, m, known) ==
  LET band == ExecutionBand(s, p) IN
  \/ ~known \/ p.deletes \/ band = Frontier \/ p.undecided
  \/ Quality[m] # 0 /\ Quality[m] < band

AcceptContract(s, p, m, known, serial) ==
  [s EXCEPT !.contract =
     [serial |-> serial, status |-> "active", submitter |-> m, plan |-> p,
      release |-> ~KeepsSubmitter(s, p, m, known), pending |-> p.edits,
      acceptedAt |-> s.invocation, executor |-> None, reviewEdited |-> FALSE]]

StrikeMutant(s, m, submitter) ==
  [s EXCEPT !.strikes[m] = @ + 1,
            !.excluded = IF s.strikes[m] + 1 >= ContractStrikeLimit
                         THEN @ \union {m} ELSE @]
StrikeLateMutant(s, m, submitter) ==
  IF m = submitter THEN s
  ELSE [s EXCEPT !.strikes[m] = @ + 1,
                 !.excluded = IF s.strikes[m] >= ContractStrikeLimit
                              THEN @ \union {m} ELSE @]

(* One strike against a model other than the submitter.                    *)
Strike(s, m, submitter) ==
  IF m = submitter THEN s
  ELSE [s EXCEPT !.strikes[m] = @ + 1,
                 !.excluded = IF s.strikes[m] + 1 >= ContractStrikeLimit
                              THEN @ \union {m} ELSE @]

BreakContractMutant(s, m, reason) ==
  IF Has(s, "active") /\ m # None /\ reason # "unattributed-mutation"
  THEN Strike(s, m, s.contract.submitter) ELSE s

BreakContract(s, m, reason) ==
  IF ~Has(s, "active") THEN s
  ELSE LET struck == IF m # None /\ reason # "unattributed-mutation"
                     THEN Strike(s, m, s.contract.submitter) ELSE s
       IN  [struck EXCEPT !.contract.status = "broken"]

AttributeExecutorMutant(s, m) ==
  IF /\ s.contract # None
     /\ s.contract.release /\ s.contract.executor = None
     /\ s.contract.status # "broken" /\ m # None
  THEN [s EXCEPT !.contract.executor = m] ELSE s

(* The first other model to serve a released plan is its executor.         *)
AttributeExecutor(s, m) ==
  IF /\ s.contract # None
     /\ s.contract.release /\ s.contract.executor = None
     /\ s.contract.status # "broken"
     /\ m # None /\ m # s.contract.submitter
  THEN [s EXCEPT !.contract.executor = m] ELSE s

IsUnderReview(c) == c.status = "executed" /\ c.release /\ c.executor # None

ReworkContract(s) ==
  IF Has(s, "executed") /\ s.contract.executor # None
  THEN Strike(s, s.contract.executor, s.contract.submitter) ELSE s

NoteContractEditMutant(s, f, m) ==
  IF s.contract = None THEN s
  ELSE IF Has(s, "executed") THEN [s EXCEPT !.contract.reviewEdited = TRUE]
  ELSE LET left == s.contract.pending \ {f}
           done == [AttributeExecutor(s, m) EXCEPT !.contract.pending = left]
       IN  IF left = {} THEN [done EXCEPT !.contract.status = "executed"]
           ELSE done

(* A successful native edit: progress of an active plan, or a fix during   *)
(* the review of an executed one.                                          *)
NoteContractEdit(s, f, m) ==
  IF Has(s, "executed")
  THEN IF IsUnderReview(s.contract)
       THEN [s EXCEPT !.contract.reviewEdited = TRUE] ELSE s
  ELSE IF Has(s, "active") /\ f \in s.contract.pending
  THEN LET left == s.contract.pending \ {f}
           done == [AttributeExecutor(s, m) EXCEPT !.contract.pending = left]
       IN  IF left = {} THEN [done EXCEPT !.contract.status = "executed"]
           ELSE done
  ELSE s

ExpireContractMutant(s) ==
  IF Has(s, "active")
     /\ s.invocation - s.contract.acceptedAt
          > ContractBudget(s.contract.plan.steps) + 1
  THEN [s EXCEPT !.contract.status = "executed"] ELSE s

ExpireContract(s) ==
  IF Has(s, "active")
     /\ s.invocation - s.contract.acceptedAt
          > ContractBudget(s.contract.plan.steps)
  THEN [s EXCEPT !.contract.status = "executed"] ELSE s

EntryEndOutcome(c) ==
  CASE c.status = "broken" -> "broken"
    [] c.status = "active" -> "unfinished"
    [] OTHER -> IF c.reviewEdited THEN "fixed" ELSE "clean"

(* What a later entry on the same work item takes over.                    *)
PenaltiesOf(s) ==
  IF s.item = None THEN s.prior
  ELSE IF s.strikes = NoStrikes /\ s.excluded = {} THEN None
  ELSE [item |-> s.item, strikes |-> s.strikes, excluded |-> s.excluded]

WithContinuedPenaltiesMutant(s, w, relation) ==
  IF s.prior # None /\ relation \in {"continue", "reopen"}
  THEN [s EXCEPT !.strikes  = IF s.prior.strikes # NoStrikes
                              THEN s.prior.strikes ELSE @,
                 !.excluded = IF s.prior.excluded # {}
                              THEN s.prior.excluded ELSE @]
  ELSE s

WithContinuedPenalties(s, w, relation) ==
  IF s.prior # None /\ s.prior.item = w /\ relation \in {"continue", "reopen"}
  THEN [s EXCEPT !.strikes  = IF s.prior.strikes # NoStrikes
                              THEN s.prior.strikes ELSE @,
                 !.excluded = IF s.prior.excluded # {}
                              THEN s.prior.excluded ELSE @]
  ELSE s

-----------------------------------------------------------------------------
(* Bookkeeping shared by the actions.                                      *)

Struck(old, new) == {m \in Model : new.strikes[m] = old.strikes[m] + 1}

(* Commit the entry state; a strike is recorded in the history.            *)
Commit(s) ==
  /\ state' = s
  /\ blames' = IF Struck(state, s) = {} THEN blames
               ELSE Append(blames,
                      [plan |-> accepted, item |-> state.item,
                       entry |-> entry,
                       model |-> CHOOSE m \in Struck(state, s) : TRUE])
  /\ brokeAt' = IF Has(s, "broken") /\ ~Has(state, "broken")
                THEN state.invocation ELSE brokeAt

LogOutcome(o) == logged' = logged + 1 /\ outcome' = o
NoLog == UNCHANGED <<logged, outcome>>

(* closeContractEntry: attribute, log the outcome, drop the contract.      *)
Closed(s, m) == [AttributeExecutor(s, m) EXCEPT !.contract = None]
LogClose(s) ==
  IF s.contract = None THEN NoLog ELSE LogOutcome(EntryEndOutcome(s.contract))

Init ==
  /\ state = FreshEntry("gather", "acquiring", None, None)
  /\ entry = 0 /\ turn = "over" /\ route = NoRoute
  /\ served = None /\ previous = None
  /\ items = [w \in Item |-> "new"] /\ active = None /\ incumbent = None
  /\ running = {} /\ submission = None
  /\ accepted = 0 /\ logged = 0 /\ outcome = "none"
  /\ blames = <<>> /\ brokeAt = 0 /\ workers = {}

-----------------------------------------------------------------------------
(* Routing one invocation (scoreRouterTurn).                               *)

(* rotateServedForNewTurn                                                  *)
Rotated == IF served # None THEN served ELSE previous

(* Candidates of a released plan: no excluded model, and only models       *)
(* measured above every excluded one; none when that cannot be shown.      *)
ExecutorPool(s, pool) ==
  IF \E x \in s.excluded : x \notin pool \/ Quality[x] = 0 THEN {}
  ELSE {m \in pool \ s.excluded :
          \A x \in s.excluded : Quality[m] > Quality[x]}

Executes(s, pool) ==
  Has(s, "active") /\ s.contract.release /\ ExecutorPool(s, pool) # {}

RoutedDimension(s) ==
  IF s.contract # None /\ IsUnderReview(s.contract) THEN "review"
  ELSE IF Has(s, "active") \/ Has(s, "executed") THEN "implement"
  ELSE IF s.status = "acquiring" THEN "gather" ELSE s.deliverable

(* Attribute the last invocation, then break the plan for its executor's   *)
(* struggle, or let its budget run out.                                    *)
SettleExecution(s, prev, struggled) ==
  LET a == AttributeExecutor(s, prev) IN
  IF ~Has(a, "active") THEN a
  ELSE IF struggled /\ prev # None /\ prev # a.contract.submitter
  THEN BreakContract(a, prev, "struggle")
  ELSE ExpireContract(a)

Score(s, pool) ==
  /\ turn' = "routed"
  /\ route' = [pool |-> IF Executes(s, pool) THEN ExecutorPool(s, pool)
                        ELSE pool,
               restored |-> IF Has(s, "broken") THEN s.contract ELSE None,
               boundary |-> s.status = "ready" /\ ~Has(s, "broken"),
               dimension |-> RoutedDimension(s)]
  /\ served' = None /\ previous' = Rotated

Quiet == running = {} /\ submission = None

(* Another invocation of the same entry.                                   *)
RouteAgain(pool, struggled) ==
  LET s == SettleExecution(state, Rotated, struggled) IN
  /\ entry > 0 /\ turn \in {"idle", "settled"} /\ Quiet
  /\ state.invocation < MaxInvocations
  /\ Commit([s EXCEPT !.invocation = @ + 1])
  /\ Score(s, pool)
  /\ UNCHANGED <<entry, ledger, tools, log, workers>>

CompletedIncumbent ==
  IF /\ incumbent # None /\ incumbent.item # None /\ active = None
     /\ items[incumbent.item] = "done"
  THEN incumbent.item ELSE None

(* The first invocation of a new entry ends the previous entry's plan.     *)
RouteNewEntry(pool, deliverable) ==
  LET s == FreshEntry(
             IF incumbent = None THEN "gather" ELSE deliverable,
             IF incumbent = None THEN "acquiring" ELSE "none",
             CompletedIncumbent, PenaltiesOf(state))
  IN
  /\ entry < MaxEntries /\ turn \in {"idle", "settled", "over"} /\ Quiet
  /\ entry' = entry + 1
  /\ state' = s /\ LogClose(state)
  /\ Score(s, pool)
  /\ workers' = {}
  /\ UNCHANGED <<ledger, tools, accepted, blamed>>

-----------------------------------------------------------------------------
(* The invocation is served, or not.                                       *)

(* The answer's first event publishes lastServed.                          *)
Serve(m) ==
  /\ turn = "routed" /\ m \in route.pool
  /\ turn' = "serving" /\ served' = m
  /\ workers' = IF Has(state, "active") THEN workers \union {m} ELSE workers
  /\ UNCHANGED <<state, entry, route, previous, ledger, tools, log, blamed>>

(* No answer came, or the stream failed after one.                         *)
InvocationFails ==
  /\ turn \in {"routed", "serving"} /\ Quiet
  /\ turn' = "idle"
  /\ UNCHANGED <<state, entry, route, served, previous, ledger, tools, log,
                 blamed, workers>>

IncumbentItem(s) ==
  IF s.item # None THEN s.item
  ELSE IF s.completion # None THEN s.completion
  ELSE IF s.priorCompletion # None THEN s.priorCompletion
  ELSE IF active # None THEN active
  ELSE IF incumbent # None /\ incumbent.model = served THEN incumbent.item
  ELSE None

HandsBackMutant(s) == route.restored # None /\ Has(s, "broken")

(* A broken plan's handback is consumed by the submitter's own serve of an *)
(* invocation that was scored with that very contract.                     *)
HandsBack(s) ==
  /\ route.restored # None /\ s.contract = route.restored
  /\ s.contract.submitter = served

(* settleServed: consume the handback and the phase boundary the           *)
(* invocation was scored with, and note the incumbent.  `qualified`: the   *)
(* served model clears the phase's minimum, and no handback to a reviewing *)
(* submitter took precedence over the boundary.                            *)
Settle(qualified) ==
  LET s == IF HandsBack(state) THEN [state EXCEPT !.contract = None]
           ELSE state
      t == IF qualified /\ route.boundary /\ s.status = "ready"
           THEN [s EXCEPT !.status = "served"] ELSE s
  IN
  /\ turn = "serving"
  /\ turn' = "settled"
  /\ state' = t
  /\ IF HandsBack(state) THEN LogOutcome("broken") ELSE NoLog
  /\ incumbent' = IF t.status = "acquiring" THEN incumbent
                  ELSE [model |-> served, item |-> IncumbentItem(t)]
  /\ UNCHANGED <<entry, route, served, previous, items, active, tools,
                 accepted, blamed, workers>>

(* agent_settled: no retry or queued message will run.                     *)
EntrySettles ==
  /\ entry > 0 /\ turn \in {"idle", "settled"} /\ Quiet
  /\ turn' = "over"
  /\ state' = Closed(state, served) /\ LogClose(state)
  /\ UNCHANGED <<entry, route, served, previous, ledger, tools, accepted,
                 blamed, workers>>

Invocation ==
  \/ \E pool \in Pools :
       \/ \E struggled \in BOOLEAN : RouteAgain(pool, struggled)
       \/ \E d \in Deliverables : RouteNewEntry(pool, d)
  \/ \E m \in Model : Serve(m)
  \/ InvocationFails
  \/ \E qualified \in BOOLEAN : Settle(qualified)
  \/ EntrySettles

-----------------------------------------------------------------------------
(* Tool calls of the served model.  Nothing orders them against the end of *)
(* the router's own stream iteration, which settles the invocation.        *)

ToolsRun == turn \in {"serving", "settled"}

(* gateCompletedWorkToolCall: completed work is read-only.                 *)
WorkIsOpen == state.completion = None /\ state.priorCompletion = None

ToolFrame == UNCHANGED <<entry, turnVars>>

HandoffApplies ==
  /\ route.dimension \in {"plan", "review", "implement"}
  /\ state.deliverable \notin {"plan", "review"}

(* commit_execution measures its targets first, if it looks acceptable.    *)
SubmitPlan(p) ==
  /\ ToolsRun /\ WorkIsOpen /\ submission = None /\ accepted < MaxPlans
  /\ submission' = [plan |-> p,
                    open |-> ~Has(state, "active") /\ HandoffApplies]
  /\ ToolFrame
  /\ UNCHANGED <<state, ledger, running, log, blamed, workers>>

(* The measurements are in, or were never taken, or ran into the deadline; *)
(* the submission is judged on the state found now.                        *)
JudgePlan(measured) ==
  LET known == submission.open /\ measured
      reviewed == state.contract # None /\ IsUnderReview(state.contract)
      base == IF reviewed THEN ReworkContract(state) ELSE state
  IN
  /\ submission # None /\ submission' = None
  /\ \/ /\ Has(state, "active")                        \* a second plan
        /\ Commit(BreakContract(state, served, "replan"))
        /\ UNCHANGED <<log, workers>>
     \/ /\ ~Has(state, "active") /\ ~HandoffApplies    \* rejected
        /\ UNCHANGED <<state, log, blamed, workers>>
     \/ /\ ~Has(state, "active") /\ HandoffApplies
        /\ Commit(AcceptContract(base, submission.plan, served, known,
                                 accepted + 1))
        /\ accepted' = accepted + 1
        /\ workers' = {}
        /\ IF reviewed THEN LogOutcome("rework") ELSE LogClose(state)
  /\ ToolFrame /\ UNCHANGED <<ledger, running>>

(* handleContractToolCall for a native edit: an undeclared file breaks the *)
(* plan; the call itself proceeds.                                         *)
CallEdit(f) ==
  /\ ToolsRun /\ WorkIsOpen /\ state.status # "acquiring" /\ f \notin running
  /\ running' = running \union {f}
  /\ Commit(IF Has(state, "active") /\ f \notin state.contract.plan.targets
            THEN BreakContract(state, served, "undeclared-target")
            ELSE state)
  /\ ToolFrame /\ UNCHANGED <<ledger, submission, log, workers>>

(* trackContractToolResult for that edit.                                  *)
EditReturns(f, ok) ==
  /\ f \in running /\ running' = running \ {f}
  /\ Commit(IF ok THEN NoteContractEdit(state, f, served) ELSE state)
  /\ ToolFrame /\ UNCHANGED <<ledger, submission, log, workers>>

(* An executor of a released plan writes files from the shell.             *)
ShellWrites ==
  /\ ToolsRun /\ WorkIsOpen
  /\ Has(state, "active") /\ state.contract.release
  /\ served # state.contract.submitter
  /\ Commit(BreakContract(state, served, "unattributed-mutation"))
  /\ ToolFrame /\ UNCHANGED <<ledger, tools, log, workers>>

-----------------------------------------------------------------------------
(* The lifecycle tools, for what they do to a plan and to penalties.       *)

RelationTo(w) ==
  CASE items[w] = "new"  -> "new"
    [] items[w] = "done" -> "reopen"
    [] OTHER -> IF w = active THEN "continue" ELSE "resume"

(* Strikes of an entry on no item go with it to the item it selects.       *)
Placed(w) ==
  [i \in DOMAIN blames |->
     IF blames[i].entry = entry /\ blames[i].item = None
     THEN [blames[i] EXCEPT !.item = w] ELSE blames[i]]

Activate(w) ==
  /\ items' = [items EXCEPT ![w] = "open"]
  /\ active' = w

(* hand_off_context selects the work item of the entry.                    *)
HandOffContext(w, deliverable) ==
  LET owned == IF state.priorCompletion # None THEN state.priorCompletion
               ELSE state.completion
  IN
  /\ ToolsRun /\ state.status \in {"none", "acquiring"}
  /\ items[w] # "superseded"
  /\ ~(w = owned /\ RelationTo(w) = "reopen")
  /\ state' = [WithContinuedPenalties(state, w, RelationTo(w)) EXCEPT
                 !.item = w, !.deliverable = deliverable, !.status = "ready",
                 !.completion = None, !.priorCompletion = None]
  /\ blames' = Placed(w) /\ UNCHANGED brokeAt
  /\ Activate(w)
  /\ ToolFrame /\ UNCHANGED <<incumbent, tools, log, workers>>

(* complete_work closes the active item.                                   *)
CompleteWork(status) ==
  /\ ToolsRun /\ active # None
  /\ state.completion = None /\ state.status \in {"none", "served"}
  /\ status = "done" => ~Has(state, "active") /\ ~Has(state, "broken")
  /\ items' = [items EXCEPT ![active] = status] /\ active' = None
  /\ state' = [state EXCEPT !.completion = active]
  /\ ToolFrame /\ UNCHANGED <<incumbent, tools, log, blamed, workers>>

ReopenTarget ==
  IF state.completion # None THEN state.completion ELSE state.priorCompletion

(* reopen_work of the item this entry, or its incumbent, completed.        *)
ReopenWork(deliverable) ==
  LET w == ReopenTarget
      s == WithContinuedPenalties(state, w, "reopen")
  IN
  /\ ToolsRun /\ state.status \in {"none", "served"}
  /\ active = None /\ w # None /\ items[w] = "done"
  /\ state.completion = None => CompletedIncumbent = w
  /\ state' = [Closed(s, served) EXCEPT
                 !.item = w, !.deliverable = deliverable, !.status = "ready",
                 !.completion = None, !.priorCompletion = None]
  /\ blames' = Placed(w) /\ UNCHANGED brokeAt
  /\ LogClose(state)
  /\ Activate(w)
  /\ incumbent' = [model |-> IF incumbent = None THEN served
                             ELSE incumbent.model, item |-> w]
  /\ workers' = {}
  /\ ToolFrame /\ UNCHANGED <<tools, accepted>>

ToolCall ==
  \/ \E p \in Plans : SubmitPlan(p)
  \/ \E measured \in BOOLEAN : JudgePlan(measured)
  \/ \E f \in File : CallEdit(f) \/ (\E ok \in BOOLEAN : EditReturns(f, ok))
  \/ ShellWrites
  \/ \E w \in Item, d \in Deliverables : HandOffContext(w, d)
  \/ \E status \in {"done", "superseded"} : CompleteWork(status)
  \/ \E d \in Deliverables : ReopenWork(d)

Next == Invocation \/ ToolCall

Spec == Init /\ [][Next]_vars

-----------------------------------------------------------------------------
(* Properties.                                                             *)

(* Only a released plan has an executor, a model other than its submitter. *)
Contracts ==
  {c \in [serial : 1..MaxPlans, status : {"active", "broken", "executed"},
          submitter : Model, plan : Plans, release : BOOLEAN,
          pending : SUBSET File, acceptedAt : 1..MaxInvocations,
          executor : Model \union {None}, reviewEdited : BOOLEAN] :
     c.executor # None => c.release /\ c.executor # c.submitter}

(* The absent contract is no contract.                                     *)
ASSUME NoneAssumption == None \notin Contracts

Penalties == [item : Item, strikes : [Model -> Nat], excluded : SUBSET Model]

Blames == [plan : 0..MaxPlans, item : Item \union {None},
           entry : 0..MaxEntries, model : Model]

EntryStates ==
  [item : Item \union {None}, deliverable : Deliverables \union {"gather"},
   status : {"none", "acquiring", "ready", "served"},
   completion : Item \union {None}, priorCompletion : Item \union {None},
   prior : Penalties \union {None},
   strikes : [Model -> Nat], excluded : SUBSET Model,
   invocation : 1..MaxInvocations, contract : Contracts \union {None}]

(* The entry state, the ledger and the turn have the shape the code's      *)
(* parsers and types (WorkPhaseState, WorkLedger) allow.                   *)
TypeOK ==
  /\ state \in EntryStates
  /\ entry \in 0..MaxEntries
  /\ turn \in {"idle", "routed", "serving", "settled", "over"}
  /\ route \in [pool : SUBSET Model, restored : Contracts \union {None},
                boundary : BOOLEAN,
                dimension : Deliverables \union {"gather", "implement",
                                                 "review"}]
  /\ served \in Model \union {None} /\ previous \in Model \union {None}
  /\ items \in [Item -> {"new", "open", "done", "superseded"}]
  /\ active \in Item \union {None}
  /\ incumbent \in [model : Model, item : Item \union {None}] \union {None}
  /\ running \subseteq File
  /\ submission \in [plan : Plans, open : BOOLEAN] \union {None}
  /\ accepted \in 0..MaxPlans /\ logged \in Nat /\ brokeAt \in 0..MaxInvocations
  /\ outcome \in {"none", "broken", "unfinished", "fixed", "clean", "rework"}
  /\ blames \in Seq(Blames)
  /\ workers \subseteq Model

(* Two strikes exclude an executor, whichever way they were earned or      *)
(* carried over: strike() and withContinuedPenalties() move strikes and    *)
(* exclusions separately.                                                  *)
StruckAreExcluded ==
  \A m \in Model : state.strikes[m] >= ContractStrikeLimit
                     => m \in state.excluded

(* A plan costs at most one strike: what breaks it (a replan, a foreign    *)
(* edit, a shell write, a struggle) and what reworks it exclude each other,*)
(* in whatever order their callbacks come.                                 *)
OneStrikePerPlan ==
  \A i, j \in DOMAIN blames : blames[i].plan = blames[j].plan => i = j

(* Penalties stay with the work item they were earned on: an entry never   *)
(* holds more strikes than its item, or the entry itself, gave.            *)
NoForeignPenalties ==
  \A m \in Model :
    state.strikes[m] <=
      Cardinality({i \in DOMAIN blames :
        /\ blames[i].model = m
        /\ \/ blames[i].entry = entry
           \/ state.item # None /\ blames[i].item = state.item})

(* Releasing ends: every model with two strikes leaves a new plan one band *)
(* closer to the frontier, where the submitter keeps it, the strike of the *)
(* rework that this very plan is included.                                 *)
ReleaseConverges ==
  [][ accepted' > accepted /\ state'.contract.release
        => LET p == state'.contract.plan IN
           Larger(p.assessed, ShapeBand(p))
             + Cardinality({m \in Model :
                              state'.strikes[m] >= ContractStrikeLimit})
             < Frontier ]_vars

(* Only a model that served a plan is struck for breaking it, and never    *)
(* the submitter: the blame of the next routing and of a late tool result  *)
(* falls on the right invocation.                                          *)
BreakBlamesExecutor ==
  [][ Len(blames') > Len(blames) /\ Has(state, "broken")'
        => blames'[Len(blames')].model
             \in workers \ {state.contract.submitter} ]_vars

(* settleServed gives a broken plan back once: to its submitter, in an     *)
(* invocation routed after the break, never in the one that broke it.      *)
HandbackReachesSubmitter ==
  [][ turn = "serving" /\ turn' = "settled"
        /\ Has(state, "broken") /\ state'.contract = None
        => served = state.contract.submitter /\ state.invocation > brokeAt
    ]_vars

(* No plan outlives its budget by more than the invocation in flight: the  *)
(* expiry is looked at only when an invocation is routed.                  *)
BudgetBound ==
  Has(state, "active") =>
    state.invocation - state.contract.acceptedAt
      <= ContractBudget(state.contract.plan.steps) + 1

Stage(c)   == IF c = None THEN "none" ELSE c.status
Foreign(c) == c # None /\ c.executor # None
Touched(c) == c # None /\ c.reviewEdited

Lifecycle == INSTANCE PlanLifecycle WITH
  stage <- Stage(state.contract), foreign <- Foreign(state.contract),
  touched <- Touched(state.contract),
  opened <- accepted, closed <- logged, outcome <- outcome

(* The handlers, in any interleaving, take every plan through the outcome  *)
(* table of the documentation: one outcome each, and a broken or executed  *)
(* plan never comes back to life.                                          *)
LifecycleSpec == Lifecycle!Spec

-----------------------------------------------------------------------------
(* What the documentation says and the code does not do.                   *)

(* "Breaks and rework count against another model that executed the plan." *)
(* (docs/work-lifecycle.md:267)                                            *)
ReworkBlamesExecutor ==
  [][ Len(blames') > Len(blames) /\ Has(state, "executed")
        => blames'[Len(blames')].model \in workers ]_vars

(* "Strikes carry across entries and reopening of the same item."          *)
(* (docs/work-lifecycle.md:271)                                            *)
ReopenKeepsStrikes ==
  [][ entry' = entry /\ state'.item = state.item
        => \A m \in Model : state'.strikes[m] >= state.strikes[m] ]_vars
=============================================================================
