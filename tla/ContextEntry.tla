---------------------------- MODULE ContextEntry ----------------------------
(***************************************************************************)
(* One user entry after another on a session tree: the router shows an     *)
(* entry its choice of work, the model collects context read-only and      *)
(* hands off, and every accepted step is recorded on the branch before it  *)
(* is published.  The user moves in the tree, switches models and restarts *)
(* Pi; files change outside the session; a write to the branch can fail.   *)
(* Plans (ExecutionContract), the fallback walk (Delegation), pins and     *)
(* subagents are in other modules: a walk here is one or two attempts.     *)
(***************************************************************************)
EXTENDS WorkLedger, Integers

CONSTANTS
  Models,         \* registry ids that can serve
  Parts,          \* line ranges that together are a whole file
  RequestLimit,   \* ACQUISITION_REQUEST_LIMIT
  DenialLimit,    \* ACQUISITION_DENIAL_LIMIT
  Workloads       \* bounds of a behaviour: [users, calls, reads, upsets,
                  \* batch, attempts, models, files, kinds]

ASSUME EntryAssumption ==
  /\ {RequestLimit, DenialLimit} \subseteq Nat \ {0}
  /\ None \notin Models \cup Parts \cup Int
  /\ None \notin {"acquiring", "clarification-only", "ready-pending", "served"}
  /\ Workloads \subseteq [users : Nat, calls : Nat, reads : Nat, upsets : Nat,
                         batch : Nat \ {0}, attempts : Nat \ {0},
                         models : SUBSET Models, files : SUBSET Paths,
                         kinds : (SUBSET FileKinds) \ {{}}]

VARIABLES
  store,      \* [tree, leaf, ledger]: Pi's session tree and the ledger folded from it
  auto,       \* router/auto is the selected model
  source,     \* RoutingContextState.entrySource
  coverage,   \* RoutingContextState.readCoverage: <<work, path>> -> [version, parts]
  session,    \* [gen, cached, decision, served] of the RouterSession
  phase,      \* WorkPhaseState, or None
  run,        \* [pc, entry, attempt, calls, scored, fly]: Pi's agent run
  disk,       \* what stands at each path: [kind, version]
  left,       \* what is left of the behaviour's bounds: user messages, calls outside
              \* collecting, reads, upsets (moves in the tree, switches, restarts,
              \* aborts, failed writes and attempts, outside edits)
  hist        \* [shown, foreign, sends, settle, unrecorded]: read by properties only

vars == <<store, auto, source, coverage, session, phase, run, disk, left, hist>>

(***************************************************************************)
(* Pi's session tree.                                                      *)
(***************************************************************************)
Path(tree, leaf) ==
  LET path[n \in 0..Len(tree)] == IF n = 0 THEN <<>> ELSE Append(path[tree[n].parent], tree[n])
  IN path[leaf]

Branch == Path(store.tree, store.leaf)

Entry(kind) == [kind |-> kind, auto |-> FALSE, refs |-> {}, source |-> None,
                events |-> <<>>, damaged |-> FALSE, id |-> 0, parent |-> 0]

AddEntry(st, entry) ==
  LET id == Len(st.tree) + 1
  IN [st EXCEPT !.tree = Append(@, [entry EXCEPT !.id = id, !.parent = st.leaf]), !.leaf = id]

AddSelection(st, isAuto) == AddEntry(st, [Entry("selection") EXCEPT !.auto = isAuto])

\* An intent key is a hash of the message; it is no entry's id.
Key(id) == -id
KeyOnBranch(branch, key) == BranchHoldsEntry(branch, -key)

(***************************************************************************)
(* RoutingContextState: an event is folded only once the branch holds it.  *)
(***************************************************************************)
CanAppend(st, events) == events # <<>> /\ FoldCommit(st.ledger, events).ok

AppendCommit(st, from, events) ==
  [AddEntry(st, [Entry("event") EXCEPT !.source = from, !.events = events])
     EXCEPT !.ledger = FoldCommit(st.ledger, events).ledger]

PutMutant(st, from, events, persisted) ==
  IF ~CanAppend(st, events) THEN st
  ELSE IF persisted THEN AppendCommit(st, from, events)
  ELSE [st EXCEPT !.ledger = FoldCommit(st.ledger, events).ledger]

\* append and recordIncumbent: nothing happens when the event does not apply
\* or, with persisted FALSE, when the branch did not take it.
Put(st, from, events, persisted) ==
  IF persisted /\ CanAppend(st, events) THEN AppendCommit(st, from, events) ELSE st

ClearIncumbent(st) == [st EXCEPT !.ledger.incumbent = None]

Restored(st, leaf) ==
  [st EXCEPT !.leaf = leaf, !.ledger = RebuildLedger(Path(st.tree, leaf))]

NoteReadMutant(cov, work, path, version, part) ==
  LET at == <<work, path>>
      known == (IF at \in DOMAIN cov THEN cov[at].parts ELSE {}) \cup {part}
  IN  [complete |-> known = Parts,
       coverage |-> [k \in (DOMAIN cov \cup {at}) \ (IF known = Parts THEN {at} ELSE {}) |->
                       IF k = at THEN [version |-> version, parts |-> known] ELSE cov[k]]]
NoteReadKeptMutant(cov, work, path, version, part) ==
  LET at == <<work, path>>
      known == IF at \in DOMAIN cov /\ cov[at].version = version THEN cov[at].parts ELSE {}
  IN  [complete |-> known \cup {part} = Parts,
       coverage |-> With(cov, at, [version |-> version, parts |-> known \cup {part}])]

\* noteRead: a part of another version starts the coverage over.
NoteRead(cov, work, path, version, part) ==
  LET at == <<work, path>>
      known == IF at \in DOMAIN cov /\ cov[at].version = version THEN cov[at].parts ELSE {}
  IN  [complete |-> known \cup {part} = Parts,
       coverage |-> IF known \cup {part} = Parts
                      THEN [k \in DOMAIN cov \ {at} |-> cov[k]]
                      ELSE With(cov, at, [version |-> version, parts |-> known \cup {part}])]

CompletedIncumbent(ledger) ==
  LET inc == ledger.incumbent
  IN  IF /\ inc # None /\ ledger.active = None
         /\ IF inc = None THEN FALSE
            ELSE inc.item \in DOMAIN ledger.items /\ ledger.items[inc.item].status = "done"
      THEN inc.item ELSE None

IncumbentWorkItem(ledger, model, owned) ==
  IF owned # None THEN owned
  ELSE IF ledger.active # None THEN ledger.active
  ELSE IF ledger.incumbent = None THEN None
  ELSE IF ledger.incumbent.model = model THEN ledger.incumbent.item ELSE None

(***************************************************************************)
(* The entry's state.                                                      *)
(***************************************************************************)
FreshPhase(key, deliverable) ==
  [key |-> key, deliverable |-> deliverable, status |-> None, answered |-> FALSE,
   incumbentServes |-> FALSE, pending |-> None, provisional |-> <<>>,
   requests |-> 0, denials |-> 0, deniedNow |-> FALSE, dispatched |-> FALSE,
   needsUser |-> FALSE, handedOff |-> FALSE, item |-> None, prior |-> None,
   completion |-> None, mutated |-> FALSE,
   contextReminded |-> FALSE, completionReminded |-> FALSE, outcomeLogged |-> FALSE]

OwedContext(state) ==
  (IF state.pending # None THEN {"identity-unresolved"} ELSE {})
    \cup (IF state.deliverable \in {"plan", "review"} THEN {"reasoning-prep"} ELSE {})

Restricted(state) == state # None /\ state.status \in {"acquiring", "clarification-only", "ready-pending"}

CurrentEntry == phase # None /\ session.decision # None /\ session.decision.key = phase.key

\* entryPhase: whether the entry still collects context.
Investigates(state) ==
  /\ state.status \notin {"ready-pending", "served"}
  /\ \/ ~state.incumbentServes
     \/ state.status = "clarification-only"
     \/ state.status = "acquiring" /\ OwedContext(state) # {}

CountDenial(state) ==
  IF state.status # "acquiring" \/ state.deniedNow THEN state
  ELSE [state EXCEPT !.denials = @ + 1, !.deniedNow = TRUE,
                     !.status = IF state.denials + 1 >= DenialLimit THEN "clarification-only" ELSE @]

AcceptContextHandoff(state, deliverable) ==
  [state EXCEPT !.deliverable = deliverable, !.status = "ready-pending", !.handedOff = TRUE]

CarryAcrossBranch(state, deliverable) == FreshPhase(state.key, deliverable)

Strength == [lightweight |-> 0, gather |-> 1, implement |-> 2, review |-> 3, plan |-> 4]
AtLeast(deliverable, other) ==
  IF other # None /\ Strength[other] > Strength[deliverable] THEN other ELSE deliverable

SourceOrKeyMutant(key) == IF source # None THEN source ELSE store.leaf
SourceOrKey(key) == IF source # None THEN source ELSE key

\* No decision is cached.
Unscored == [key |-> None, dimension |-> None]

IdleRun == [pc |-> "idle", entry |-> None, attempt |-> 0, calls |-> 0, scored |-> None, fly |-> None]

Init ==
  /\ store = AddSelection([tree |-> <<>>, leaf |-> 0, ledger |-> EmptyLedger], TRUE)
  /\ auto = TRUE
  /\ source = None
  /\ coverage = <<>>
  /\ session = [gen |-> 0, cached |-> Unscored, decision |-> None, served |-> None]
  /\ phase = None
  /\ run = IdleRun
  /\ left \in Workloads
  /\ disk \in [Paths -> [kind : left.kinds, version : {0}]]
  /\ hist = [shown |-> {}, foreign |-> {}, sends |-> 0, settle |-> <<>>, unrecorded |-> FALSE]

Spend(kind) == left[kind] > 0 /\ left' = [left EXCEPT ![kind] = @ - 1]

(***************************************************************************)
(* Requests.                                                               *)
(***************************************************************************)
\* recordModelSelection: Pi stores the message after the selection in force is
\* on record; a selection that cannot be written is skipped.
UserSends(refs, recorded) ==
  LET owed == RequestRouting(Branch).routedAtEnd # auto
      noted == IF owed /\ recorded THEN AddSelection(store, auto) ELSE store
      sent == AddEntry(noted, [Entry("user") EXCEPT !.refs = refs])
  IN  /\ run.pc = "idle" /\ left.users > 0
      /\ recorded \/ (owed /\ left.upsets > 0)
      /\ left' = [left EXCEPT !.users = @ - 1, !.upsets = IF recorded THEN @ ELSE @ - 1]
      /\ store' = sent
      /\ run' = IF auto THEN [run EXCEPT !.pc = "route", !.entry = sent.leaf, !.calls = 0] ELSE run
      /\ hist' = [hist EXCEPT !.foreign = IF auto THEN @ ELSE @ \cup {sent.leaf},
                              !.unrecorded = @ \/ ~recorded]
      /\ UNCHANGED <<auto, source, coverage, session, phase, disk>>

\* The choice set shown to a new entry; identity is written at its handoff only.
ResolveEntryContext(key, deliverable, refs) ==
  LET from == LatestGenuineUserEntry(Branch, -key)
      entry == IF from = None THEN key ELSE from
      catalog == BuildCatalog(store.ledger, refs)
  IN  [base |-> [refs |-> refs, deliverable |-> deliverable], source |-> entry, catalog |-> catalog,
       legacy |-> LegacyCandidates(Branch, entry, store.ledger, catalog), generation |-> session.gen]

BaseDimension(key) ==
  IF session.cached.key = key THEN session.cached.dimension
  ELSE IF store.ledger.incumbent # None THEN store.ledger.incumbent.dimension ELSE "gather"

\* advanceWorkPhase: a new entry starts afresh, a further request refuses anew.
AdvanceWorkPhase(key, hit, deliverable, pending) ==
  IF hit THEN IF phase = None THEN None ELSE [phase EXCEPT !.deniedNow = FALSE]
  ELSE [FreshPhase(key, deliverable) EXCEPT
          !.incumbentServes = store.ledger.incumbent # None,
          !.prior = CompletedIncumbent(store.ledger),
          !.pending = pending]

EnterAcquisitionMutant(state) ==
  IF state = None \/ ~Investigates(state) THEN state
  ELSE IF state.status = None THEN [state EXCEPT !.status = "acquiring", !.requests = 0]
  ELSE IF state.status = "acquiring" /\ state.requests > RequestLimit
    THEN [state EXCEPT !.status = "clarification-only"] ELSE state

\* The context part of scoring: collecting starts, or its requests are used up.
EnterAcquisition(state) ==
  IF state = None THEN state
  ELSE IF ~Investigates(state) THEN state
  ELSE LET begun == IF state.status = None THEN [state EXCEPT !.status = "acquiring", !.requests = 0] ELSE state
       IN  IF begun.status = "acquiring" /\ begun.requests >= RequestLimit
             THEN [begun EXCEPT !.status = "clarification-only"] ELSE begun

RoutedDimension(state, base) ==
  IF state = None THEN "gather"
  ELSE IF state.status \in {"ready-pending", "served"} THEN state.deliverable
  ELSE IF Investigates(state) THEN "gather" ELSE base

CountAcquisitionRequest(state, key) ==
  IF state = None THEN state
  ELSE IF state.key = key /\ state.status = "acquiring" THEN [state EXCEPT !.requests = @ + 1] ELSE state

Sends(state, before) == IF state # None /\ state.status = "acquiring" THEN before + 1 ELSE before

\* One provider request of the run, up to the first attempt being sent.
Route ==
  LET key == Key(run.entry)
      hit == session.cached.key = key
      base == BaseDimension(key)
      pending == ResolveEntryContext(key, base, store.tree[run.entry].refs)
      entered == EnterAcquisition(AdvanceWorkPhase(key, hit, base, pending))
      ended == /\ entered # None
               /\ entered.status = "clarification-only" /\ entered.dispatched
      dimension == RoutedDimension(entered, base)
  IN  /\ run.pc = "route" /\ auto
      /\ source' = IF hit THEN source ELSE pending.source
      /\ IF ended
           THEN /\ phase' = entered
                /\ session' = session
                /\ run' = [IdleRun EXCEPT !.fly = run.fly]
                /\ hist' = hist
           ELSE /\ phase' = CountAcquisitionRequest(entered, key)
                /\ session' = [session EXCEPT
                     !.cached = IF hit THEN @ ELSE [key |-> key, dimension |-> base],
                     !.decision = [key |-> key, dimension |-> dimension]]
                /\ run' = [run EXCEPT !.pc = "walk", !.attempt = 1,
                     !.scored = [key |-> key, dimension |-> dimension,
                                 boundary |-> entered # None /\ entered.status = "ready-pending"]]
                /\ hist' = [hist EXCEPT !.sends = Sends(entered, IF hit THEN @ ELSE 0)]
      /\ UNCHANGED <<store, auto, coverage, disk, left>>

\* An attempt fails before output: the next candidate is asked, or the run ends.
AttemptFails ==
  LET again == run.attempt < left.attempts
  IN  /\ run.pc = "walk" /\ Spend("upsets")
      /\ run' = IF again THEN [run EXCEPT !.attempt = @ + 1] ELSE [IdleRun EXCEPT !.fly = run.fly]
      /\ phase' = IF again THEN CountAcquisitionRequest(phase, run.scored.key) ELSE phase
      /\ hist' = IF again THEN [hist EXCEPT !.sends = Sends(phase, @)] ELSE hist
      /\ UNCHANGED <<store, auto, source, coverage, session, disk>>

\* settleBoundary: the phase belongs to the first qualifying model that serves it.
SettleBoundary(state, scored, clears) ==
  LET dispatched == IF state.key = scored.key /\ state.status = "clarification-only"
                      THEN [state EXCEPT !.dispatched = TRUE] ELSE state
  IN  IF clears /\ scored.boundary /\ state.key = scored.key /\ state.status = "ready-pending"
        THEN [dispatched EXCEPT !.status = "served"] ELSE dispatched

\* noteIncumbent: the model that served outside collecting context.
NoteIncumbent(st, state, model, scored, persisted) ==
  LET owned == IF state.item # None THEN state.item
               ELSE IF state.completion # None THEN state.completion.item ELSE state.prior
      inc == [model |-> model, dimension |-> scored.dimension,
              item |-> IncumbentWorkItem(st.ledger, model, owned)]
  IN  IF state.status \in {"acquiring", "clarification-only"} THEN st
      ELSE Put(st, SourceOrKey(scored.key), <<[op |-> "incumbent", incumbent |-> inc]>>, persisted)

RecordServedWork(st, state, model, persisted) ==
  IF state.item \notin DOMAIN st.ledger.items \/ source = None THEN st
  ELSE IF st.ledger.items[state.item].served = model THEN st
  ELSE Put(st, source, <<[op |-> "served", item |-> state.item, model |-> model]>>, persisted)

Serve(model, clears, lost) ==
  LET settled == SettleBoundary(phase, run.scored, clears)
      noted == NoteIncumbent(store, settled, model, run.scored, "incumbent" \notin lost)
  IN  /\ run.pc = "walk" /\ phase # None
      /\ IF lost = {} THEN left' = left ELSE Spend("upsets")
      /\ phase' = settled
      /\ session' = [session EXCEPT !.served = model, !.decision =
                       [key |-> run.scored.key, dimension |-> run.scored.dimension]]
      /\ store' = RecordServedWork(noted, settled, model, "served" \notin lost)
      /\ run' = [run EXCEPT !.pc = "tools", !.calls = 0]
      /\ UNCHANGED <<auto, source, coverage, disk, hist>>

(***************************************************************************)
(* Tool calls.  A call that only describes or refuses is left out.         *)
(***************************************************************************)
InCall == run.pc = "tools" /\ auto /\ phase # None /\ run.fly = None /\ run.calls < left.batch

\* Collecting is bounded by its own limits; other work by left.calls.
CallMade == IF phase.status = "acquiring" THEN left' = left ELSE Spend("calls")

Returned == [run EXCEPT !.calls = @ + 1]
Flying(facts) == [run EXCEPT !.calls = @ + 1, !.fly = facts]
Landed == IF run.pc = "stop" THEN IdleRun ELSE [run EXCEPT !.fly = None]

\* The active item a finished read or edit is credited to.
ObservedItem(path) ==
  IF phase.item # None /\ store.ledger.active # None
       /\ path \in DOMAIN store.ledger.items[store.ledger.active].anchors
    THEN store.ledger.active ELSE None

\* A read shows one part of a file as it is now; the file is hashed later.  A
\* read of anything else grounds nothing.
StartRead(path, part) ==
  LET work == IF phase.pending # None THEN None ELSE ObservedItem(path)
  IN  /\ InCall /\ phase.status # "clarification-only"
      /\ phase.pending # None \/ work # None
      /\ disk[path].kind = "file"
      /\ Spend("reads")
      /\ run' = Flying([kind |-> "read", path |-> path, part |-> part, version |-> disk[path].version,
                        work |-> work, gen |-> session.gen, key |-> phase.key])
      /\ hist' = [hist EXCEPT !.shown = @ \cup {<<path, disk[path].version, part>>}]
      /\ UNCHANGED <<store, auto, source, coverage, session, phase, disk>>

CurrentSourceEntry ==
  LET latest == LatestGenuineUserEntry(Branch, None)
  IN  IF source # None THEN source
      ELSE IF latest # None THEN latest ELSE session.cached.key

GroundingUpsert(id, path, version, by) ==
  [op |-> "grounding-upsert", item |-> id, path |-> path, version |-> version, by |-> by]

\* The file is hashed: lines that are no longer there are not a read of it.
FinishRead(persisted) ==
  LET fly == run.fly
      pending == fly.work = None
      noted == NoteRead(coverage, IF pending THEN fly.key ELSE fly.work,
                        fly.path, disk[fly.path].version, fly.part)
      valid == /\ fly.gen = session.gen
               /\ disk[fly.path].kind = "file" /\ fly.version = disk[fly.path].version
      entryStands == /\ phase # None
                     /\ phase.pending # None /\ phase.key = fly.key
                     /\ phase.pending.generation = fly.gen
  IN  /\ fly # None /\ fly.kind = "read"
      /\ IF persisted THEN left' = left
         ELSE valid /\ noted.complete /\ ~pending /\ Spend("upsets")
      /\ coverage' = IF valid THEN noted.coverage ELSE coverage
      /\ phase' = IF valid /\ noted.complete /\ pending /\ entryStands
                    THEN [phase EXCEPT !.provisional = With(@, fly.path, fly.version)] ELSE phase
      /\ store' = IF valid /\ noted.complete /\ ~pending /\ CurrentSourceEntry # None
                    THEN Put(store, CurrentSourceEntry,
                             <<GroundingUpsert(fly.work, fly.path, fly.version, "read")>>, persisted)
                    ELSE store
      /\ run' = Landed
      /\ UNCHANGED <<auto, source, session, disk, hist>>

\* gateCompletedWorkToolCall refuses a change; gateContextToolCall refuses it
\* and counts the refusal.
RefuseEdit ==
  /\ InCall /\ CurrentEntry /\ phase.prior = None /\ phase.completion = None
  /\ Restricted(phase) /\ CountDenial(phase) # phase
  /\ phase' = CountDenial(phase)
  /\ run' = Returned
  /\ UNCHANGED <<store, auto, source, coverage, session, disk, left, hist>>

\* An edit needs the file, and grounds one that was grounded; a write makes the
\* file, and grounds any file the work names.
Edit(path) ==
  \E tool \in {"edit", "write"} :
    LET work == ObservedItem(path)
        observed == /\ phase.pending = None /\ work # None
                    /\ tool = "write" \/ path \in DOMAIN store.ledger.items[work].grounding
    IN  /\ InCall
        /\ CurrentEntry => phase.prior = None /\ phase.completion = None /\ ~Restricted(phase)
        /\ disk[path].kind \in {"file", "large"} \/ (tool = "write" /\ disk[path].kind = "absent")
        /\ Spend("calls")
        /\ disk' = [disk EXCEPT ![path] = [kind |-> IF tool = "write" THEN "file" ELSE @.kind,
                                           version |-> @.version + 1]]
        /\ phase' = [phase EXCEPT !.mutated = TRUE]
        /\ run' = IF observed THEN Flying([kind |-> "edit", path |-> path, work |-> work, gen |-> session.gen])
                  ELSE Returned
        /\ UNCHANGED <<store, auto, source, coverage, session, hist>>

\* The model's own change is grounded as the file is when it is hashed.
FinishEdit(persisted) ==
  LET fly == run.fly
      valid == fly.gen = session.gen /\ disk[fly.path].kind = "file" /\ CurrentSourceEntry # None
  IN  /\ fly # None /\ fly.kind = "edit"
      /\ IF persisted THEN left' = left ELSE valid /\ Spend("upsets")
      /\ store' = IF valid THEN Put(store, CurrentSourceEntry,
                       <<GroundingUpsert(fly.work, fly.path, disk[fly.path].version, "self-edit")>>, persisted)
                  ELSE store
      /\ run' = Landed
      /\ UNCHANGED <<auto, source, coverage, session, phase, disk, hist>>

\* openFor: the entry collects, or the serving incumbent may change phase.
OpenForHandoff ==
  /\ auto /\ CurrentEntry /\ session.served # None
  /\ phase.status \notin {"clarification-only", "ready-pending", "served"}
  /\ \/ phase.status = "acquiring"
     \/ phase.incumbentServes
     \/ session.decision.dimension = "gather" /\ OwedContext(phase) = {}

\* The choices an entry can name: listed items, offered requests, new work.
EntryChoices == {[kind |-> "item", of |-> i] : i \in DOMAIN phase.pending.catalog.status}
             \cup {[kind |-> "legacy", of |-> e] : e \in phase.pending.legacy}
             \cup {[kind |-> "new", of |-> None]}

Created == {store.tree[i].events[1].item : i \in {k \in DOMAIN store.tree :
              store.tree[k].events # <<>> /\ store.tree[k].events[1].op = "work-create"}}
FreshItems == Items \ Created

\* planPendingIdentity, against the ledger as it is at the call.
PlanPendingIdentity(choice, deliverable, fresh) ==
  LET base == [phase.pending.base EXCEPT !.deliverable = deliverable]
  IN IF choice.kind = "legacy" THEN PlanFromLegacy(store.ledger, choice.of, base, fresh)
     ELSE PlanFromChoice(store.ledger, phase.pending.catalog, choice.of, base, fresh)

\* The anchors of the item a plan selects, before the plan is recorded.
PlannedAnchors(plan) ==
  IF plan.item \in DOMAIN store.ledger.items
    THEN Anchors(store.ledger.items[plan.item].anchors)
    ELSE Anchors(plan.events[1].work.anchors)

\* prepareHandoffFacts: the work is selected and its files are compared with
\* the disk.  More is measured before the answer is used.  The handoff closes
\* the open context, so none counts.  Only a property reads "measured".
StartHandOff(choice, deliverable) ==
  LET pending == phase.pending
      stale == \/ pending.generation # session.gen
               \/ \A i \in DOMAIN Branch : ~(IsUser(Branch[i]) /\ Branch[i].id = pending.source)
      plan == PlanPendingIdentity(choice, deliverable,
                CHOOSE i \in Items : FreshItems # {} => i \in FreshItems)
      required == ReferencedArtifactPaths(PlannedAnchors(plan) \cup Anchors(PromptAnchors(pending.base.refs)))
      read == [p \in DOMAIN phase.provisional \cap required |-> phase.provisional[p]]
      known == IF plan.item \in DOMAIN store.ledger.items
                 THEN Over(read, store.ledger.items[plan.item].grounding) ELSE read
  IN  /\ InCall /\ OpenForHandoff
      /\ (pending = None) = (choice.kind = "none")
      /\ choice.kind \in {"new", "legacy"} => FreshItems # {}
      /\ CallMade
      /\ run' = Flying(
           IF pending = None
             THEN [kind |-> "handoff", deliverable |-> deliverable, plan |-> NoPlan, read |-> <<>>,
                   measured |-> <<>>, unmet |-> {}, error |-> FALSE, gen |-> session.gen]
           ELSE IF stale \/ plan = NoPlan
             THEN [kind |-> "handoff", deliverable |-> deliverable, plan |-> NoPlan, read |-> <<>>,
                   measured |-> <<>>, unmet |-> {}, error |-> TRUE, gen |-> session.gen]
           ELSE [kind |-> "handoff", deliverable |-> deliverable, plan |-> plan, read |-> read,
                 measured |-> [p \in required |-> disk[p]],
                 unmet |-> UnmetArtifactPaths(known, {}, required, disk), error |-> FALSE,
                 gen |-> pending.generation])
      /\ UNCHANGED <<store, auto, source, coverage, session, phase, disk, hist>>

Upserts(id, read) ==
  LET paths == SetToSeq(DOMAIN read)
  IN [i \in DOMAIN paths |-> GroundingUpsert(id, paths[i], read[paths[i]], "read")]

\* submitContextHandoff, outcome ready: what was measured is used if the entry
\* still takes a handoff; one branch entry holds selection, reads and boundary.
SubmitHandOff(persisted) ==
  LET fly == run.fly
      selected == phase.pending # None
      owned == IF phase.prior # None THEN phase.prior
               ELSE IF phase.completion # None THEN phase.completion.item ELSE None
      reopens == /\ fly.plan.item \in DOMAIN phase.pending.catalog.status
                 /\ phase.pending.catalog.status[fly.plan.item] = "done"
      item == IF selected THEN fly.plan.item ELSE phase.item
      from == SourceOrKey(phase.key)
      planned == IF selected THEN fly.plan.events \o Upserts(item, fly.read) ELSE <<>>
      held == \/ item \in DOMAIN store.ledger.items
              \/ \E i \in DOMAIN planned : planned[i].op = "work-create"
      events == planned \o (IF item # None /\ held
                              THEN <<Boundary(item, "investigation-handoff")>> ELSE <<>>)
      entered == IF selected THEN [phase EXCEPT !.pending = None, !.provisional = <<>>, !.item = item]
                 ELSE phase
      declined == \/ phase = None \/ ~OpenForHandoff
                  \/ fly.error
                  \/ selected /\ (fly.plan = NoPlan \/ session.gen # fly.gen)
                  \/ selected /\ owned # None /\ owned = fly.plan.item /\ reopens
  IN  /\ fly # None /\ fly.kind = "handoff"
      /\ run' = Landed
      /\ IF ~(phase = None \/ ~OpenForHandoff \/ fly.error) /\ fly.unmet # {}
           THEN phase' = CountDenial(phase) /\ UNCHANGED <<store, source, session, left>> /\ persisted
         ELSE IF declined
           THEN UNCHANGED <<phase, store, source, session, left>> /\ persisted
         ELSE IF events # <<>> /\ ~(persisted /\ CanAppend(store, events))
           THEN /\ IF persisted THEN left' = left ELSE Spend("upsets")
                /\ UNCHANGED <<phase, store, source, session>>
         ELSE /\ persisted /\ left' = left
              /\ store' = IF events = <<>> THEN store
                          ELSE AppendCommit(store, IF selected THEN phase.pending.source ELSE from, events)
              /\ source' = IF selected THEN phase.pending.source ELSE source
              /\ session' = IF selected /\ session.cached.key = phase.key
                              THEN [session EXCEPT !.cached.dimension = fly.deliverable] ELSE session
              /\ phase' = [AcceptContextHandoff(entered, fly.deliverable)
                             EXCEPT !.prior = None, !.completion = None]
      /\ UNCHANGED <<auto, coverage, disk, hist>>

\* outcome answer, and outcome needs-user.
DeclareAnswer ==
  /\ InCall /\ OpenForHandoff /\ phase.status = "acquiring"
  /\ phase' = [phase EXCEPT !.answered = TRUE, !.pending = None, !.provisional = <<>>]
  /\ run' = Returned
  /\ UNCHANGED <<store, auto, source, coverage, session, disk, left, hist>>

AskUser ==
  /\ InCall /\ OpenForHandoff /\ phase.status = "acquiring"
  /\ phase' = [phase EXCEPT !.status = "clarification-only", !.needsUser = TRUE]
  /\ run' = Returned
  /\ UNCHANGED <<store, auto, source, coverage, session, disk, left, hist>>

\* submitCompleteWork.  Persisted as one entry before the entry's state changes.
CompleteWork(outcome) ==
  LET item == store.ledger.active
      events == << [op |-> "work-close", item |-> item, status |-> outcome], Boundary(item, "work-complete") >>
  IN  /\ InCall /\ CurrentEntry /\ session.served # None
      /\ phase.completion = None
      /\ phase.status \notin {"acquiring", "clarification-only", "ready-pending"}
      /\ item # None
      /\ CallMade
      /\ store' = AppendCommit(store, SourceOrKey(phase.key), events)
      /\ phase' = [phase EXCEPT !.completion = [item |-> item, status |-> outcome]]
      /\ run' = Returned
      /\ UNCHANGED <<auto, source, coverage, session, disk, hist>>

\* reopenTarget: the item this entry completed, or the completed incumbent's.
ReopenTarget(ledger, state) ==
  LET looked == IF state.completion # None THEN state.completion.item ELSE state.prior
  IN  IF \/ ledger.active # None
         \/ looked \notin DOMAIN ledger.items
         \/ state.completion # None /\ state.completion.status # "done"
      THEN None
      ELSE IF /\ ledger.items[looked].status = "done"
              /\ state.completion # None \/ CompletedIncumbent(ledger) = looked
           THEN looked ELSE None

\* prepareReopenFacts.
StartReopen(deliverable) ==
  LET target == ReopenTarget(store.ledger, phase)
      pending == phase.pending
      stale == /\ pending # None
               /\ pending.generation # session.gen \/ pending.source \notin UserIds(Branch)
      required == IF pending = None THEN {}
                  ELSE ReferencedArtifactPaths(Anchors(store.ledger.items[target].anchors)
                                                 \cup Anchors(PromptAnchors(pending.base.refs)))
      read == [p \in DOMAIN phase.provisional \cap required |-> phase.provisional[p]]
  IN  /\ InCall /\ CurrentEntry /\ session.served # None /\ target # None
      /\ phase.status \notin {"acquiring", "clarification-only", "ready-pending"}
      /\ CallMade
      /\ run' = Flying([kind |-> "reopen", deliverable |-> deliverable, stale |-> stale, read |-> read,
                        measured |-> [p \in required |-> disk[p]],
                        unmet |-> UnmetArtifactPaths(Over(read, store.ledger.items[target].grounding),
                                                     {}, required, disk)])
      /\ UNCHANGED <<store, auto, source, coverage, session, phase, disk, hist>>

\* submitReopenWork: what was measured for a target is recorded on the target
\* the entry has now.  The incumbent keeps the item.
SubmitReopen(persisted) ==
  LET fly == run.fly
      target == IF phase = None THEN None ELSE ReopenTarget(store.ledger, phase)
      from == SourceOrKey(phase.key)
      open == /\ auto /\ CurrentEntry /\ session.served # None /\ target # None
              /\ phase.status \notin {"acquiring", "clarification-only", "ready-pending"}
              /\ ~fly.stale /\ fly.unmet = {}
              /\ phase.pending # None => phase.pending.generation = session.gen
      reopened == AppendCommit(store, from, ReopenEvents(target, [deliverable |-> fly.deliverable])
                                               \o Upserts(target, fly.read))
      owner == IF store.ledger.incumbent # None THEN store.ledger.incumbent.model ELSE session.served
  IN  /\ fly # None /\ fly.kind = "reopen"
      /\ run' = Landed
      /\ IF open /\ persisted
           THEN /\ store' = Put(reopened, from, <<[op |-> "incumbent", incumbent |->
                              [model |-> owner, dimension |-> fly.deliverable, item |-> target]]>>, TRUE)
                /\ phase' = [AcceptContextHandoff(phase, fly.deliverable)
                               EXCEPT !.prior = None, !.completion = None, !.pending = None,
                                      !.provisional = <<>>, !.item = target]
                /\ session' = IF session.cached.key = phase.key
                                THEN [session EXCEPT !.cached.dimension = fly.deliverable] ELSE session
                /\ left' = left
           ELSE /\ IF persisted THEN left' = left ELSE open /\ Spend("upsets")
                /\ UNCHANGED <<store, phase, session>>
      /\ UNCHANGED <<auto, source, coverage, disk, hist>>

\* routing_context update: the model names another file of a work item.
UpdateWork(id, path) ==
  /\ InCall /\ phase.status # "clarification-only"
  /\ id \in DOMAIN store.ledger.items
  /\ path \notin DOMAIN store.ledger.items[id].anchors
  /\ CurrentSourceEntry # None
  /\ Spend("calls")
  /\ store' = AppendCommit(store, CurrentSourceEntry,
                <<Update(id, [anchors |-> [p \in {path} |-> [role |-> "reference", source |-> "model"]]])>>)
  /\ run' = Returned
  /\ UNCHANGED <<auto, source, coverage, session, phase, disk, hist>>

\* The results go back to the model; a run another model took over ends here.
NextRequest ==
  /\ run.pc = "tools" /\ run.calls > 0 /\ run.fly = None
  /\ run' = IF auto THEN [run EXCEPT !.pc = "route"] ELSE IdleRun
  /\ UNCHANGED <<store, auto, source, coverage, session, phase, disk, left, hist>>

FinalAnswer ==
  /\ run.pc = "tools" /\ run.calls = 0
  /\ run' = [run EXCEPT !.pc = "settle"]
  /\ UNCHANGED <<store, auto, source, coverage, session, phase, disk, left, hist>>

(***************************************************************************)
(* Settling.                                                               *)
(***************************************************************************)
OwesHandoffMutant(state) ==
  /\ state.status = "acquiring" /\ ~state.answered
  /\ state.deliverable \notin {"gather", "lightweight"} \/ state.denials > 0

OwesHandoff(state) ==
  /\ state.status = "acquiring" /\ ~state.contextReminded /\ ~state.answered
  /\ state.deliverable \notin {"gather", "lightweight"} \/ state.denials > 0

DeclaredHandoff(state) == state.handedOff \/ state.answered \/ state.needsUser

OwesCompletion(state) ==
  /\ state.completion = None /\ ~state.completionReminded
  /\ ~Restricted(state)
  /\ state.mutated \/ (state.status = "served" /\ state.deliverable \in {"plan", "review"})
  /\ store.ledger.active # None

\* agent_before_settle: one reminder of each kind keeps the run going.
Remind ==
  LET kind == IF OwesHandoff(phase) THEN "context" ELSE "completion"
  IN  /\ run.pc = "settle" /\ auto /\ phase # None
      /\ OwesHandoff(phase) \/ OwesCompletion(phase)
      /\ phase' = IF kind = "context" THEN [phase EXCEPT !.contextReminded = TRUE]
                  ELSE [phase EXCEPT !.completionReminded = TRUE]
      /\ hist' = [hist EXCEPT !.settle = Append(@, <<phase.key, kind, "reminded">>)]
      /\ run' = [run EXCEPT !.pc = "route"]
      /\ UNCHANGED <<store, auto, source, coverage, session, disk, left>>

\* logSettleOutcomes.
Outcomes(state) ==
  LET logged(kind, reminded, followed) ==
        IF reminded THEN << <<state.key, kind, IF followed THEN "followed" ELSE "ignored">> >> ELSE <<>>
  IN logged("context", state.contextReminded, DeclaredHandoff(state))
       \o logged("completion", state.completionReminded, state.completion # None)

Settled ==
  /\ run.pc = "settle"
  /\ (auto /\ phase # None) => ~(OwesHandoff(phase) \/ OwesCompletion(phase))
  /\ IF auto /\ phase # None
       THEN IF ~phase.outcomeLogged /\ (phase.contextReminded \/ phase.completionReminded)
              THEN /\ phase' = [phase EXCEPT !.outcomeLogged = TRUE]
                   /\ hist' = [hist EXCEPT !.settle = @ \o Outcomes(phase)]
              ELSE UNCHANGED <<phase, hist>>
       ELSE UNCHANGED <<phase, hist>>
  /\ run' = [IdleRun EXCEPT !.fly = run.fly]
  /\ UNCHANGED <<store, auto, source, coverage, session, disk, left>>

(***************************************************************************)
(* The user and the world.                                                 *)
(***************************************************************************)
\* session_tree: rebuilt from the branch the user moved to; the entry's state
\* stays whole while its message is on that branch.
Navigate(leaf) ==
  LET st == Restored(store, leaf)
      active == st.ledger.active
      held == IF active = None THEN None ELSE st.ledger.items[active].deliverable
  IN  /\ run.pc = "idle" /\ Spend("upsets")
      /\ leaf # store.leaf
      /\ store' = st
      /\ source' = None /\ coverage' = <<>>
      /\ phase' = IF phase = None THEN None
                  ELSE IF KeyOnBranch(Path(store.tree, leaf), phase.key) THEN phase
                  ELSE CarryAcrossBranch(phase, AtLeast(phase.deliverable, held))
      /\ UNCHANGED <<auto, session, run, disk, hist>>

\* model_select: Pi records the switch.  Leaving router/auto ends the
\* incumbent and what was served; coming back rebuilds the ledger.
SelectModel ==
  LET switched == AddSelection(store, ~auto)
  IN  /\ Spend("upsets")
      /\ run.pc \in {"idle", "walk"} \/ run.fly # None
      /\ auto' = ~auto
      /\ IF auto
           THEN /\ store' = ClearIncumbent(switched)
                /\ session' = [session EXCEPT !.served = None]
                /\ UNCHANGED <<source, coverage>>
           ELSE /\ store' = Restored(switched, switched.leaf)
                /\ source' = None /\ coverage' = <<>>
                /\ session' = session
      /\ UNCHANGED <<phase, run, disk, hist>>

\* session_start: everything in memory is dropped and rebuilt.  Pi may start
\* with another model selected, a stored event may be unreadable, and a tool
\* that was running may still finish.
Restart(isAuto, damaged) ==
  LET tree == [i \in DOMAIN store.tree |-> IF i = damaged THEN [store.tree[i] EXCEPT !.damaged = TRUE]
                                           ELSE store.tree[i]]
      cost == IF damaged = None THEN 1 ELSE 2
  IN  /\ left.upsets >= cost
      /\ left' = [left EXCEPT !.upsets = @ - cost]
      /\ damaged # None => store.tree[damaged].kind = "event"
      /\ store' = Restored([store EXCEPT !.tree = tree], store.leaf)
      /\ auto' = isAuto
      /\ source' = None /\ coverage' = <<>> /\ phase' = None
      /\ session' = [gen |-> session.gen + 1, cached |-> Unscored, decision |-> None, served |-> None]
      /\ run' = [IdleRun EXCEPT !.fly = run.fly]
      /\ UNCHANGED <<disk, hist>>

\* The user stops the run.  Pi awaits a tool and the handlers of its result: a run
\* that is stopped during a call of its own ends when that call has finished.
UserAborts ==
  /\ run.pc \notin {"idle", "stop"} /\ Spend("upsets")
  /\ run' = IF run.fly = None \/ run.calls = 0 THEN [IdleRun EXCEPT !.fly = run.fly]
            ELSE [run EXCEPT !.pc = "stop"]
  /\ UNCHANGED <<store, auto, source, coverage, session, phase, disk, hist>>

\* A file is written, replaced, removed or made unreadable by others.
ExternalEdit(path) ==
  /\ Spend("upsets")
  /\ \E kind \in left.kinds :
       disk' = [disk EXCEPT ![path] = [kind |-> kind, version |-> @.version + 1]]
  /\ UNCHANGED <<store, auto, source, coverage, session, phase, run, hist>>

NoChoice == [kind |-> "none", of |-> None]
Deliverables == {"implement", "review"}

Finish == \E persisted \in BOOLEAN :
            FinishRead(persisted) \/ FinishEdit(persisted) \/ SubmitHandOff(persisted) \/ SubmitReopen(persisted)

ToolCall ==
  \/ \E p \in left.files, part \in Parts : StartRead(p, part)
  \/ \E p \in left.files : Edit(p)
  \/ RefuseEdit \/ DeclareAnswer \/ AskUser
  \/ \E d \in Deliverables :
       \/ phase # None /\ \E c \in (IF phase.pending = None THEN {NoChoice} ELSE EntryChoices) : StartHandOff(c, d)
       \/ phase # None /\ StartReopen(d)
  \/ \E outcome \in {"done", "superseded"} : CompleteWork(outcome)
  \/ \E i \in Items, p \in left.files : UpdateWork(i, p)

Walk == \/ \E m \in left.models, clears \in BOOLEAN, lost \in SUBSET {"incumbent", "served"} : Serve(m, clears, lost)
        \/ AttemptFails

World ==
  \/ \E refs \in SUBSET left.files, recorded \in BOOLEAN : UserSends(refs, recorded)
  \/ \E leaf \in 0..Len(store.tree) : Navigate(leaf)
  \/ SelectModel \/ UserAborts
  \/ \E isAuto \in BOOLEAN, damaged \in DOMAIN store.tree \cup {None} : Restart(isAuto, damaged)
  \/ \E p \in left.files : ExternalEdit(p)

Next == Route \/ Walk \/ ToolCall \/ Finish \/ NextRequest \/ FinalAnswer \/ Remind \/ Settled \/ World

Spec == Init /\ [][Next]_vars

(***************************************************************************)
(* Properties.                                                             *)
(***************************************************************************)
Statuses == {None, "acquiring", "clarification-only", "ready-pending", "served"}

\* Every variable keeps the shape its TypeScript type gives it.
TypeOK ==
  /\ store.leaf \in 0..Len(store.tree)
  /\ store.ledger.active \in DOMAIN store.ledger.items \cup {None}
  /\ DOMAIN store.ledger.items \subseteq Items
  /\ auto \in BOOLEAN
  /\ \A at \in DOMAIN coverage : coverage[at].parts \in (SUBSET Parts) \ {{}, Parts}
  /\ session.served \in Models \cup {None}
  /\ phase # None => /\ phase.status \in Statuses
                     /\ phase.requests \in Nat /\ phase.denials \in 0..DenialLimit
                     /\ phase.item \in Items \cup {None}
  /\ run.pc \in {"idle", "route", "walk", "tools", "settle", "stop"} /\ run.calls \in 0..left.batch
  /\ disk \in [Paths -> [kind : FileKinds, version : Nat]]

Events(tree) == UNION {{<<i, tree[i].events[k]>> : k \in DOMAIN tree[i].events} : i \in DOMAIN tree}

\* While router/auto is selected, the ledger in memory is what a restart at this
\* leaf would rebuild: no step publishes what the branch does not hold, or the
\* reverse (appendCommit, recordIncumbent, restoreWorkLedger, handleModelSelect).
LedgerIsFold ==
  (auto /\ ~hist.unrecorded) => store.ledger = RebuildLedger(Branch)

\* Finished work is never active: not after closing it, moving in the tree, or a
\* plan made before it was closed (applyEvent, touchItem, submitContextHandoff).
\* Not so once an event cannot be read: the fold skips a lost reopening, and a
\* later activation of the item still applies.
ActiveIsNotDone ==
  (\A i \in DOMAIN Branch : ~Branch[i].damaged) /\ store.ledger.active # None
    => store.ledger.items[store.ledger.active].status # "done"

\* Superseded work stays closed: "superseded work stays closed" and "A superseded
\* item is never a choice" (reopen-work-tool.ts, catalog.ts checkChoice).
SupersededStaysClosed ==
  store.ledger.active # None => store.ledger.items[store.ledger.active].status # "superseded"

\* A grounding recorded from reads names a version all of whose parts the model
\* was shown, however reads, edits, restarts and moves interleave
\* (observeNativeFileTool, noteRead, observePendingGrounding).
ReadsWereShown ==
  \A at \in Events(store.tree) :
    LET event == at[2]
    IN  event.op = "grounding-upsert" /\ event.by = "read"
          => \A part \in Parts : <<event.path, event.version, part>> \in hist.shown

\* A request another model answered ends the router's active item, until the
\* router places work on an item again (requestRouting, rebuildLedger).
UnroutedDropsActive ==
  LET activated == {i \in DOMAIN Branch : \E k \in DOMAIN Branch[i].events :
                      Branch[i].events[k].op = "activate"}
      foreign == {i \in DOMAIN Branch : Branch[i].id \in hist.foreign}
  IN  (auto /\ ~hist.unrecorded /\ store.ledger.active # None /\ foreign # {})
        => Max(foreign) < Max(activated)

\* Done work becomes active again only by a step that records a reopening of
\* it, or by going back to a branch where it was not done (reopenEvents).
ReopenRecorded ==
  [][\A id \in DOMAIN store.ledger.items \cap DOMAIN store.ledger'.items :
       (store.ledger.items[id].status = "done" /\ store.ledger'.items[id].status = "active"
          /\ Len(store'.tree) > Len(store.tree) /\ auto' = auto)
         => \E at \in Events(store'.tree) :
              at[1] > Len(store.tree) /\ at[2] = Boundary(id, "work-reopen")]_vars

\* An entry sends only so many requests while it collects context: the limit is
\* passed by the retries of one walk at most (scoreRouterTurn,
\* countAcquisitionRequest).
AcquisitionBounded == hist.sends <= RequestLimit - 1 + left.attempts

\* Each reminder is sent once for an entry, and its outcome is logged once and
\* after it (settleReminder, logSettleOutcomes).
SettleOnce ==
  /\ \A i, j \in DOMAIN hist.settle : hist.settle[i] = hist.settle[j] => i = j
  /\ \A i \in DOMAIN hist.settle :
       hist.settle[i][3] # "reminded" =>
         /\ \E j \in 1..(i - 1) : hist.settle[j] = <<hist.settle[i][1], hist.settle[i][2], "reminded">>
         /\ \A j \in 1..(i - 1) : hist.settle[j][3] = "reminded" \/ hist.settle[j][1] # hist.settle[i][1]
                                \/ hist.settle[j][2] # hist.settle[i][2]

\* A file a piece of work may rest on: it was grounded at the version it was
\* compared at, or there is nothing a read could ground.
RestsOn(grounding, file, path) ==
  \/ file.kind = "file" /\ path \in DOMAIN grounding /\ grounding[path] = file.version
  \/ file.kind \in {"absent", "large", "directory"}

\* After a handoff accepted for selected work, every file the work now requires
\* is one the handoff compared with the disk, and was recorded as grounded at the
\* very version it had then, although the user, the branch and the files moved on
\* before the answer was used.  Three kinds of path need no grounding, as the code
\* says: one that does not exist ("has no content to read"), a file above
\* GROUNDING_MAX_BYTES and a directory; an unreadable file is never met
\* (unmetArtifactPaths).  So it is after a reopening whose run still waits for it.
\* A handoff compares the session it was measured in (submitContextHandoff); a
\* reopening does not (submitReopenWork), and one that outlives its session can
\* reopen work whose files nobody measured.
ReadyIsGrounded ==
  [][(phase # None /\ phase' # None /\ phase'.status = "ready-pending" /\ phase'.item # None
       /\ phase.pending # None /\ phase'.pending = None
       /\ (run.fly.kind = "handoff" \/ run.calls > 0))
       => LET work == store.ledger'.items[phase'.item]
          IN \A p \in ReferencedArtifactPaths(Anchors(work.anchors)) :
               p \in DOMAIN run.fly.measured /\ RestsOn(work.grounding, run.fly.measured[p], p)]_vars

\* Every event names a user message of the branch that holds it (by its id, or
\* by its intent key when no source is known), so that going back in the tree
\* drops the event with its cause (setEntrySource, currentSourceEntry).
EventSourceOnBranch ==
  \A i \in DOMAIN store.tree :
    store.tree[i].kind = "event" =>
      LET users == UserIds(Path(store.tree, i))
      IN  store.tree[i].source \in users \cup {Key(id) : id \in users}
=============================================================================
