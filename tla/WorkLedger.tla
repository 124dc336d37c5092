----------------------------- MODULE WorkLedger -----------------------------
(***************************************************************************)
(* The work ledger and the branch it is rebuilt from, as pure operators.   *)
(* A branch is a path in Pi's session tree: user messages, model           *)
(* selections and router events.  The ledger is the fold of the events.    *)
(* Titles, summaries, topics and excerpts are left out: they only          *)
(* describe a work item.                                                   *)
(***************************************************************************)
EXTENDS Naturals, Sequences, FiniteSets, SequencesExt

CONSTANTS
  Items,          \* ids newWorkItemId can return
  Paths,          \* files a prompt or a work item can name
  CatalogSize,    \* work items one catalog lists
  None            \* an absent optional field

ASSUME LedgerAssumption ==
  /\ None \notin Items \cup Paths
  /\ Items # {}
  /\ CatalogSize \in Nat \ {0}
  /\ IsFiniteSet(Items) /\ IsFiniteSet(Paths)

ContextDeliverables == {"gather", "plan", "implement", "review"}
ReferenceRoles == {"requirement", "design", "reference"}

(***************************************************************************)
(* Events and the fold.                                                    *)
(***************************************************************************)
\* Functions one entry longer, and one function where it is defined else another.
With(f, x, y) == [k \in DOMAIN f \cup {x} |-> IF k = x THEN y ELSE f[k]]
Over(f, g) == [k \in DOMAIN f \cup DOMAIN g |-> IF k \in DOMAIN f THEN f[k] ELSE g[k]]

EmptyLedger == [items |-> <<>>, recency |-> <<>>, active |-> None, incumbent |-> None]

\* Only the user sets the role of an anchor the user named.
MergeAnchors(existing, added) ==
  [p \in DOMAIN existing \cup DOMAIN added |->
     IF p \notin DOMAIN existing THEN added[p]
     ELSE IF p \notin DOMAIN added THEN existing[p]
     ELSE LET old == existing[p]  new == added[p]
              setsRole == new.role # None /\ (old.source # "user" \/ new.source = "user")
          IN  [role   |-> IF setsRole THEN new.role ELSE old.role,
               source |-> IF old.source = "user" THEN "user" ELSE new.source]]

Touch(recency, id) == <<id>> \o SelectSeq(recency, LAMBDA other : other # id)

WithItem(ledger, id, work, touched) ==
  [ledger EXCEPT !.items = With(@, id, work),
                 !.recency = IF touched THEN Touch(@, id) ELSE @]

ApplyPatch(work, patch) ==
  [f \in DOMAIN work |->
     IF f \notin DOMAIN patch THEN work[f]
     ELSE IF f = "anchors" THEN MergeAnchors(work.anchors, patch.anchors)
     ELSE patch[f]]

\* An event that does not apply is neither written nor folded.
Applies(ledger, event) ==
  CASE event.op = "work-create" -> event.item \notin DOMAIN ledger.items
    [] event.op = "incumbent"   -> ledger.incumbent # event.incumbent
    [] OTHER                    -> event.item \in DOMAIN ledger.items

ApplyEvent(ledger, event) ==
  IF ~Applies(ledger, event) THEN ledger
  ELSE IF event.op = "incumbent" THEN [ledger EXCEPT !.incumbent = event.incumbent]
  ELSE IF event.op = "work-create" THEN WithItem(ledger, event.item, event.work, TRUE)
  ELSE LET id == event.item
           work == ledger.items[id]
       IN CASE event.op = "work-update" ->
                 WithItem(ledger, id, ApplyPatch(work, event.patch), TRUE)
            [] event.op = "work-close" ->
                 [WithItem(ledger, id, [work EXCEPT !.status = event.status], TRUE)
                    EXCEPT !.active = IF @ = id THEN None ELSE @]
            [] event.op = "activate" ->
                 [ledger EXCEPT !.active = id, !.recency = Touch(@, id)]
            [] event.op = "grounding-upsert" ->
                 WithItem(ledger, id,
                   [work EXCEPT !.grounding = With(@, event.path, event.version)], FALSE)
            [] event.op = "served" ->
                 WithItem(ledger, id, [work EXCEPT !.served = event.model], FALSE)
            [] event.op = "boundary" ->
                 WithItem(ledger, id,
                   IF event.boundary = "investigation-handoff"
                     THEN [work EXCEPT !.open = {}] ELSE work, FALSE)

\* A commit applies as a unit: every event of it, in order, or none.
FoldCommit(ledger, events) ==
  LET after[n \in 0..Len(events)] ==
        IF n = 0 THEN [ok |-> TRUE, ledger |-> ledger]
        ELSE LET before == after[n - 1]
             IN IF before.ok /\ Applies(before.ledger, events[n])
                  THEN [ok |-> TRUE, ledger |-> ApplyEvent(before.ledger, events[n])]
                  ELSE [ok |-> FALSE, ledger |-> ledger]
  IN after[Len(events)]

LegacyWorkItem(ledger, seed) ==
  {id \in DOMAIN ledger.items : ledger.items[id].seed = seed}

(***************************************************************************)
(* The branch: a sequence of entries [id, kind, auto, refs, source,        *)
(* events, damaged].  A "selection" names router/auto or another model; an *)
(* "event" holds the flat events one append wrote.                         *)
(***************************************************************************)
IsUser(entry) == entry.kind = "user"
UserIds(branch) == {branch[i].id : i \in {k \in DOMAIN branch : IsUser(branch[k])}}

\* The selection in force after the entries of a branch: a router event, even
\* a damaged one, shows that router/auto was selected from there on.
RoutedAfter(branch, n) ==
  LET marks == {i \in 1..n : branch[i].kind # "user"}
  IN  /\ marks # {}
      /\ LET last == branch[Max(marks)] IN last.kind = "event" \/ last.auto

RequestRouting(branch) ==
  LET named == {branch[i].source : i \in {k \in DOMAIN branch :
                  branch[k].kind = "event" /\ ~branch[k].damaged}}
  IN  [unrouted |-> {branch[i].id : i \in {k \in DOMAIN branch :
                       IsUser(branch[k]) /\ ~RoutedAfter(branch, k) /\ branch[k].id \notin named}},
       routedAtEnd |-> RoutedAfter(branch, Len(branch))]

RebuildLedgerMutant(branch) ==
  FoldLeft(LAMBDA ledger, entry : FoldCommit(ledger, entry.events).ledger, EmptyLedger, branch)

\* What one entry of the branch does to the ledger.
Scan(ledger, entry, unrouted) ==
  CASE entry.kind = "selection" -> IF entry.auto THEN ledger
                                   ELSE [ledger EXCEPT !.incumbent = None]
    [] entry.kind = "user" -> IF entry.id \in unrouted
                                THEN [ledger EXCEPT !.active = None] ELSE ledger
    [] OTHER -> IF entry.damaged THEN ledger ELSE FoldCommit(ledger, entry.events).ledger

RebuildLedger(branch) ==
  LET unrouted == RequestRouting(branch).unrouted
      after[n \in 0..Len(branch)] ==
        IF n = 0 THEN EmptyLedger ELSE Scan(after[n - 1], branch[n], unrouted)
  IN after[Len(branch)]

LastUnroutedRequest(branch, entryId) ==
  LET unrouted == RequestRouting(branch).unrouted
      before == {i \in DOMAIN branch : /\ branch[i].id \in unrouted
                                       /\ \A k \in 1..i : branch[k].id # entryId}
  IN IF before = {} THEN None ELSE branch[Max(before)].id

BranchHoldsEntry(branch, key) == key \in UserIds(branch)

LatestGenuineUserEntry(branch, key) ==
  LET users == {i \in DOMAIN branch : IsUser(branch[i])}
  IN IF users = {} THEN None
     ELSE IF key \in UserIds(branch) THEN key ELSE branch[Max(users)].id

(***************************************************************************)
(* The catalog one entry is shown, and the check of a choice from it.      *)
(***************************************************************************)
\* The active item, then items the prompt names, then the rest by recency.
OrderedItems(ledger, refs) ==
  LET names(id) == DOMAIN ledger.items[id].anchors \cap refs # {}
      others == SelectSeq(ledger.recency, LAMBDA id : id # ledger.active)
  IN  (IF ledger.active = None THEN <<>> ELSE <<ledger.active>>)
      \o SelectSeq(others, names) \o SelectSeq(others, LAMBDA id : ~names(id))

BuildCatalog(ledger, refs) ==
  LET open == SelectSeq(OrderedItems(ledger, refs),
                        LAMBDA id : ledger.items[id].status # "superseded")
      listed == {open[i] : i \in 1..Min({CatalogSize, Len(open)})}
  IN  [active |-> IF ledger.active \in listed THEN ledger.active ELSE None,
       status |-> [id \in listed |-> ledger.items[id].status]]

\* Requests another model served, on the path to the last one before the
\* entry, whose work no listed item was found from.  The search offers some.
LegacyCandidates(branch, entryId, ledger, catalog) ==
  LET head == LastUnroutedRequest(branch, entryId)
      path == SelectInSeq(branch, LAMBDA entry : entry.id = head)
  IN  IF head = None THEN {}
      ELSE RequestRouting(SubSeq(branch, 1, path)).unrouted
             \ {ledger.items[id].seed : id \in DOMAIN catalog.status \cap DOMAIN ledger.items}

\* The listed item a choice names; superseded work is never listed.
CheckChoice(id, catalog) ==
  IF id \notin DOMAIN catalog.status THEN "invalid"
  ELSE IF catalog.status[id] = "done" THEN "reopen"
  ELSE IF id = catalog.active THEN "continue" ELSE "resume"

(***************************************************************************)
(* What an entry owes, and the events that place it on a work item.        *)
(***************************************************************************)
RequestContext(refs, deliverable) ==
  IF refs # {} /\ deliverable \in ContextDeliverables THEN {"referenced-artifact"} ELSE {}

CarriedContext(work) ==
  LET referenced == \E p \in DOMAIN work.anchors :
                      work.anchors[p].source = "user" /\ work.anchors[p].role \in ReferenceRoles
  IN  (IF referenced THEN {"referenced-artifact"} ELSE {})
        \cup (work.open \cap {"referenced-artifact", "carried-open-context"})

PromptAnchors(refs) == [p \in refs |-> [role |-> "reference", source |-> "user"]]

Anchors(byPath) == {[path |-> p, role |-> byPath[p].role, source |-> byPath[p].source] : p \in DOMAIN byPath}

\* The files the user referenced (every file the user named when none has a
\* reference role) and those the model added.
ReferencedArtifactPaths(anchors) ==
  LET referencing == {a \in anchors : a.role \in ReferenceRoles}
      user == {a \in anchors : a.source = "user"}
      required == (IF user \cap referencing # {} THEN user \cap referencing ELSE user)
                    \cup (referencing \ user)
  IN  {a.path : a \in required}

\* What stands at a path, and the version of what stands there: a regular file,
\* nothing, a regular file above GROUNDING_MAX_BYTES, a directory, or a file that
\* is special or cannot be read.
FileKinds == {"file", "absent", "large", "directory", "unreadable"}

UnmetArtifactPathsMutant(grounding, open, required, disk) ==
  {p \in required : /\ disk[p].kind \notin {"absent", "large"}
                    /\ IF p \in DOMAIN grounding
                         THEN ~(disk[p].kind = "file" /\ grounding[p] = disk[p].version)
                         ELSE open # {}}

\* A path that no read can meet is never unmet.  One that was grounded is met at
\* its present version, another one if it is a directory and no context is open.
UnmetArtifactPaths(grounding, open, required, disk) ==
  {p \in required : /\ disk[p].kind \notin {"absent", "large"}
                    /\ IF p \in DOMAIN grounding
                         THEN ~(disk[p].kind = "file" /\ grounding[p] = disk[p].version)
                         ELSE open # {} \/ disk[p].kind # "directory"}

Event(op, id) == [op |-> op, item |-> id]
Update(id, patch) == [op |-> "work-update", item |-> id, patch |-> patch]
Boundary(id, kind) == [op |-> "boundary", item |-> id, boundary |-> kind]

ReopenEventsMutant(id, patch) ==
  << Update(id, With(patch, "status", "active")), Event("activate", id) >>

ReopenEvents(id, patch) ==
  << Update(id, With(patch, "status", "active")), Event("activate", id), Boundary(id, "work-reopen") >>

TouchItemMutant(ledger, id, base, reasons) ==
  << Event("activate", id), Update(id, [deliverable |-> base.deliverable]) >>

TouchItem(ledger, id, base, reasons) ==
  LET work == ledger.items[id]
      all == [anchors |-> PromptAnchors(base.refs), deliverable |-> base.deliverable,
              open |-> work.open \cup reasons]
      owed == {f \in DOMAIN all : CASE f = "anchors" -> base.refs # {}
                                    [] f = "deliverable" -> work.deliverable # base.deliverable
                                    [] f = "open" -> ~(reasons \subseteq work.open)}
      patch == [f \in owed |-> all[f]]
  IN  IF work.status = "done" THEN ReopenEvents(id, patch)
      ELSE (IF ledger.active = id THEN <<>> ELSE <<Event("activate", id)>>)
             \o (IF patch = <<>> THEN <<>> ELSE <<Update(id, patch)>>)

CreateItem(fresh, base, reasons, seed) ==
  << [op |-> "work-create", item |-> fresh,
      work |-> [status |-> "active", anchors |-> PromptAnchors(base.refs), grounding |-> <<>>,
                open |-> reasons, deliverable |-> base.deliverable, served |-> None, seed |-> seed]],
     Event("activate", fresh) >>

NoPlan == [item |-> None, events |-> <<>>, reasons |-> {}]

PlanExisting(ledger, id, base) ==
  LET reasons == RequestContext(base.refs, base.deliverable) \cup CarriedContext(ledger.items[id])
  IN  [item |-> id, events |-> TouchItem(ledger, id, base, reasons), reasons |-> reasons]

PlanNew(fresh, base, seed) ==
  LET reasons == RequestContext(base.refs, base.deliverable)
  IN  [item |-> fresh, events |-> CreateItem(fresh, base, reasons, seed), reasons |-> reasons]

\* A choice is a listed item or new work (None).
PlanFromChoice(ledger, catalog, choice, base, fresh) ==
  IF choice = None THEN PlanNew(fresh, base, None)
  ELSE IF CheckChoice(choice, catalog) = "invalid" \/ choice \notin DOMAIN ledger.items THEN NoPlan
  ELSE PlanExisting(ledger, choice, base)

PlanFromLegacy(ledger, seed, base, fresh) ==
  LET found == LegacyWorkItem(ledger, seed)
  IN  IF found = {} THEN PlanNew(fresh, base, seed)
      ELSE LET id == CHOOSE i \in found : TRUE
           IN IF ledger.items[id].status = "superseded" THEN NoPlan
              ELSE PlanExisting(ledger, id, base)
=============================================================================
