----------------------------- MODULE FoldProofs -----------------------------
(***************************************************************************)
(* Theorems about the ledger: it is the fold of its branch, requests other *)
(* models answered end the active item, finished work is not active, and a *)
(* reopening is recorded; work that is handed off or reopened has its      *)
(* files grounded, and every variable keeps its type.                      *)
(***************************************************************************)
EXTENDS ShownProofs

-----------------------------------------------------------------------------
(* What an event does to the work items and to the active one: neither     *)
(* depends on anything else of the ledger.                                 *)

ItemOps == {"work-create", "work-update", "work-close", "activate", "grounding-upsert", "served", "boundary"}

Fits(items, event) ==
  IF event.op = "work-create" THEN event.item \notin DOMAIN items ELSE event.item \in DOMAIN items

WorkAfter(items, event) ==
  LET work == items[event.item]
  IN CASE event.op = "work-create"      -> event.work
       [] event.op = "work-update"      -> ApplyPatch(work, event.patch)
       [] event.op = "work-close"       -> [work EXCEPT !.status = event.status]
       [] event.op = "grounding-upsert" -> [work EXCEPT !.grounding = With(@, event.path, event.version)]
       [] event.op = "served"           -> [work EXCEPT !.served = event.model]
       [] event.op = "boundary"         -> IF event.boundary = "investigation-handoff"
                                             THEN [work EXCEPT !.open = {}] ELSE work

ItemsAfter(items, event) ==
  IF event.op \in {"incumbent", "activate"} THEN items
  ELSE With(items, event.item, WorkAfter(items, event))

ActiveAfter(active, event) ==
  IF event.op = "activate" THEN event.item
  ELSE IF event.op = "work-close" /\ active = event.item THEN None
  ELSE active

Fields(ledger) == DOMAIN ledger = LedgerFields

LEMMA ApplyEffect ==
  ASSUME NEW ledger, Fields(ledger), NEW event, event.op \in ItemOps \union {"incumbent"}
  PROVE  /\ event.op # "incumbent" => (Applies(ledger, event) <=> Fits(ledger.items, event))
         /\ Applies(ledger, event) =>
              LET next == ApplyEvent(ledger, event)
              IN  /\ Fields(next)
                  /\ next.items = ItemsAfter(ledger.items, event)
                  /\ next.active = ActiveAfter(ledger.active, event)
  <1>1. event.op # "incumbent" => (Applies(ledger, event) <=> Fits(ledger.items, event))
    BY DEF Applies, Fits, ItemOps
  <1>2. \A id, work, touched :
          LET next == WithItem(ledger, id, work, touched)
          IN  /\ Fields(next) /\ next.items = With(ledger.items, id, work)
              /\ next.active = ledger.active
    BY DEF WithItem, Fields, LedgerFields
  <1> DEFINE next == ApplyEvent(ledger, event)
             Done == /\ Fields(next)
                     /\ next.items = ItemsAfter(ledger.items, event)
                     /\ next.active = ActiveAfter(ledger.active, event)
  <1>3. ASSUME Applies(ledger, event) PROVE Done
    <2> USE <1>3
    <2>1. CASE event.op = "incumbent"
      BY <2>1 DEF ApplyEvent, ItemsAfter, ActiveAfter, Fields, LedgerFields
    <2>2. CASE event.op = "work-create"
      <3> DEFINE changed == event.work
      <3>1. next = WithItem(ledger, event.item, changed, TRUE)
        BY <2>2 DEF ApplyEvent
      <3>2. changed = WorkAfter(ledger.items, event)
        BY <2>2 DEF WorkAfter
      <3> HIDE DEF changed, next
      <3>3. /\ Fields(next) /\ next.active = ledger.active
            /\ next.items = With(ledger.items, event.item, changed)
        BY <3>1, <1>2, Zenon
      <3>4. next.items = ItemsAfter(ledger.items, event)
        BY <2>2, <3>2, <3>3 DEF ItemsAfter
      <3>5. next.active = ActiveAfter(ledger.active, event)
        BY <2>2, <3>3 DEF ActiveAfter
      <3> QED
        BY <3>3, <3>4, <3>5
    <2>3. CASE event.op = "activate"
      BY <2>3 DEF ApplyEvent, ItemsAfter, ActiveAfter, Fields, LedgerFields
    <2>4. CASE event.op = "work-close"
      <3> DEFINE closed == WithItem(ledger, event.item,
                             [ledger.items[event.item] EXCEPT !.status = event.status], TRUE)
      <3>1. next = [closed EXCEPT !.active = IF @ = event.item THEN None ELSE @]
        BY <2>4 DEF ApplyEvent
      <3>2. /\ Fields(closed) /\ closed.active = ledger.active
            /\ closed.items = With(ledger.items, event.item,
                                [ledger.items[event.item] EXCEPT !.status = event.status])
        BY <1>2
      <3> HIDE DEF closed, next
      <3>3. Fields(next) /\ next.items = closed.items
            /\ next.active = IF closed.active = event.item THEN None ELSE closed.active
        BY <3>1, <3>2 DEF Fields, LedgerFields
      <3> QED
        BY <2>4, <3>2, <3>3 DEF ItemsAfter, ActiveAfter, WorkAfter
    <2>5. CASE event.op = "work-update"
      <3> DEFINE changed == ApplyPatch(ledger.items[event.item], event.patch)
      <3>1. next = WithItem(ledger, event.item, changed, TRUE)
        BY <2>5 DEF ApplyEvent
      <3>2. changed = WorkAfter(ledger.items, event)
        BY <2>5 DEF WorkAfter
      <3> HIDE DEF changed, next
      <3>3. /\ Fields(next) /\ next.active = ledger.active
            /\ next.items = With(ledger.items, event.item, changed)
        BY <3>1, <1>2, Zenon
      <3>4. next.items = ItemsAfter(ledger.items, event)
        BY <2>5, <3>2, <3>3 DEF ItemsAfter
      <3>5. next.active = ActiveAfter(ledger.active, event)
        BY <2>5, <3>3 DEF ActiveAfter
      <3> QED
        BY <3>3, <3>4, <3>5
    <2>6. CASE event.op = "grounding-upsert"
      <3> DEFINE changed == [ledger.items[event.item] EXCEPT !.grounding = With(@, event.path, event.version)]
      <3>1. next = WithItem(ledger, event.item, changed, FALSE)
        BY <2>6 DEF ApplyEvent
      <3>2. changed = WorkAfter(ledger.items, event)
        BY <2>6 DEF WorkAfter
      <3> HIDE DEF changed, next
      <3>3. /\ Fields(next) /\ next.active = ledger.active
            /\ next.items = With(ledger.items, event.item, changed)
        BY <3>1, <1>2, Zenon
      <3>4. next.items = ItemsAfter(ledger.items, event)
        BY <2>6, <3>2, <3>3 DEF ItemsAfter
      <3>5. next.active = ActiveAfter(ledger.active, event)
        BY <2>6, <3>3 DEF ActiveAfter
      <3> QED
        BY <3>3, <3>4, <3>5
    <2>7. CASE event.op = "served"
      <3> DEFINE changed == [ledger.items[event.item] EXCEPT !.served = event.model]
      <3>1. next = WithItem(ledger, event.item, changed, FALSE)
        BY <2>7 DEF ApplyEvent
      <3>2. changed = WorkAfter(ledger.items, event)
        BY <2>7 DEF WorkAfter
      <3> HIDE DEF changed, next
      <3>3. /\ Fields(next) /\ next.active = ledger.active
            /\ next.items = With(ledger.items, event.item, changed)
        BY <3>1, <1>2, Zenon
      <3>4. next.items = ItemsAfter(ledger.items, event)
        BY <2>7, <3>2, <3>3 DEF ItemsAfter
      <3>5. next.active = ActiveAfter(ledger.active, event)
        BY <2>7, <3>3 DEF ActiveAfter
      <3> QED
        BY <3>3, <3>4, <3>5
    <2>8. CASE event.op = "boundary"
      <3> DEFINE changed == IF event.boundary = "investigation-handoff"
                            THEN [ledger.items[event.item] EXCEPT !.open = {}]
                            ELSE ledger.items[event.item]
      <3>1. next = WithItem(ledger, event.item, changed, FALSE)
        BY <2>8 DEF ApplyEvent
      <3>2. changed = WorkAfter(ledger.items, event)
        BY <2>8 DEF WorkAfter
      <3> HIDE DEF changed, next
      <3>3. /\ Fields(next) /\ next.active = ledger.active
            /\ next.items = With(ledger.items, event.item, changed)
        BY <3>1, <1>2, Zenon
      <3>4. next.items = ItemsAfter(ledger.items, event)
        BY <2>8, <3>2, <3>3 DEF ItemsAfter
      <3>5. next.active = ActiveAfter(ledger.active, event)
        BY <2>8, <3>3 DEF ActiveAfter
      <3> QED
        BY <3>3, <3>4, <3>5
    <2> QED
      BY <2>1, <2>2, <2>3, <2>4, <2>5, <2>6, <2>7, <2>8 DEF ItemOps
  <1> QED
    BY <1>1, <1>3

-----------------------------------------------------------------------------
(* Commits.  The record of who served is a commit of its own; any other    *)
(* commit says of each event what the code that makes it guarantees:       *)
(* work is created active, and only a reopening changes its status back;   *)
(* a reopening is recorded; and work is activated at the start of a commit, *)
(* or once the first event has made it active.                             *)

WorkFields == {"status", "anchors", "grounding", "open", "deliverable", "served", "seed"}

(* Every file a prompt or the model names is named as a reference.         *)
Referenced(anchors) == \A p \in DOMAIN anchors : anchors[p].role = "reference"

PatchOK(patch) ==
  /\ DOMAIN patch \subseteq {"status", "anchors", "deliverable", "open"}
  /\ "anchors" \in DOMAIN patch => Referenced(patch.anchors)
  /\ "status" \in DOMAIN patch => patch.status = "active"

EventForm(event) ==
  /\ event.op \in ItemOps
  /\ event.op = "work-create" =>
       /\ event.item \in Items /\ DOMAIN event.work = WorkFields
       /\ event.work.status = "active" /\ Referenced(event.work.anchors)
  /\ event.op = "work-close" => event.status \in {"done", "superseded"}
  /\ event.op = "work-update" => PatchOK(event.patch)

Revives(event) == event.op = "work-update" /\ "status" \in DOMAIN event.patch

WorkForm(events) ==
  /\ IsTree(events)
  /\ \A k \in 1..Len(events) : EventForm(events[k])
  /\ \A k \in 1..Len(events) : Revives(events[k]) =>
       \E j \in 1..Len(events) : events[j] = Boundary(events[k].item, "work-reopen")
  /\ \A k \in 1..Len(events) : events[k].op = "activate" =>
       \/ k = 1
       \/ /\ k = 2 /\ events[1].item = events[2].item
          /\ events[1].op = "work-create" \/ Revives(events[1])

CommitForm(events) ==
  \/ WorkForm(events)
  \/ IsTree(events) /\ Len(events) = 1 /\ events[1].op = "incumbent"

LEMMA FormOps ==
  ASSUME NEW events, CommitForm(events)
  PROVE  /\ IsTree(events) /\ Len(events) \in Nat
         /\ \/ \A k \in 1..Len(events) : events[k].op \in ItemOps
            \/ Len(events) = 1 /\ events[1].op = "incumbent"
  BY DEF CommitForm, WorkForm, EventForm, IsTree

(* A ledger whose work items have all their fields, and whose active item  *)
(* is one of them.                                                         *)
Full(items) ==
  /\ DOMAIN items \subseteq Items
  /\ \A id \in DOMAIN items : DOMAIN items[id] = WorkFields /\ Referenced(items[id].anchors)
Whole(ledger) ==
  /\ Fields(ledger) /\ Full(ledger.items)
  /\ ledger.active \in DOMAIN ledger.items \union {None}

LEMMA PatchReferenced ==
  ASSUME NEW work, DOMAIN work = WorkFields, Referenced(work.anchors), NEW patch
  PROVE  /\ DOMAIN ApplyPatch(work, patch) = WorkFields
         /\ PatchOK(patch) => Referenced(ApplyPatch(work, patch).anchors)
  <1>1. DOMAIN ApplyPatch(work, patch) = WorkFields
    BY DEF ApplyPatch
  <1>2. ApplyPatch(work, patch).anchors =
          IF "anchors" \in DOMAIN patch THEN MergeAnchors(work.anchors, patch.anchors) ELSE work.anchors
    BY DEF ApplyPatch, WorkFields
  <1>3. ASSUME NEW added, Referenced(added)
        PROVE  Referenced(MergeAnchors(work.anchors, added))
    BY <1>3 DEF Referenced, MergeAnchors
  <1> QED
    BY <1>1, <1>2, <1>3 DEF PatchOK

LEMMA ApplyWhole ==
  ASSUME NEW ledger, Whole(ledger), NEW event, EventForm(event) \/ event.op = "incumbent",
         Applies(ledger, event)
  PROVE  Whole(ApplyEvent(ledger, event))
  <1> DEFINE next == ApplyEvent(ledger, event)
             items == ledger.items
  <1>1. event.op \in ItemOps \union {"incumbent"}
    BY DEF EventForm
  <1>2. Fields(next) /\ next.items = ItemsAfter(items, event)
        /\ (event.op # "incumbent" => Fits(items, event))
    BY <1>1, ApplyEffect DEF Whole
  <1>3. Full(items) /\ next.active = ActiveAfter(ledger.active, event)
        /\ ledger.active \in DOMAIN items \union {None}
    BY <1>1, ApplyEffect DEF Whole
  <1> HIDE DEF next, items
  <1>4. CASE event.op \in {"incumbent", "activate"}
    BY <1>2, <1>3, <1>4 DEF ItemsAfter, ActiveAfter, Fits, Whole, next
  <1>5. CASE event.op \notin {"incumbent", "activate"}
    <2> DEFINE work == WorkAfter(items, event)
    <2>1. EventForm(event) /\ Fits(items, event)
      BY <1>2, <1>5
    <2>2. event.item \in Items /\ DOMAIN work = WorkFields /\ Referenced(work.anchors)
      <3>1. CASE event.op = "work-create"
        BY <3>1, <2>1 DEF WorkAfter, EventForm
      <3>2. CASE event.op # "work-create"
        <4> DEFINE old == items[event.item]
        <4>1. /\ event.item \in Items /\ DOMAIN old = WorkFields /\ Referenced(old.anchors)
          BY <3>2, <2>1, <1>3 DEF Fits, Full
        <4>2. /\ \A patch : DOMAIN ApplyPatch(old, patch) = WorkFields
              /\ event.op = "work-update" => Referenced(ApplyPatch(old, event.patch).anchors)
          BY <4>1, <2>1, PatchReferenced DEF EventForm
        <4>3. event.op \in {"work-update", "work-close", "grounding-upsert", "served", "boundary"}
          BY <3>2, <2>1, <1>5 DEF EventForm, ItemOps
        <4> HIDE DEF old
        <4>4. work = IF event.op = "work-update" THEN ApplyPatch(old, event.patch)
                     ELSE IF event.op = "work-close" THEN [old EXCEPT !.status = event.status]
                     ELSE IF event.op = "grounding-upsert"
                            THEN [old EXCEPT !.grounding = With(@, event.path, event.version)]
                     ELSE IF event.op = "served" THEN [old EXCEPT !.served = event.model]
                     ELSE IF event.boundary = "investigation-handoff" THEN [old EXCEPT !.open = {}] ELSE old
          BY <4>3 DEF WorkAfter, old
        <4> QED
          BY <4>1, <4>2, <4>4 DEF WorkFields
      <3> QED
        BY <3>1, <3>2
    <2> HIDE DEF work
    <2>3. next.items = With(items, event.item, work)
      BY <1>2, <1>5 DEF ItemsAfter, work
    <2>4. Full(With(items, event.item, work))
      BY <2>2, <1>3 DEF Full, With
    <2>5. next.active \in DOMAIN next.items \union {None}
      BY <2>3, <1>3, <1>5 DEF ActiveAfter, With
    <2> QED
      BY <1>2, <2>3, <2>4, <2>5 DEF Whole, next
  <1> QED
    BY <1>4, <1>5

LEMMA FoldWhole ==
  ASSUME NEW ledger, Whole(ledger), NEW events, CommitForm(events)
  PROVE  Whole(FoldCommit(ledger, events).ledger)
  <1>0. /\ Len(events) \in Nat
        /\ \A k \in 1..Len(events) : EventForm(events[k]) \/ events[k].op = "incumbent"
    BY FormOps DEF CommitForm, WorkForm
  <1>1. PICK after : FoldTrace(ledger, events, after)
    BY <1>0, FoldSteps
  <1> DEFINE S == {n \in 0..Len(events) : Whole(after[n].ledger)}
  <1>2. ASSUME NEW n \in 0..Len(events), \A m \in 0..(n - 1) : m \in S
        PROVE  Whole(after[n].ledger)
    <2>1. CASE n = 0
      BY <2>1, <1>1 DEF FoldTrace
    <2>2. CASE n # 0
      <3>1. n \in 1..Len(events) /\ Whole(after[n - 1].ledger)
        BY <2>2, <1>2
      <3>2. after[n] = FoldedFrom(ledger, events, after[n - 1], n)
        BY <3>1, <1>1 DEF FoldTrace
      <3> QED
        BY <3>1, <3>2, <1>0, ApplyWhole DEF FoldedFrom
    <2> QED
      BY <2>1, <2>2
  <1>3. 0..Len(events) \subseteq S
    <2>1. \A n \in 0..Len(events) : (\A m \in 0..(n - 1) : m \in S) => n \in S
      BY <1>2
    <2> HIDE DEF S
    <2> QED
      BY <1>0, <2>1, UpToNumber
  <1>4. Whole(after[Len(events)].ledger)
    BY <1>0, <1>3
  <1> QED
    BY <1>1, <1>4 DEF FoldTrace

(* The items after a commit follow from the items before it.               *)
LEMMA FoldItems ==
  ASSUME NEW one, Fields(one), NEW two, Fields(two), one.items = two.items,
         NEW events, CommitForm(events)
  PROVE  FoldCommit(one, events).ledger.items = FoldCommit(two, events).ledger.items
  <1>0. Len(events) \in Nat
    BY FormOps
  <1>1. PICK f : FoldTrace(one, events, f)
    BY <1>0, FoldSteps
  <1>2. PICK g : FoldTrace(two, events, g)
    BY <1>0, FoldSteps
  <1>3. CASE \A k \in 1..Len(events) : events[k].op \in ItemOps
    <2> DEFINE Same(n) == /\ Fields(f[n].ledger) /\ Fields(g[n].ledger)
                          /\ f[n].ledger.items = g[n].ledger.items
                          /\ f[n].ok <=> g[n].ok
               S == {n \in 0..Len(events) : Same(n)}
    <2>1. ASSUME NEW n \in 0..Len(events), \A m \in 0..(n - 1) : m \in S
          PROVE  Same(n)
      <3>1. CASE n = 0
        BY <3>1, <1>1, <1>2 DEF FoldTrace
      <3>2. CASE n # 0
        <4>1. n \in 1..Len(events) /\ Same(n - 1) /\ events[n].op \in ItemOps
          BY <3>2, <2>1, <1>3
        <4>2. /\ f[n] = FoldedFrom(one, events, f[n - 1], n)
              /\ g[n] = FoldedFrom(two, events, g[n - 1], n)
          BY <4>1, <1>1, <1>2 DEF FoldTrace
        <4>3. Applies(f[n - 1].ledger, events[n]) <=> Applies(g[n - 1].ledger, events[n])
          BY <4>1, ApplyEffect DEF ItemOps
        <4>4. CASE f[n - 1].ok /\ Applies(f[n - 1].ledger, events[n])
          <5>1. /\ f[n] = [ok |-> TRUE, ledger |-> ApplyEvent(f[n - 1].ledger, events[n])]
                /\ g[n] = [ok |-> TRUE, ledger |-> ApplyEvent(g[n - 1].ledger, events[n])]
            BY <4>1, <4>2, <4>3, <4>4 DEF FoldedFrom
          <5>2. /\ Fields(ApplyEvent(f[n - 1].ledger, events[n]))
                /\ Fields(ApplyEvent(g[n - 1].ledger, events[n]))
                /\ ApplyEvent(f[n - 1].ledger, events[n]).items =
                     ApplyEvent(g[n - 1].ledger, events[n]).items
            BY <4>1, <4>3, <4>4, ApplyEffect
          <5> QED
            BY <5>1, <5>2
        <4>5. CASE ~(f[n - 1].ok /\ Applies(f[n - 1].ledger, events[n]))
          BY <4>1, <4>2, <4>3, <4>5 DEF FoldedFrom
        <4> QED
          BY <4>4, <4>5
      <3> QED
        BY <3>1, <3>2
    <2>2. 0..Len(events) \subseteq S
      <3>1. \A n \in 0..Len(events) : (\A m \in 0..(n - 1) : m \in S) => n \in S
        BY <2>1
      <3> HIDE DEF S
      <3> QED
        BY <1>0, <3>1, UpToNumber
    <2>3. Same(Len(events))
      BY <1>0, <2>2
    <2> QED
      BY <1>1, <1>2, <2>3 DEF FoldTrace
  <1>4. CASE Len(events) = 1 /\ events[1].op = "incumbent"
    <2>1. /\ f[1] = FoldedFrom(one, events, [ok |-> TRUE, ledger |-> one], 1)
          /\ g[1] = FoldedFrom(two, events, [ok |-> TRUE, ledger |-> two], 1)
      BY <1>1, <1>2, <1>4 DEF FoldTrace
    <2>2. \A ledger : Fields(ledger) /\ Applies(ledger, events[1]) =>
                        ApplyEvent(ledger, events[1]).items = ledger.items
      BY <1>4, ApplyEffect DEF ItemsAfter
    <2>3. f[1].ledger.items = one.items /\ g[1].ledger.items = two.items
      BY <2>1, <2>2 DEF FoldedFrom
    <2> QED
      BY <1>1, <1>2, <1>4, <2>3 DEF FoldTrace
  <1> QED
    BY <1>3, <1>4, FormOps

-----------------------------------------------------------------------------
(* The ledger of a branch, for any set of requests another model served.   *)

ScanOf(branch, unrouted) ==
  LET after[n \in 0..Len(branch)] ==
        IF n = 0 THEN EmptyLedger ELSE Scan(after[n - 1], branch[n], unrouted)
  IN after[Len(branch)]

Unrouted(branch) == RequestRouting(branch).unrouted

(* The ledger after each entry of a branch.                                *)
ScanRun(branch, unrouted, after) ==
  /\ ScanOf(branch, unrouted) = after[Len(branch)]
  /\ after[0] = EmptyLedger
  /\ \A n \in 1..Len(branch) : after[n] = Scan(after[n - 1], branch[n], unrouted)

LEMMA RebuildIsScan ==
  ASSUME NEW branch
  PROVE  RebuildLedger(branch) = ScanOf(branch, Unrouted(branch))
  BY DEF RebuildLedger, ScanOf, Unrouted

LEMMA ScanSteps ==
  ASSUME NEW branch, Len(branch) \in Nat, NEW unrouted
  PROVE  \E after : ScanRun(branch, unrouted, after)
  <1> DEFINE after == CHOOSE f : ScanUpTo(branch, unrouted, f, Len(branch))
  <1>1. ScanUpTo(branch, unrouted, after, Len(branch))
    <2>1. Len(branch) \in 0..Len(branch)
      OBVIOUS
    <2>2. \E f : ScanUpTo(branch, unrouted, f, Len(branch))
      BY <2>1, ScanExists, Zenon
    <2> QED
      BY <2>2, Zenon
  <1>2. ScanOf(branch, unrouted) = after[Len(branch)]
    BY DEF ScanOf, ScanUpTo
  <1> HIDE DEF after
  <1>3. \A n \in 0..Len(branch) :
          after[n] = IF n = 0 THEN EmptyLedger ELSE Scan(after[n - 1], branch[n], unrouted)
    BY <1>1 DEF ScanUpTo
  <1>4. after[0] = EmptyLedger
    BY <1>3
  <1>5. \A n \in 1..Len(branch) : after[n] = Scan(after[n - 1], branch[n], unrouted)
    BY <1>3
  <1>6. ScanRun(branch, unrouted, after)
    BY <1>2, <1>4, <1>5 DEF ScanRun
  <1> QED
    BY <1>6

LEMMA ScanAppend ==
  ASSUME NEW branch, IsTree(branch), NEW node, NEW unrouted
  PROVE  ScanOf(Append(branch, node), unrouted) = Scan(ScanOf(branch, unrouted), node, unrouted)
  <1> DEFINE longer == Append(branch, node)
             L == Len(branch)
  <1>1. /\ IsTree(longer) /\ Len(longer) = L + 1 /\ L \in Nat
        /\ \A i \in 1..L : longer[i] = branch[i]
        /\ longer[L + 1] = node
    BY TreeIsSeq DEF IsTree
  <1> HIDE DEF longer
  <1>2. PICK f : ScanRun(branch, unrouted, f)
    BY <1>1, ScanSteps
  <1>3. PICK g : ScanRun(longer, unrouted, g)
    <2>1. Len(longer) \in Nat
      BY <1>1
    <2> QED
      BY <2>1, ScanSteps
  <1> DEFINE S == {n \in 0..L : g[n] = f[n]}
  <1>4. ASSUME NEW n \in 0..L, \A m \in 0..(n - 1) : m \in S PROVE g[n] = f[n]
    <2>1. CASE n = 0
      BY <2>1, <1>2, <1>3 DEF ScanRun
    <2>2. CASE n # 0
      <3>1. n \in 1..L /\ n \in 1..Len(longer) /\ g[n - 1] = f[n - 1]
        BY <2>2, <1>1, <1>4
      <3>2. f[n] = Scan(f[n - 1], branch[n], unrouted) /\ g[n] = Scan(g[n - 1], longer[n], unrouted)
        BY <3>1, <1>2, <1>3 DEF ScanRun
      <3> QED
        BY <3>1, <3>2, <1>1
    <2> QED
      BY <2>1, <2>2
  <1>5. 0..L \subseteq S
    <2>1. \A n \in 0..L : (\A m \in 0..(n - 1) : m \in S) => n \in S
      BY <1>4
    <2> HIDE DEF S
    <2> QED
      BY <1>1, <2>1, UpToNumber
  <1>6. g[L] = f[L]
    BY <1>1, <1>5
  <1>7. g[L + 1] = Scan(g[L], node, unrouted)
    <2>1. L + 1 \in 1..Len(longer) /\ (L + 1) - 1 = L
      BY <1>1
    <2> QED
      BY <2>1, <1>1, <1>3 DEF ScanRun
  <1> QED
    BY <1>1, <1>2, <1>3, <1>6, <1>7 DEF ScanRun, longer

-----------------------------------------------------------------------------
(* Whether router/auto was selected.                                       *)

LEMMA RoutedPrefix ==
  ASSUME NEW one, NEW two, NEW k \in Nat,
         \A i \in 1..k : one[i].kind = two[i].kind /\ one[i].auto = two[i].auto
  PROVE  RoutedAfter(one, k) <=> RoutedAfter(two, k)
  <1> DEFINE marks == {i \in 1..k : one[i].kind # "user"}
             other == {i \in 1..k : two[i].kind # "user"}
  <1>1. marks = other
    OBVIOUS
  <1>2. marks # {} => Max(marks) \in 1..k
    <2>1. marks \subseteq 0..k
      OBVIOUS
    <2>2. marks # {} => Max(marks) \in marks
      <3> HIDE DEF marks
      <3> QED
        BY <2>1, MaxOf
    <2> QED
      BY <2>2
  <1>3. RoutedAfter(one, k) <=> /\ marks # {}
                                /\ one[Max(marks)].kind = "event" \/ one[Max(marks)].auto
    BY DEF RoutedAfter
  <1>4. RoutedAfter(two, k) <=> /\ other # {}
                                /\ two[Max(other)].kind = "event" \/ two[Max(other)].auto
    BY DEF RoutedAfter
  <1> HIDE DEF marks, other
  <1> QED
    BY <1>1, <1>2, <1>3, <1>4

LEMMA RoutedLast ==
  ASSUME NEW branch, NEW k \in Nat
  PROVE  RoutedAfter(branch, k + 1) <=>
           IF branch[k + 1].kind = "user" THEN RoutedAfter(branch, k)
           ELSE branch[k + 1].kind = "event" \/ branch[k + 1].auto
  <1> DEFINE marks == {i \in 1..(k + 1) : branch[i].kind # "user"}
             before == {i \in 1..k : branch[i].kind # "user"}
  <1>1. RoutedAfter(branch, k + 1) <=>
          (marks # {} /\ (branch[Max(marks)].kind = "event" \/ branch[Max(marks)].auto))
    BY DEF RoutedAfter
  <1>2. RoutedAfter(branch, k) <=>
          (before # {} /\ (branch[Max(before)].kind = "event" \/ branch[Max(before)].auto))
    BY DEF RoutedAfter
  <1>3. CASE branch[k + 1].kind = "user"
    <2>1. marks = before
      BY <1>3
    <2> HIDE DEF marks, before
    <2> QED
      BY <1>1, <1>2, <1>3, <2>1
  <1>4. CASE branch[k + 1].kind # "user"
    <2>1. /\ k + 1 \in Nat /\ marks # {} /\ k + 1 \in marks
          /\ marks \subseteq 0..(k + 1) /\ \A n \in marks : n \in 1..(k + 1)
      BY <1>4
    <2>2. Max(marks) = k + 1
      <3> HIDE DEF marks
      <3>1. Max(marks) \in marks /\ \A n \in marks : n <= Max(marks)
        BY <2>1, MaxOf
      <3>2. k + 1 <= Max(marks) /\ Max(marks) \in 1..(k + 1)
        BY <2>1, <3>1
      <3> HIDE <3>1
      <3> QED
        BY <3>2
    <2> HIDE DEF marks, before
    <2> QED
      BY <1>1, <1>4, <2>1, <2>2
  <1> QED
    BY <1>3, <1>4

LEMMA RoutedAppend ==
  ASSUME NEW branch, IsTree(branch), NEW node
  PROVE  /\ \A k \in 0..Len(branch) :
              RoutedAfter(Append(branch, node), k) <=> RoutedAfter(branch, k)
         /\ RoutedAfter(Append(branch, node), Len(branch) + 1) <=>
              IF node.kind = "user" THEN RoutedAfter(branch, Len(branch))
              ELSE node.kind = "event" \/ node.auto
  <1> DEFINE longer == Append(branch, node)
  <1>1. /\ Len(branch) \in Nat /\ longer[Len(branch) + 1] = node
        /\ \A i \in 1..Len(branch) : longer[i] = branch[i]
    BY TreeIsSeq DEF IsTree
  <1> HIDE DEF longer
  <1>2. ASSUME NEW k \in 0..Len(branch)
        PROVE  RoutedAfter(longer, k) <=> RoutedAfter(branch, k)
    <2>1. k \in Nat /\ \A i \in 1..k : longer[i] = branch[i]
      BY <1>1
    <2> QED
      BY <2>1, RoutedPrefix
  <1>3. RoutedAfter(longer, Len(branch)) <=> RoutedAfter(branch, Len(branch))
    BY <1>1, <1>2
  <1>4. RoutedAfter(longer, Len(branch) + 1) <=>
              IF node.kind = "user" THEN RoutedAfter(branch, Len(branch))
              ELSE node.kind = "event" \/ node.auto
    BY <1>1, <1>3, RoutedLast
  <1> QED
    BY <1>2, <1>4 DEF longer

(* Whether it was selected at a node of the tree.                          *)
RoutedAt(tree, n) == RoutedAfter(Path(tree, n), Len(Path(tree, n)))

LEMMA RoutedSteps ==
  ASSUME NEW tree, Parented(tree)
  PROVE  \A n \in 1..Len(tree) :
           RoutedAt(tree, n) <=> IF tree[n].kind = "user" THEN RoutedAt(tree, tree[n].parent)
                                 ELSE tree[n].kind = "event" \/ tree[n].auto
  <1> SUFFICES ASSUME NEW n \in 1..Len(tree)
               PROVE  RoutedAt(tree, n) <=>
                        IF tree[n].kind = "user" THEN RoutedAt(tree, tree[n].parent)
                        ELSE tree[n].kind = "event" \/ tree[n].auto
    OBVIOUS
  <1> DEFINE up == Path(tree, tree[n].parent)
  <1>1. Len(tree) \in Nat /\ tree[n].parent \in 0..Len(tree)
    BY DEF Parented, IsTree
  <1>2. IsTree(up) /\ Path(tree, n) = Append(up, tree[n])
    BY <1>1, PathIsTree, PathSteps DEF Parented
  <1>3. RoutedAt(tree, tree[n].parent) <=> RoutedAfter(up, Len(up))
    BY DEF RoutedAt
  <1> HIDE DEF up
  <1>4. Len(Path(tree, n)) = Len(up) + 1
    BY <1>2, TreeIsSeq
  <1> QED
    BY <1>2, <1>3, <1>4, RoutedAppend DEF RoutedAt

LEMMA RoutedSame ==
  ASSUME NEW tree, Parented(tree), NEW next, Parented(next), Len(tree) <= Len(next),
         \A i \in 1..Len(tree) : next[i].kind = tree[i].kind /\ next[i].auto = tree[i].auto
                                   /\ next[i].parent = tree[i].parent
  PROVE  \A n \in 0..Len(tree) : RoutedAt(next, n) <=> RoutedAt(tree, n)
  <1> DEFINE S == {n \in 0..Len(tree) : RoutedAt(next, n) <=> RoutedAt(tree, n)}
  <1>1. Len(tree) \in Nat /\ Len(next) \in Nat
    BY DEF Parented, IsTree
  <1>2. ASSUME NEW n \in 0..Len(tree), \A m \in 0..(n - 1) : m \in S
        PROVE  RoutedAt(next, n) <=> RoutedAt(tree, n)
    <2>1. CASE n = 0
      <3>1. Path(next, n) = Path(tree, n)
        BY <2>1, <1>1, PathSteps DEF Parented
      <3> QED
        BY <3>1 DEF RoutedAt
    <2>2. CASE n # 0
      <3>1. n \in 1..Len(tree) /\ n \in 1..Len(next)
        BY <1>1, <2>2
      <3>2. RoutedAt(next, tree[n].parent) <=> RoutedAt(tree, tree[n].parent)
        BY <1>1, <1>2, <2>2, <3>1 DEF Parented
      <3>3. next[n].parent = tree[n].parent /\ next[n].kind = tree[n].kind /\ next[n].auto = tree[n].auto
        BY <3>1
      <3>4. RoutedAt(tree, n) <=> IF tree[n].kind = "user" THEN RoutedAt(tree, tree[n].parent)
                                 ELSE tree[n].kind = "event" \/ tree[n].auto
        BY <3>1, RoutedSteps
      <3>5. RoutedAt(next, n) <=> IF next[n].kind = "user" THEN RoutedAt(next, next[n].parent)
                                 ELSE next[n].kind = "event" \/ next[n].auto
        BY <3>1, RoutedSteps
      <3> QED
        BY <3>2, <3>3, <3>4, <3>5
    <2> QED
      BY <2>1, <2>2
  <1>3. 0..Len(tree) \subseteq S
    <2>1. \A n \in 0..Len(tree) : (\A m \in 0..(n - 1) : m \in S) => n \in S
      BY <1>2
    <2> HIDE DEF S
    <2> QED
      BY <1>1, <2>1, UpToNumber
  <1> QED
    BY <1>3

(* A place on the way to a node is a node, selected as that node was.      *)
LEMMA PathPlaces ==
  ASSUME NEW tree, Parented(tree)
  PROVE  \A n \in 0..Len(tree) : \A i \in 1..Len(Path(tree, n)) :
           \E j \in 1..Len(tree) : /\ Path(tree, n)[i] = tree[j]
                                   /\ RoutedAfter(Path(tree, n), i) <=> RoutedAt(tree, j)
  <1> DEFINE Ok(n) == \A i \in 1..Len(Path(tree, n)) : \E j \in 1..Len(tree) :
                        /\ Path(tree, n)[i] = tree[j]
                        /\ RoutedAfter(Path(tree, n), i) <=> RoutedAt(tree, j)
             S == {n \in 0..Len(tree) : Ok(n)}
  <1>1. Len(tree) \in Nat
    BY DEF Parented, IsTree
  <1>2. ASSUME NEW n \in 0..Len(tree), \A m \in 0..(n - 1) : m \in S
        PROVE  Ok(n)
    <2>1. CASE n = 0
      <3>1. Len(Path(tree, n)) = 0
        BY <1>1, <2>1, PathSteps DEF Parented
      <3> QED
        BY <3>1
    <2>2. CASE n # 0
      <3> DEFINE up == tree[n].parent
      <3>1. n \in 1..Len(tree) /\ up \in 0..Len(tree) /\ up \in 0..(n - 1)
        BY <1>1, <2>2 DEF Parented
      <3>2. Ok(up) /\ IsTree(Path(tree, up))
        BY <3>1, <1>2, PathIsTree
      <3>3. Path(tree, n) = Append(Path(tree, up), tree[n])
        BY <1>1, <3>1, PathSteps DEF Parented
      <3>4. /\ Len(Path(tree, n)) = Len(Path(tree, up)) + 1 /\ Len(Path(tree, up)) \in Nat
            /\ \A i \in 1..Len(Path(tree, up)) : Path(tree, n)[i] = Path(tree, up)[i]
            /\ Path(tree, n)[Len(Path(tree, up)) + 1] = tree[n]
        BY <3>2, <3>3, TreeIsSeq DEF IsTree
      <3>5. \A i \in 0..Len(Path(tree, up)) :
              RoutedAfter(Path(tree, n), i) <=> RoutedAfter(Path(tree, up), i)
        BY <3>2, <3>3, RoutedAppend
      <3>6. RoutedAfter(Path(tree, n), Len(Path(tree, up)) + 1) <=> RoutedAt(tree, n)
        BY <3>4 DEF RoutedAt
      <3> HIDE DEF up
      <3> SUFFICES ASSUME NEW i \in 1..Len(Path(tree, n))
                   PROVE  \E j \in 1..Len(tree) :
                            /\ Path(tree, n)[i] = tree[j]
                            /\ RoutedAfter(Path(tree, n), i) <=> RoutedAt(tree, j)
        OBVIOUS
      <3>7. CASE i = Len(Path(tree, up)) + 1
        BY <3>7, <3>4, <3>6, <3>1
      <3>8. CASE i # Len(Path(tree, up)) + 1
        <4>1. i \in 1..Len(Path(tree, up)) /\ i \in 0..Len(Path(tree, up))
          BY <3>8, <3>4
        <4>2. PICK j \in 1..Len(tree) :
                /\ Path(tree, up)[i] = tree[j]
                /\ RoutedAfter(Path(tree, up), i) <=> RoutedAt(tree, j)
          BY <4>1, <3>2
        <4> QED
          BY <4>1, <4>2, <3>4, <3>5
      <3> QED
        BY <3>7, <3>8
    <2> QED
      BY <2>1, <2>2
  <1>3. \A n \in 0..Len(tree) : (\A m \in 0..(n - 1) : m \in S) => n \in S
    BY <1>2
  <1>4. 0..Len(tree) \subseteq S
    <2> HIDE DEF S
    <2> QED
      BY <1>1, <1>3, UpToNumber
  <1> QED
    BY <1>4

-----------------------------------------------------------------------------
(* What the next entry of a branch does to the ledger rebuilt from it.     *)

NamedBy(branch) ==
  {branch[i].source : i \in {k \in DOMAIN branch : branch[k].kind = "event" /\ ~branch[k].damaged}}

LEMMA UnroutedIs ==
  ASSUME NEW branch
  PROVE  Unrouted(branch) =
           {branch[i].id : i \in {k \in DOMAIN branch :
              IsUser(branch[k]) /\ ~RoutedAfter(branch, k) /\ branch[k].id \notin NamedBy(branch)}}
  BY DEF Unrouted, RequestRouting, NamedBy

LEMMA UnroutedAppend ==
  ASSUME NEW branch, IsTree(branch), NEW node,
         \/ node.kind = "selection"
         \/ node.kind = "user" /\ RoutedAfter(branch, Len(branch))
         \/ node.kind = "event" /\ node.source \notin Unrouted(branch)
  PROVE  Unrouted(Append(branch, node)) = Unrouted(branch)
  <1> DEFINE longer == Append(branch, node)
             L == Len(branch)
             Is(b, k) == IsUser(b[k]) /\ ~RoutedAfter(b, k)
  <1>1. /\ DOMAIN longer = 1..(L + 1) /\ DOMAIN branch = 1..L /\ L \in Nat
        /\ \A i \in 1..L : longer[i] = branch[i]
        /\ longer[L + 1] = node
    BY TreeIsSeq DEF IsTree
  <1>2. \A k \in 1..L : RoutedAfter(longer, k) <=> RoutedAfter(branch, k)
    BY <1>1, RoutedAppend
  <1>3. RoutedAfter(longer, L + 1) <=> IF node.kind = "user" THEN RoutedAfter(branch, L)
                                       ELSE node.kind = "event" \/ node.auto
    BY RoutedAppend
  <1> HIDE DEF longer, L
  <1>4. \A k \in 1..L : Is(longer, k) <=> Is(branch, k)
    BY <1>1, <1>2
  <1>5. ~Is(longer, L + 1)
    BY <1>1, <1>3 DEF IsUser, L
  <1>6. NamedBy(longer) = NamedBy(branch) \union
                            (IF node.kind = "event" /\ ~node.damaged THEN {node.source} ELSE {})
    BY <1>1 DEF NamedBy
  <1>7. Unrouted(longer) = {longer[i].id : i \in {k \in 1..(L + 1) :
                                  Is(longer, k) /\ longer[k].id \notin NamedBy(longer)}}
    BY <1>1, UnroutedIs
  <1>8. Unrouted(branch) = {branch[i].id : i \in {k \in 1..L :
                                  Is(branch, k) /\ branch[k].id \notin NamedBy(branch)}}
    BY <1>1, UnroutedIs
  <1> HIDE DEF Is
  <1>9. Unrouted(longer) = {branch[i].id : i \in {k \in 1..L :
                                  Is(branch, k) /\ branch[k].id \notin NamedBy(longer)}}
    BY <1>1, <1>4, <1>5, <1>7
  <1>10. node.kind = "event" => \A k \in 1..L : Is(branch, k) /\ branch[k].id = node.source
                                                 => branch[k].id \in NamedBy(branch)
    BY <1>8
  <1>11. \A k \in 1..L : Is(branch, k) =>
           (branch[k].id \notin NamedBy(longer) <=> branch[k].id \notin NamedBy(branch))
    BY <1>6, <1>10
  <1> QED
    BY <1>8, <1>9, <1>11 DEF longer

LEMMA RebuildAppend ==
  ASSUME NEW branch, IsTree(branch), NEW node,
         \/ node.kind = "selection"
         \/ node.kind = "user" /\ RoutedAfter(branch, Len(branch))
         \/ node.kind = "event" /\ node.source \notin Unrouted(branch)
  PROVE  RebuildLedger(Append(branch, node)) = Scan(RebuildLedger(branch), node, Unrouted(branch))
  BY UnroutedAppend, RebuildIsScan, ScanAppend

-----------------------------------------------------------------------------
(* Stores whose ledger is what their branch rebuilds.                      *)

Exact(st) == st.ledger = RebuildLedger(Path(st.tree, st.leaf))

(* The paths of a tree stay when nodes are added.                          *)
LEMMA PathSame ==
  ASSUME NEW tree, Parented(tree), NEW next, Parented(next), Len(tree) <= Len(next),
         \A i \in 1..Len(tree) : next[i] = tree[i]
  PROVE  \A n \in 0..Len(tree) : Path(next, n) = Path(tree, n)
  <1> DEFINE S == {n \in 0..Len(tree) : Path(next, n) = Path(tree, n)}
  <1>1. Len(tree) \in Nat /\ Len(next) \in Nat
    BY DEF Parented, IsTree
  <1>2. ASSUME NEW n \in 0..Len(tree), \A m \in 0..(n - 1) : m \in S
        PROVE  Path(next, n) = Path(tree, n)
    <2>1. CASE n = 0
      BY <2>1, <1>1, PathSteps DEF Parented
    <2>2. CASE n # 0
      <3>1. n \in 1..Len(tree) /\ n \in 1..Len(next) /\ next[n] = tree[n]
        BY <1>1, <2>2
      <3>2. Path(next, tree[n].parent) = Path(tree, tree[n].parent)
        BY <1>1, <1>2, <2>2, <3>1 DEF Parented
      <3>3. /\ Path(tree, n) = Append(Path(tree, tree[n].parent), tree[n])
            /\ Path(next, n) = Append(Path(next, next[n].parent), next[n])
        BY <1>1, <3>1, PathSteps DEF Parented
      <3> QED
        BY <3>1, <3>2, <3>3
    <2> QED
      BY <2>1, <2>2
  <1>3. 0..Len(tree) \subseteq S
    <2>1. \A n \in 0..Len(tree) : (\A m \in 0..(n - 1) : m \in S) => n \in S
      BY <1>2
    <2> HIDE DEF S
    <2> QED
      BY <1>1, <2>1, UpToNumber
  <1> QED
    BY <1>3

(* The branch after a node is added at its leaf.                           *)
Added(st, entry) == [entry EXCEPT !.id = Len(st.tree) + 1, !.parent = st.leaf]

LEMMA BranchGrows ==
  ASSUME NEW st, StoreGood(st), NEW entry, StoreGood(AddEntry(st, entry))
  PROVE  LET next == AddEntry(st, entry)
         IN  /\ Path(next.tree, next.leaf) = Append(Path(st.tree, st.leaf), Added(st, entry))
             /\ \A n \in 0..Len(st.tree) : Path(next.tree, n) = Path(st.tree, n)
             /\ IsTree(Path(st.tree, st.leaf))
             /\ next.tree = Append(st.tree, Added(st, entry))
             /\ next.leaf = Len(st.tree) + 1 /\ next.ledger = st.ledger
  <1> DEFINE next == AddEntry(st, entry)
             node == Added(st, entry)
  <1>1. /\ next.tree = Append(st.tree, node) /\ next.leaf = Len(st.tree) + 1
        /\ next.ledger = st.ledger
    BY DEF AddEntry, StoreGood, StoreOK, Added
  <1> HIDE DEF next
  <1>2. /\ Parented(st.tree) /\ Parented(next.tree) /\ Len(st.tree) \in Nat
        /\ st.leaf \in 0..Len(st.tree)
    BY GoodIsParented DEF StoreGood, StoreOK, IsTree, next
  <1>3. /\ Len(next.tree) = Len(st.tree) + 1
        /\ \A i \in 1..Len(st.tree) : next.tree[i] = st.tree[i]
        /\ next.tree[Len(st.tree) + 1] = node
    BY <1>1, <1>2, TreeIsSeq DEF Parented
  <1>4. \A n \in 0..Len(st.tree) : Path(next.tree, n) = Path(st.tree, n)
    BY <1>2, <1>3, PathSame
  <1>5. node.parent = st.leaf
    <2>1. DOMAIN next.tree[Len(st.tree) + 1] = NodeFields
      BY <1>2, <1>3 DEF StoreGood, StoreOK, next
    <2>2. DOMAIN node = NodeFields /\ DOMAIN node = DOMAIN entry
      BY <2>1, <1>3 DEF Added
    <2> QED
      BY <2>2 DEF Added, NodeFields
  <1>6. Path(next.tree, next.leaf) = Append(Path(next.tree, st.leaf), node)
    <2>1. Len(st.tree) + 1 \in 1..Len(next.tree) /\ Len(next.tree) \in Nat
      BY <1>2, <1>3
    <2>2. Path(next.tree, next.leaf) =
            Append(Path(next.tree, next.tree[next.leaf].parent), next.tree[next.leaf])
      BY <2>1, <1>1, <1>2, PathSteps DEF Parented
    <2>3. next.tree[next.leaf] = node
      BY <1>1, <1>3
    <2> HIDE DEF node
    <2> QED
      BY <2>2, <2>3, <1>5
  <1>7. IsTree(Path(st.tree, st.leaf))
    BY <1>2, PathIsTree
  <1> QED
    BY <1>1, <1>2, <1>4, <1>6, <1>7 DEF next

LEMMA SelectionExact ==
  ASSUME NEW st, StoreGood(st), Exact(st)
  PROVE  Exact(AddSelection(st, TRUE))
  <1> DEFINE entry == [Entry("selection") EXCEPT !.auto = TRUE]
             node == Added(st, entry)
  <1>1. StoreGood(AddEntry(st, entry))
    BY SelectionExtends DEF Extends, AddSelection
  <1>2. node.kind = "selection" /\ node.auto = TRUE
    BY DEF Entry, Added
  <1> DEFINE added == AddEntry(st, entry)
             branch == Path(st.tree, st.leaf)
  <1> HIDE DEF entry, node
  <1>3. /\ Path(added.tree, added.leaf) = Append(branch, node) /\ IsTree(branch)
        /\ added.ledger = st.ledger
    BY <1>1, BranchGrows DEF node
  <1>4. RebuildLedger(Append(branch, node)) = RebuildLedger(branch)
    BY <1>2, <1>3, RebuildAppend DEF Scan
  <1>5. Exact(added)
    BY <1>3, <1>4 DEF Exact
  <1> QED
    BY <1>5 DEF AddSelection, entry

LEMMA UserExact ==
  ASSUME NEW st, StoreGood(st), Exact(st), RoutedAt(st.tree, st.leaf), NEW refs
  PROVE  Exact(AddEntry(st, [Entry("user") EXCEPT !.refs = refs]))
  <1> DEFINE entry == [Entry("user") EXCEPT !.refs = refs]
             node == Added(st, entry)
             branch == Path(st.tree, st.leaf)
  <1>1. DOMAIN entry = NodeFields /\ entry.kind = "user"
    BY EntryIsNode DEF Entry
  <1>2. node.kind = "user" /\ node.id = Len(st.tree) + 1
    BY DEF Entry, Added
  <1> HIDE DEF entry, node
  <1>3. StoreGood(AddEntry(st, entry))
    BY <1>1, AddExtends DEF Extends, Kinds
  <1>4. /\ RoutedAfter(branch, Len(branch)) /\ IsTree(branch)
    BY <1>3, BranchGrows DEF RoutedAt
  <1>5. RebuildLedger(Append(branch, node)) = Scan(RebuildLedger(branch), node, Unrouted(branch))
    BY <1>2, <1>4, RebuildAppend
  <1>6. node.id \notin Unrouted(branch)
    <2>1. Unrouted(branch) \subseteq UserIds(branch)
      BY UnroutedIs DEF UserIds
    <2>2. UserIds(branch) \subseteq 1..Len(st.tree) /\ Len(st.tree) \in Nat
      BY UsersAreNumbers DEF UsersAt, StoreGood, StoreOK, IsTree
    <2> QED
      BY <1>2, <2>1, <2>2
  <1>7. Exact(AddEntry(st, entry))
    BY <1>2, <1>3, <1>5, <1>6, BranchGrows DEF Exact, Scan, node
  <1> QED
    BY <1>7 DEF entry

LEMMA CommitExact ==
  ASSUME NEW st, StoreGood(st), Exact(st), NEW from, NEW events,
         from \in Named(st.tree, st.leaf), from \notin Unrouted(Path(st.tree, st.leaf))
  PROVE  /\ Exact(AppendCommit(st, from, events))
         /\ \A persisted : Exact(Put(st, from, events, persisted))
  <1> DEFINE entry == [Entry("event") EXCEPT !.source = from, !.events = events]
             node == Added(st, entry)
             added == AddEntry(st, entry)
             branch == Path(st.tree, st.leaf)
  <1>1. DOMAIN entry = NodeFields /\ entry.kind = "event" /\ entry.source = from
    BY EntryIsNode DEF Entry
  <1>2. /\ node.kind = "event" /\ node.source = from /\ node.events = events /\ node.damaged = FALSE
    BY DEF Entry, Added
  <1>3. AppendCommit(st, from, events) = [added EXCEPT !.ledger = FoldCommit(st.ledger, events).ledger]
    BY DEF AppendCommit
  <1> HIDE DEF entry, node
  <1>4. StoreGood(added)
    BY <1>1, AddExtends DEF Extends, Kinds
  <1>5. /\ Path(added.tree, added.leaf) = Append(branch, node) /\ IsTree(branch)
        /\ added.ledger = st.ledger
    BY <1>4, BranchGrows DEF node
  <1>6. RebuildLedger(Append(branch, node)) = FoldCommit(RebuildLedger(branch), events).ledger
    BY <1>2, <1>5, RebuildAppend DEF Scan
  <1> HIDE DEF added
  <1>7. Exact(AppendCommit(st, from, events))
    BY <1>3, <1>4, <1>5, <1>6 DEF Exact, StoreGood, StoreOK
  <1> QED
    BY <1>7 DEF Put

LEMMA RestoredExact ==
  ASSUME NEW st, StoreOK(st), NEW leaf
  PROVE  Exact(Restored(st, leaf))
  BY DEF Exact, Restored, StoreOK

-----------------------------------------------------------------------------
(* The commits the code makes have their form.                             *)

Plain(event) == event.op \in {"grounding-upsert", "boundary", "served"}
PlainList(events) == IsTree(events) /\ \A k \in 1..Len(events) : Plain(events[k])

LEMMA JoinIs ==
  ASSUME NEW s, NEW t, IsTree(s), IsTree(t)
  PROVE  /\ IsTree(s \o t) /\ Len(s \o t) = Len(s) + Len(t)
         /\ Len(s) \in Nat /\ Len(t) \in Nat
         /\ \A i \in 1..Len(s) : i \in 1..Len(s \o t) /\ (s \o t)[i] = s[i]
         /\ \A i \in 1..Len(s \o t) : \/ i \in 1..Len(s) /\ (s \o t)[i] = s[i]
                                      \/ i - Len(s) \in 1..Len(t) /\ (s \o t)[i] = t[i - Len(s)]
  <1> DEFINE S == {s[i] : i \in 1..Len(s)} \union {t[i] : i \in 1..Len(t)}
  <1>1. /\ Len(s) \in Nat /\ Len(t) \in Nat
        /\ s = [i \in 1..Len(s) |-> s[i]] /\ t = [i \in 1..Len(t) |-> t[i]]
    BY DEF IsTree
  <1>2. s \in [1..Len(s) -> S] /\ t \in [1..Len(t) -> S]
    BY <1>1
  <1>3. s \in Seq(S) /\ t \in Seq(S)
    BY <1>1, <1>2, SeqDef
  <1> HIDE DEF S
  <1>4. /\ s \o t \in Seq(S) /\ Len(s \o t) = Len(s) + Len(t)
        /\ \A i \in 1..Len(s) + Len(t) :
             (s \o t)[i] = IF i <= Len(s) THEN s[i] ELSE t[i - Len(s)]
    BY <1>3, ConcatProperties
  <1>5. IsTree(s \o t)
    BY <1>4, LenProperties DEF IsTree
  <1> QED
    BY <1>1, <1>4, <1>5

LEMMA FormJoins ==
  ASSUME NEW head, WorkForm(head), NEW tail, PlainList(tail)
  PROVE  WorkForm(head \o tail)
  <1> DEFINE all == head \o tail
  <1>1. IsTree(head) /\ IsTree(tail)
    BY DEF WorkForm, PlainList
  <1>2. /\ IsTree(all) /\ Len(head) \in Nat
        /\ \A i \in 1..Len(head) : i \in 1..Len(all) /\ all[i] = head[i]
        /\ \A i \in 1..Len(all) : \/ i \in 1..Len(head) /\ all[i] = head[i]
                                  \/ i - Len(head) \in 1..Len(tail) /\ all[i] = tail[i - Len(head)]
    BY <1>1, JoinIs
  <1> HIDE DEF all
  <1>3. \A i \in 1..Len(all) : i \in 1..Len(head) \/ Plain(all[i])
    BY <1>2 DEF PlainList
  <1>4. ASSUME NEW k \in 1..Len(all) PROVE EventForm(all[k])
    <2>1. CASE k \in 1..Len(head)
      BY <2>1, <1>2 DEF WorkForm
    <2>2. CASE Plain(all[k])
      BY <2>2 DEF Plain, EventForm, ItemOps
    <2> QED
      BY <2>1, <2>2, <1>3
  <1>5. ASSUME NEW k \in 1..Len(all), Revives(all[k])
        PROVE  \E j \in 1..Len(all) : all[j] = Boundary(all[k].item, "work-reopen")
    <2>1. k \in 1..Len(head) /\ all[k] = head[k]
      BY <1>2, <1>3, <1>5 DEF Plain, Revives
    <2>2. PICK j \in 1..Len(head) : head[j] = Boundary(head[k].item, "work-reopen")
      BY <2>1, <1>5 DEF WorkForm
    <2> QED
      BY <2>1, <2>2, <1>2
  <1>6. ASSUME NEW k \in 1..Len(all), all[k].op = "activate"
        PROVE  \/ k = 1
               \/ /\ k = 2 /\ all[1].item = all[2].item
                  /\ all[1].op = "work-create" \/ Revives(all[1])
    <2>1. k \in 1..Len(head) /\ all[k] = head[k]
      BY <1>2, <1>3, <1>6 DEF Plain
    <2>2. 1 \in 1..Len(head) /\ all[1] = head[1]
      BY <2>1, <1>2
    <2> QED
      BY <2>1, <2>2, <1>6 DEF WorkForm
  <1> QED
    BY <1>2, <1>4, <1>5, <1>6 DEF WorkForm, all

LEMMA UpsertsPlain ==
  ASSUME NEW id, NEW read, IsFiniteSet(DOMAIN read)
  PROVE  PlainList(Upserts(id, read))
  <1> DEFINE paths == SetToSeq(DOMAIN read)
             n == Cardinality(DOMAIN read)
  <1>2. n \in Nat /\ \E f \in [1..n -> DOMAIN read] : IsInjective(f)
    <2>1. n \in Nat /\ ExistsBijection(1..n, DOMAIN read)
      BY FS_CardinalityType
    <2> QED
      BY <2>1 DEF ExistsBijection, Bijection, Injection, IsInjective
  <1>3. paths \in [1..n -> DOMAIN read]
    BY <1>2 DEF SetToSeq
  <1> HIDE DEF paths, n
  <1>4. Upserts(id, read) = [i \in 1..n |-> GroundingUpsert(id, paths[i], read[paths[i]], "read")]
    BY <1>3 DEF Upserts, paths
  <1>5. IsTree(Upserts(id, read)) /\ Len(Upserts(id, read)) = n
    BY <1>2, <1>4 DEF IsTree
  <1>6. ASSUME NEW i \in 1..n PROVE Upserts(id, read)[i].op = "grounding-upsert"
    BY <1>4 DEF GroundingUpsert
  <1> QED
    BY <1>5, <1>6 DEF PlainList, Plain

LEMMA ListedForms ==
  /\ WorkForm(<<>>) /\ PlainList(<<>>)
  /\ \A e : Plain(e) => PlainList(<<e>>) /\ WorkForm(<<e>>)
  /\ \A id, patch : PatchOK(patch) /\ "status" \notin DOMAIN patch =>
       /\ WorkForm(<<Update(id, patch)>>)
       /\ WorkForm(<<Event("activate", id), Update(id, patch)>>)
  /\ \A id : WorkForm(<<Event("activate", id)>>)
  <1> USE DEF IsTree, WorkForm, EventForm, ItemOps, PlainList, Plain, Revives
  <1>1. WorkForm(<<>>) /\ PlainList(<<>>)
    OBVIOUS
  <1>2. ASSUME NEW e, Plain(e) PROVE PlainList(<<e>>) /\ WorkForm(<<e>>)
    BY <1>2
  <1>3. ASSUME NEW id, NEW patch, PatchOK(patch), "status" \notin DOMAIN patch
        PROVE  /\ WorkForm(<<Update(id, patch)>>)
               /\ WorkForm(<<Event("activate", id), Update(id, patch)>>)
    <2>1. ASSUME NEW e, EventForm(e), ~Revives(e), e.op # "activate"
          PROVE  /\ WorkForm(<<e>>)
                 /\ WorkForm(<<Event("activate", id), e>>)
      BY <2>1 DEF Event
    <2>2. EventForm(Update(id, patch)) /\ ~Revives(Update(id, patch))
          /\ Update(id, patch).op # "activate"
      BY <1>3 DEF Update
    <2> HIDE DEF WorkForm, EventForm, Revives
    <2> QED
      BY <2>1, <2>2
  <1>4. ASSUME NEW id PROVE WorkForm(<<Event("activate", id)>>)
    <2> DEFINE a == Event("activate", id)
    <2>1. EventForm(a) /\ ~Revives(a)
      BY DEF Event
    <2> HIDE DEF a, EventForm, Revives
    <2>2. WorkForm(<<a>>)
      BY <2>1
    <2> QED
      BY <2>2 DEF a
  <1> HIDE DEF WorkForm, PlainList, Plain
  <1> QED
    BY <1>1, <1>2, <1>3, <1>4

LEMMA ReopeningForm ==
  ASSUME NEW id, NEW patch, PatchOK(patch)
  PROVE  WorkForm(ReopenEvents(id, patch)) /\ Len(ReopenEvents(id, patch)) = 3
         /\ ReopenEvents(id, patch)[1].op = "work-update"
  <1> DEFINE e == Update(id, With(patch, "status", "active"))
             f == Event("activate", id)
             g == Boundary(id, "work-reopen")
  <1>1. /\ e.op = "work-update" /\ e.item = id /\ Revives(e) /\ EventForm(e)
    <2>1. PatchOK(With(patch, "status", "active"))
      BY DEF With, PatchOK
    <2> QED
      BY <2>1 DEF Update, With, Revives, EventForm, ItemOps
  <1>2. /\ f.op = "activate" /\ f.item = id /\ EventForm(f) /\ ~Revives(f)
        /\ g.op = "boundary" /\ EventForm(g) /\ ~Revives(g)
    BY DEF Event, Boundary, Revives, EventForm, ItemOps
  <1>3. ReopenEvents(id, patch) = <<e, f, g>> /\ g = Boundary(id, "work-reopen")
    BY DEF ReopenEvents
  <1> HIDE DEF e, f, g
  <1>4. WorkForm(<<e, f, g>>)
    BY <1>1, <1>2, <1>3 DEF WorkForm, IsTree
  <1> QED
    BY <1>1, <1>3, <1>4

(* What a plan activates before anything else is not done.                 *)
StartsOpen(events, items) ==
  Len(events) > 0 /\ events[1].op = "activate" => items[events[1].item].status # "done"

(* The files an event adds to a work item, and a commit that is about one   *)
(* and grounds only what was read, as it was read.                         *)
Adds(event) ==
  IF event.op = "work-create" THEN DOMAIN event.work.anchors
  ELSE IF event.op = "work-update" /\ "anchors" \in DOMAIN event.patch THEN DOMAIN event.patch.anchors
  ELSE {}

Told(event, read) ==
  event.op = "grounding-upsert" => event.path \in DOMAIN read /\ event.version = read[event.path]

About(events, id, paths, read) ==
  \A k \in 1..Len(events) :
    events[k].item = id /\ Adds(events[k]) \subseteq paths /\ Told(events[k], read)

LEMMA ReopeningIsAbout ==
  ASSUME NEW id, NEW patch, NEW paths, NEW read,
         "anchors" \in DOMAIN patch => DOMAIN patch.anchors \subseteq paths
  PROVE  About(ReopenEvents(id, patch), id, paths, read)
  <1> DEFINE e == Update(id, With(patch, "status", "active"))
             f == Event("activate", id)
             g == Boundary(id, "work-reopen")
  <1>1. e.item = id /\ Adds(e) \subseteq paths /\ Told(e, read)
    BY DEF Update, With, Adds, Told
  <1>2. /\ f.item = id /\ Adds(f) = {} /\ g.item = id /\ Adds(g) = {}
        /\ Told(f, read) /\ Told(g, read)
    BY DEF Event, Boundary, Adds, Told
  <1>3. ReopenEvents(id, patch) = <<e, f, g>>
    BY DEF ReopenEvents
  <1> HIDE DEF e, f, g
  <1> QED
    BY <1>1, <1>2, <1>3 DEF About

LEMMA TouchForm ==
  ASSUME NEW ledger, NEW id, NEW base, NEW reasons
  PROVE  LET events == TouchItem(ledger, id, base, reasons)
         IN  /\ WorkForm(events) /\ StartsOpen(events, ledger.items)
             /\ \A read : About(events, id, base.refs, read)
  <1> DEFINE events == TouchItem(ledger, id, base, reasons)
             status == ledger.items[id].status
  <1>1. \E patch :
          /\ PatchOK(patch)
          /\ "anchors" \in DOMAIN patch => DOMAIN patch.anchors \subseteq base.refs
          /\ status = "done" => events = ReopenEvents(id, patch)
          /\ status # "done" =>
               /\ DOMAIN patch \subseteq {"anchors", "deliverable", "open"}
               /\ events = (IF ledger.active = id THEN <<>> ELSE <<Event("activate", id)>>)
                             \o (IF patch = <<>> THEN <<>> ELSE <<Update(id, patch)>>)
    <2> DEFINE work == ledger.items[id]
               all == [anchors |-> PromptAnchors(base.refs), deliverable |-> base.deliverable,
                       open |-> work.open \union reasons]
               owed == {f \in DOMAIN all : CASE f = "anchors" -> base.refs # {}
                                    [] f = "deliverable" -> work.deliverable # base.deliverable
                                    [] f = "open" -> ~(reasons \subseteq work.open)}
               patch == [f \in owed |-> all[f]]
    <2>1. events = IF status = "done" THEN ReopenEvents(id, patch)
                   ELSE (IF ledger.active = id THEN <<>> ELSE <<Event("activate", id)>>)
                             \o (IF patch = <<>> THEN <<>> ELSE <<Update(id, patch)>>)
      BY DEF TouchItem
    <2>2. DOMAIN patch \subseteq {"anchors", "deliverable", "open"}
      OBVIOUS
    <2>3. "anchors" \in DOMAIN patch => patch.anchors = PromptAnchors(base.refs)
      OBVIOUS
    <2>4. DOMAIN PromptAnchors(base.refs) = base.refs /\ Referenced(PromptAnchors(base.refs))
      BY DEF PromptAnchors, Referenced
    <2> HIDE DEF patch, events
    <2>5. PatchOK(patch) /\ ("anchors" \in DOMAIN patch => DOMAIN patch.anchors \subseteq base.refs)
      BY <2>2, <2>3, <2>4 DEF PatchOK
    <2> QED
      BY <2>1, <2>2, <2>5
  <1>2. PICK patch :
          /\ PatchOK(patch)
          /\ "anchors" \in DOMAIN patch => DOMAIN patch.anchors \subseteq base.refs
          /\ status = "done" => events = ReopenEvents(id, patch)
          /\ status # "done" =>
               /\ DOMAIN patch \subseteq {"anchors", "deliverable", "open"}
               /\ events = (IF ledger.active = id THEN <<>> ELSE <<Event("activate", id)>>)
                             \o (IF patch = <<>> THEN <<>> ELSE <<Update(id, patch)>>)
    BY <1>1
  <1> HIDE DEF events
  <1>3. CASE status = "done"
    BY <1>2, <1>3, ReopeningForm, ReopeningIsAbout DEF StartsOpen, events
  <1>4. CASE status # "done"
    <2> DEFINE a == Event("activate", id)
               u == Update(id, patch)
    <2>1. \/ events = <<>> \/ events = <<a>> \/ events = <<u>> \/ events = <<a, u>>
      <3> DEFINE first == IF ledger.active = id THEN <<>> ELSE <<a>>
                 second == IF patch = <<>> THEN <<>> ELSE <<u>>
      <3>1. events = first \o second
        BY <1>2, <1>4
      <3>2. /\ first = <<>> \/ first = <<a>>
            /\ second = <<>> \/ second = <<u>>
        OBVIOUS
      <3> HIDE DEF first, second, a, u
      <3>3. /\ <<>> \o <<>> = <<>> /\ <<>> \o <<u>> = <<u>>
            /\ <<a>> \o <<>> = <<a>> /\ <<a>> \o <<u>> = <<a, u>>
        <4>1. {<<>>, <<a>>, <<u>>, <<a, u>>} \subseteq Seq({a, u})
          OBVIOUS
        <4>2. \A s \in Seq({a, u}) : <<>> \o s = s /\ s \o <<>> = s
          BY ConcatEmptySeq
        <4>3. <<a>> \o <<u>> = Append(<<a>>, u)
          BY <4>1, AppendIsConcat
        <4>4. Append(<<a>>, u) = <<a, u>>
          <5>1. /\ Append(<<a>>, u) \in Seq({a, u}) /\ Len(Append(<<a>>, u)) = 2
                /\ Append(<<a>>, u)[1] = a /\ Append(<<a>>, u)[2] = u
            BY <4>1, AppendProperties
          <5>2. /\ <<a, u>> \in Seq({a, u}) /\ Len(<<a, u>>) = 2
                /\ <<a, u>>[1] = a /\ <<a, u>>[2] = u
            OBVIOUS
          <5>3. \A i \in 1..Len(Append(<<a>>, u)) : Append(<<a>>, u)[i] = <<a, u>>[i]
            BY <5>1, <5>2
          <5> QED
            BY <5>1, <5>2, <5>3, SeqEqual
        <4> QED
          BY <4>1, <4>2, <4>3, <4>4
      <3> QED
        BY <3>1, <3>2, <3>3, Zenon
    <2>2. "status" \notin DOMAIN patch
      BY <1>2, <1>4
    <2>3. WorkForm(events)
      BY <1>2, <2>1, <2>2, ListedForms
    <2>4. /\ a.op = "activate" /\ a.item = id /\ u.op # "activate" /\ u.item = id
          /\ Adds(a) = {} /\ Adds(u) \subseteq base.refs
          /\ \A read : Told(a, read) /\ Told(u, read)
      BY <1>2 DEF Event, Update, Adds, Told
    <2> HIDE DEF a, u
    <2>5. StartsOpen(events, ledger.items)
      BY <1>4, <2>1, <2>4 DEF StartsOpen
    <2>6. \A read : About(events, id, base.refs, read)
      BY <2>1, <2>4 DEF About
    <2> QED
      BY <2>3, <2>5, <2>6 DEF events
  <1> QED
    BY <1>3, <1>4

LEMMA StartsJoin ==
  ASSUME NEW head, WorkForm(head), NEW tail, PlainList(tail), NEW items, StartsOpen(head, items)
  PROVE  StartsOpen(head \o tail, items)
  <1> DEFINE all == head \o tail
  <1>1. IsTree(head) /\ IsTree(tail)
    BY DEF WorkForm, PlainList
  <1>2. /\ IsTree(all) /\ Len(head) \in Nat /\ Len(all) \in Nat
        /\ \A i \in 1..Len(head) : all[i] = head[i]
        /\ \A i \in 1..Len(all) : \/ i \in 1..Len(head) /\ all[i] = head[i]
                                  \/ i - Len(head) \in 1..Len(tail) /\ all[i] = tail[i - Len(head)]
    BY <1>1, JoinIs DEF IsTree
  <1> HIDE DEF all
  <1>3. ASSUME Len(all) > 0, all[1].op = "activate" PROVE items[all[1].item].status # "done"
    <2>1. 1 \in 1..Len(all)
      BY <1>2, <1>3
    <2>2. 1 \in 1..Len(head) /\ all[1] = head[1]
      BY <1>2, <1>3, <2>1 DEF PlainList, Plain
    <2> QED
      BY <1>2, <1>3, <2>2 DEF StartsOpen
  <1> QED
    BY <1>3 DEF StartsOpen, all

(* A plan is about a work item it creates or the ledger holds.             *)
PlanIsAbout(plan, items, refs) ==
  /\ \A read : About(plan.events, plan.item, refs, read)
  /\ plan.item \in Items \union DOMAIN items
  /\ \/ plan.item \in DOMAIN items
     \/ Len(plan.events) > 0 /\ plan.events[1].op = "work-create"

LEMMA PlanForms ==
  ASSUME NEW choice, NEW deliverable, NEW fresh \in Items
  PROVE  LET plan == PlanPendingIdentity(choice, deliverable, fresh)
         IN  /\ WorkForm(plan.events) /\ StartsOpen(plan.events, store.ledger.items)
             /\ plan # NoPlan => PlanIsAbout(plan, store.ledger.items, phase.pending.base.refs)
  <1> DEFINE ledger == store.ledger
             refs == phase.pending.base.refs
             Good(plan) == /\ WorkForm(plan.events) /\ StartsOpen(plan.events, ledger.items)
                           /\ plan # NoPlan => PlanIsAbout(plan, ledger.items, refs)
  <1>1. Good(NoPlan)
    BY ListedForms DEF NoPlan, StartsOpen
  <1>2. ASSUME NEW id \in DOMAIN ledger.items, NEW base, base.refs = refs
        PROVE  Good(PlanExisting(ledger, id, base))
    BY <1>2, TouchForm DEF PlanExisting, PlanIsAbout
  <1>3. ASSUME NEW base, base.refs = refs, NEW seed PROVE Good(PlanNew(fresh, base, seed))
    <2> DEFINE events == PlanNew(fresh, base, seed).events
    <2>0. DOMAIN PromptAnchors(refs) = refs /\ Referenced(PromptAnchors(refs))
      BY DEF PromptAnchors, Referenced
    <2>1. \E work : DOMAIN work = WorkFields /\ work.status = "active" /\ work.anchors = PromptAnchors(refs) /\
            events = << [op |-> "work-create", item |-> fresh, work |-> work], Event("activate", fresh) >>
      BY <1>3 DEF PlanNew, CreateItem, WorkFields
    <2>2. PICK work : DOMAIN work = WorkFields /\ work.status = "active" /\ work.anchors = PromptAnchors(refs) /\
            events = << [op |-> "work-create", item |-> fresh, work |-> work], Event("activate", fresh) >>
      BY <2>1
    <2> DEFINE e == [op |-> "work-create", item |-> fresh, work |-> work]
               f == Event("activate", fresh)
    <2>3. /\ e.op = "work-create" /\ e.item = fresh /\ EventForm(e) /\ ~Revives(e)
          /\ f.op = "activate" /\ f.item = fresh /\ EventForm(f) /\ ~Revives(f)
      BY <2>0, <2>2 DEF EventForm, ItemOps, Revives, Event
    <2>4. events = <<e, f>> /\ PlanNew(fresh, base, seed).item = fresh
      BY <2>2 DEF PlanNew
    <2>5. Adds(e) \subseteq refs /\ Adds(f) = {} /\ \A read : Told(e, read) /\ Told(f, read)
      BY <2>0, <2>2 DEF Adds, Event, Told
    <2> HIDE DEF e, f, events
    <2>6. /\ WorkForm(<<e, f>>) /\ StartsOpen(<<e, f>>, ledger.items)
          /\ (\A read : About(<<e, f>>, fresh, refs, read)) /\ <<e, f>>[1] = e /\ Len(<<e, f>>) = 2
      BY <2>3, <2>5 DEF WorkForm, IsTree, StartsOpen, About
    <2>7. PlanIsAbout(PlanNew(fresh, base, seed), ledger.items, refs)
      BY <2>3, <2>4, <2>6 DEF events, PlanIsAbout
    <2> QED
      BY <2>4, <2>6, <2>7 DEF events
  <1> HIDE DEF Good, ledger, refs
  <1>4. ASSUME NEW catalog, NEW chosen, NEW base, base.refs = refs
        PROVE  Good(PlanFromChoice(ledger, catalog, chosen, base, fresh))
    BY <1>1, <1>2, <1>3, <1>4, Zenon DEF PlanFromChoice
  <1>5. ASSUME NEW seed, NEW base, base.refs = refs
        PROVE  Good(PlanFromLegacy(ledger, seed, base, fresh))
    <2>1. CASE LegacyWorkItem(ledger, seed) = {}
      BY <1>3, <1>5, <2>1, Zenon DEF PlanFromLegacy
    <2>2. CASE LegacyWorkItem(ledger, seed) # {}
      <3> DEFINE id == CHOOSE i \in LegacyWorkItem(ledger, seed) : TRUE
      <3>1. id \in DOMAIN ledger.items
        BY <2>2 DEF LegacyWorkItem
      <3>2. Good(PlanExisting(ledger, id, base))
        BY <1>2, <1>5, <3>1
      <3> QED
        BY <1>1, <2>2, <3>2, Zenon DEF PlanFromLegacy
    <2> QED
      BY <2>1, <2>2
  <1>6. Good(PlanPendingIdentity(choice, deliverable, fresh))
    <2> DEFINE base == [phase.pending.base EXCEPT !.deliverable = deliverable]
    <2>1. base.refs = refs
      BY DEF refs
    <2> HIDE DEF base
    <2> QED
      BY <1>4, <1>5, <2>1, Zenon DEF PlanPendingIdentity, ledger, base
  <1> QED
    BY <1>6 DEF Good, ledger, refs

-----------------------------------------------------------------------------
(* What keeps the ledger in memory the fold of the branch: requests another *)
(* model served cause no event; the record of the selected model is right; *)
(* what was started for another session is not used; and what is written   *)
(* has the form above.                                                     *)

LatestOf(st) == LatestGenuineUserEntry(Path(st.tree, st.leaf), None)
Newest == LatestOf(store)

ForeignOK(st) ==
  /\ hist.foreign \subseteq {i \in 1..Len(st.tree) : st.tree[i].kind = "user"}
  /\ \A i \in 1..Len(st.tree) :
       st.tree[i].kind = "event" => st.tree[i].source \notin hist.foreign

ForeignInBranch == ForeignOK(store)

ForeignInv ==
  /\ ForeignOK(store)
  /\ source \notin hist.foreign
  /\ run.pc # "idle" => run.entry \notin hist.foreign /\ LatestOf(store) = run.entry
  /\ phase # None => phase.key \notin {Key(id) : id \in hist.foreign}

RoutedOK(tree) ==
  \A i \in 1..Len(tree) : tree[i].kind = "user" => (RoutedAt(tree, i) <=> i \notin hist.foreign)

(* A tool call of this session belongs to a run that waits for it.         *)
Live(fly) == fly # None /\ fly.kind \in {"read", "edit", "handoff"} /\ fly.gen = session.gen

FlightInv ==
  /\ session.gen \in Nat /\ run.calls \in Nat
  /\ run.fly # None /\ run.fly.kind \in {"read", "edit", "handoff"} =>
       run.fly.gen \in Nat /\ run.fly.gen <= session.gen
  /\ Live(run.fly) => run.pc = "stop" \/ (run.pc = "tools" /\ run.calls > 0)
  /\ run.fly # None /\ run.fly.kind = "handoff" => WorkForm(run.fly.plan.events)

(* What a plan that waits will activate has not been done meanwhile.       *)
PlanInv ==
  Live(run.fly) /\ run.fly.kind = "handoff" => StartsOpen(run.fly.plan.events, store.ledger.items)

FormOK(tree) ==
  \A i \in 1..Len(tree) : tree[i].kind = "event" => CommitForm(tree[i].events)

(* Whenever router/auto is selected, and every selection was recorded.     *)
FoldInv ==
  /\ auto \in BOOLEAN
  /\ Whole(store.ledger) /\ FormOK(store.tree)
  /\ ~hist.unrecorded => RoutedOK(store.tree)
  /\ auto /\ ~hist.unrecorded => Exact(store)

(* The steps of others that change the store, with their inputs bound.     *)
SendsStep == \E refs \in SUBSET left.files, recorded \in BOOLEAN : UserSends(refs, recorded)
NavigatesStep == \E leaf \in 0..Len(store.tree) : Navigate(leaf)
RestartsStep == \E isAuto \in BOOLEAN, damaged \in DOMAIN store.tree \union {None} : Restart(isAuto, damaged)

(* One commit, or none.                                                    *)
Commits(st, next) ==
  \/ next = st
  \/ \E from, events :
       /\ next = AppendCommit(st, from, events) /\ CommitForm(events)
       /\ StartsOpen(events, st.ledger.items)
       /\ from \in Named(st.tree, st.leaf) /\ from \notin hist.foreign

Writes(st, next) == \E mid : Commits(st, mid) /\ Commits(mid, next)

LEMMA PutCommits ==
  ASSUME NEW st, NEW from, NEW events, CommitForm(events), StartsOpen(events, st.ledger.items),
         from \in Named(st.tree, st.leaf), from \notin hist.foreign
  PROVE  /\ Commits(st, AppendCommit(st, from, events))
         /\ \A persisted : Commits(st, Put(st, from, events, persisted))
  BY DEF Put, Commits

LEMMA OneIsWrites ==
  ASSUME NEW st, NEW next, Commits(st, next)
  PROVE  Writes(st, next)
  BY DEF Writes, Commits

LEMMA IncumbentForm ==
  ASSUME NEW inc
  PROVE  /\ CommitForm(<<[op |-> "incumbent", incumbent |-> inc]>>)
         /\ \A items : StartsOpen(<<[op |-> "incumbent", incumbent |-> inc]>>, items)
  BY DEF CommitForm, IsTree, StartsOpen

LEMMA CommitsExtend ==
  ASSUME NEW st, StoreGood(st), NEW next, Commits(st, next)
  PROVE  Extends(st, next)
  BY AppendExtends, ExtendsIsPreorder DEF Commits

(* The sources a step writes are messages the router answers.              *)
LEMMA KeyIsRouted ==
  ASSUME PlaceInv, ForeignInv, NEW id \in Here
  PROVE  SourceOrKey(Key(id)) \in Named(store.tree, store.leaf)
         /\ SourceOrKey(Key(id)) \notin hist.foreign
  <1>1. SourceOrKey(Key(id)) \in Named(store.tree, store.leaf)
    BY SourceOrKeyNamed
  <1>2. id \in 1..Len(store.tree) /\ Len(store.tree) \in Nat
    BY BranchOK DEF PlaceInv, StoreGood, StoreOK, IsTree
  <1>3. hist.foreign \subseteq 1..Len(store.tree)
    BY DEF ForeignInv, ForeignOK
  <1>4. Key(id) \notin hist.foreign
    BY <1>2, <1>3 DEF Key
  <1> QED
    BY <1>1, <1>4 DEF SourceOrKey, ForeignInv

LEMMA CurrentIsRouted ==
  ASSUME PlaceInv, ForeignInv, run.pc # "idle"
  PROVE  CurrentSourceEntry \in Named(store.tree, store.leaf) /\ CurrentSourceEntry \notin hist.foreign
  <1>1. run.entry \in Here
    BY DEF PlaceInv
  <1>2. CurrentSourceEntry \in Named(store.tree, store.leaf)
    BY <1>1, CurrentSourceNamed
  <1>3. run.entry # None
    BY <1>1, BranchOK DEF PlaceInv
  <1>4. CurrentSourceEntry = IF source # None THEN source ELSE run.entry
    BY <1>3 DEF CurrentSourceEntry, ForeignInv, LatestOf, Branch
  <1> QED
    BY <1>2, <1>4 DEF ForeignInv

LEMMA PendingIsRouted ==
  ASSUME PlaceInv, ForeignInv, phase # None, phase.pending # None
  PROVE  phase.pending.source \notin hist.foreign
  BY DEF PlaceInv, ForeignInv

LEMMA EntryIsRouted ==
  ASSUME PlaceInv, ForeignInv, phase # None, ~Bare(phase)
  PROVE  LET from == IF phase.pending # None THEN phase.pending.source ELSE SourceOrKey(phase.key)
         IN  /\ from \in Named(store.tree, store.leaf) /\ from \notin hist.foreign
             /\ SourceOrKey(phase.key) \in Named(store.tree, store.leaf)
             /\ SourceOrKey(phase.key) \notin hist.foreign
  <1>1. PICK id \in Here : phase.key = Key(id)
    BY DEF PlaceInv
  <1>2. /\ SourceOrKey(phase.key) \in Named(store.tree, store.leaf)
        /\ SourceOrKey(phase.key) \notin hist.foreign
    BY <1>1, KeyIsRouted
  <1>3. phase.pending # None => phase.pending.source \in Named(store.tree, store.leaf)
    BY NotBare
  <1> QED
    BY <1>2, <1>3, PendingIsRouted

LEMMA ServeWrites ==
  ASSUME EntryInv, PlaceInv, ForeignInv, NEW m, NEW clears, NEW lost, Serve(m, clears, lost)
  PROVE  Writes(store, store')
  <1> DEFINE settled == SettleBoundary(phase, run.scored, clears)
             noted == NoteIncumbent(store, settled, m, run.scored, "incumbent" \notin lost)
  <1>0. StoreGood(store)
    BY DEF PlaceInv
  <1>1. run.scored.key = Key(run.entry) /\ run.entry \in Here
    BY AtEntry DEF Serve
  <1>2. Commits(store, noted)
    <2>1. \A inc, persisted :
            Commits(store, Put(store, SourceOrKey(run.scored.key),
                               <<[op |-> "incumbent", incumbent |-> inc]>>, persisted))
      BY <1>1, KeyIsRouted, IncumbentForm, PutCommits
    <2>2. \/ noted = store
          \/ \E inc, persisted : noted = Put(store, SourceOrKey(run.scored.key),
                               <<[op |-> "incumbent", incumbent |-> inc]>>, persisted)
      BY Zenon DEF NoteIncumbent
    <2> QED
      BY <2>1, <2>2 DEF Commits
  <1>3. store' = RecordServedWork(noted, settled, m, "served" \notin lost)
    BY DEF Serve
  <1> HIDE DEF noted, settled
  <1>4. Named(store.tree, store.leaf) \subseteq Named(noted.tree, noted.leaf)
    BY <1>0, <1>2, CommitsExtend DEF Extends, Named
  <1>5. \/ store' = noted
        \/ /\ source # None
           /\ \E item, persisted :
                store' = Put(noted, source, <<[op |-> "served", item |-> item, model |-> m]>>, persisted)
    BY <1>3, Zenon DEF RecordServedWork
  <1>6. CASE store' = noted
    BY <1>2, <1>6, OneIsWrites
  <1>7. ASSUME source # None, NEW item, NEW persisted,
               store' = Put(noted, source, <<[op |-> "served", item |-> item, model |-> m]>>, persisted)
        PROVE  Commits(noted, store')
    <2>1. source \in Named(noted.tree, noted.leaf) /\ source \notin hist.foreign
      BY <1>4, <1>7 DEF PlaceInv, ForeignInv
    <2>2. /\ CommitForm(<<[op |-> "served", item |-> item, model |-> m]>>)
          /\ \A items : StartsOpen(<<[op |-> "served", item |-> item, model |-> m]>>, items)
      BY ListedForms DEF Plain, CommitForm, StartsOpen
    <2> QED
      BY <1>7, <2>1, <2>2, PutCommits
  <1> QED
    BY <1>2, <1>5, <1>6, <1>7 DEF Writes

LEMMA FinishWrites ==
  ASSUME EntryInv, PlaceInv, ShownInv, ForeignInv, FlightInv, PlanInv, Finish
  PROVE  Writes(store, store')
  <1>0. Writes(store, store)
    BY DEF Writes, Commits
  <1>1. ASSUME NEW persisted, FinishRead(persisted) \/ FinishEdit(persisted)
        PROVE  Writes(store, store')
    <2>1. \/ store' = store
          \/ /\ Live(run.fly)
             /\ \E id, path, version, by :
                  store' = Put(store, CurrentSourceEntry,
                               <<GroundingUpsert(id, path, version, by)>>, persisted)
      <3>1. CASE FinishRead(persisted)
        <4>1. run.fly # None /\ run.fly.kind = "read"
          BY <3>1 DEF FinishRead
        <4>2. \/ store' = store
              \/ /\ run.fly.gen = session.gen
                 /\ store' = Put(store, CurrentSourceEntry,
                      <<GroundingUpsert(run.fly.work, run.fly.path, run.fly.version, "read")>>, persisted)
          BY <3>1, Zenon DEF FinishRead
        <4> QED
          BY <4>1, <4>2 DEF Live
      <3>2. CASE FinishEdit(persisted)
        <4>1. run.fly # None /\ run.fly.kind = "edit"
          BY <3>2 DEF FinishEdit
        <4>2. \/ store' = store
              \/ /\ run.fly.gen = session.gen
                 /\ store' = Put(store, CurrentSourceEntry,
                      <<GroundingUpsert(run.fly.work, run.fly.path, disk[run.fly.path].version, "self-edit")>>,
                      persisted)
          BY <3>2, Zenon DEF FinishEdit
        <4> QED
          BY <4>1, <4>2 DEF Live
      <3> QED
        BY <1>1, <3>1, <3>2
    <2>2. Live(run.fly) => /\ CurrentSourceEntry \in Named(store.tree, store.leaf)
                           /\ CurrentSourceEntry \notin hist.foreign
      BY CurrentIsRouted DEF FlightInv
    <2>3. \A id, path, version, by :
            /\ CommitForm(<<GroundingUpsert(id, path, version, by)>>)
            /\ StartsOpen(<<GroundingUpsert(id, path, version, by)>>, store.ledger.items)
      BY ListedForms DEF GroundingUpsert, Plain, CommitForm, StartsOpen
    <2>4. CASE store' = store
      BY <1>0, <2>4
    <2>5. ASSUME Live(run.fly), NEW id, NEW path, NEW version, NEW by,
                 store' = Put(store, CurrentSourceEntry,
                              <<GroundingUpsert(id, path, version, by)>>, persisted)
          PROVE  Commits(store, store')
      <3> HIDE DEF Commits
      <3> QED
        BY <2>2, <2>3, <2>5, PutCommits
    <2> QED
      BY <2>1, <2>4, <2>5, OneIsWrites
  <1>2. ASSUME NEW persisted, SubmitHandOff(persisted) PROVE Writes(store, store')
    <2> DEFINE selected == phase.pending # None
               item == IF selected THEN run.fly.plan.item ELSE phase.item
               planned == IF selected THEN run.fly.plan.events \o Upserts(item, run.fly.read) ELSE <<>>
               held == \/ item \in DOMAIN store.ledger.items
                       \/ \E i \in DOMAIN planned : planned[i].op = "work-create"
               last == IF item # None /\ held THEN <<Boundary(item, "investigation-handoff")>> ELSE <<>>
               events == planned \o last
               from == IF selected THEN phase.pending.source ELSE SourceOrKey(phase.key)
    <2>1. \/ store' = store
          \/ /\ phase # None /\ events # <<>> /\ store' = AppendCommit(store, from, events)
             /\ selected => session.gen = run.fly.gen
      BY <1>2, ZenonT(60) DEF SubmitHandOff
    <2>2. ~selected /\ item = None => events = <<>>
      OBVIOUS
    <2>3. phase # None /\ events # <<>> => ~Bare(phase)
      BY <2>2 DEF Bare
    <2>4. WorkForm(planned)
      <3>1. run.fly # None /\ run.fly.kind = "handoff"
        BY <1>2 DEF SubmitHandOff
      <3>2. WorkForm(run.fly.plan.events) /\ IsFiniteSet(DOMAIN run.fly.read)
        BY <3>1, LedgerAssumption, FS_Subset DEF FlightInv, ShownInv, FlyOK, ReadsOK
      <3>3. WorkForm(run.fly.plan.events \o Upserts(item, run.fly.read))
        <4> HIDE DEF item
        <4>1. PlainList(Upserts(item, run.fly.read))
          BY <3>2, UpsertsPlain
        <4> QED
          BY <3>2, <4>1, FormJoins
      <3> QED
        BY <3>3, ListedForms
    <2>5. PlainList(last)
      <3> HIDE DEF item, held
      <3>1. Plain(Boundary(item, "investigation-handoff"))
        BY DEF Boundary, Plain
      <3> QED
        BY <3>1, ListedForms
    <2>9. (selected => session.gen = run.fly.gen) => StartsOpen(planned, store.ledger.items)
      <3> SUFFICES ASSUME selected => session.gen = run.fly.gen
                   PROVE  StartsOpen(planned, store.ledger.items)
        OBVIOUS
      <3>1. CASE selected
        <4>1. run.fly # None /\ run.fly.kind = "handoff"
          BY <1>2 DEF SubmitHandOff
        <4>2. StartsOpen(run.fly.plan.events, store.ledger.items)
          BY <3>1, <4>1 DEF PlanInv, Live
        <4>3. WorkForm(run.fly.plan.events) /\ IsFiniteSet(DOMAIN run.fly.read)
          BY <4>1, LedgerAssumption, FS_Subset DEF FlightInv, ShownInv, FlyOK, ReadsOK
        <4> HIDE DEF item
        <4>4. PlainList(Upserts(item, run.fly.read))
          BY <4>3, UpsertsPlain
        <4>5. planned = run.fly.plan.events \o Upserts(item, run.fly.read)
          BY <3>1
        <4> QED
          BY <4>2, <4>3, <4>4, <4>5, StartsJoin
      <3>2. CASE ~selected
        BY <3>2 DEF StartsOpen
      <3> QED
        BY <3>1, <3>2
    <2> HIDE DEF planned, last
    <2>6. CommitForm(events)
      BY <2>4, <2>5, FormJoins DEF CommitForm
    <2>10. (selected => session.gen = run.fly.gen) => StartsOpen(events, store.ledger.items)
      BY <2>4, <2>5, <2>9, StartsJoin
    <2> HIDE DEF events
    <2>7. phase # None /\ events # <<>> => from \in Named(store.tree, store.leaf) /\ from \notin hist.foreign
      BY <2>3, EntryIsRouted
    <2> HIDE DEF from
    <2>8. Commits(store, store')
      <3>1. CASE store' = store
        BY <3>1 DEF Commits
      <3>2. CASE /\ phase # None /\ events # <<>> /\ store' = AppendCommit(store, from, events)
                 /\ selected => session.gen = run.fly.gen
        <4>1. from \in Named(store.tree, store.leaf) /\ from \notin hist.foreign
          BY <2>7, <3>2
        <4> QED
          BY <3>2, <4>1, <2>6, <2>10, PutCommits
      <3> QED
        BY <2>1, <3>1, <3>2
    <2> QED
      BY <2>8, OneIsWrites
  <1>3. ASSUME NEW persisted, SubmitReopen(persisted) PROVE Writes(store, store')
    <2> DEFINE target == IF phase = None THEN None ELSE ReopenTarget(store.ledger, phase)
               from == SourceOrKey(phase.key)
               owner == IF store.ledger.incumbent # None THEN store.ledger.incumbent.model
                                                         ELSE session.served
               first == ReopenEvents(target, [deliverable |-> run.fly.deliverable])
               events == first \o Upserts(target, run.fly.read)
               more == << [op |-> "incumbent", incumbent |->
                             [model |-> owner, dimension |-> run.fly.deliverable, item |-> target]] >>
               reopened == AppendCommit(store, from, events)
    <2>1. \/ store' = store
          \/ phase # None /\ target # None /\ store' = Put(reopened, from, more, TRUE)
      <3>1. \/ store' = store
            \/ target # None /\ store' = Put(reopened, from, more, TRUE)
        BY <1>3, ZenonT(60) DEF SubmitReopen
      <3>2. target # None => phase # None
        OBVIOUS
      <3> QED
        BY <3>1, <3>2
    <2>2. phase # None /\ target # None => ~Bare(phase)
      BY TargetNotBare
    <2>3. phase # None /\ target # None => from \in Named(store.tree, store.leaf) /\ from \notin hist.foreign
      BY <2>2, EntryIsRouted
    <2>4. CommitForm(more) /\ \A items : StartsOpen(more, items)
      BY IncumbentForm
    <2>5. CommitForm(events) /\ StartsOpen(events, store.ledger.items)
      <3>1. run.fly # None /\ run.fly.kind = "reopen"
        BY <1>3 DEF SubmitReopen
      <3>2. IsFiniteSet(DOMAIN run.fly.read)
        BY <3>1, LedgerAssumption, FS_Subset DEF ShownInv, FlyOK, ReadsOK
      <3>3. WorkForm(first) /\ StartsOpen(first, store.ledger.items)
        <4>1. PatchOK([deliverable |-> run.fly.deliverable])
          BY DEF PatchOK
        <4> QED
          BY <4>1, ReopeningForm DEF StartsOpen
      <3> HIDE DEF target, first
      <3>4. PlainList(Upserts(target, run.fly.read))
        BY <3>2, UpsertsPlain
      <3> QED
        BY <3>3, <3>4, FormJoins, StartsJoin DEF CommitForm
    <2> HIDE DEF target, from, owner, events, more, reopened
    <2>6. CASE phase # None /\ target # None /\ store' = Put(reopened, from, more, TRUE)
      <3>1. Commits(store, reopened)
        BY <2>3, <2>5, <2>6, PutCommits DEF reopened
      <3>2. Extends(store, reopened)
        BY <3>1, CommitsExtend DEF PlaceInv
      <3>3. from \in Named(reopened.tree, reopened.leaf) /\ from \notin hist.foreign
        BY <3>2, <2>3, <2>6 DEF Extends, Named
      <3>4. Commits(reopened, store')
        BY <2>4, <2>6, <3>3, PutCommits
      <3> QED
        BY <3>1, <3>4 DEF Writes
    <2> QED
      BY <1>0, <2>1, <2>6
  <1> QED
    BY <1>1, <1>2, <1>3 DEF Finish

LEMMA ToolCallWrites ==
  ASSUME EntryInv, PlaceInv, ForeignInv, ToolCall
  PROVE  Writes(store, store')
  <1>1. CASE store' = store
    BY <1>1, OneIsWrites DEF Commits
  <1>2. ASSUME NEW outcome \in {"done", "superseded"}, CompleteWork(outcome) PROVE Commits(store, store')
    <2> DEFINE item == store.ledger.active
               e == [op |-> "work-close", item |-> item, status |-> outcome]
               f == Boundary(item, "work-complete")
    <2>1. phase.key = Key(run.entry) /\ run.entry \in Here
      BY <1>2, AtEntry DEF CompleteWork, InCall
    <2>2. store' = AppendCommit(store, SourceOrKey(phase.key), <<e, f>>)
      BY <1>2 DEF CompleteWork
    <2>3. /\ EventForm(e) /\ ~Revives(e) /\ e.op # "activate"
          /\ EventForm(f) /\ ~Revives(f) /\ f.op # "activate"
      BY DEF EventForm, ItemOps, Revives, Boundary
    <2> HIDE DEF e, f
    <2>4. CommitForm(<<e, f>>) /\ StartsOpen(<<e, f>>, store.ledger.items)
      BY <2>3 DEF CommitForm, WorkForm, IsTree, StartsOpen
    <2> QED
      BY <2>1, <2>2, <2>4, KeyIsRouted, PutCommits
  <1>3. ASSUME NEW i, NEW p, UpdateWork(i, p) PROVE Commits(store, store')
    <2>1. run.pc # "idle"
      BY <1>3 DEF UpdateWork, InCall
    <2> DEFINE named == [q \in {p} |-> [role |-> "reference", source |-> "model"]]
    <2>2. \E patch : DOMAIN patch = {"anchors"} /\ PatchOK(patch)
                     /\ store' = AppendCommit(store, CurrentSourceEntry, <<Update(i, patch)>>)
      <3> DEFINE patch == [anchors |-> named]
      <3>1. store' = AppendCommit(store, CurrentSourceEntry, <<Update(i, patch)>>)
        BY <1>3 DEF UpdateWork
      <3>2. Referenced(named)
        BY DEF Referenced
      <3>3. DOMAIN patch = {"anchors"} /\ PatchOK(patch)
        BY <3>2 DEF PatchOK
      <3> QED
        BY <3>1, <3>3
    <2>3. \A patch : DOMAIN patch = {"anchors"} /\ PatchOK(patch) =>
            CommitForm(<<Update(i, patch)>>) /\ StartsOpen(<<Update(i, patch)>>, store.ledger.items)
      BY ListedForms DEF CommitForm, StartsOpen, Update
    <2> QED
      BY <2>1, <2>2, <2>3, CurrentIsRouted, PutCommits
  <1> QED
    BY <1>1, <1>2, <1>3, OneIsWrites
       DEF ToolCall, StartRead, Edit, RefuseEdit, DeclareAnswer, AskUser, StartHandOff, StartReopen

-----------------------------------------------------------------------------
(* What commits keep.                                                      *)

LEMMA CommitAdds ==
  ASSUME NEW st, StoreGood(st), NEW from, NEW events, from \in Named(st.tree, st.leaf)
  PROVE  LET next == AppendCommit(st, from, events)
         IN  /\ Len(next.tree) = Len(st.tree) + 1 /\ Len(st.tree) \in Nat
             /\ \A i \in 1..Len(st.tree) : next.tree[i] = st.tree[i]
             /\ next.leaf = Len(st.tree) + 1 /\ st.leaf \in 0..Len(st.tree)
             /\ next.tree[Len(st.tree) + 1].kind = "event"
             /\ next.tree[Len(st.tree) + 1].source = from
             /\ next.tree[Len(st.tree) + 1].events = events
             /\ next.tree[Len(st.tree) + 1].parent = st.leaf
             /\ next.ledger = FoldCommit(st.ledger, events).ledger
             /\ StoreGood(next) /\ Parented(next.tree) /\ Parented(st.tree)
  <1> DEFINE entry == [Entry("event") EXCEPT !.source = from, !.events = events]
             node == Added(st, entry)
             added == AddEntry(st, entry)
             next == AppendCommit(st, from, events)
  <1>1. DOMAIN entry = NodeFields /\ entry.kind = "event" /\ entry.source = from
    BY EntryIsNode DEF Entry
  <1>2. /\ node.kind = "event" /\ node.source = from /\ node.events = events /\ node.parent = st.leaf
    BY DEF Entry, Added
  <1>3. next = [added EXCEPT !.ledger = FoldCommit(st.ledger, events).ledger]
    BY DEF AppendCommit
  <1>4. StoreGood(next)
    BY AppendExtends DEF Extends
  <1> HIDE DEF entry, node, next
  <1>5. StoreGood(added)
    BY <1>1, AddExtends DEF Extends, Kinds
  <1>6. added.tree = Append(st.tree, node) /\ added.leaf = Len(st.tree) + 1
    BY <1>5, BranchGrows DEF node
  <1>7. DOMAIN added = {"tree", "leaf", "ledger"}
    BY <1>5 DEF StoreGood, StoreOK
  <1> HIDE DEF added
  <1>8. /\ next.tree = Append(st.tree, node) /\ next.leaf = Len(st.tree) + 1
        /\ next.ledger = FoldCommit(st.ledger, events).ledger
    BY <1>3, <1>6, <1>7
  <1>9. /\ Parented(st.tree) /\ Parented(next.tree) /\ Len(st.tree) \in Nat
        /\ st.leaf \in 0..Len(st.tree)
    BY <1>4, GoodIsParented DEF StoreGood, StoreOK, IsTree
  <1>10. /\ Len(next.tree) = Len(st.tree) + 1
         /\ \A i \in 1..Len(st.tree) : next.tree[i] = st.tree[i]
         /\ next.tree[Len(st.tree) + 1] = node
    BY <1>8, <1>9, TreeIsSeq DEF Parented
  <1> QED
    BY <1>2, <1>4, <1>8, <1>9, <1>10 DEF next

LEMMA LatestAppend ==
  ASSUME NEW branch, IsTree(branch), NEW node
  PROVE  LatestGenuineUserEntry(Append(branch, node), None) =
           IF None \in UserIds(Append(branch, node)) THEN None
           ELSE IF IsUser(node) THEN node.id ELSE LatestGenuineUserEntry(branch, None)
  <1> DEFINE longer == Append(branch, node)
             L == Len(branch)
             U == {i \in DOMAIN branch : IsUser(branch[i])}
             V == {i \in DOMAIN longer : IsUser(longer[i])}
  <1>1. /\ DOMAIN longer = 1..(L + 1) /\ DOMAIN branch = 1..L /\ L \in Nat
        /\ \A i \in 1..L : longer[i] = branch[i]
        /\ longer[L + 1] = node
    BY TreeIsSeq DEF IsTree
  <1>2. /\ LatestGenuineUserEntry(longer, None) = IF V = {} THEN None
             ELSE IF None \in UserIds(longer) THEN None ELSE longer[Max(V)].id
        /\ LatestGenuineUserEntry(branch, None) = IF U = {} THEN None
             ELSE IF None \in UserIds(branch) THEN None ELSE branch[Max(U)].id
    BY DEF LatestGenuineUserEntry
  <1>3. UserIds(branch) \subseteq UserIds(longer)
    BY UserIdsAppend
  <1> HIDE DEF longer
  <1>4. CASE IsUser(node)
    <2>1. V \subseteq 0..(L + 1) /\ L + 1 \in V /\ L + 1 \in Nat
      BY <1>1, <1>4
    <2>2. Max(V) = L + 1
      <3> HIDE DEF V
      <3>1. Max(V) \in V /\ \A n \in V : n <= Max(V)
        BY <2>1, MaxOf
      <3>2. L + 1 <= Max(V) /\ Max(V) \in 0..(L + 1)
        BY <2>1, <3>1
      <3> HIDE <3>1
      <3> QED
        BY <3>2, <2>1
    <2> HIDE DEF V, U
    <2> QED
      BY <1>1, <1>2, <1>4, <2>1, <2>2 DEF longer
  <1>5. CASE ~IsUser(node)
    <2>1. V = U
      BY <1>1, <1>5
    <2>2. U # {} => Max(U) \in 1..L
      <3>1. U \subseteq 0..L /\ L \in Nat /\ \A n \in U : n \in 1..L
        BY <1>1
      <3> HIDE DEF U
      <3>2. U # {} => Max(U) \in U
        BY <3>1, MaxOf
      <3> QED
        BY <3>1, <3>2
    <2> HIDE DEF V, U
    <2> QED
      BY <1>1, <1>2, <1>3, <1>5, <2>1, <2>2 DEF longer
  <1> QED
    BY <1>4, <1>5

(* The latest message is that of the branch before an entry that is none.  *)
LEMMA LatestAdded ==
  ASSUME NEW st, StoreGood(st), NEW entry, StoreGood(AddEntry(st, entry))
  PROVE  LatestOf(AddEntry(st, entry)) = IF entry.kind = "user" /\ "kind" \in DOMAIN entry
                                           THEN Len(st.tree) + 1 ELSE LatestOf(st)
  <1> DEFINE next == AddEntry(st, entry)
             branch == Path(st.tree, st.leaf)
             node == Added(st, entry)
  <1>1. Path(next.tree, next.leaf) = Append(branch, node) /\ IsTree(branch) /\ next.leaf = Len(st.tree) + 1
        /\ next.tree = Append(st.tree, node)
    BY BranchGrows
  <1>2. DOMAIN node = NodeFields
    <2>1. Len(st.tree) + 1 \in 1..Len(next.tree) /\ next.tree[Len(st.tree) + 1] = node
      BY <1>1, TreeIsSeq DEF StoreGood, StoreOK, IsTree
    <2> HIDE DEF next, node
    <2> QED
      BY <2>1 DEF StoreGood, StoreOK, next
  <1>3. node.kind = entry.kind /\ node.id = Len(st.tree) + 1 /\ "kind" \in DOMAIN entry
    <2>1. DOMAIN entry = NodeFields
      BY <1>2 DEF Added
    <2> QED
      BY <2>1 DEF Added, NodeFields
  <1> HIDE DEF node, next
  <1>4. None \notin UserIds(Append(branch, node))
    <2>1. next.leaf \in 0..Len(next.tree) /\ Len(next.tree) \in Nat
      BY DEF StoreGood, StoreOK, IsTree, next
    <2>2. UsersAt(next.tree, next.leaf) \subseteq 1..Len(next.tree)
      BY <2>1, UsersAreNumbers DEF next
    <2>3. None \notin Nat
      BY EntryAssumption
    <2> QED
      BY <1>1, <2>1, <2>2, <2>3 DEF UsersAt
  <1> HIDE DEF branch
  <1> QED
    BY <1>1, <1>3, <1>4, LatestAppend DEF LatestOf, IsUser, branch, next

LEMMA CommitsKeep ==
  ASSUME NEW st, StoreGood(st), NEW next, Commits(st, next)
  PROVE  /\ StoreGood(next)
         /\ ForeignOK(st) => ForeignOK(next)
         /\ LatestOf(next) = LatestOf(st)
         /\ FormOK(st.tree) => FormOK(next.tree)
         /\ RoutedOK(st.tree) => RoutedOK(next.tree)
         /\ Whole(st.ledger) => Whole(next.ledger)
  <1>1. CASE next = st
    BY <1>1
  <1>2. ASSUME NEW from, NEW events,
               next = AppendCommit(st, from, events), CommitForm(events),
               from \in Named(st.tree, st.leaf), from \notin hist.foreign
        PROVE  /\ StoreGood(next)
               /\ ForeignOK(st) => ForeignOK(next)
               /\ LatestOf(next) = LatestOf(st)
               /\ FormOK(st.tree) => FormOK(next.tree)
               /\ RoutedOK(st.tree) => RoutedOK(next.tree)
               /\ Whole(st.ledger) => Whole(next.ledger)
    <2> DEFINE L == Len(st.tree)
    <2>1. /\ Len(next.tree) = L + 1 /\ L \in Nat
          /\ \A i \in 1..L : next.tree[i] = st.tree[i]
          /\ next.tree[L + 1].kind = "event" /\ next.tree[L + 1].source = from
          /\ next.tree[L + 1].events = events
          /\ next.ledger = FoldCommit(st.ledger, events).ledger
          /\ StoreGood(next) /\ Parented(next.tree) /\ Parented(st.tree)
      BY <1>2, CommitAdds
    <2> HIDE DEF L
    <2>2. \A i \in 1..Len(next.tree) : i \in 1..L \/ i = L + 1
      BY <2>1
    <2>3. ForeignOK(st) => ForeignOK(next)
      BY <1>2, <2>1, <2>2 DEF ForeignOK, L
    <2>4. FormOK(st.tree) => FormOK(next.tree)
      BY <1>2, <2>1, <2>2 DEF FormOK, L
    <2>5. RoutedOK(st.tree) => RoutedOK(next.tree)
      <3>1. \A n \in 0..L : RoutedAt(next.tree, n) <=> RoutedAt(st.tree, n)
        <4>1. Len(st.tree) <= Len(next.tree)
          BY <2>1 DEF L
        <4> QED
          BY <2>1, <4>1, RoutedSame DEF L
      <3> QED
        BY <2>1, <2>2, <3>1 DEF RoutedOK, L
    <2>6. Whole(st.ledger) => Whole(next.ledger)
      BY <1>2, <2>1, FoldWhole
    <2>7. LatestOf(next) = LatestOf(st)
      <3> DEFINE entry == [Entry("event") EXCEPT !.source = from, !.events = events]
                 added == AddEntry(st, entry)
      <3>1. DOMAIN entry = NodeFields /\ entry.kind = "event" /\ entry.source = from
        BY EntryIsNode DEF Entry
      <3>2. next = [added EXCEPT !.ledger = FoldCommit(st.ledger, events).ledger]
        BY <1>2 DEF AppendCommit
      <3> HIDE DEF entry
      <3>3. StoreGood(added)
        BY <1>2, <3>1, AddExtends DEF Extends, Kinds
      <3>4. LatestOf(added) = LatestOf(st)
        BY <3>1, <3>3, LatestAdded
      <3> HIDE DEF added
      <3>5. next.tree = added.tree /\ next.leaf = added.leaf
        BY <3>2, <3>3 DEF StoreGood, StoreOK
      <3> QED
        BY <3>4, <3>5 DEF LatestOf
    <2> QED
      BY <2>1, <2>3, <2>4, <2>5, <2>6, <2>7
  <1> QED
    BY <1>1, <1>2 DEF Commits

(* With every selection on record, what the branch shows unanswered by the *)
(* router is what another model answered.                                  *)
LEMMA UnroutedIsForeign ==
  ASSUME NEW st, StoreGood(st), RoutedOK(st.tree)
  PROVE  Unrouted(Path(st.tree, st.leaf)) \subseteq hist.foreign
  <1> DEFINE branch == Path(st.tree, st.leaf)
  <1>1. Parented(st.tree) /\ st.leaf \in 0..Len(st.tree) /\ TreeOK(st.tree)
    BY GoodIsParented DEF StoreGood, StoreOK
  <1>2. IsTree(branch)
    BY <1>1, PathIsTree
  <1>3. \A i \in 1..Len(branch) : \E j \in 1..Len(st.tree) :
           branch[i] = st.tree[j] /\ (RoutedAfter(branch, i) <=> RoutedAt(st.tree, j))
    BY <1>1, PathPlaces
  <1>4. DOMAIN branch = 1..Len(branch)
    BY <1>2 DEF IsTree
  <1> HIDE DEF branch
  <1>5. ASSUME NEW i \in 1..Len(branch), IsUser(branch[i]), ~RoutedAfter(branch, i)
        PROVE  branch[i].id \in hist.foreign
    <2>1. PICK j \in 1..Len(st.tree) :
            branch[i] = st.tree[j] /\ (RoutedAfter(branch, i) <=> RoutedAt(st.tree, j))
      BY <1>3
    <2> QED
      BY <1>1, <1>5, <2>1 DEF RoutedOK, TreeOK, IsUser
  <1>6. Unrouted(branch) \subseteq hist.foreign
    BY <1>4, <1>5, UnroutedIs
  <1> QED
    BY <1>6 DEF branch

LEMMA CommitsExact ==
  ASSUME NEW st, StoreGood(st), RoutedOK(st.tree), Exact(st), NEW next, Commits(st, next)
  PROVE  Exact(next)
  <1>1. Unrouted(Path(st.tree, st.leaf)) \subseteq hist.foreign
    BY UnroutedIsForeign
  <1>2. ASSUME NEW from, NEW events, next = AppendCommit(st, from, events),
               from \in Named(st.tree, st.leaf), from \notin hist.foreign
        PROVE  Exact(next)
    <2>1. from \notin Unrouted(Path(st.tree, st.leaf))
      BY <1>1, <1>2
    <2> QED
      BY <1>2, <2>1, CommitExact
  <1> QED
    BY <1>2 DEF Commits

LEMMA WritesKeep ==
  ASSUME NEW st, StoreGood(st), NEW next, Writes(st, next)
  PROVE  /\ StoreGood(next)
         /\ ForeignOK(st) => ForeignOK(next)
         /\ LatestOf(next) = LatestOf(st)
         /\ FormOK(st.tree) => FormOK(next.tree)
         /\ RoutedOK(st.tree) => RoutedOK(next.tree)
         /\ Whole(st.ledger) => Whole(next.ledger)
         /\ RoutedOK(st.tree) /\ Exact(st) => Exact(next)
  <1>1. PICK mid : Commits(st, mid) /\ Commits(mid, next)
    BY DEF Writes
  <1>2. /\ StoreGood(mid)
        /\ ForeignOK(st) => ForeignOK(mid)
        /\ LatestOf(mid) = LatestOf(st)
        /\ FormOK(st.tree) => FormOK(mid.tree)
        /\ RoutedOK(st.tree) => RoutedOK(mid.tree)
        /\ Whole(st.ledger) => Whole(mid.ledger)
        /\ RoutedOK(st.tree) /\ Exact(st) => Exact(mid)
    BY <1>1, CommitsKeep, CommitsExact
  <1>3. /\ StoreGood(next)
        /\ ForeignOK(mid) => ForeignOK(next)
        /\ LatestOf(next) = LatestOf(mid)
        /\ FormOK(mid.tree) => FormOK(next.tree)
        /\ RoutedOK(mid.tree) => RoutedOK(next.tree)
        /\ Whole(mid.ledger) => Whole(next.ledger)
        /\ RoutedOK(mid.tree) /\ Exact(mid) => Exact(next)
    BY <1>1, <1>2, CommitsKeep, CommitsExact
  <1> QED
    BY <1>2, <1>3

-----------------------------------------------------------------------------
(* Tool calls in flight.                                                   *)

LEMMA FlightStays ==
  ASSUME FlightInv, session'.gen = session.gen, run'.calls \in Nat,
         \/ run'.fly = None
         \/ /\ run'.fly = run.fly
            /\ ~Live(run.fly) \/ run'.pc = "stop" \/ (run'.pc = run.pc /\ run'.calls = run.calls)
  PROVE  FlightInv'
  BY DEF FlightInv, Live

(* A handoff waits with the plan made when it was called.                  *)
(* What is known of the files of a work item, and what a plan requires.    *)
KnownOf(items, id, read) == IF id \in DOMAIN items THEN Over(read, items[id].grounding) ELSE read
Required(plan) ==
  ReferencedArtifactPaths(PlannedAnchors(plan) \union Anchors(PromptAnchors(phase.pending.base.refs)))

LEMMA HandOffFlies ==
  ASSUME NEW c, NEW d, StartHandOff(c, d)
  PROVE  \E facts : /\ run' = Flying(facts) /\ facts.kind = "handoff" /\ facts.gen = session.gen
                    /\ WorkForm(facts.plan.events) /\ StartsOpen(facts.plan.events, store.ledger.items)
                    /\ facts.plan # NoPlan =>
                         /\ PlanIsAbout(facts.plan, store.ledger.items, phase.pending.base.refs)
                         /\ facts.unmet = UnmetArtifactPaths(
                              KnownOf(store.ledger.items, facts.plan.item, facts.read),
                              {}, Required(facts.plan), disk)
                         /\ facts.measured = [p \in Required(facts.plan) |-> disk[p]]
  <1> DEFINE fresh == CHOOSE i \in Items : FreshItems # {} => i \in FreshItems
             plan == PlanPendingIdentity(c, d, fresh)
             pending == phase.pending
             stale == \/ pending.generation # session.gen
                      \/ \A i \in DOMAIN Branch : ~(IsUser(Branch[i]) /\ Branch[i].id = pending.source)
             required == ReferencedArtifactPaths(PlannedAnchors(plan)
                                                   \union Anchors(PromptAnchors(pending.base.refs)))
             read == [q \in DOMAIN phase.provisional \intersect required |-> phase.provisional[q]]
             known == IF plan.item \in DOMAIN store.ledger.items
                        THEN Over(read, store.ledger.items[plan.item].grounding) ELSE read
             unmet == UnmetArtifactPaths(known, {}, required, disk)
             measured == [p \in required |-> disk[p]]
             free == [kind |-> "handoff", deliverable |-> d, plan |-> NoPlan, read |-> <<>>,
                      measured |-> <<>>, unmet |-> {}, error |-> FALSE, gen |-> session.gen]
             failed == [kind |-> "handoff", deliverable |-> d, plan |-> NoPlan, read |-> <<>>,
                        measured |-> <<>>, unmet |-> {}, error |-> TRUE, gen |-> session.gen]
             planned == [kind |-> "handoff", deliverable |-> d, plan |-> plan, read |-> read,
                         measured |-> measured, unmet |-> unmet, error |-> FALSE,
                         gen |-> pending.generation]
             Ok(facts) == /\ facts.kind = "handoff" /\ facts.gen = session.gen
                          /\ \/ facts.plan = NoPlan
                             \/ /\ facts.plan = plan
                                /\ facts.unmet = UnmetArtifactPaths(
                                     KnownOf(store.ledger.items, plan.item, facts.read),
                                     {}, Required(plan), disk)
                                /\ facts.measured = [p \in Required(plan) |-> disk[p]]
  <1>1. \E facts : run' = Flying(facts) /\ Ok(facts)
    <2>1. run' = Flying(IF pending = None THEN free
                        ELSE IF stale \/ plan = NoPlan THEN failed ELSE planned)
      BY DEF StartHandOff
    <2>2. ~stale => pending.generation = session.gen
      OBVIOUS
    <2>9. /\ unmet = UnmetArtifactPaths(KnownOf(store.ledger.items, plan.item, read), {}, Required(plan), disk)
          /\ measured = [p \in Required(plan) |-> disk[p]]
      BY DEF KnownOf, Required
    <2> HIDE DEF plan, pending, stale, read, unmet, measured
    <2>3. Ok(free) /\ Ok(failed) /\ (~stale => Ok(planned))
      BY <2>2, <2>9
    <2> HIDE DEF free, failed, planned, Ok
    <2>4. CASE pending = None
      BY <2>1, <2>3, <2>4
    <2>5. CASE pending # None /\ (stale \/ plan = NoPlan)
      BY <2>1, <2>3, <2>5
    <2>6. CASE pending # None /\ ~(stale \/ plan = NoPlan)
      BY <2>1, <2>3, <2>6
    <2> QED
      BY <2>4, <2>5, <2>6
  <1>0. fresh \in Items
    BY LedgerAssumption DEF FreshItems
  <1>2. /\ WorkForm(plan.events) /\ StartsOpen(plan.events, store.ledger.items)
        /\ WorkForm(NoPlan.events) /\ StartsOpen(NoPlan.events, store.ledger.items)
    BY <1>0, PlanForms, ListedForms DEF NoPlan, StartsOpen
  <1>3. plan # NoPlan => PlanIsAbout(plan, store.ledger.items, phase.pending.base.refs)
    BY <1>0, PlanForms
  <1>4. PICK facts : run' = Flying(facts) /\ Ok(facts)
    BY <1>1
  <1> HIDE DEF plan
  <1> QED
    BY <1>2, <1>3, <1>4

ReopenRequired(target) ==
  ReferencedArtifactPaths(Anchors(store.ledger.items[target].anchors)
                            \union Anchors(PromptAnchors(phase.pending.base.refs)))

LEMMA ReopenFlies ==
  ASSUME NEW d, StartReopen(d)
  PROVE  LET target == ReopenTarget(store.ledger, phase)
         IN  \E facts : /\ run' = Flying(facts) /\ facts.kind = "reopen" /\ target # None
                        /\ phase.pending # None =>
                             /\ facts.unmet = UnmetArtifactPaths(
                                  Over(facts.read, store.ledger.items[target].grounding),
                                  {}, ReopenRequired(target), disk)
                             /\ facts.measured = [p \in ReopenRequired(target) |-> disk[p]]
  <1> DEFINE target == ReopenTarget(store.ledger, phase)
             pending == phase.pending
             stale == /\ pending # None
                      /\ pending.generation # session.gen \/ pending.source \notin UserIds(Branch)
             required == IF pending = None THEN {}
                         ELSE ReferencedArtifactPaths(Anchors(store.ledger.items[target].anchors)
                                               \union Anchors(PromptAnchors(pending.base.refs)))
             read == [q \in DOMAIN phase.provisional \intersect required |-> phase.provisional[q]]
             unmet == UnmetArtifactPaths(Over(read, store.ledger.items[target].grounding),
                                         {}, required, disk)
             measured == [p \in required |-> disk[p]]
             facts == [kind |-> "reopen", deliverable |-> d, stale |-> stale, read |-> read,
                       measured |-> measured, unmet |-> unmet]
  <1>1. run' = Flying(facts) /\ target # None
    BY DEF StartReopen
  <1>2. pending # None => required = ReopenRequired(target)
    BY DEF ReopenRequired
  <1> HIDE DEF stale, read, target, required
  <1>3. /\ unmet = UnmetArtifactPaths(Over(read, store.ledger.items[target].grounding), {}, required, disk)
        /\ measured = [p \in required |-> disk[p]]
    OBVIOUS
  <1> HIDE DEF unmet, measured
  <1>4. /\ facts.kind = "reopen" /\ facts.read = read /\ facts.unmet = unmet
        /\ facts.measured = measured
    OBVIOUS
  <1> HIDE DEF facts
  <1> QED
    BY <1>1, <1>2, <1>3, <1>4 DEF target

LEMMA CallFlies ==
  ASSUME ShapeInv, FlightInv, ToolCall
  PROVE  FlightInv'
  <1>0. /\ DOMAIN run = {"pc", "entry", "attempt", "calls", "scored", "fly"}
        /\ run.pc = "tools" /\ run.fly = None /\ session' = session
    <2>1. run.pc = "tools" /\ run.fly = None /\ session' = session
      BY ZenonT(40) DEF ToolCall, StartRead, Edit, RefuseEdit, DeclareAnswer, AskUser, StartHandOff,
                   StartReopen, CompleteWork, UpdateWork, InCall
    <2> QED
      BY <2>1 DEF ShapeInv
  <1>1. run.calls \in Nat /\ session.gen \in Nat
    BY DEF FlightInv
  <1>2. CASE run' = Returned
    BY <1>0, <1>1, <1>2, FlightStays DEF Returned
  <1>3. ASSUME NEW facts, run' = Flying(facts),
               facts.kind \in {"read", "edit", "handoff"} => facts.gen = session.gen,
               facts.kind = "handoff" => WorkForm(facts.plan.events)
        PROVE  FlightInv'
    <2>1. run'.pc = "tools" /\ run'.calls = run.calls + 1 /\ run'.fly = facts
      BY <1>0, <1>3 DEF Flying
    <2> QED
      BY <1>0, <1>1, <1>3, <2>1 DEF FlightInv, Live
  <1>4. ASSUME NEW p, NEW part, StartRead(p, part) PROVE FlightInv'
    <2>1. \E facts : run' = Flying(facts) /\ facts.kind = "read" /\ facts.gen = session.gen
      BY <1>4 DEF StartRead
    <2> QED
      BY <2>1, <1>3
  <1>5. ASSUME NEW p, Edit(p) PROVE FlightInv'
    <2>1. \/ run' = Returned
          \/ \E facts : run' = Flying(facts) /\ facts.kind = "edit" /\ facts.gen = session.gen
      BY <1>5 DEF Edit
    <2> QED
      BY <2>1, <1>2, <1>3
  <1>6. ASSUME NEW d, StartReopen(d) PROVE FlightInv'
    <2>1. PICK facts : run' = Flying(facts) /\ facts.kind = "reopen"
      BY <1>6, ReopenFlies
    <2> QED
      BY <2>1, <1>3
  <1>7. ASSUME NEW c, NEW d, StartHandOff(c, d) PROVE FlightInv'
    BY <1>7, <1>3, HandOffFlies
  <1>8. CASE \/ RefuseEdit \/ DeclareAnswer \/ AskUser \/ (\E outcome : CompleteWork(outcome))
             \/ (\E i, p : UpdateWork(i, p))
    <2>1. run' = Returned
      BY <1>8, Zenon DEF RefuseEdit, DeclareAnswer, AskUser, CompleteWork, UpdateWork
    <2> QED
      BY <2>1, <1>2
  <1> QED
    BY <1>4, <1>5, <1>6, <1>7, <1>8 DEF ToolCall

LEMMA FlightNext ==
  ASSUME ShapeInv, FlightInv, [Next]_vars
  PROVE  FlightInv'
  <1>0. /\ DOMAIN run = {"pc", "entry", "attempt", "calls", "scored", "fly"}
        /\ DOMAIN IdleRun = {"pc", "entry", "attempt", "calls", "scored", "fly"}
        /\ IdleRun.fly = None /\ IdleRun.calls = 0 /\ IdleRun.pc = "idle"
        /\ DOMAIN session = {"gen", "cached", "decision", "served"}
        /\ run.calls \in Nat /\ session.gen \in Nat
    BY DEF ShapeInv, IdleRun, FlightInv
  <1> DEFINE stopped == [IdleRun EXCEPT !.fly = run.fly]
  <1>1. stopped.fly = run.fly /\ stopped.calls = 0 /\ stopped.pc = "idle"
    BY <1>0
  <1> HIDE DEF stopped
  <1>2. ~Live(run.fly) \/ run.pc = "stop" \/ (run.pc = "tools" /\ run.calls > 0)
    BY DEF FlightInv
  <1>3. CASE Route
    <2>1. run'.fly = run.fly /\ run'.calls \in Nat /\ session'.gen = session.gen /\ run.pc = "route"
      <3>1. /\ run.pc = "route"
            /\ run' = stopped \/ \E scored : run' = [run EXCEPT !.pc = "walk", !.attempt = 1, !.scored = scored]
            /\ session' = session \/ \E cached, decision :
                      session' = [session EXCEPT !.cached = cached, !.decision = decision]
        <4>1. session' = session \/ \E decision :
                /\ session' = [session EXCEPT
                         !.cached = IF Known THEN @ ELSE [key |-> Key(run.entry),
                                                          dimension |-> BaseDimension(Key(run.entry))],
                         !.decision = decision]
          BY <1>3, RouteEffect, Zenon
        <4>2. session' = session \/ \E cached, decision :
                      session' = [session EXCEPT !.cached = cached, !.decision = decision]
          BY <4>1, Zenon
        <4> QED
          BY <1>3, <4>2, RouteEffect, Zenon DEF stopped
      <3>2. run'.fly = run.fly /\ run'.calls \in Nat
        <4>1. ASSUME NEW scored, run' = [run EXCEPT !.pc = "walk", !.attempt = 1, !.scored = scored]
              PROVE  run'.fly = run.fly /\ run'.calls = run.calls
          BY <4>1, <1>0
        <4>2. CASE run' = stopped
          BY <4>2, <1>0, <1>1
        <4>3. run' = stopped \/ \E scored : run' = [run EXCEPT !.pc = "walk", !.attempt = 1, !.scored = scored]
          BY <3>1, Zenon
        <4>4. ASSUME run'.calls = run.calls PROVE run'.calls \in Nat
          BY <4>4, <1>0
        <4> HIDE <3>1
        <4> QED
          BY <4>1, <4>2, <4>3, <4>4, Zenon
      <3>3. session'.gen = session.gen
        BY <3>1, <1>0
      <3> QED
        BY <3>1, <3>2, <3>3
    <2> QED
      BY <2>1, <1>2, FlightStays
  <1>4. CASE Walk
    <2>1. run'.fly = run.fly /\ run'.calls \in Nat /\ session'.gen = session.gen /\ run.pc = "walk"
      <3>1. CASE AttemptFails
        BY <3>1, <1>0, <1>1 DEF AttemptFails, stopped
      <3>2. ASSUME NEW m, NEW clears, NEW lost, Serve(m, clears, lost)
            PROVE  run'.fly = run.fly /\ run'.calls \in Nat /\ session'.gen = session.gen /\ run.pc = "walk"
        BY <3>2, <1>0 DEF Serve
      <3> QED
        BY <1>4, <3>1, <3>2 DEF Walk
    <2> QED
      BY <2>1, <1>2, FlightStays
  <1>5. CASE ToolCall
    BY <1>5, CallFlies
  <1>6. CASE Finish
    <2>1. run' = Landed
      BY <1>6, Zenon DEF Finish, FinishRead, FinishEdit, SubmitHandOff, SubmitReopen
    <2>2. run'.fly = None /\ run'.calls \in Nat
      BY <2>1, <1>0 DEF Landed
    <2>3. session' = session \/ \E d : session' = [session EXCEPT !.cached.dimension = d]
      BY <1>6, Zenon DEF Finish, FinishRead, FinishEdit, SubmitHandOff, SubmitReopen
    <2>4. session'.gen = session.gen
      BY <2>3, <1>0
    <2> QED
      BY <2>2, <2>4, FlightStays
  <1>7. CASE NextRequest \/ FinalAnswer \/ Remind \/ Settled
    <2>1. session' = session
      BY <1>7 DEF NextRequest, FinalAnswer, Remind, Settled
    <2>2. CASE NextRequest
      <3>1. run'.fly = None /\ run'.calls \in Nat
        BY <2>2, <1>0 DEF NextRequest
      <3> QED
        BY <2>1, <3>1, FlightStays
    <2>3. CASE FinalAnswer \/ Remind \/ Settled
      <3>1. run'.fly = run.fly /\ run'.calls \in Nat
            /\ (run.pc = "settle" \/ (run.pc = "tools" /\ run.calls = 0))
        BY <2>3, <1>0, <1>1 DEF FinalAnswer, Remind, Settled, stopped
      <3> QED
        BY <2>1, <3>1, <1>2, FlightStays
    <2> QED
      BY <1>7, <2>2, <2>3
  <1>8. CASE \/ (\E refs, recorded : UserSends(refs, recorded))
             \/ (\E leaf : Navigate(leaf)) \/ SelectModel
             \/ (\E p : ExternalEdit(p)) \/ UNCHANGED vars
    <2>1. session'.gen = session.gen
      BY <1>8, <1>0 DEF UserSends, Navigate, SelectModel, ExternalEdit, vars
    <2>2. run' = run \/ (run.pc = "idle" /\ run'.fly = run.fly /\ run'.calls = 0)
      BY <1>8, <1>0 DEF UserSends, Navigate, SelectModel, ExternalEdit, vars
    <2> QED
      BY <2>1, <2>2, <1>0, <1>2, FlightStays
  <1>9. CASE UserAborts
    <2>1. /\ run.pc # "stop" /\ session' = session
          /\ run' = IF run.fly = None \/ run.calls = 0 THEN stopped ELSE [run EXCEPT !.pc = "stop"]
      BY <1>9 DEF UserAborts, stopped
    <2>2. CASE run.fly = None \/ run.calls = 0
      BY <2>1, <2>2, <1>0, <1>1, <1>2, FlightStays DEF Live
    <2>3. CASE ~(run.fly = None \/ run.calls = 0)
      BY <2>1, <2>3, <1>0, FlightStays
    <2> QED
      BY <2>2, <2>3
  <1>10. ASSUME NEW isAuto, NEW damaged, Restart(isAuto, damaged) PROVE FlightInv'
    <2>1. run' = stopped /\ session'.gen = session.gen + 1
      BY <1>10 DEF Restart, stopped
    <2> QED
      BY <2>1, <1>0, <1>1 DEF FlightInv, Live
  <1> QED
    BY <1>3, <1>4, <1>5, <1>6, <1>7, <1>8, <1>9, <1>10 DEF Next, World

-----------------------------------------------------------------------------
(* Requests of another model cause nothing.                                *)

LEMMA RunGoesOn ==
  ASSUME ShapeInv, [Next]_vars, run'.pc # "idle"
  PROVE  \/ run.pc # "idle" /\ run'.entry = run.entry
         \/ SendsStep
  <1> DEFINE On == run.pc # "idle" /\ run'.entry = run.entry
  <1>0. /\ DOMAIN run = {"pc", "entry", "attempt", "calls", "scored", "fly"}
        /\ DOMAIN IdleRun = {"pc", "entry", "attempt", "calls", "scored", "fly"}
        /\ IdleRun.pc = "idle"
    BY DEF ShapeInv, IdleRun
  <1> DEFINE stopped == [IdleRun EXCEPT !.fly = run.fly]
  <1>1. stopped.pc = "idle"
    BY <1>0
  <1> HIDE DEF stopped
  <1>2. CASE run' = run
    BY <1>2
  <1>3. CASE run' = stopped
    BY <1>1, <1>3
  <1>4. CASE Route
    <2>1. run' = stopped \/ \E scored : run' = [run EXCEPT !.pc = "walk", !.attempt = 1, !.scored = scored]
      BY <1>4, RouteEffect, Zenon DEF stopped
    <2>2. run.pc = "route"
      BY <1>4 DEF Route
    <2>3. ASSUME NEW scored, run' = [run EXCEPT !.pc = "walk", !.attempt = 1, !.scored = scored]
          PROVE  On
      BY <2>2, <2>3, <1>0
    <2> QED
      BY <2>1, <2>3, <1>3
  <1>5. CASE Walk
    BY <1>0, <1>1, <1>5 DEF Walk, Serve, AttemptFails, stopped
  <1>6. CASE ToolCall
    <2>1. run.pc = "tools"
      BY <1>6, ZenonT(40) DEF ToolCall, StartRead, Edit, RefuseEdit, DeclareAnswer, AskUser, StartHandOff,
                         StartReopen, CompleteWork, UpdateWork, InCall
    <2> QED
      BY <2>1, <1>6, ToolCallFollows DEF Follow, RunFollows
  <1>7. CASE Finish
    <2>1. run' = Landed
      BY <1>7, Zenon DEF Finish, FinishRead, FinishEdit, SubmitHandOff, SubmitReopen
    <2> QED
      BY <2>1, <1>0 DEF Landed
  <1>8. CASE NextRequest \/ FinalAnswer \/ Remind \/ Settled
    BY <1>0, <1>1, <1>8 DEF NextRequest, FinalAnswer, Remind, Settled, stopped
  <1>9. CASE UserAborts \/ \E isAuto, damaged : Restart(isAuto, damaged)
    BY <1>0, <1>1, <1>9 DEF UserAborts, Restart, stopped
  <1>10. CASE (\E leaf : Navigate(leaf)) \/ SelectModel \/ (\E p : ExternalEdit(p)) \/ UNCHANGED vars
    BY <1>2, <1>10 DEF Navigate, SelectModel, ExternalEdit, vars
  <1> QED
    BY <1>4, <1>5, <1>6, <1>7, <1>8, <1>9, <1>10 DEF Next, World, SendsStep

LEMMA PhaseKeyStep ==
  ASSUME EntryInv, [Next]_vars, phase' # None
  PROVE  \/ phase # None /\ phase'.key = phase.key
         \/ Route /\ phase'.key = Key(run.entry)
  <1> DEFINE Kept == phase # None /\ phase'.key = phase.key
  <1>0. ShapeInv /\ (phase # None => DOMAIN phase = PhaseFields)
    BY DEF EntryInv, ShapeInv, PhaseOK
  <1>1. CASE phase' = phase
    BY <1>1
  <1>2. ASSUME PhaseFollows PROVE Kept
    BY <1>2 DEF PhaseFollows, Follows, Fixed
  <1>3. CASE Route
    <2> DEFINE key == Key(run.entry)
    <2>1. phase' = Entered \/ phase' = CountAcquisitionRequest(Entered, key)
      BY <1>3, RouteEffect
    <2>2. Advanced # None
      BY <2>1 DEF Entered, EnterAcquisition, CountAcquisitionRequest
    <2>3. PhaseOK(Advanced) /\ Advanced.key = IF Known THEN phase.key ELSE key
      <3>1. Known \in BOOLEAN
        BY DEF Known
      <3>2. /\ PhaseOK(Advanced)
            /\ Known => \A f \in Fixed : Advanced[f] = phase[f]
            /\ ~Known => Advanced.key = key
        BY <1>0, <2>2, <3>1, AdvanceEffect DEF Advanced
      <3> QED
        BY <3>2 DEF Fixed
    <2>4. phase'.key = Advanced.key
      BY <2>1, <2>3, RouteKeeps DEF Entered, Placed
    <2>5. Known => phase # None
      BY <2>2 DEF Advanced, AdvanceWorkPhase
    <2> QED
      BY <1>3, <2>3, <2>4, <2>5
  <1>4. ASSUME NEW m, NEW clears, NEW lost, Serve(m, clears, lost) PROVE Kept
    BY <1>0, <1>4 DEF Serve, SettleBoundary, PhaseFields
  <1>5. CASE AttemptFails
    <2>1. phase' = phase \/ (phase # None /\ phase' = [phase EXCEPT !.requests = @ + 1])
      BY <1>5 DEF AttemptFails, CountAcquisitionRequest
    <2> QED
      BY <2>1, <1>0, <1>1 DEF PhaseFields
  <1>6. CASE ToolCall
    BY <1>0, <1>2, <1>6, ToolCallFollows DEF Follow
  <1>7. CASE Finish
    BY <1>0, <1>2, <1>7, FinishFollows DEF Follow
  <1>8. CASE Remind \/ Settled
    <2>1. \/ phase' = phase
          \/ phase # None /\ \/ phase' = [phase EXCEPT !.contextReminded = TRUE]
                             \/ phase' = [phase EXCEPT !.completionReminded = TRUE]
                             \/ phase' = [phase EXCEPT !.outcomeLogged = TRUE]
      BY <1>8, Zenon DEF Remind, Settled
    <2> QED
      BY <1>0, <1>1, <2>1 DEF PhaseFields
  <1>9. CASE World
    <2>1. \/ phase' = phase
          \/ phase' = None
          \/ /\ phase # None
             /\ \E deliverable : phase' = FreshPhase(phase.key, deliverable)
      BY <1>9, Zenon DEF World, UserSends, Navigate, SelectModel, UserAborts, Restart, ExternalEdit,
                         CarryAcrossBranch
    <2> QED
      BY <1>1, <2>1 DEF FreshPhase
  <1>10. CASE NextRequest \/ FinalAnswer \/ UNCHANGED vars
    BY <1>1, <1>10 DEF NextRequest, FinalAnswer, vars
  <1> QED
    BY <1>3, <1>4, <1>5, <1>6, <1>7, <1>8, <1>9, <1>10 DEF Next, Walk

LEMMA SourceStep ==
  ASSUME EntryInv, PlaceInv, ForeignInv, [Next]_vars
  PROVE  source' \notin hist.foreign /\ source' \in {source, None} \union 1..Len(store.tree)
  <1> DEFINE Good == source' \notin hist.foreign /\ source' \in {source, None} \union 1..Len(store.tree)
  <1>0. hist.foreign \subseteq 1..Len(store.tree) /\ Len(store.tree) \in Nat /\ None \notin Nat
    BY EntryAssumption DEF ForeignInv, ForeignOK, PlaceInv, StoreGood, StoreOK, IsTree
  <1>1. ASSUME source' = source PROVE Good
    BY <1>1 DEF ForeignInv
  <1>2. ASSUME source' = None PROVE Good
    <2>1. 1..Len(store.tree) \subseteq Nat
      BY <1>0
    <2> QED
      BY <1>0, <1>2, <2>1
  <1>3. ASSUME Route PROVE Good
    <2> DEFINE key == Key(run.entry)
               pending == ResolveEntryContext(key, BaseDimension(key), store.tree[run.entry].refs)
    <2>1. /\ run.pc = "route" /\ source' = IF Known THEN source ELSE pending.source
      BY <1>3 DEF Route, Known
    <2>2. run.entry \in Here /\ run.entry \in 1..Len(store.tree) /\ run.entry \notin hist.foreign
      BY <2>1, BranchOK DEF PlaceInv, ForeignInv
    <2>3. pending.source = run.entry
      <3>1. -key = run.entry
        BY <1>0, <2>2 DEF Key
      <3>2. LatestGenuineUserEntry(Branch, -key) = run.entry
        BY <2>2, <3>1, BranchOK, LatestUser DEF PlaceInv
      <3>3. run.entry # None
        BY <2>2, BranchOK DEF PlaceInv
      <3> QED
        BY <3>2, <3>3 DEF ResolveEntryContext
    <2> HIDE DEF pending
    <2> QED
      BY <2>1, <2>2, <2>3, <1>1
  <1>4. ASSUME NEW persisted, SubmitHandOff(persisted) PROVE Good
    <2>1. source' = source \/ (phase # None /\ phase.pending # None /\ source' = phase.pending.source)
      BY <1>4, ZenonT(60) DEF SubmitHandOff
    <2>2. ASSUME phase # None, phase.pending # None PROVE phase.pending.source \in 1..Len(store.tree)
      <3>1. PICK i \in 1..Len(store.tree) : phase.key = Key(i)
        BY <2>2 DEF PlaceInv
      <3>2. phase.pending.source \in Nat /\ phase.key = Key(phase.pending.source)
        BY <2>2 DEF PlaceInv
      <3> QED
        BY <1>0, <3>1, <3>2 DEF Key
    <2> QED
      BY <1>1, <2>1, <2>2, PendingIsRouted
  <1>5. CASE Finish
    <2>1. ASSUME NEW persisted, FinishRead(persisted) \/ FinishEdit(persisted) \/ SubmitReopen(persisted)
          PROVE  Good
      BY <2>1, <1>1 DEF FinishRead, FinishEdit, SubmitReopen
    <2> QED
      BY <1>4, <1>5, <2>1 DEF Finish
  <1>6. CASE ToolCall
    BY <1>1, <1>6, ZenonT(40) DEF ToolCall, StartRead, Edit, RefuseEdit, DeclareAnswer, AskUser,
                             StartHandOff, StartReopen, CompleteWork, UpdateWork
  <1>7. CASE World
    BY <1>1, <1>2, <1>7, Zenon DEF World, UserSends, Navigate, SelectModel, UserAborts, Restart,
                                   ExternalEdit
  <1>8. CASE Walk \/ NextRequest \/ FinalAnswer \/ Remind \/ Settled \/ UNCHANGED vars
    BY <1>1, <1>8 DEF Walk, Serve, AttemptFails, NextRequest, FinalAnswer, Remind, Settled, vars
  <1> QED
    BY <1>3, <1>5, <1>6, <1>7, <1>8 DEF Next

(* The steps that write to the branch for the router, and the others.      *)
LEMMA StoreChanges ==
  ASSUME EntryInv, PlaceInv, ShownInv, ForeignInv, FlightInv, PlanInv, [Next]_vars
  PROVE  \/ /\ Writes(store, store') /\ auto' = auto
            /\ hist'.foreign = hist.foreign /\ hist'.unrecorded = hist.unrecorded
         \/ SendsStep \/ NavigatesStep \/ SelectModel \/ RestartsStep
  <1> DEFINE Kept == auto' = auto /\ hist'.foreign = hist.foreign /\ hist'.unrecorded = hist.unrecorded
  <1>0. DOMAIN hist = {"shown", "foreign", "sends", "settle", "unrecorded"}
    BY DEF EntryInv, ShapeInv
  <1>1. CASE Walk
    <2>1. Writes(store, store')
      BY <1>1, ServeWrites, OneIsWrites DEF Walk, AttemptFails, Commits
    <2>2. Kept
      BY <1>0, <1>1 DEF Walk, Serve, AttemptFails
    <2> QED
      BY <2>1, <2>2
  <1>2. CASE ToolCall
    <2>1. Writes(store, store')
      BY <1>2, ToolCallWrites
    <2>2. auto' = auto /\ (hist' = hist \/ \E shown : hist' = [hist EXCEPT !.shown = shown])
      BY <1>2, ZenonT(40) DEF ToolCall, StartRead, Edit, RefuseEdit, DeclareAnswer, AskUser,
                         StartHandOff, StartReopen, CompleteWork, UpdateWork
    <2> QED
      BY <1>0, <2>1, <2>2
  <1>3. CASE Finish
    <2>1. Writes(store, store')
      BY <1>3, FinishWrites
    <2>2. auto' = auto /\ hist' = hist
      BY <1>3, Zenon DEF Finish, FinishRead, FinishEdit, SubmitHandOff, SubmitReopen
    <2> QED
      BY <2>1, <2>2
  <1>4. CASE Route \/ NextRequest \/ FinalAnswer \/ Remind \/ Settled \/ UserAborts
             \/ (\E p : ExternalEdit(p)) \/ UNCHANGED vars
    <2>1. Writes(store, store')
      <3>1. store' = store
        BY <1>4 DEF Route, NextRequest, FinalAnswer, Remind, Settled, UserAborts, ExternalEdit, vars
      <3> QED
        BY <3>1, OneIsWrites DEF Commits
    <2>2. Kept
      BY <1>0, <1>4 DEF Route, NextRequest, FinalAnswer, Remind, Settled, UserAborts, ExternalEdit, vars
    <2> QED
      BY <2>1, <2>2
  <1> QED
    BY <1>1, <1>2, <1>3, <1>4 DEF Next, World, SendsStep, NavigatesStep, RestartsStep

-----------------------------------------------------------------------------
(* The steps that are no commit.                                           *)

LEMMA EntryAdds ==
  ASSUME NEW st, StoreGood(st), NEW entry, DOMAIN entry = NodeFields, entry.kind \in {"user", "selection"}
  PROVE  LET next == AddEntry(st, entry)
         IN  /\ StoreGood(next) /\ Extends(st, next)
             /\ Len(next.tree) = Len(st.tree) + 1 /\ Len(st.tree) \in Nat
             /\ \A i \in 1..Len(st.tree) : next.tree[i] = st.tree[i]
             /\ next.leaf = Len(st.tree) + 1 /\ next.ledger = st.ledger
             /\ next.tree[Len(st.tree) + 1].kind = entry.kind
             /\ next.tree[Len(st.tree) + 1].auto = entry.auto
             /\ next.tree[Len(st.tree) + 1].parent = st.leaf
             /\ st.leaf \in 0..Len(st.tree)
             /\ Parented(next.tree) /\ Parented(st.tree)
             /\ LatestOf(next) = IF entry.kind = "user" THEN Len(st.tree) + 1 ELSE LatestOf(st)
             /\ \A n \in 0..Len(st.tree) : RoutedAt(next.tree, n) <=> RoutedAt(st.tree, n)
             /\ RoutedAt(next.tree, next.leaf) <=> IF entry.kind = "user" THEN RoutedAt(st.tree, st.leaf)
                                                   ELSE entry.auto
  <1> DEFINE next == AddEntry(st, entry)
             node == Added(st, entry)
             L == Len(st.tree)
  <1>1. Extends(st, next) /\ StoreGood(next)
    BY AddExtends DEF Extends, Kinds
  <1>2. node.kind = entry.kind /\ node.auto = entry.auto /\ node.parent = st.leaf
    BY DEF Added, NodeFields
  <1>3. LatestOf(next) = IF entry.kind = "user" THEN L + 1 ELSE LatestOf(st)
    BY <1>1, LatestAdded DEF NodeFields
  <1>4. next.tree = Append(st.tree, node) /\ next.leaf = L + 1 /\ next.ledger = st.ledger
    BY <1>1, BranchGrows
  <1> HIDE DEF next, node
  <1>5. /\ Parented(st.tree) /\ Parented(next.tree) /\ L \in Nat
        /\ st.leaf \in 0..L
    BY <1>1, GoodIsParented DEF StoreGood, StoreOK, IsTree
  <1>6. /\ Len(next.tree) = L + 1
        /\ \A i \in 1..L : next.tree[i] = st.tree[i]
        /\ next.tree[L + 1] = node
    BY <1>4, <1>5, TreeIsSeq DEF Parented
  <1>7. \A n \in 0..L : RoutedAt(next.tree, n) <=> RoutedAt(st.tree, n)
    <2>1. L <= Len(next.tree)
      BY <1>5, <1>6
    <2> QED
      BY <2>1, <1>5, <1>6, RoutedSame
  <1>8. RoutedAt(next.tree, next.leaf) <=> IF entry.kind = "user" THEN RoutedAt(st.tree, st.leaf)
                                                   ELSE entry.auto
    <2>1. L + 1 \in 1..Len(next.tree)
      BY <1>5, <1>6
    <2>2. RoutedAt(next.tree, L + 1) <=> IF node.kind = "user" THEN RoutedAt(next.tree, node.parent)
                                          ELSE node.kind = "event" \/ node.auto
      BY <2>1, <1>5, <1>6, RoutedSteps
    <2> QED
      BY <2>2, <1>2, <1>4, <1>5, <1>7
  <1> QED
    BY <1>1, <1>2, <1>3, <1>4, <1>5, <1>6, <1>7, <1>8 DEF next

LEMMA SelectionAdds ==
  ASSUME NEW st, StoreGood(st), NEW on
  PROVE  LET next == AddSelection(st, on)
         IN  /\ StoreGood(next) /\ Extends(st, next)
             /\ next.ledger = st.ledger
             /\ LatestOf(next) = LatestOf(st)
             /\ RoutedAt(next.tree, next.leaf) <=> on
             /\ ForeignOK(st) => ForeignOK(next)
             /\ FormOK(st.tree) => FormOK(next.tree)
             /\ RoutedOK(st.tree) => RoutedOK(next.tree)
  <1> DEFINE entry == [Entry("selection") EXCEPT !.auto = on]
             L == Len(st.tree)
  <1>1. DOMAIN entry = NodeFields /\ entry.kind = "selection" /\ entry.auto = on
    BY EntryIsNode DEF Entry
  <1> HIDE DEF entry
  <1> DEFINE next == AddEntry(st, entry)
  <1>2. /\ StoreGood(next) /\ Extends(st, next)
        /\ Len(next.tree) = L + 1 /\ L \in Nat
        /\ \A i \in 1..L : next.tree[i] = st.tree[i]
        /\ next.tree[L + 1].kind = "selection"
        /\ next.ledger = st.ledger /\ LatestOf(next) = LatestOf(st)
        /\ \A n \in 0..L : RoutedAt(next.tree, n) <=> RoutedAt(st.tree, n)
        /\ RoutedAt(next.tree, next.leaf) <=> on
    BY <1>1, EntryAdds
  <1> HIDE DEF next
  <1>3. \A i \in 1..Len(next.tree) : i \in 1..L \/ i = L + 1
    BY <1>2
  <1>4. ForeignOK(st) => ForeignOK(next)
    <2> SUFFICES ASSUME ForeignOK(st) PROVE ForeignOK(next)
      OBVIOUS
    <2>1. 1..L \subseteq 1..Len(next.tree)
      BY <1>2
    <2>2. hist.foreign \subseteq {i \in 1..Len(next.tree) : next.tree[i].kind = "user"}
      <3>1. ASSUME NEW i \in hist.foreign
            PROVE  i \in 1..Len(next.tree) /\ next.tree[i].kind = "user"
        <4>1. i \in 1..L /\ st.tree[i].kind = "user"
          BY <3>1 DEF ForeignOK
        <4> QED
          BY <1>2, <2>1, <4>1
      <3> QED
        BY <3>1
    <2>3. ASSUME NEW i \in 1..Len(next.tree), next.tree[i].kind = "event"
          PROVE  next.tree[i].source \notin hist.foreign
      <3>1. i \in 1..L /\ next.tree[i] = st.tree[i]
        BY <1>2, <1>3, <2>3
      <3> QED
        BY <2>3, <3>1 DEF ForeignOK
    <2> QED
      BY <2>2, <2>3 DEF ForeignOK
  <1>5. FormOK(st.tree) => FormOK(next.tree)
    BY <1>2, <1>3 DEF FormOK
  <1>6. RoutedOK(st.tree) => RoutedOK(next.tree)
    BY <1>2, <1>3 DEF RoutedOK
  <1> QED
    BY <1>2, <1>4, <1>5, <1>6 DEF next, entry, AddSelection

(* What the user sends is recorded where the selection in force is.        *)
LEMMA SendsEffect ==
  ASSUME EntryInv, PlaceInv, ForeignInv, FoldInv, NEW refs, NEW recorded \in BOOLEAN, UserSends(refs, recorded)
  PROVE  /\ ForeignOK(store)' /\ StoreGood(store')
         /\ store'.leaf \in Nat \ (0..Len(store.tree)) /\ Len(store.tree) \in Nat
         /\ LatestOf(store)' = store'.leaf
         /\ store'.ledger = store.ledger /\ FormOK(store'.tree)
         /\ hist'.foreign = IF auto THEN hist.foreign ELSE hist.foreign \union {store'.leaf}
         /\ hist'.unrecorded = (hist.unrecorded \/ ~recorded)
         /\ ~hist'.unrecorded => RoutedOK(store.tree)'
         /\ auto /\ ~hist'.unrecorded => Exact(store)'
  <1> DEFINE owed == RequestRouting(Branch).routedAtEnd # auto
             noted == IF owed /\ recorded THEN AddSelection(store, auto) ELSE store
             entry == [Entry("user") EXCEPT !.refs = refs]
             L == Len(noted.tree)
  <1>0. StoreGood(store) /\ DOMAIN hist = {"shown", "foreign", "sends", "settle", "unrecorded"}
    BY DEF PlaceInv, EntryInv, ShapeInv
  <1>1. /\ store' = AddEntry(noted, entry)
        /\ hist' = [hist EXCEPT !.foreign = IF auto THEN @ ELSE @ \union {store'.leaf},
                                !.unrecorded = @ \/ ~recorded]
    BY DEF UserSends
  <1>2. /\ hist'.foreign = IF auto THEN hist.foreign ELSE hist.foreign \union {store'.leaf}
        /\ hist'.unrecorded = (hist.unrecorded \/ ~recorded)
    BY <1>0, <1>1
  <1>3. /\ StoreGood(noted) /\ Extends(store, noted) /\ noted.ledger = store.ledger
        /\ ForeignOK(noted) /\ FormOK(noted.tree)
        /\ ~hist.unrecorded => RoutedOK(noted.tree)
    BY <1>0, SelectionAdds, ExtendsIsPreorder DEF ForeignInv, FoldInv
  <1>4. recorded => (RoutedAt(noted.tree, noted.leaf) <=> auto)
    <2>1. RequestRouting(Branch).routedAtEnd = RoutedAt(store.tree, store.leaf)
      BY DEF RequestRouting, RoutedAt, Branch
    <2>2. auto \in BOOLEAN /\ RoutedAt(store.tree, store.leaf) \in BOOLEAN
      BY DEF FoldInv, RoutedAt, RoutedAfter
    <2>3. CASE owed /\ recorded
      BY <2>3, <1>0, SelectionAdds
    <2>4. CASE ~owed
      BY <2>1, <2>2, <2>4
    <2> QED
      BY <2>3, <2>4
  <1>5. auto /\ ~hist'.unrecorded => Exact(noted)
    <2> SUFFICES ASSUME auto, ~hist'.unrecorded PROVE Exact(noted)
      OBVIOUS
    <2>1. Exact(store)
      BY <1>2 DEF FoldInv
    <2>2. auto = TRUE
      BY DEF FoldInv
    <2> QED
      BY <2>1, <2>2, <1>0, SelectionExact
  <1>6. DOMAIN entry = NodeFields /\ entry.kind = "user"
    BY EntryIsNode DEF Entry
  <1> HIDE DEF noted, owed
  <1>7. auto /\ ~hist'.unrecorded => Exact(store')
    BY <1>1, <1>2, <1>3, <1>4, <1>5, UserExact
  <1> HIDE DEF entry
  <1>8. /\ StoreGood(store') /\ Len(store'.tree) = L + 1 /\ L \in Nat
        /\ \A i \in 1..L : store'.tree[i] = noted.tree[i]
        /\ store'.leaf = L + 1 /\ store'.ledger = store.ledger
        /\ store'.tree[L + 1].kind = "user"
        /\ LatestOf(store') = L + 1
        /\ \A n \in 0..L : RoutedAt(store'.tree, n) <=> RoutedAt(noted.tree, n)
        /\ RoutedAt(store'.tree, L + 1) <=> RoutedAt(noted.tree, noted.leaf)
    BY <1>1, <1>3, <1>6, EntryAdds
  <1>9. Len(store.tree) <= L /\ Len(store.tree) \in Nat
    BY <1>0, <1>3 DEF Extends, Grows, StoreGood, StoreOK, IsTree
  <1> HIDE DEF L
  <1>10. \A i \in 1..Len(store'.tree) : i \in 1..L \/ i = L + 1
    BY <1>8
  <1>11. store'.leaf \in Nat \ (0..Len(store.tree))
    BY <1>8, <1>9
  <1>12. FormOK(store'.tree)
    BY <1>3, <1>8, <1>10 DEF FormOK, L
  <1>13. ForeignOK(store)'
    <2>1. hist'.foreign \subseteq {i \in 1..Len(store'.tree) : store'.tree[i].kind = "user"}
      BY <1>2, <1>3, <1>8 DEF ForeignOK, L
    <2>2. ASSUME NEW i \in 1..L, noted.tree[i].kind = "event" PROVE noted.tree[i].source # L + 1
      <3>1. noted.tree[i].source \in Named(noted.tree, i)
        BY <1>3, <2>2 DEF StoreGood, TreeOK, L
      <3>2. UsersAt(noted.tree, i) \subseteq 1..L
        BY <1>3, <1>8, UsersAreNumbers DEF L
      <3> QED
        BY <3>1, <3>2, <1>8 DEF Named, Key
    <2>3. ASSUME NEW i \in 1..Len(store'.tree), store'.tree[i].kind = "event"
          PROVE  store'.tree[i].source \notin hist'.foreign
      <3>1. i \in 1..L /\ noted.tree[i].kind = "event" /\ store'.tree[i] = noted.tree[i]
        BY <1>8, <1>10, <2>3
      <3>2. noted.tree[i].source \notin hist.foreign
        BY <1>3, <3>1 DEF ForeignOK, L
      <3> QED
        BY <2>2, <3>1, <3>2, <1>2, <1>8
    <2> QED
      BY <2>1, <2>3 DEF ForeignOK
  <1>14. ~hist'.unrecorded => RoutedOK(store.tree)'
    <2> SUFFICES ASSUME ~hist'.unrecorded, NEW i \in 1..Len(store'.tree), store'.tree[i].kind = "user"
                 PROVE  RoutedAt(store'.tree, i) <=> i \notin hist'.foreign
      BY DEF RoutedOK
    <2>1. recorded /\ ~hist.unrecorded
      BY <1>2
    <2>2. CASE i \in 1..L
      <3>1. RoutedAt(noted.tree, i) <=> i \notin hist.foreign
        BY <2>1, <2>2, <1>3, <1>8 DEF RoutedOK, L
      <3>2. i # store'.leaf /\ i \in 0..L
        BY <2>2, <1>8
      <3> QED
        BY <3>1, <3>2, <1>2, <1>8
    <2>3. CASE i = L + 1
      <3>1. RoutedAt(store'.tree, i) <=> auto
        BY <2>1, <2>3, <1>4, <1>8
      <3>2. L + 1 \notin hist.foreign
        BY <1>3, <1>8 DEF ForeignOK, L
      <3> QED
        BY <2>3, <3>1, <3>2, <1>2, <1>8
    <2> QED
      BY <2>2, <2>3, <1>10
  <1> QED
    BY <1>2, <1>7, <1>8, <1>9, <1>11, <1>12, <1>13, <1>14 DEF LatestOf, Exact

LEMMA ScanWhole ==
  ASSUME NEW ledger, Whole(ledger), NEW node, node.kind = "event" => CommitForm(node.events),
         node.kind \in Kinds, NEW unrouted
  PROVE  Whole(Scan(ledger, node, unrouted))
  <1>1. CASE node.kind = "event"
    BY <1>1, FoldWhole DEF Scan
  <1>2. CASE node.kind # "event"
    BY <1>2 DEF Scan, Whole, Fields, LedgerFields, Kinds
  <1> QED
    BY <1>1, <1>2

(* The ledgers after each entry of a branch of a tree.                     *)
LEMMA BranchRun ==
  ASSUME NEW tree, IsTree(tree), TreeOK(tree), FormOK(tree), NEW leaf \in 0..Len(tree), NEW unrouted
  PROVE  LET branch == Path(tree, leaf)
         IN  \E after : /\ ScanRun(branch, unrouted, after)
                        /\ \A n \in 0..Len(branch) : Whole(after[n])
  <1> DEFINE branch == Path(tree, leaf)
  <1>1. Parented(tree)
    BY DEF Parented, TreeOK
  <1>2. IsTree(branch)
    BY <1>1, PathIsTree
  <1>3. \A i \in 1..Len(branch) : branch[i].kind \in Kinds
                                  /\ (branch[i].kind = "event" => CommitForm(branch[i].events))
    <2> SUFFICES ASSUME NEW i \in 1..Len(branch)
                 PROVE  branch[i].kind \in Kinds
                        /\ (branch[i].kind = "event" => CommitForm(branch[i].events))
      OBVIOUS
    <2>1. \E j \in 1..Len(tree) : branch[i] = tree[j]
      BY <1>1, PathPlaces
    <2> HIDE DEF branch
    <2> QED
      BY <2>1 DEF TreeOK, FormOK
  <1> HIDE DEF branch
  <1>4. Len(branch) \in Nat
    BY <1>2 DEF IsTree
  <1>5. PICK after : ScanRun(branch, unrouted, after)
    BY <1>4, ScanSteps
  <1> DEFINE S == {n \in 0..Len(branch) : Whole(after[n])}
  <1>6. ASSUME NEW n \in 0..Len(branch), \A m \in 0..(n - 1) : m \in S
        PROVE  Whole(after[n])
    <2>1. CASE n = 0
      BY <2>1, <1>5 DEF ScanRun, EmptyLedger, Whole, Full, Fields, LedgerFields
    <2>2. CASE n # 0
      <3>1. n \in 1..Len(branch) /\ Whole(after[n - 1])
        BY <2>2, <1>6
      <3>2. after[n] = Scan(after[n - 1], branch[n], unrouted)
        BY <3>1, <1>5 DEF ScanRun
      <3> QED
        BY <3>1, <3>2, <1>3, ScanWhole
    <2> QED
      BY <2>1, <2>2
  <1>7. \A n \in 0..Len(branch) : (\A m \in 0..(n - 1) : m \in S) => n \in S
    BY <1>6
  <1>8. 0..Len(branch) \subseteq S
    <2> HIDE DEF S
    <2> QED
      BY <1>4, <1>7, UpToNumber
  <1>9. \A n \in 0..Len(branch) : Whole(after[n])
    BY <1>8
  <1> QED
    BY <1>5, <1>9 DEF branch

LEMMA RebuildWhole ==
  ASSUME NEW tree, IsTree(tree), TreeOK(tree), FormOK(tree), NEW leaf \in 0..Len(tree)
  PROVE  Whole(RebuildLedger(Path(tree, leaf)))
  <1> DEFINE branch == Path(tree, leaf)
  <1>1. Len(branch) \in Nat
    BY PathIsTree DEF Parented, TreeOK, IsTree
  <1>2. PICK after : /\ ScanRun(branch, Unrouted(branch), after)
                     /\ \A n \in 0..Len(branch) : Whole(after[n])
    BY BranchRun
  <1> HIDE DEF branch
  <1>3. Whole(after[Len(branch)])
    BY <1>1, <1>2
  <1>4. Whole(RebuildLedger(branch))
    BY <1>2, <1>3, RebuildIsScan DEF ScanRun
  <1> QED
    BY <1>4 DEF branch

LEMMA RestoredEffect ==
  ASSUME NEW st, StoreGood(st), NEW leaf \in 0..Len(st.tree)
  PROVE  LET next == Restored(st, leaf)
         IN  /\ next.tree = st.tree /\ next.leaf = leaf /\ Exact(next)
             /\ LatestOf(next) = LatestGenuineUserEntry(Path(st.tree, leaf), None)
             /\ FormOK(st.tree) => Whole(next.ledger)
  <1>1. Exact(Restored(st, leaf))
    BY RestoredExact DEF StoreGood
  <1>2. Restored(st, leaf).tree = st.tree /\ Restored(st, leaf).leaf = leaf
        /\ Restored(st, leaf).ledger = RebuildLedger(Path(st.tree, leaf))
    BY DEF Restored, StoreGood, StoreOK
  <1>3. FormOK(st.tree) => Whole(Restored(st, leaf).ledger)
    BY <1>2, RebuildWhole DEF StoreGood, StoreOK
  <1> QED
    BY <1>1, <1>2, <1>3 DEF LatestOf

(* The model is switched.                                                  *)
LEMMA SelectEffect ==
  ASSUME EntryInv, PlaceInv, ForeignInv, FoldInv, SelectModel
  PROVE  /\ ForeignOK(store') /\ LatestOf(store') = LatestOf(store)
         /\ hist' = hist /\ auto' \in BOOLEAN
         /\ Whole(store'.ledger) /\ FormOK(store'.tree)
         /\ ~hist.unrecorded => RoutedOK(store'.tree)
         /\ auto' => Exact(store')
  <1> DEFINE switched == AddSelection(store, ~auto)
  <1>1. StoreGood(store) /\ hist' = hist /\ auto' = ~auto /\ auto \in BOOLEAN
    BY DEF PlaceInv, FoldInv, SelectModel
  <1>2. /\ StoreGood(switched) /\ switched.ledger = store.ledger
        /\ LatestOf(switched) = LatestOf(store)
        /\ ForeignOK(switched) /\ FormOK(switched.tree)
        /\ ~hist.unrecorded => RoutedOK(switched.tree)
    BY <1>1, SelectionAdds DEF ForeignInv, FoldInv
  <1>3. IF auto THEN store' = ClearIncumbent(switched) ELSE store' = Restored(switched, switched.leaf)
    BY DEF SelectModel
  <1> HIDE DEF switched
  <1>4. CASE auto
    <2>1. store'.tree = switched.tree /\ store'.leaf = switched.leaf
      BY <1>2, <1>3, <1>4 DEF ClearIncumbent, StoreGood, StoreOK
    <2>2. Whole(store'.ledger)
      BY <1>2, <1>3, <1>4 DEF ClearIncumbent, StoreGood, StoreOK, FoldInv, Whole, Fields, LedgerFields
    <2>3. auto' = FALSE
      BY <1>1, <1>4
    <2> QED
      BY <1>1, <1>2, <2>1, <2>2, <2>3 DEF ForeignOK, LatestOf
  <1>5. CASE ~auto
    <2>1. switched.leaf \in 0..Len(switched.tree)
      BY <1>2 DEF StoreGood, StoreOK
    <2>2. /\ store'.tree = switched.tree /\ store'.leaf = switched.leaf
          /\ Exact(store') /\ Whole(store'.ledger)
      BY <1>2, <1>3, <1>5, <2>1, RestoredEffect
    <2> QED
      BY <1>1, <1>2, <2>2 DEF ForeignOK, LatestOf
  <1> QED
    BY <1>4, <1>5

(* The user moves in the tree.                                             *)
LEMMA NavigateEffect ==
  ASSUME EntryInv, PlaceInv, ForeignInv, FoldInv, NEW leaf \in 0..Len(store.tree), Navigate(leaf)
  PROVE  /\ ForeignOK(store') /\ run'.pc = "idle" /\ store'.tree = store.tree
         /\ hist' = hist /\ auto' = auto
         /\ Whole(store'.ledger) /\ FormOK(store'.tree)
         /\ ~hist.unrecorded => RoutedOK(store'.tree)
         /\ Exact(store')
  <1>1. StoreGood(store) /\ hist' = hist /\ auto' = auto /\ run' = run /\ run.pc = "idle"
        /\ store' = Restored(store, leaf)
    BY DEF PlaceInv, Navigate
  <1>2. store'.tree = store.tree /\ Exact(store') /\ Whole(store'.ledger)
    BY <1>1, RestoredEffect DEF FoldInv
  <1> QED
    BY <1>1, <1>2 DEF ForeignInv, ForeignOK, FoldInv

(* Pi restarts: the tree keeps its shape, and what became unreadable is    *)
(* marked.                                                                 *)
LEMMA RestartTree ==
  ASSUME StoreGood(store), NEW isAuto, NEW damaged, Restart(isAuto, damaged)
  PROVE  \E st : /\ store' = Restored(st, store.leaf)
                 /\ StoreOK(st) /\ IsTree(st.tree) /\ Len(st.tree) = Len(store.tree)
                 /\ \A i \in 1..Len(store.tree) :
                      /\ DOMAIN st.tree[i] = NodeFields
                      /\ st.tree[i].kind = store.tree[i].kind /\ st.tree[i].auto = store.tree[i].auto
                      /\ st.tree[i].parent = store.tree[i].parent
                      /\ st.tree[i].source = store.tree[i].source
                      /\ st.tree[i].events = store.tree[i].events
                      /\ st.tree[i].damaged \/ st.tree[i] = store.tree[i]
  <1> DEFINE tree == [i \in DOMAIN store.tree |-> IF i = damaged THEN [store.tree[i] EXCEPT !.damaged = TRUE]
                                                  ELSE store.tree[i]]
             st == [store EXCEPT !.tree = tree]
  <1>1. store' = Restored(st, store.leaf)
    BY DEF Restart
  <1>2. DOMAIN store.tree = 1..Len(store.tree) /\ Len(store.tree) \in Nat
    BY DEF StoreGood, StoreOK, IsTree
  <1>3. Len(tree) = Len(store.tree) /\ IsTree(tree)
    BY <1>2 DEF IsTree
  <1>4. \A i \in 1..Len(store.tree) :
           /\ DOMAIN tree[i] = NodeFields
           /\ tree[i].kind = store.tree[i].kind /\ tree[i].auto = store.tree[i].auto
           /\ tree[i].parent = store.tree[i].parent /\ tree[i].source = store.tree[i].source
           /\ tree[i].events = store.tree[i].events
           /\ tree[i].damaged \/ tree[i] = store.tree[i]
    <2>1. \A i \in 1..Len(store.tree) : DOMAIN store.tree[i] = NodeFields
      BY DEF StoreGood, StoreOK
    <2> QED
      BY <1>2, <2>1 DEF NodeFields
  <1>5. DOMAIN st = {"tree", "leaf", "ledger"} /\ st.tree = tree /\ st.leaf = store.leaf
    BY DEF StoreGood, StoreOK
  <1> HIDE DEF st, tree
  <1>6. StoreOK(st)
    BY <1>3, <1>4, <1>5 DEF StoreGood, StoreOK
  <1> QED
    BY <1>1, <1>3, <1>4, <1>5, <1>6

LEMMA RestartEffect ==
  ASSUME EntryInv, PlaceInv, ForeignInv, FoldInv, PlaceInv', NEW isAuto \in BOOLEAN, NEW damaged, Restart(isAuto, damaged)
  PROVE  /\ ForeignOK(store') /\ run'.pc = "idle" /\ Len(store'.tree) = Len(store.tree)
         /\ hist' = hist /\ auto' \in BOOLEAN
         /\ Whole(store'.ledger) /\ FormOK(store'.tree)
         /\ ~hist.unrecorded => RoutedOK(store'.tree)
         /\ Exact(store')
  <1>1. StoreGood(store) /\ StoreGood(store') /\ hist' = hist /\ auto' \in BOOLEAN
    BY DEF PlaceInv, Restart
  <1>2. run'.pc = "idle"
    BY DEF Restart, IdleRun
  <1>3. DOMAIN store.tree = 1..Len(store.tree) /\ Len(store.tree) \in Nat
    BY <1>1 DEF StoreGood, StoreOK, IsTree
  <1>4. PICK st : /\ store' = Restored(st, store.leaf)
                  /\ StoreOK(st) /\ IsTree(st.tree) /\ Len(st.tree) = Len(store.tree)
                  /\ \A i \in 1..Len(store.tree) :
                       /\ DOMAIN st.tree[i] = NodeFields
                       /\ st.tree[i].kind = store.tree[i].kind /\ st.tree[i].auto = store.tree[i].auto
                       /\ st.tree[i].parent = store.tree[i].parent
                       /\ st.tree[i].source = store.tree[i].source
                       /\ st.tree[i].events = store.tree[i].events
    BY <1>1, RestartTree
  <1>5. DOMAIN st = {"tree", "leaf", "ledger"}
    BY <1>4 DEF StoreOK
  <1>6. store'.tree = st.tree /\ Exact(store') /\ store'.ledger = RebuildLedger(Path(st.tree, store.leaf))
    <2>1. Exact(store')
      BY <1>4, RestoredExact
    <2> QED
      BY <1>4, <1>5, <2>1 DEF Restored
  <1>7. FormOK(st.tree)
    BY <1>4 DEF FormOK, FoldInv
  <1>8. Whole(store'.ledger)
    <2>1. TreeOK(st.tree) /\ store.leaf \in 0..Len(st.tree)
      BY <1>1, <1>4, <1>6 DEF StoreGood, StoreOK
    <2> QED
      BY <1>4, <1>6, <1>7, <2>1, RebuildWhole
  <1>9. ForeignOK(store')
    BY <1>4, <1>6 DEF ForeignInv, ForeignOK
  <1>10. ~hist.unrecorded => RoutedOK(st.tree)
    <2>1. Parented(store.tree) /\ Parented(st.tree)
      BY <1>1, <1>6, GoodIsParented
    <2>2. \A n \in 0..Len(store.tree) : RoutedAt(st.tree, n) <=> RoutedAt(store.tree, n)
      <3>1. Len(store.tree) <= Len(st.tree)
        BY <1>3, <1>4
      <3> QED
        BY <2>1, <3>1, <1>4, RoutedSame
    <2> QED
      BY <1>3, <1>4, <2>2 DEF RoutedOK, FoldInv
  <1> QED
    BY <1>1, <1>2, <1>4, <1>6, <1>7, <1>8, <1>9, <1>10

LEMMA SendsKeep ==
  ASSUME EntryInv, PlaceInv, ForeignInv, FoldInv, NEW refs, NEW recorded \in BOOLEAN, UserSends(refs, recorded)
  PROVE  ForeignInv' /\ FoldInv'
  <1>1. /\ ForeignInBranch' /\ StoreGood(store')
        /\ store'.leaf \in Nat \ (0..Len(store.tree)) /\ Len(store.tree) \in Nat
        /\ Newest' = store'.leaf
        /\ store'.ledger = store.ledger /\ FormOK(store'.tree)
        /\ hist'.foreign = IF auto THEN hist.foreign ELSE hist.foreign \union {store'.leaf}
        /\ ~hist'.unrecorded => RoutedOK(store.tree)'
        /\ auto /\ ~hist'.unrecorded => Exact(store)'
    BY SendsEffect DEF ForeignInBranch, ForeignOK, Newest, LatestOf
  <1>2. auto' = auto /\ source' = source /\ phase' = phase /\ run.pc = "idle"
    BY DEF UserSends
  <1>3. FoldInv'
    BY <1>1, <1>2 DEF FoldInv
  <1>4. UsersAt(store.tree, store.leaf) \subseteq 1..Len(store.tree)
    BY BranchOK DEF PlaceInv, Here
  <1>5. source' \notin hist'.foreign
    <2>1. CASE source = None
      <3>1. None \notin Nat
        BY EntryAssumption
      <3> QED
        BY <2>1, <3>1, <1>1, <1>2 DEF ForeignInv
    <2>2. CASE source # None
      <3>1. source \in Named(store.tree, store.leaf)
        BY <2>2 DEF PlaceInv
      <3>2. source # store'.leaf
        BY <3>1, <1>1, <1>4 DEF Named, Key
      <3> QED
        BY <3>2, <1>1, <1>2 DEF ForeignInv
    <2> QED
      BY <2>1, <2>2
  <1>6. run'.pc # "idle" => run'.entry \notin hist'.foreign /\ Newest' = run'.entry
    <2> SUFFICES ASSUME run'.pc # "idle"
                 PROVE  run'.entry \notin hist'.foreign /\ Newest' = run'.entry
      OBVIOUS
    <2> DEFINE noted == IF RequestRouting(Branch).routedAtEnd # auto /\ recorded
                          THEN AddSelection(store, auto) ELSE store
               sent == AddEntry(noted, [Entry("user") EXCEPT !.refs = refs])
    <2>1. /\ store' = sent
          /\ run' = IF auto THEN [run EXCEPT !.pc = "route", !.entry = sent.leaf, !.calls = 0] ELSE run
      BY DEF UserSends
    <2> HIDE DEF noted, sent
    <2>2. DOMAIN run = {"pc", "entry", "attempt", "calls", "scored", "fly"}
      BY DEF EntryInv, ShapeInv
    <2>3. auto /\ run'.entry = store'.leaf
      BY <2>1, <2>2, <1>2
    <2>4. hist.foreign \subseteq 0..Len(store.tree)
      BY <1>1 DEF ForeignInv, ForeignOK
    <2> QED
      BY <1>1, <2>3, <2>4
  <1>7. phase' # None => phase'.key \notin {Key(id) : id \in hist'.foreign}
    <2> SUFFICES ASSUME phase # None PROVE phase.key \notin {Key(id) : id \in hist'.foreign}
      BY <1>2
    <2>1. PICK i \in 1..Len(store.tree) : phase.key = Key(i)
      BY DEF PlaceInv
    <2>2. Key(i) # Key(store'.leaf)
      BY <1>1 DEF Key
    <2> QED
      BY <2>1, <2>2, <1>1 DEF ForeignInv
  <1> QED
    BY <1>1, <1>3, <1>5, <1>6, <1>7 DEF ForeignInv, ForeignInBranch, ForeignOK, Newest, LatestOf

(* A step that is no message of the user.                                  *)
Quiet ==
  /\ hist'.foreign = hist.foreign /\ ForeignInBranch' /\ FoldInv'
  /\ run'.pc = "idle" \/ Newest' = Newest

LEMMA StoreStays ==
  ASSUME EntryInv, PlaceInv, PlaceInv', ShownInv, ForeignInv, FlightInv, PlanInv, FoldInv, [Next]_vars
  PROVE  SendsStep \/ Quiet
  <1>1. ASSUME Writes(store, store'), auto' = auto,
               hist'.foreign = hist.foreign, hist'.unrecorded = hist.unrecorded
        PROVE  Quiet
    <2>1. /\ ForeignOK(store') /\ LatestOf(store') = LatestOf(store)
          /\ FormOK(store'.tree) /\ Whole(store'.ledger)
          /\ ~hist.unrecorded => RoutedOK(store'.tree)
          /\ auto /\ ~hist.unrecorded => Exact(store')
      <3>1. StoreGood(store)
        BY DEF PlaceInv
      <3> QED
        BY <1>1, <3>1, WritesKeep DEF ForeignInv, FoldInv
    <2> QED
      BY <1>1, <2>1 DEF ForeignInBranch, ForeignOK, FoldInv, RoutedOK, Quiet, Newest, LatestOf, Exact
  <1>2. ASSUME SelectModel PROVE Quiet
    BY <1>2, SelectEffect DEF ForeignInBranch, ForeignOK, FoldInv, RoutedOK, Quiet, Newest, LatestOf, Exact
  <1>3. ASSUME NEW leaf \in 0..Len(store.tree), Navigate(leaf) PROVE Quiet
    BY <1>3, NavigateEffect DEF ForeignInBranch, ForeignOK, FoldInv, RoutedOK, Quiet, Newest, LatestOf, Exact
  <1>4. ASSUME NEW isAuto \in BOOLEAN, NEW damaged, Restart(isAuto, damaged) PROVE Quiet
    BY <1>4, RestartEffect DEF ForeignInBranch, ForeignOK, FoldInv, RoutedOK, Quiet, Newest, LatestOf, Exact
  <1>5. SendsStep \/ NavigatesStep \/ SelectModel \/ RestartsStep
        \/ /\ Writes(store, store') /\ auto' = auto
           /\ hist'.foreign = hist.foreign /\ hist'.unrecorded = hist.unrecorded
    BY StoreChanges
  <1>6. CASE NavigatesStep
    BY <1>3, <1>6 DEF NavigatesStep
  <1>7. CASE RestartsStep
    BY <1>4, <1>7 DEF RestartsStep
  <1> QED
    BY <1>1, <1>2, <1>5, <1>6, <1>7

LEMMA FoldNext ==
  ASSUME EntryInv, PlaceInv, PlaceInv', ShownInv, ForeignInv, FlightInv, PlanInv, FoldInv, [Next]_vars
  PROVE  ForeignInv' /\ FoldInv'
  <1>1. CASE SendsStep
    BY <1>1, SendsKeep DEF SendsStep
  <1>2. ASSUME ~SendsStep
        PROVE  ForeignInv' /\ FoldInv'
    <2>1. /\ hist'.foreign = hist.foreign /\ ForeignInBranch' /\ FoldInv'
          /\ run'.pc = "idle" \/ Newest' = Newest
      BY <1>2, StoreStays DEF Quiet
    <2>2. source' \notin hist'.foreign
      BY <2>1, SourceStep
    <2>3. run'.pc # "idle" => run'.entry \notin hist'.foreign /\ Newest' = run'.entry
      <3>1. run'.pc # "idle" => run.pc # "idle" /\ run'.entry = run.entry
        BY <1>2, RunGoesOn DEF EntryInv
      <3> QED
        BY <2>1, <3>1 DEF ForeignInv, Newest
    <2>4. phase' # None => phase'.key \notin {Key(id) : id \in hist'.foreign}
      <3>1. CASE phase' # None /\ phase # None /\ phase'.key = phase.key
        BY <3>1, <2>1 DEF ForeignInv
      <3>2. CASE Route /\ phase'.key = Key(run.entry)
        <4>1. run.pc = "route"
          BY <3>2 DEF Route
        <4>2. run.entry \notin hist.foreign /\ run.entry \in 1..Len(store.tree)
          BY <4>1, BranchOK DEF ForeignInv, PlaceInv
        <4>3. hist.foreign \subseteq 1..Len(store.tree) /\ Len(store.tree) \in Nat
          BY DEF ForeignInv, ForeignOK, PlaceInv, StoreGood, StoreOK, IsTree
        <4> QED
          BY <3>2, <4>2, <4>3, <2>1 DEF Key
      <3> QED
        BY <3>1, <3>2, PhaseKeyStep
    <2> QED
      BY <2>1, <2>2, <2>3, <2>4 DEF ForeignInv, ForeignInBranch, ForeignOK, Newest, LatestOf
  <1> QED
    BY <1>1, <1>2

LEMMA FoldInit == Init => ForeignInv /\ FlightInv /\ FoldInv
  <1> SUFFICES ASSUME Init PROVE ForeignInv /\ FlightInv /\ FoldInv
    OBVIOUS
  <1> DEFINE start == [tree |-> <<>>, leaf |-> 0, ledger |-> EmptyLedger]
  <1>0. PlaceInv
    BY PlaceInit
  <1>1. /\ store = AddSelection(start, TRUE) /\ auto = TRUE /\ source = None /\ phase = None
        /\ run = IdleRun /\ session.gen = 0
        /\ hist.foreign = {} /\ hist.unrecorded = FALSE
    BY DEF Init
  <1>2. run.pc = "idle" /\ run.fly = None /\ run.calls = 0
    BY <1>1 DEF IdleRun
  <1>3. /\ start.tree = <<>> /\ Len(start.tree) = 0 /\ start.leaf = 0 /\ start.ledger = EmptyLedger
        /\ DOMAIN start = {"tree", "leaf", "ledger"} /\ IsTree(start.tree)
    BY DEF IsTree
  <1>4. Parented(start.tree) /\ Path(start.tree, start.leaf) = <<>>
    BY <1>3, PathSteps DEF Parented
  <1>5. StoreGood(start)
    <2>1. UsersAt(start.tree, start.leaf) = {}
      BY <1>4 DEF UsersAt, UserIds
    <2>2. Workless(start.ledger)
      BY <1>3 DEF EmptyLedger, Workless, LedgerFields
    <2> HIDE DEF start
    <2> QED
      BY <1>3, <2>1, <2>2 DEF StoreGood, StoreOK, TreeOK
  <1>6. Exact(start)
    <2>1. PICK after : ScanRun(<<>>, Unrouted(<<>>), after)
      BY ScanSteps
    <2>2. RebuildLedger(<<>>) = EmptyLedger
      BY <2>1, RebuildIsScan DEF ScanRun
    <2> QED
      BY <1>3, <1>4, <2>2 DEF Exact
  <1> HIDE DEF start
  <1>7. FormOK(start.tree) /\ RoutedOK(start.tree)
    BY <1>3 DEF FormOK, RoutedOK
  <1>8. /\ store.ledger = EmptyLedger /\ FormOK(store.tree) /\ RoutedOK(store.tree) /\ Exact(store)
        /\ Len(store.tree) = 1 /\ store.tree[1].kind = "selection"
    <2> DEFINE entry == [Entry("selection") EXCEPT !.auto = TRUE]
    <2>1. DOMAIN entry = NodeFields /\ entry.kind = "selection"
      BY EntryIsNode DEF Entry
    <2>2. store = AddEntry(start, entry)
      BY <1>1 DEF AddSelection
    <2> HIDE DEF entry
    <2>3. Len(store.tree) = Len(start.tree) + 1 /\ store.tree[Len(start.tree) + 1].kind = "selection"
      BY <2>1, <2>2, <1>5, EntryAdds
    <2>4. Len(store.tree) = 1 /\ store.tree[1].kind = "selection"
      BY <2>3, <1>3
    <2> QED
      BY <2>4, <1>1, <1>3, <1>5, <1>6, <1>7, SelectionAdds, SelectionExact
  <1>9. ForeignOK(store)
    BY <1>1 DEF ForeignOK
  <1>10. Whole(store.ledger)
    BY <1>8 DEF Whole, Full, Fields, LedgerFields, EmptyLedger
  <1>11. ForeignInv
    BY <1>1, <1>2, <1>9, EntryAssumption DEF ForeignInv
  <1>12. FlightInv
    BY <1>1, <1>2 DEF FlightInv, Live
  <1>13. FoldInv
    BY <1>1, <1>8, <1>10 DEF FoldInv
  <1> QED
    BY <1>11, <1>12, <1>13

-----------------------------------------------------------------------------
(* Finished work is never active.  What a branch says of the items does    *)
(* not depend on which of its requests another model answered.             *)

ItemsOf(branch) == ScanOf(branch, {}).items
Undamaged(branch) == \A i \in 1..Len(branch) : ~branch[i].damaged

ActiveOK(ledger) ==
  ledger.active # None =>
    ledger.active \in DOMAIN ledger.items /\ ledger.items[ledger.active].status # "done"

(* A commit does not begin by activating what was done on its branch.      *)
OpensOK(tree) ==
  \A i \in 1..Len(tree) :
    LET before == Path(tree, tree[i].parent)
    IN  tree[i].kind = "event" /\ Undamaged(before) => StartsOpen(tree[i].events, ItemsOf(before))

OpenStore(st) ==
  /\ OpensOK(st.tree)
  /\ st.ledger.items = ItemsOf(Path(st.tree, st.leaf))
  /\ Undamaged(Path(st.tree, st.leaf)) => ActiveOK(st.ledger)

(* An event that applies, once a commit has come to it.                    *)
LEMMA EventOpen ==
  ASSUME NEW ledger, Whole(ledger), ActiveOK(ledger), NEW event, EventForm(event) \/ event.op = "incumbent",
         Applies(ledger, event), event.op = "activate" => ledger.items[event.item].status # "done"
  PROVE  LET next == ApplyEvent(ledger, event)
         IN  /\ ActiveOK(next)
             /\ event.op = "work-create" \/ Revives(event) => next.items[event.item].status # "done"
  <1> DEFINE next == ApplyEvent(ledger, event)
             items == ledger.items
             id == event.item
  <1>1. event.op \in ItemOps \union {"incumbent"}
    BY DEF EventForm
  <1>2. /\ next.items = ItemsAfter(items, event) /\ next.active = ActiveAfter(ledger.active, event)
        /\ (event.op # "incumbent" => Fits(items, event))
    BY <1>1, ApplyEffect DEF Whole
  <1>3. \A i \in DOMAIN items : DOMAIN items[i] = WorkFields
    BY DEF Whole, Full
  <1>4. ledger.active # None => ledger.active \in DOMAIN items /\ items[ledger.active].status # "done"
    BY DEF ActiveOK
  <1> HIDE DEF next, items
  <1>5. CASE event.op = "incumbent"
    BY <1>2, <1>4, <1>5 DEF ItemsAfter, ActiveAfter, ActiveOK, Revives, next
  <1>6. CASE event.op = "activate"
    BY <1>2, <1>4, <1>6 DEF ItemsAfter, ActiveAfter, ActiveOK, Revives, Fits, items, next
  <1>7. CASE event.op \notin {"incumbent", "activate"}
    <2> DEFINE work == WorkAfter(items, event)
    <2>1. EventForm(event) /\ Fits(items, event)
      BY <1>2, <1>7
    <2>2. event.op # "work-close" /\ event.op # "work-create" => work.status = items[id].status \/ work.status = "active"
      <3> SUFFICES ASSUME event.op # "work-close", event.op # "work-create"
                   PROVE  work.status = items[id].status \/ work.status = "active"
        OBVIOUS
      <3>1. id \in DOMAIN items /\ DOMAIN items[id] = WorkFields
        BY <2>1, <1>3 DEF Fits
      <3>2. CASE event.op = "work-update"
        <4>1. work = ApplyPatch(items[id], event.patch)
          BY <3>2 DEF WorkAfter
        <4>2. "status" \in DOMAIN items[id]
          BY <3>1 DEF WorkFields
        <4> HIDE DEF work
        <4>3. work.status = IF "status" \in DOMAIN event.patch THEN event.patch.status ELSE items[id].status
          BY <4>1, <4>2 DEF ApplyPatch
        <4> QED
          BY <2>1, <3>2, <4>3 DEF EventForm, PatchOK
      <3>3. CASE event.op \in {"grounding-upsert", "served", "boundary"}
        BY <3>1, <3>3 DEF WorkAfter, WorkFields
      <3> QED
        BY <3>2, <3>3, <2>1, <1>7 DEF EventForm, ItemOps
    <2>3. event.op = "work-create" \/ Revives(event) => work.status = "active"
      <3>1. CASE event.op = "work-create"
        BY <3>1, <2>1 DEF WorkAfter, EventForm
      <3>2. CASE Revives(event)
        <4>1. id \in DOMAIN items /\ DOMAIN items[id] = WorkFields /\ event.op = "work-update"
          BY <2>1, <1>3, <3>2 DEF Fits, Revives
        <4>2. work = ApplyPatch(items[id], event.patch)
          BY <4>1 DEF WorkAfter
        <4>3. "status" \in DOMAIN items[id] /\ event.patch.status = "active"
              /\ "status" \in DOMAIN event.patch
          BY <2>1, <3>2, <4>1 DEF WorkFields, EventForm, Revives, PatchOK
        <4> HIDE DEF work
        <4> QED
          BY <4>2, <4>3 DEF ApplyPatch
      <3> QED
        BY <3>1, <3>2
    <2> HIDE DEF work
    <2>4. next.items = With(items, id, work)
      BY <1>2, <1>7 DEF ItemsAfter, work
    <2>5. /\ DOMAIN next.items = DOMAIN items \union {id} /\ next.items[id] = work
          /\ \A i \in DOMAIN items : i # id => next.items[i] = items[i]
      BY <2>4 DEF With
    <2>6. ActiveOK(next)
      <3>1. next.active # None => next.active = ledger.active /\ (event.op = "work-close" => next.active # id)
        BY <1>2, <1>7 DEF ActiveAfter
      <3>2. event.op = "work-create" => id \notin DOMAIN items
        BY <2>1 DEF Fits
      <3> QED
        BY <1>4, <2>2, <2>5, <3>1, <3>2 DEF ActiveOK
    <2> QED
      BY <2>3, <2>5, <2>6 DEF next
  <1> QED
    BY <1>5, <1>6, <1>7

LEMMA FoldOpen ==
  ASSUME NEW ledger, Whole(ledger), ActiveOK(ledger), NEW events, CommitForm(events),
         StartsOpen(events, ledger.items)
  PROVE  ActiveOK(FoldCommit(ledger, events).ledger)
  <1>0. /\ Len(events) \in Nat
        /\ \A k \in 1..Len(events) : EventForm(events[k]) \/ events[k].op = "incumbent"
        /\ \A k \in 1..Len(events) : events[k].op = "activate" =>
             \/ k = 1
             \/ /\ k = 2 /\ events[1].item = events[2].item
                /\ events[1].op = "work-create" \/ Revives(events[1])
    BY FormOps DEF CommitForm, WorkForm
  <1>1. PICK after : FoldTrace(ledger, events, after)
    BY <1>0, FoldSteps
  <1> DEFINE Ok(n) == /\ Whole(after[n].ledger) /\ ActiveOK(after[n].ledger)
                      /\ n = 1 /\ after[n].ok /\ (events[1].op = "work-create" \/ Revives(events[1])) =>
                           after[n].ledger.items[events[1].item].status # "done"
             S == {n \in 0..Len(events) : Ok(n)}
  <1>2. ASSUME NEW n \in 0..Len(events), \A m \in 0..(n - 1) : m \in S
        PROVE  Ok(n)
    <2>1. CASE n = 0
      BY <2>1, <1>1 DEF FoldTrace
    <2>2. CASE n # 0
      <3>1. n \in 1..Len(events) /\ Ok(n - 1)
        BY <2>2, <1>2
      <3>2. after[n] = FoldedFrom(ledger, events, after[n - 1], n)
            /\ after[0] = [ok |-> TRUE, ledger |-> ledger]
        BY <3>1, <1>1 DEF FoldTrace
      <3>3. CASE after[n - 1].ok /\ Applies(after[n - 1].ledger, events[n])
        <4> DEFINE before == after[n - 1].ledger
        <4>1. events[n].op = "activate" => before.items[events[n].item].status # "done"
          <5>1. CASE n = 1
            <6>1. before = ledger /\ Len(events) > 0
              BY <5>1, <3>1, <3>2, <1>0
            <6> HIDE DEF before
            <6> QED
              BY <5>1, <6>1 DEF StartsOpen
          <5>2. CASE n # 1
            <6>1. events[n].op = "activate" =>
                    /\ n = 2 /\ events[1].item = events[2].item
                    /\ events[1].op = "work-create" \/ Revives(events[1])
              BY <3>1, <5>2, <1>0
            <6>2. n = 2 => n - 1 = 1
              OBVIOUS
            <6> QED
              BY <3>1, <3>3, <6>1, <6>2
          <5> QED
            BY <5>1, <5>2
        <4>2. after[n] = [ok |-> TRUE, ledger |-> ApplyEvent(before, events[n])]
          BY <3>2, <3>3 DEF FoldedFrom
        <4>3. /\ Whole(before) /\ ActiveOK(before) /\ Applies(before, events[n])
              /\ EventForm(events[n]) \/ events[n].op = "incumbent"
          BY <3>1, <3>3, <1>0
        <4> HIDE DEF before
        <4>4. Whole(ApplyEvent(before, events[n]))
          BY <4>3, ApplyWhole
        <4>5. /\ ActiveOK(ApplyEvent(before, events[n]))
              /\ events[n].op = "work-create" \/ Revives(events[n]) =>
                   ApplyEvent(before, events[n]).items[events[n].item].status # "done"
          BY <4>1, <4>3, EventOpen
        <4> QED
          BY <4>2, <4>4, <4>5
      <3>4. CASE ~(after[n - 1].ok /\ Applies(after[n - 1].ledger, events[n]))
        BY <3>2, <3>4 DEF FoldedFrom
      <3> QED
        BY <3>3, <3>4
    <2> QED
      BY <2>1, <2>2
  <1>3. 0..Len(events) \subseteq S
    <2>1. \A n \in 0..Len(events) : (\A m \in 0..(n - 1) : m \in S) => n \in S
      BY <1>2
    <2> HIDE DEF S
    <2> QED
      BY <1>0, <2>1, UpToNumber
  <1>4. ActiveOK(after[Len(events)].ledger)
    BY <1>0, <1>3
  <1> QED
    BY <1>1, <1>4 DEF FoldTrace

(* One entry of a branch: what it does to the items, and to the active one. *)
LEMMA ScanItems ==
  ASSUME NEW one, Whole(one), NEW two, Whole(two), one.items = two.items,
         NEW node, node.kind = "event" => CommitForm(node.events), node.kind \in Kinds,
         NEW some, NEW others
  PROVE  Scan(one, node, some).items = Scan(two, node, others).items
  <1>1. CASE node.kind = "event"
    BY <1>1, FoldItems DEF Scan, Whole
  <1>2. CASE node.kind # "event"
    BY <1>2 DEF Scan, Whole, Fields, LedgerFields, Kinds
  <1> QED
    BY <1>1, <1>2

LEMMA ScanOpen ==
  ASSUME NEW ledger, Whole(ledger), ActiveOK(ledger), NEW node, node.kind \in Kinds,
         node.kind = "event" => CommitForm(node.events) /\ StartsOpen(node.events, ledger.items),
         NEW unrouted
  PROVE  ActiveOK(Scan(ledger, node, unrouted))
  <1>1. CASE node.kind = "event"
    BY <1>1, FoldOpen DEF Scan
  <1>2. CASE node.kind # "event"
    BY <1>2 DEF Scan, ActiveOK, Whole, Fields, LedgerFields, Kinds
  <1> QED
    BY <1>1, <1>2

LEMMA UndamagedAppend ==
  ASSUME NEW branch, IsTree(branch), NEW node
  PROVE  Undamaged(Append(branch, node)) <=> Undamaged(branch) /\ ~node.damaged
  <1> DEFINE longer == Append(branch, node)
             L == Len(branch)
  <1>1. /\ Len(longer) = L + 1 /\ L \in Nat
        /\ \A i \in 1..L : longer[i] = branch[i]
        /\ longer[L + 1] = node
    BY TreeIsSeq DEF IsTree
  <1> HIDE DEF longer
  <1>2. L + 1 \in 1..(L + 1) /\ (\A i \in 1..L : i \in 1..(L + 1))
        /\ (\A i \in 1..(L + 1) : i \in 1..L \/ i = L + 1)
    BY <1>1
  <1> QED
    BY <1>1, <1>2 DEF Undamaged, longer, L

(* The items of a branch, whichever requests another model answered.       *)
LEMMA TreeItems ==
  ASSUME NEW tree, Parented(tree), TreeOK(tree), FormOK(tree)
  PROVE  \A n \in 0..Len(tree) : \A unrouted :
           /\ Whole(ScanOf(Path(tree, n), unrouted))
           /\ ScanOf(Path(tree, n), unrouted).items = ItemsOf(Path(tree, n))
  <1> DEFINE Ok(n) == \A unrouted :
                        /\ Whole(ScanOf(Path(tree, n), unrouted))
                        /\ ScanOf(Path(tree, n), unrouted).items = ItemsOf(Path(tree, n))
             S == {n \in 0..Len(tree) : Ok(n)}
  <1>1. Len(tree) \in Nat
    BY DEF Parented, IsTree
  <1>2. ASSUME NEW n \in 0..Len(tree), \A m \in 0..(n - 1) : m \in S
        PROVE  Ok(n)
    <2>1. CASE n = 0
      <3>1. Path(tree, n) = <<>>
        BY <2>1, <1>1, PathSteps DEF Parented
      <3>2. \A unrouted : ScanOf(<<>>, unrouted) = EmptyLedger
        <4> TAKE unrouted
        <4>1. PICK after : ScanRun(<<>>, unrouted, after)
          BY ScanSteps
        <4> QED
          BY <4>1 DEF ScanRun
      <3>3. Whole(EmptyLedger)
        BY DEF EmptyLedger, Whole, Full, Fields, LedgerFields
      <3> QED
        BY <3>1, <3>2, <3>3 DEF ItemsOf
    <2>2. CASE n # 0
      <3> DEFINE p == tree[n].parent
                 before == Path(tree, p)
      <3>1. n \in 1..Len(tree) /\ p \in 0..(n - 1)
        BY <1>1, <2>2 DEF Parented
      <3>2. Path(tree, n) = Append(before, tree[n]) /\ IsTree(before)
        <4>1. p \in 0..Len(tree)
          BY <1>1, <3>1
        <4> QED
          BY <1>1, <3>1, <4>1, PathSteps, PathIsTree DEF Parented
      <3>3. Ok(p)
        BY <1>2, <3>1
      <3>4. tree[n].kind \in Kinds /\ (tree[n].kind = "event" => CommitForm(tree[n].events))
        BY <3>1 DEF TreeOK, FormOK
      <3> HIDE DEF p, before
      <3>5. ASSUME NEW unrouted
            PROVE  /\ Whole(ScanOf(Path(tree, n), unrouted))
                   /\ ScanOf(Path(tree, n), unrouted).items = ItemsOf(Path(tree, n))
        <4>1. /\ Whole(ScanOf(before, unrouted)) /\ Whole(ScanOf(before, {}))
              /\ ScanOf(before, unrouted).items = ScanOf(before, {}).items
          BY <3>3 DEF before, ItemsOf
        <4>2. \A u : ScanOf(Path(tree, n), u) = Scan(ScanOf(before, u), tree[n], u)
          BY <3>2, ScanAppend
        <4>3. Whole(Scan(ScanOf(before, unrouted), tree[n], unrouted))
          BY <3>4, <4>1, ScanWhole
        <4>4. Scan(ScanOf(before, unrouted), tree[n], unrouted).items =
                Scan(ScanOf(before, {}), tree[n], {}).items
          BY <3>4, <4>1, ScanItems
        <4> QED
          BY <4>2, <4>3, <4>4 DEF ItemsOf
      <3> QED
        BY <3>5
    <2> QED
      BY <2>1, <2>2
  <1>3. 0..Len(tree) \subseteq S
    <2>1. \A n \in 0..Len(tree) : (\A m \in 0..(n - 1) : m \in S) => n \in S
      BY <1>2
    <2> HIDE DEF S
    <2> QED
      BY <1>1, <2>1, UpToNumber
  <1> QED
    BY <1>3

(* And the active item of one that can be read.                            *)
LEMMA TreeOpen ==
  ASSUME NEW tree, Parented(tree), TreeOK(tree), FormOK(tree), OpensOK(tree)
  PROVE  \A n \in 0..Len(tree) : Undamaged(Path(tree, n)) =>
           \A unrouted : ActiveOK(ScanOf(Path(tree, n), unrouted))
  <1> DEFINE Ok(n) == Undamaged(Path(tree, n)) =>
                        \A unrouted : ActiveOK(ScanOf(Path(tree, n), unrouted))
             S == {n \in 0..Len(tree) : Ok(n)}
  <1>1. Len(tree) \in Nat
    BY DEF Parented, IsTree
  <1>2. ASSUME NEW n \in 0..Len(tree), \A m \in 0..(n - 1) : m \in S
        PROVE  Ok(n)
    <2>1. CASE n = 0
      <3>1. Path(tree, n) = <<>>
        BY <2>1, <1>1, PathSteps DEF Parented
      <3>2. \A unrouted : ScanOf(<<>>, unrouted) = EmptyLedger
        <4> TAKE unrouted
        <4>1. PICK after : ScanRun(<<>>, unrouted, after)
          BY ScanSteps
        <4> QED
          BY <4>1 DEF ScanRun
      <3>3. ActiveOK(EmptyLedger)
        BY DEF EmptyLedger, ActiveOK
      <3> QED
        BY <3>1, <3>2, <3>3
    <2>2. CASE n # 0
      <3> DEFINE p == tree[n].parent
                 before == Path(tree, p)
      <3>1. n \in 1..Len(tree) /\ p \in 0..(n - 1)
        BY <1>1, <2>2 DEF Parented
      <3>2. p \in 0..Len(tree)
        BY <1>1, <3>1
      <3>3. Path(tree, n) = Append(before, tree[n]) /\ IsTree(before)
        BY <1>1, <3>1, <3>2, PathSteps, PathIsTree DEF Parented
      <3>4. Ok(p)
        BY <1>2, <3>1
      <3>5. /\ tree[n].kind \in Kinds /\ (tree[n].kind = "event" => CommitForm(tree[n].events))
            /\ tree[n].kind = "event" /\ Undamaged(before) => StartsOpen(tree[n].events, ItemsOf(before))
        BY <3>1 DEF TreeOK, FormOK, OpensOK
      <3>6. \A unrouted : Whole(ScanOf(before, unrouted)) /\ ScanOf(before, unrouted).items = ItemsOf(before)
        BY <3>2, TreeItems
      <3>7. Ok(p) <=> (Undamaged(before) => \A unrouted : ActiveOK(ScanOf(before, unrouted)))
        OBVIOUS
      <3> HIDE DEF p, before
      <3>8. ASSUME Undamaged(Path(tree, n)), NEW unrouted
            PROVE  ActiveOK(ScanOf(Path(tree, n), unrouted))
        <4>1. Undamaged(before)
          BY <3>3, <3>8, UndamagedAppend
        <4>2. ActiveOK(ScanOf(before, unrouted)) /\ Whole(ScanOf(before, unrouted))
          BY <3>4, <3>6, <3>7, <4>1
        <4>3. ScanOf(Path(tree, n), unrouted) = Scan(ScanOf(before, unrouted), tree[n], unrouted)
          BY <3>3, ScanAppend
        <4>4. tree[n].kind = "event" =>
                CommitForm(tree[n].events) /\ StartsOpen(tree[n].events, ScanOf(before, unrouted).items)
          BY <3>5, <3>6, <4>1
        <4> QED
          BY <3>5, <4>2, <4>3, <4>4, ScanOpen
      <3> QED
        BY <3>8
    <2> QED
      BY <2>1, <2>2
  <1>3. 0..Len(tree) \subseteq S
    <2>1. \A n \in 0..Len(tree) : (\A m \in 0..(n - 1) : m \in S) => n \in S
      BY <1>2
    <2> HIDE DEF S
    <2> QED
      BY <1>1, <2>1, UpToNumber
  <1> QED
    BY <1>3

(* A store with one more entry, at the leaf.                               *)
LEMMA NodeOpen ==
  ASSUME NEW st, StoreGood(st), Whole(st.ledger), FormOK(st.tree), OpenStore(st),
         NEW next, StoreGood(next), FormOK(next.tree), NEW node,
         Len(next.tree) = Len(st.tree) + 1, \A i \in 1..Len(st.tree) : next.tree[i] = st.tree[i],
         next.tree[Len(st.tree) + 1] = node, next.leaf = Len(st.tree) + 1,
         node.parent = st.leaf, ~node.damaged,
         node.kind = "event" => StartsOpen(node.events, st.ledger.items),
         next.ledger.items = Scan(st.ledger, node, {}).items,
         ActiveOK(st.ledger) => ActiveOK(next.ledger)
  PROVE  OpenStore(next)
  <1> DEFINE L == Len(st.tree)
             before == Path(st.tree, st.leaf)
             after == Path(next.tree, next.leaf)
  <1>1. /\ Parented(st.tree) /\ Parented(next.tree) /\ L \in Nat /\ st.leaf \in 0..L
        /\ TreeOK(st.tree) /\ TreeOK(next.tree)
    BY GoodIsParented DEF StoreGood, StoreOK, IsTree
  <1>2. \A n \in 0..L : Path(next.tree, n) = Path(st.tree, n)
    <2>1. Len(st.tree) <= Len(next.tree)
      BY <1>1
    <2> QED
      BY <1>1, <2>1, PathSame
  <1>3. Path(next.tree, st.leaf) = before /\ IsTree(before)
    BY <1>1, <1>2, PathIsTree
  <1>4. after = Append(before, node)
    <2>1. L + 1 \in 1..Len(next.tree) /\ Len(next.tree) \in Nat
      BY <1>1
    <2>2. Path(next.tree, next.leaf) =
            Append(Path(next.tree, next.tree[next.leaf].parent), next.tree[next.leaf])
      BY <2>1, <1>1, PathSteps DEF Parented
    <2> QED
      BY <2>2, <1>3
  <1>5. OpensOK(next.tree)
    <2> SUFFICES ASSUME NEW i \in 1..Len(next.tree), next.tree[i].kind = "event",
                        Undamaged(Path(next.tree, next.tree[i].parent))
                 PROVE  StartsOpen(next.tree[i].events, ItemsOf(Path(next.tree, next.tree[i].parent)))
      BY DEF OpensOK
    <2>1. CASE i \in 1..L
      <3>1. next.tree[i] = st.tree[i] /\ st.tree[i].parent \in 0..L
        BY <2>1, <1>1 DEF Parented
      <3>2. Path(next.tree, next.tree[i].parent) = Path(st.tree, st.tree[i].parent)
        BY <3>1, <1>2
      <3> QED
        BY <2>1, <3>1, <3>2 DEF OpenStore, OpensOK
    <2>2. CASE i = L + 1
      BY <2>2, <1>3 DEF OpenStore
    <2> QED
      BY <1>1, <2>1, <2>2
  <1>6. next.ledger.items = ItemsOf(after)
    <2>1. ItemsOf(after) = Scan(ScanOf(before, {}), node, {}).items
      <3> HIDE DEF before, after
      <3>1. ScanOf(Append(before, node), {}) = Scan(ScanOf(before, {}), node, {})
        BY <1>3, ScanAppend
      <3> QED
        BY <1>4, <3>1 DEF ItemsOf
    <2>2. Whole(ScanOf(before, {})) /\ ScanOf(before, {}).items = st.ledger.items
      BY <1>1, TreeItems DEF OpenStore, ItemsOf
    <2>3. L + 1 \in 1..Len(next.tree)
      BY <1>1
    <2>4. node.kind \in Kinds /\ (node.kind = "event" => CommitForm(node.events))
      BY <1>1, <2>3 DEF TreeOK, FormOK
    <2>5. Scan(ScanOf(before, {}), node, {}).items = Scan(st.ledger, node, {}).items
      BY <2>2, <2>4, ScanItems
    <2> QED
      BY <2>1, <2>5
  <1>7. Undamaged(after) => ActiveOK(next.ledger)
    BY <1>3, <1>4, UndamagedAppend DEF OpenStore
  <1> QED
    BY <1>5, <1>6, <1>7 DEF OpenStore

(* What an added entry holds.                                              *)
LEMMA LastNode ==
  ASSUME NEW st, StoreGood(st), NEW entry, DOMAIN entry = NodeFields, entry.damaged = FALSE,
         StoreGood(AddEntry(st, entry))
  PROVE  LET next == AddEntry(st, entry)
         IN  /\ next.tree[Len(st.tree) + 1] = Added(st, entry)
             /\ ~Added(st, entry).damaged /\ Added(st, entry).kind = entry.kind
             /\ Added(st, entry).events = entry.events /\ Added(st, entry).parent = st.leaf
             /\ Added(st, entry).id = Len(st.tree) + 1 /\ Added(st, entry).auto = entry.auto
  <1> DEFINE next == AddEntry(st, entry)
             node == Added(st, entry)
  <1>1. next.tree = Append(st.tree, node)
    BY BranchGrows
  <1>2. /\ node.damaged = FALSE /\ node.kind = entry.kind /\ node.events = entry.events
        /\ node.parent = st.leaf /\ node.id = Len(st.tree) + 1 /\ node.auto = entry.auto
    BY DEF Added, NodeFields
  <1> HIDE DEF node, next
  <1>3. next.tree[Len(st.tree) + 1] = node
    BY <1>1, TreeIsSeq DEF StoreGood, StoreOK
  <1> QED
    BY <1>2, <1>3 DEF node, next

LEMMA CommitOpen ==
  ASSUME NEW st, StoreGood(st), Whole(st.ledger), FormOK(st.tree), OpenStore(st),
         NEW from, NEW events, from \in Named(st.tree, st.leaf), CommitForm(events),
         StartsOpen(events, st.ledger.items)
  PROVE  OpenStore(AppendCommit(st, from, events))
  <1> DEFINE entry == [Entry("event") EXCEPT !.source = from, !.events = events]
             node == Added(st, entry)
             added == AddEntry(st, entry)
             next == AppendCommit(st, from, events)
             L == Len(st.tree)
  <1>1. DOMAIN entry = NodeFields /\ entry.kind = "event" /\ entry.source = from
        /\ entry.events = events /\ entry.damaged = FALSE
    BY EntryIsNode DEF Entry
  <1>2. next = [added EXCEPT !.ledger = FoldCommit(st.ledger, events).ledger]
    BY DEF AppendCommit
  <1>3. /\ Len(next.tree) = L + 1 /\ L \in Nat
        /\ \A i \in 1..L : next.tree[i] = st.tree[i]
        /\ next.leaf = L + 1
        /\ next.tree[L + 1].kind = "event" /\ next.tree[L + 1].events = events
        /\ next.ledger = FoldCommit(st.ledger, events).ledger /\ StoreGood(next)
    BY CommitAdds
  <1> HIDE DEF entry, node, added, next
  <1>4. StoreGood(added)
    BY <1>1, AddExtends DEF Extends, Kinds, added
  <1>5. /\ added.tree[L + 1] = node /\ ~node.damaged /\ node.kind = "event"
        /\ node.events = events /\ node.parent = st.leaf
    BY <1>1, <1>4, LastNode DEF added, node
  <1>6. next.tree = added.tree
    BY <1>2, <1>4 DEF StoreGood, StoreOK
  <1>7. FormOK(next.tree)
    <2>1. \A i \in 1..Len(next.tree) : i \in 1..L \/ i = L + 1
      BY <1>3
    <2> QED
      BY <1>3, <2>1 DEF FormOK
  <1>8. next.ledger.items = Scan(st.ledger, node, {}).items
    BY <1>3, <1>5 DEF Scan
  <1>9. ActiveOK(st.ledger) => ActiveOK(next.ledger)
    BY <1>3, FoldOpen
  <1>10. OpenStore(next)
    BY <1>3, <1>5, <1>6, <1>7, <1>8, <1>9, NodeOpen
  <1> QED
    BY <1>10 DEF next

(* A message or a selection, at the leaf.                                  *)
LEMMA EntryOpen ==
  ASSUME NEW st, StoreGood(st), Whole(st.ledger), FormOK(st.tree), OpenStore(st),
         NEW entry, DOMAIN entry = NodeFields, entry.kind \in {"user", "selection"}, entry.damaged = FALSE
  PROVE  OpenStore(AddEntry(st, entry)) /\ FormOK(AddEntry(st, entry).tree)
  <1> DEFINE next == AddEntry(st, entry)
             node == Added(st, entry)
             L == Len(st.tree)
  <1>1. /\ StoreGood(next) /\ Len(next.tree) = L + 1 /\ L \in Nat
        /\ \A i \in 1..L : next.tree[i] = st.tree[i]
        /\ next.leaf = L + 1 /\ next.ledger = st.ledger
    BY EntryAdds
  <1>2. /\ next.tree[L + 1] = node /\ ~node.damaged /\ node.kind = entry.kind /\ node.parent = st.leaf
    BY <1>1, LastNode
  <1> HIDE DEF next, node
  <1>3. FormOK(next.tree)
    <2>1. \A i \in 1..Len(next.tree) : i \in 1..L \/ i = L + 1
      BY <1>1
    <2> QED
      BY <1>1, <1>2, <2>1 DEF FormOK
  <1>4. Scan(st.ledger, node, {}).items = st.ledger.items
    BY <1>2 DEF Scan, Whole, Fields, LedgerFields
  <1>5. OpenStore(next)
    BY <1>1, <1>2, <1>3, <1>4, NodeOpen
  <1> QED
    BY <1>3, <1>5 DEF next

(* A rebuild.                                                              *)
LEMMA RestoredOpen ==
  ASSUME NEW st, StoreOK(st), TreeOK(st.tree), FormOK(st.tree), OpensOK(st.tree), NEW leaf \in 0..Len(st.tree)
  PROVE  OpenStore(Restored(st, leaf))
  <1> DEFINE branch == Path(st.tree, leaf)
             next == Restored(st, leaf)
  <1>1. next.tree = st.tree /\ next.leaf = leaf /\ next.ledger = RebuildLedger(branch)
    BY DEF Restored, StoreOK
  <1>2. RebuildLedger(branch) = ScanOf(branch, Unrouted(branch))
    BY RebuildIsScan
  <1>3. Parented(st.tree)
    BY DEF StoreOK, TreeOK, Parented
  <1>4. ScanOf(branch, Unrouted(branch)).items = ItemsOf(branch)
    BY <1>3, TreeItems
  <1>5. Undamaged(branch) => ActiveOK(ScanOf(branch, Unrouted(branch)))
    BY <1>3, TreeOpen
  <1> HIDE DEF next, branch
  <1>6. OpenStore(next)
    BY <1>1, <1>2, <1>4, <1>5 DEF OpenStore, branch
  <1> QED
    BY <1>6 DEF next

(* What is damaged is not read: where a branch has no damage, it is what   *)
(* it was.                                                                 *)
LEMMA DamageOpen ==
  ASSUME NEW tree, Parented(tree), NEW next, Parented(next), Len(next) = Len(tree),
         \A i \in 1..Len(tree) :
           /\ next[i].kind = tree[i].kind /\ next[i].parent = tree[i].parent
           /\ next[i].events = tree[i].events
           /\ next[i].damaged \/ next[i] = tree[i],
         OpensOK(tree)
  PROVE  OpensOK(next)
  <1> DEFINE Ok(n) == Undamaged(Path(next, n)) => Path(next, n) = Path(tree, n)
             S == {n \in 0..Len(tree) : Ok(n)}
  <1>1. Len(tree) \in Nat
    BY DEF Parented, IsTree
  <1>2. ASSUME NEW n \in 0..Len(tree), \A m \in 0..(n - 1) : m \in S
        PROVE  Ok(n)
    <2>1. CASE n = 0
      BY <2>1, <1>1, PathSteps DEF Parented
    <2>2. CASE n # 0
      <3>1. n \in 1..Len(tree) /\ tree[n].parent \in 0..(n - 1) /\ next[n].parent = tree[n].parent
        BY <1>1, <2>2 DEF Parented
      <3> DEFINE p == tree[n].parent
      <3>2. /\ Path(tree, n) = Append(Path(tree, p), tree[n])
            /\ Path(next, n) = Append(Path(next, p), next[n])
        BY <1>1, <3>1, PathSteps DEF Parented
      <3>3. Ok(p) /\ IsTree(Path(next, p))
        <4>1. p \in 0..Len(next)
          BY <1>1, <3>1
        <4> QED
          BY <1>2, <3>1, <4>1, PathIsTree
      <3>4. Undamaged(Path(next, n)) => Undamaged(Path(next, p)) /\ ~next[n].damaged
        BY <3>2, <3>3, UndamagedAppend
      <3> QED
        BY <3>1, <3>2, <3>3, <3>4
    <2> QED
      BY <2>1, <2>2
  <1>3. 0..Len(tree) \subseteq S
    <2>1. \A n \in 0..Len(tree) : (\A m \in 0..(n - 1) : m \in S) => n \in S
      BY <1>2
    <2> HIDE DEF S
    <2> QED
      BY <1>1, <2>1, UpToNumber
  <1>4. ASSUME NEW i \in 1..Len(next), next[i].kind = "event", Undamaged(Path(next, next[i].parent))
        PROVE  StartsOpen(next[i].events, ItemsOf(Path(next, next[i].parent)))
    <2>1. i \in 1..Len(tree) /\ tree[i].parent \in 0..Len(tree)
      BY <1>1 DEF Parented
    <2>2. Ok(tree[i].parent)
      BY <1>3, <2>1
    <2>3. Path(next, next[i].parent) = Path(tree, tree[i].parent) /\ Undamaged(Path(tree, tree[i].parent))
      BY <1>4, <2>1, <2>2
    <2> QED
      BY <1>4, <2>1, <2>3 DEF OpensOK
  <1> QED
    BY <1>4 DEF OpensOK

-----------------------------------------------------------------------------
(* No step opens what is finished.                                         *)

OpenInv == OpenStore(store)

LEMMA PlanStays ==
  ASSUME PlanInv, session'.gen = session.gen, run'.fly = run.fly,
         Live(run.fly) => store'.ledger.items = store.ledger.items
  PROVE  PlanInv'
  BY DEF PlanInv, Live, StartsOpen

(* The model is switched: what is known of the items stays.                *)
LEMMA SelectOpen ==
  ASSUME PlaceInv, FoldInv, OpenInv, SelectModel
  PROVE  OpenStore(store') /\ store'.ledger.items = store.ledger.items
  <1> DEFINE entry == [Entry("selection") EXCEPT !.auto = ~auto]
             switched == AddSelection(store, ~auto)
  <1>1. StoreGood(store) /\ Whole(store.ledger) /\ FormOK(store.tree) /\ OpenStore(store)
    BY DEF PlaceInv, FoldInv, OpenInv
  <1>2. DOMAIN entry = NodeFields /\ entry.kind = "selection" /\ entry.damaged = FALSE
    BY EntryIsNode DEF Entry
  <1>3. switched = AddEntry(store, entry)
    BY DEF AddSelection
  <1>4. IF auto THEN store' = ClearIncumbent(switched) ELSE store' = Restored(switched, switched.leaf)
    BY DEF SelectModel
  <1>5. StoreGood(switched) /\ switched.ledger = store.ledger
    BY <1>1, SelectionAdds
  <1> HIDE DEF entry, switched
  <1>6. OpenStore(switched) /\ FormOK(switched.tree)
    BY <1>1, <1>2, <1>3, EntryOpen
  <1>7. CASE auto
    <2>1. /\ store'.tree = switched.tree /\ store'.leaf = switched.leaf
          /\ store'.ledger.items = switched.ledger.items /\ store'.ledger.active = switched.ledger.active
      BY <1>1, <1>4, <1>5, <1>7 DEF ClearIncumbent, StoreGood, StoreOK, Whole, Fields, LedgerFields
    <2> QED
      BY <1>5, <1>6, <2>1 DEF OpenStore, ActiveOK
  <1>8. CASE ~auto
    <2>1. switched.leaf \in 0..Len(switched.tree) /\ StoreOK(switched) /\ TreeOK(switched.tree)
      BY <1>5 DEF StoreGood, StoreOK
    <2>2. store' = Restored(switched, switched.leaf)
      BY <1>4, <1>8
    <2>3. OpenStore(store')
      BY <1>6, <2>1, <2>2, RestoredOpen DEF OpenStore
    <2>4. store'.tree = switched.tree /\ store'.leaf = switched.leaf
      BY <1>5, <2>1, <2>2, RestoredEffect
    <2> QED
      BY <1>5, <1>6, <2>3, <2>4 DEF OpenStore
  <1> QED
    BY <1>7, <1>8

LEMMA PlanNext ==
  ASSUME ShapeInv, PlaceInv, FlightInv, PlanInv, FoldInv, OpenInv, [Next]_vars
  PROVE  PlanInv'
  <1>0. /\ DOMAIN run = {"pc", "entry", "attempt", "calls", "scored", "fly"}
        /\ DOMAIN IdleRun = {"pc", "entry", "attempt", "calls", "scored", "fly"}
        /\ IdleRun.fly = None
        /\ DOMAIN session = {"gen", "cached", "decision", "served"} /\ session.gen \in Nat
    BY DEF ShapeInv, IdleRun, FlightInv
  <1> DEFINE stopped == [IdleRun EXCEPT !.fly = run.fly]
  <1>1. stopped.fly = run.fly
    BY <1>0
  <1> HIDE DEF stopped
  <1>2. Live(run.fly) => run.pc \in {"stop", "tools"} /\ run.fly # None
    BY DEF FlightInv, Live
  <1>3. CASE run'.fly = None
    BY <1>3 DEF PlanInv, Live
  <1>4. CASE Route
    <2>1. run' = stopped \/ \E scored : run' = [run EXCEPT !.pc = "walk", !.attempt = 1, !.scored = scored]
      BY <1>4, RouteEffect, Zenon DEF stopped
    <2>2. run'.fly = run.fly
      BY <2>1, <1>0, <1>1
    <2>3. session'.gen = session.gen /\ store' = store
      BY <1>4, <1>0 DEF Route
    <2> QED
      BY <2>2, <2>3, PlanStays
  <1>5. CASE Walk
    <2>1. run'.fly = run.fly /\ session'.gen = session.gen /\ run.pc = "walk"
      BY <1>5, <1>0, <1>1 DEF Walk, Serve, AttemptFails, stopped
    <2> QED
      BY <2>1, <1>2, PlanStays
  <1>6. ASSUME ToolCall PROVE PlanInv'
    <2>1. run.fly = None /\ session' = session
      BY <1>6, ZenonT(40) DEF ToolCall, StartRead, Edit, RefuseEdit, DeclareAnswer, AskUser, StartHandOff,
                   StartReopen, CompleteWork, UpdateWork, InCall
    <2>2. CASE run' = Returned
      BY <2>1, <2>2, <1>0, <1>3 DEF Returned
    <2>3. ASSUME NEW facts, run' = Flying(facts), facts.kind # "handoff" PROVE PlanInv'
      <3>1. run'.fly = facts
        BY <1>0, <2>3 DEF Flying
      <3> QED
        BY <2>3, <3>1 DEF PlanInv
    <2>4. ASSUME NEW p, NEW part, StartRead(p, part) PROVE PlanInv'
      <3>1. \E facts : run' = Flying(facts) /\ facts.kind = "read"
        BY <2>4 DEF StartRead
      <3> QED
        BY <3>1, <2>3
    <2>5. ASSUME NEW p, Edit(p) PROVE PlanInv'
      <3>1. run' = Returned \/ \E facts : run' = Flying(facts) /\ facts.kind = "edit"
        BY <2>5 DEF Edit
      <3> QED
        BY <3>1, <2>2, <2>3
    <2>6. ASSUME NEW d, StartReopen(d) PROVE PlanInv'
      <3>1. \E facts : run' = Flying(facts) /\ facts.kind = "reopen"
        BY <2>6, ReopenFlies
      <3> QED
        BY <3>1, <2>3
    <2>7. ASSUME NEW c, NEW d, StartHandOff(c, d) PROVE PlanInv'
      <3>1. PICK facts : /\ run' = Flying(facts)
                         /\ StartsOpen(facts.plan.events, store.ledger.items)
        BY <2>7, HandOffFlies
      <3>2. run'.fly = facts /\ store' = store
        BY <1>0, <2>7, <3>1 DEF Flying, StartHandOff
      <3> QED
        BY <3>1, <3>2 DEF PlanInv
    <2>8. CASE \/ RefuseEdit \/ DeclareAnswer \/ AskUser \/ (\E outcome : CompleteWork(outcome))
               \/ (\E i, p : UpdateWork(i, p))
      <3>1. run' = Returned
        BY <2>8, Zenon DEF RefuseEdit, DeclareAnswer, AskUser, CompleteWork, UpdateWork
      <3> QED
        BY <3>1, <2>2
    <2> QED
      BY <1>6, <2>4, <2>5, <2>6, <2>7, <2>8 DEF ToolCall
  <1>7. CASE Finish
    <2>1. run' = Landed
      BY <1>7, Zenon DEF Finish, FinishRead, FinishEdit, SubmitHandOff, SubmitReopen
    <2>2. run'.fly = None
      BY <2>1, <1>0 DEF Landed
    <2> QED
      BY <2>2, <1>3
  <1>8. CASE NextRequest \/ FinalAnswer \/ Remind \/ Settled
    <2>1. session' = session /\ store' = store
      BY <1>8 DEF NextRequest, FinalAnswer, Remind, Settled
    <2>2. run'.fly = None \/ run'.fly = run.fly
      BY <1>8, <1>0, <1>1 DEF NextRequest, FinalAnswer, Remind, Settled, stopped
    <2> QED
      BY <2>1, <2>2, <1>3, PlanStays
  <1>9. CASE (\E refs, recorded : UserSends(refs, recorded)) \/ (\E leaf : Navigate(leaf))
    <2>1. session' = session /\ run.pc = "idle" /\ run'.fly = run.fly
      BY <1>9, <1>0 DEF UserSends, Navigate
    <2> QED
      BY <2>1, <1>2, PlanStays
  <1>10. CASE SelectModel
    <2>1. session'.gen = session.gen /\ run' = run
      BY <1>10, <1>0 DEF SelectModel
    <2> QED
      BY <2>1, <1>10, SelectOpen, PlanStays
  <1>11. CASE UserAborts \/ (\E p : ExternalEdit(p)) \/ UNCHANGED vars
    <2>1. session' = session /\ store' = store
      BY <1>11 DEF UserAborts, ExternalEdit, vars
    <2>2. run'.fly = run.fly
      BY <1>11, <1>0, <1>1 DEF UserAborts, ExternalEdit, vars, stopped
    <2> QED
      BY <2>1, <2>2, PlanStays
  <1>12. ASSUME NEW isAuto, NEW damaged, Restart(isAuto, damaged) PROVE PlanInv'
    <2>1. run'.fly = run.fly /\ session'.gen = session.gen + 1
      BY <1>12, <1>1 DEF Restart, stopped
    <2> QED
      BY <2>1, <1>0 DEF FlightInv, PlanInv, Live
  <1> QED
    BY <1>4, <1>5, <1>6, <1>7, <1>8, <1>9, <1>10, <1>11, <1>12 DEF Next, World

LEMMA CommitsOpen ==
  ASSUME NEW st, StoreGood(st), Whole(st.ledger), FormOK(st.tree), OpenStore(st), NEW next, Commits(st, next)
  PROVE  OpenStore(next)
  BY CommitOpen DEF Commits

LEMMA WritesOpen ==
  ASSUME NEW st, StoreGood(st), Whole(st.ledger), FormOK(st.tree), OpenStore(st), NEW next, Writes(st, next)
  PROVE  OpenStore(next)
  <1>1. PICK mid : Commits(st, mid) /\ Commits(mid, next)
    BY DEF Writes
  <1>2. StoreGood(mid) /\ Whole(mid.ledger) /\ FormOK(mid.tree) /\ OpenStore(mid)
    BY <1>1, CommitsKeep, CommitsOpen
  <1> QED
    BY <1>1, <1>2, CommitsOpen

LEMMA SendsOpen ==
  ASSUME PlaceInv, FoldInv, OpenInv, NEW refs, NEW recorded, UserSends(refs, recorded)
  PROVE  OpenStore(store')
  <1> DEFINE selection == [Entry("selection") EXCEPT !.auto = auto]
             entry == [Entry("user") EXCEPT !.refs = refs]
             noted == IF RequestRouting(Branch).routedAtEnd # auto /\ recorded
                        THEN AddSelection(store, auto) ELSE store
  <1>1. StoreGood(store) /\ Whole(store.ledger) /\ FormOK(store.tree) /\ OpenStore(store)
    BY DEF PlaceInv, FoldInv, OpenInv
  <1>2. /\ DOMAIN selection = NodeFields /\ selection.kind = "selection" /\ selection.damaged = FALSE
        /\ DOMAIN entry = NodeFields /\ entry.kind = "user" /\ entry.damaged = FALSE
    BY EntryIsNode DEF Entry
  <1>3. store' = AddEntry(noted, entry)
    BY DEF UserSends
  <1>4. noted = store \/ noted = AddSelection(store, auto)
    OBVIOUS
  <1>5. AddSelection(store, auto) = AddEntry(store, selection)
    BY DEF AddSelection
  <1> HIDE DEF selection, entry, noted
  <1>6. /\ StoreGood(AddSelection(store, auto)) /\ Whole(AddSelection(store, auto).ledger)
        /\ FormOK(AddSelection(store, auto).tree) /\ OpenStore(AddSelection(store, auto))
    <2>1. StoreGood(AddSelection(store, auto)) /\ Whole(AddSelection(store, auto).ledger)
      BY <1>1, SelectionAdds
    <2>2. FormOK(AddSelection(store, auto).tree) /\ OpenStore(AddSelection(store, auto))
      BY <1>1, <1>2, <1>5, EntryOpen
    <2> QED
      BY <2>1, <2>2
  <1>7. StoreGood(noted) /\ Whole(noted.ledger) /\ FormOK(noted.tree) /\ OpenStore(noted)
    BY <1>1, <1>4, <1>6
  <1> QED
    BY <1>2, <1>3, <1>7, EntryOpen

LEMMA OpenNext ==
  ASSUME EntryInv, PlaceInv, PlaceInv', ShownInv, ForeignInv, FlightInv, PlanInv, FoldInv, OpenInv, [Next]_vars
  PROVE  OpenInv'
  <1>1. StoreGood(store) /\ Whole(store.ledger) /\ FormOK(store.tree) /\ OpenStore(store)
    BY DEF PlaceInv, FoldInv, OpenInv
  <1>2. ASSUME OpenStore(store') PROVE OpenInv'
    BY <1>2 DEF OpenInv
  <1>3. CASE Writes(store, store')
    BY <1>1, <1>2, <1>3, WritesOpen
  <1>4. CASE SendsStep
    BY <1>2, <1>4, SendsOpen DEF SendsStep
  <1>5. CASE SelectModel
    BY <1>2, <1>5, SelectOpen
  <1>6. CASE NavigatesStep
    <2>1. PICK leaf \in 0..Len(store.tree) : store' = Restored(store, leaf)
      BY <1>6 DEF NavigatesStep, Navigate
    <2>2. StoreOK(store) /\ TreeOK(store.tree) /\ OpensOK(store.tree)
      BY <1>1 DEF StoreGood, OpenStore
    <2>3. OpenStore(Restored(store, leaf))
      BY <1>1, <2>2, RestoredOpen
    <2> QED
      BY <1>2, <2>1, <2>3
  <1>7. ASSUME NEW isAuto \in BOOLEAN, NEW damaged, Restart(isAuto, damaged) PROVE OpenStore(store')
    <2>1. PICK st : /\ store' = Restored(st, store.leaf)
                    /\ StoreOK(st) /\ IsTree(st.tree) /\ Len(st.tree) = Len(store.tree)
                    /\ \A i \in 1..Len(store.tree) :
                         /\ st.tree[i].kind = store.tree[i].kind
                         /\ st.tree[i].parent = store.tree[i].parent
                         /\ st.tree[i].events = store.tree[i].events
                         /\ st.tree[i].damaged \/ st.tree[i] = store.tree[i]
      BY <1>1, <1>7, RestartTree
    <2>2. store'.tree = st.tree
      BY <2>1 DEF Restored, StoreOK
    <2>3. TreeOK(st.tree) /\ Parented(st.tree) /\ Parented(store.tree)
      BY <1>1, <2>2, GoodIsParented DEF PlaceInv, StoreGood
    <2>4. FormOK(st.tree)
      BY <1>1, <2>1 DEF FormOK
    <2>5. OpensOK(st.tree)
      BY <1>1, <2>1, <2>3, DamageOpen DEF OpenStore
    <2>6. store.leaf \in 0..Len(st.tree)
      BY <1>1, <2>1 DEF StoreGood, StoreOK
    <2> QED
      BY <2>1, <2>3, <2>4, <2>5, <2>6, RestoredOpen
  <1>8. CASE RestartsStep
    BY <1>2, <1>7, <1>8 DEF RestartsStep
  <1> QED
    BY <1>3, <1>4, <1>5, <1>6, <1>8, StoreChanges

LEMMA OpenInit == Init => PlanInv /\ OpenInv
  <1> SUFFICES ASSUME Init PROVE PlanInv /\ OpenInv
    OBVIOUS
  <1>1. PlanInv
    BY DEF Init, IdleRun, PlanInv, Live
  <1>2. PlaceInv /\ ForeignInv /\ FlightInv /\ FoldInv
    BY PlaceInit, FoldInit
  <1>3. StoreGood(store) /\ FormOK(store.tree) /\ Exact(store)
    BY <1>2 DEF PlaceInv, FoldInv, Init
  <1>4. \A i \in 1..Len(store.tree) : store.tree[i].kind # "event"
    <2> DEFINE entry == [Entry("selection") EXCEPT !.auto = TRUE]
               node == [entry EXCEPT !.id = Len(<<>>) + 1, !.parent = 0]
    <2>1. store.tree = Append(<<>>, node)
      BY DEF Init, AddSelection, AddEntry
    <2>2. node.kind = "selection"
      BY DEF Entry
    <2> HIDE DEF entry, node
    <2>3. Len(store.tree) = 1 /\ store.tree[1] = node
      BY <2>1
    <2> QED
      BY <2>2, <2>3
  <1>5. OpensOK(store.tree)
    BY <1>4 DEF OpensOK
  <1>6. OpenStore(Restored(store, store.leaf))
    BY <1>3, <1>5, RestoredOpen DEF StoreGood, StoreOK
  <1>7. /\ Restored(store, store.leaf).tree = store.tree /\ Restored(store, store.leaf).leaf = store.leaf
        /\ Restored(store, store.leaf).ledger = store.ledger
    BY <1>3 DEF Restored, Exact, StoreGood, StoreOK
  <1> QED
    BY <1>1, <1>6, <1>7 DEF OpenInv, OpenStore

LedgerInv == /\ PlaceInv /\ ShownInv /\ ForeignInv /\ FlightInv /\ FoldInv
             /\ PlanInv /\ OpenInv

LEMMA LedgerInit == Init => EntryInv /\ SettleInv /\ LedgerInv
  BY InitEntry, PlaceInit, ShownInit, FoldInit, OpenInit DEF LedgerInv

LEMMA LedgerNext ==
  EntryInv /\ SettleInv /\ LedgerInv /\ [Next]_vars => (EntryInv /\ SettleInv /\ LedgerInv)'
  <1> SUFFICES ASSUME EntryInv, SettleInv, LedgerInv, [Next]_vars
               PROVE  (EntryInv /\ SettleInv /\ LedgerInv)'
    OBVIOUS
  <1>1. (EntryInv /\ SettleInv)'
    BY EntryStep
  <1>2. PlaceInv' /\ ShownInv' /\ FlightInv'
    BY PlaceNext, ShownNext, FlightNext DEF LedgerInv, EntryInv
  <1>3. ForeignInv' /\ FoldInv'
    BY <1>2, FoldNext DEF LedgerInv
  <1>4. PlanInv' /\ OpenInv'
    BY <1>2, PlanNext, OpenNext DEF LedgerInv, EntryInv
  <1> QED
    BY <1>1, <1>2, <1>3, <1>4 DEF LedgerInv

(* While router/auto is selected and every selection could be recorded, the *)
(* ledger in memory is what a restart at this leaf would rebuild: commits, *)
(* failed writes, moves in the tree, switches of the model, late answers   *)
(* and restarts with unreadable events included (appendCommit,             *)
(* recordIncumbent, restoreWorkLedger, handleModelSelect).                 *)
THEOREM MemoryIsTheFold == Spec => []LedgerIsFold
  <1>1. LedgerInv => LedgerIsFold
    BY DEF LedgerInv, FoldInv, LedgerIsFold, Exact, Branch
  <1> QED
    BY <1>1, LedgerInit, LedgerNext, PTL DEF Spec

-----------------------------------------------------------------------------
(* What a request another model answered does to the active item.          *)

Activates(events) == \E k \in DOMAIN events : events[k].op = "activate"

LEMMA FoldInactive ==
  ASSUME NEW ledger, Fields(ledger), ledger.active = None,
         NEW events, CommitForm(events), ~Activates(events)
  PROVE  FoldCommit(ledger, events).ledger.active = None
  <1>0. /\ Len(events) \in Nat /\ \A k \in 1..Len(events) : events[k].op \in ItemOps \union {"incumbent"}
        /\ \A k \in 1..Len(events) : events[k].op # "activate"
    BY FormOps DEF IsTree, Activates
  <1>1. PICK after : FoldTrace(ledger, events, after)
    BY <1>0, FoldSteps
  <1> DEFINE Ok(n) == Fields(after[n].ledger) /\ after[n].ledger.active = None
             S == {n \in 0..Len(events) : Ok(n)}
  <1>2. ASSUME NEW n \in 0..Len(events), \A m \in 0..(n - 1) : m \in S
        PROVE  Ok(n)
    <2>1. CASE n = 0
      BY <2>1, <1>1 DEF FoldTrace
    <2>2. CASE n # 0
      <3>1. n \in 1..Len(events) /\ Ok(n - 1)
        BY <2>2, <1>2
      <3>2. after[n] = FoldedFrom(ledger, events, after[n - 1], n)
        BY <3>1, <1>1 DEF FoldTrace
      <3>3. CASE Applies(after[n - 1].ledger, events[n])
        <4> DEFINE next == ApplyEvent(after[n - 1].ledger, events[n])
        <4>1. Fields(next) /\ next.active = ActiveAfter(after[n - 1].ledger.active, events[n])
          BY <3>1, <3>3, <1>0, ApplyEffect
        <4>2. next.active = None
          BY <4>1, <3>1, <1>0 DEF ActiveAfter
        <4> HIDE DEF next
        <4>3. after[n].ledger = IF after[n - 1].ok THEN next ELSE ledger
          BY <3>2, <3>3 DEF FoldedFrom, next
        <4> QED
          BY <4>1, <4>2, <4>3
      <3>4. CASE ~Applies(after[n - 1].ledger, events[n])
        BY <3>2, <3>4 DEF FoldedFrom
      <3> QED
        BY <3>3, <3>4
    <2> QED
      BY <2>1, <2>2
  <1>3. \A n \in 0..Len(events) : (\A m \in 0..(n - 1) : m \in S) => n \in S
    BY <1>2
  <1>4. 0..Len(events) \subseteq S
    <2> HIDE DEF S
    <2> QED
      BY <1>0, <1>3, UpToNumber
  <1>5. after[Len(events)].ledger.active = None
    BY <1>0, <1>4
  <1> QED
    BY <1>1, <1>5 DEF FoldTrace

LEMMA ScanInactive ==
  ASSUME NEW ledger, Fields(ledger), ledger.active = None, NEW node,
         node.kind = "event" => CommitForm(node.events) /\ ~Activates(node.events),
         node.kind \in Kinds, NEW unrouted
  PROVE  Scan(ledger, node, unrouted).active = None
  <1>1. CASE node.kind = "event"
    BY <1>1, FoldInactive DEF Scan
  <1>2. CASE node.kind # "event"
    BY <1>2 DEF Scan, Fields, LedgerFields, Kinds
  <1> QED
    BY <1>1, <1>2

(* A request another model served ends the active item of its branch, until *)
(* an event activates one.                                                 *)
LEMMA RequestEnds ==
  ASSUME PlaceInv, ForeignInv, FoldInv, auto, ~hist.unrecorded, store.ledger.active # None,
         NEW f \in 1..Len(Branch), Branch[f].id \in hist.foreign
  PROVE  \E i \in 1..Len(Branch) : f < i /\ Activates(Branch[i].events)
  <1> DEFINE U == Unrouted(Branch)
             L == Len(Branch)
  <1>1. /\ StoreGood(store) /\ IsTree(store.tree) /\ TreeOK(store.tree) /\ FormOK(store.tree)
        /\ RoutedOK(store.tree) /\ Exact(store) /\ ForeignOK(store)
        /\ store.leaf \in 0..Len(store.tree) /\ Parented(store.tree)
    BY GoodIsParented DEF PlaceInv, ForeignInv, FoldInv, StoreGood, StoreOK
  <1>2. IsTree(Branch) /\ L \in Nat /\ DOMAIN Branch = 1..L
    BY <1>1, BranchOK DEF IsTree
  <1>3. \A i \in 1..L : \E j \in 1..Len(store.tree) :
           Branch[i] = store.tree[j] /\ (RoutedAfter(Branch, i) <=> RoutedAt(store.tree, j))
    BY <1>1, PathPlaces DEF Branch
  <1>4. PICK after : ScanRun(Branch, U, after) /\ \A n \in 0..L : Fields(after[n])
    BY <1>1, BranchRun DEF Branch, Whole
  <1>5. store.ledger = after[L]
    BY <1>1, <1>4, RebuildIsScan DEF Exact, ScanRun, Branch
  <1>6. \A i \in 1..L : /\ Branch[i].kind \in Kinds
                        /\ Branch[i].kind = "event" => /\ CommitForm(Branch[i].events)
                                                       /\ Branch[i].source \notin hist.foreign
    <2> TAKE i \in 1..L
    <2>1. PICK j \in 1..Len(store.tree) : Branch[i] = store.tree[j]
      BY <1>3
    <2>2. /\ store.tree[j].kind \in Kinds
          /\ store.tree[j].kind = "event" => /\ CommitForm(store.tree[j].events)
                                             /\ store.tree[j].source \notin hist.foreign
      BY <1>1 DEF TreeOK, FormOK, ForeignOK
    <2> QED
      BY <2>1, <2>2
  <1>7. Branch[f].kind = "user" /\ Branch[f].id \in U
    <2>1. PICK j \in 1..Len(store.tree) :
            Branch[f] = store.tree[j] /\ (RoutedAfter(Branch, f) <=> RoutedAt(store.tree, j))
      BY <1>3
    <2>2. j = Branch[f].id /\ store.tree[j].kind = "user" /\ ~RoutedAt(store.tree, j)
      BY <1>1, <2>1 DEF TreeOK, ForeignOK, RoutedOK
    <2>3. Branch[f].id \notin NamedBy(Branch)
      BY <1>2, <1>6 DEF NamedBy
    <2> QED
      BY <2>1, <2>2, <2>3, <1>2, UnroutedIs DEF IsUser
  <1> SUFFICES ASSUME \A i \in 1..L : f < i => ~Activates(Branch[i].events) PROVE FALSE
    OBVIOUS
  <1> DEFINE S == {n \in 0..L : n >= f => after[n].active = None}
  <1>8. ASSUME NEW n \in 0..L, \A m \in 0..(n - 1) : m \in S, n >= f
        PROVE  after[n].active = None
    <2>1. n \in 1..L /\ after[n] = Scan(after[n - 1], Branch[n], U) /\ Fields(after[n - 1])
      BY <1>4, <1>8 DEF ScanRun
    <2>2. CASE n = f
      BY <2>1, <2>2, <1>7 DEF Scan, Fields, LedgerFields
    <2>3. CASE n # f
      <3>1. f < n /\ after[n - 1].active = None
        BY <1>8, <2>3
      <3> QED
        BY <3>1, <2>1, <1>6, ScanInactive
    <2> QED
      BY <2>2, <2>3
  <1>9. \A n \in 0..L : (\A m \in 0..(n - 1) : m \in S) => n \in S
    BY <1>8
  <1>10. 0..L \subseteq S
    <2> HIDE DEF S, L
    <2> QED
      BY <1>2, <1>9, UpToNumber
  <1>11. after[L].active = None
    BY <1>2, <1>10
  <1> QED
    BY <1>5, <1>11

(* A request another model answered ends the router's active item, until   *)
(* the router places work on an item again: whatever was switched, moved,  *)
(* restarted or lost in between (requestRouting, rebuildLedger).           *)
THEOREM OthersRequestsEndWork == Spec => []UnroutedDropsActive
  <1>1. ASSUME LedgerInv PROVE UnroutedDropsActive
    <2> DEFINE activated == {i \in DOMAIN Branch : \E k \in DOMAIN Branch[i].events :
                               Branch[i].events[k].op = "activate"}
               foreign == {i \in DOMAIN Branch : Branch[i].id \in hist.foreign}
    <2> SUFFICES ASSUME auto, ~hist.unrecorded, store.ledger.active # None, foreign # {}
                 PROVE  Max(foreign) < Max(activated)
      BY DEF UnroutedDropsActive
    <2>1. PlaceInv /\ ForeignInv /\ FoldInv
      BY <1>1 DEF LedgerInv
    <2>2. IsTree(Branch)
      BY <2>1, BranchOK DEF PlaceInv
    <2>3. Len(Branch) \in Nat /\ DOMAIN Branch = 1..Len(Branch)
      BY <2>2 DEF IsTree
    <2>4. foreign \subseteq 1..Len(Branch) /\ activated \subseteq 1..Len(Branch)
          /\ 1..Len(Branch) \subseteq 0..Len(Branch)
      BY <2>3
    <2>5. Max(foreign) \in foreign
      <3> HIDE DEF foreign
      <3> QED
        BY <2>3, <2>4, MaxOf
    <2> DEFINE f == Max(foreign)
    <2>6. f \in 1..Len(Branch) /\ Branch[f].id \in hist.foreign
      BY <2>4, <2>5
    <2> HIDE DEF f
    <2>7. PICK i \in 1..Len(Branch) : f < i /\ Activates(Branch[i].events)
      BY <2>1, <2>6, RequestEnds
    <2>8. i \in activated
      BY <2>3, <2>7 DEF Activates
    <2>9. i <= Max(activated) /\ Max(activated) \in 1..Len(Branch)
      <3> HIDE DEF activated
      <3> QED
        BY <2>3, <2>4, <2>8, MaxOf
    <2> QED
      BY <2>3, <2>6, <2>7, <2>9 DEF f
  <1> QED
    BY <1>1, LedgerInit, LedgerNext, PTL DEF Spec

-----------------------------------------------------------------------------
(* Finished work is never active, as long as the branch can be read: not   *)
(* after closing it, moving in the tree, coming back to router/auto, or by *)
(* a handoff planned before it was closed (applyEvent, touchItem,          *)
(* submitContextHandoff).                                                  *)
THEOREM FinishedIsNotActive == Spec => []ActiveIsNotDone
  <1>1. ASSUME LedgerInv PROVE ActiveIsNotDone
    <2> SUFFICES ASSUME \A i \in DOMAIN Branch : ~Branch[i].damaged, store.ledger.active # None
                 PROVE  store.ledger.items[store.ledger.active].status # "done"
      BY DEF ActiveIsNotDone
    <2>1. DOMAIN Branch = 1..Len(Branch)
      BY <1>1, BranchOK DEF LedgerInv, PlaceInv, IsTree
    <2>2. Undamaged(Path(store.tree, store.leaf))
      BY <2>1 DEF Undamaged, Branch
    <2> QED
      BY <1>1, <2>2 DEF LedgerInv, OpenInv, OpenStore, ActiveOK
  <1> QED
    BY <1>1, LedgerInit, LedgerNext, PTL DEF Spec

-----------------------------------------------------------------------------
(* How closed work comes back.                                             *)

Closed(items, id) == id \in DOMAIN items /\ items[id].status # "active"

LEMMA ApplyKeepsClosed ==
  ASSUME NEW ledger, Whole(ledger), NEW id, Closed(ledger.items, id),
         NEW event, EventForm(event) \/ event.op = "incumbent", Applies(ledger, event),
         ~(Revives(event) /\ event.item = id)
  PROVE  Closed(ApplyEvent(ledger, event).items, id)
  <1> DEFINE next == ApplyEvent(ledger, event)
             items == ledger.items
  <1>1. event.op \in ItemOps \union {"incumbent"}
    BY DEF EventForm
  <1>2. next.items = ItemsAfter(items, event) /\ (event.op # "incumbent" => Fits(items, event))
    BY <1>1, ApplyEffect DEF Whole
  <1>3. Closed(items, id) /\ DOMAIN items[id] = WorkFields
    BY DEF Whole, Full, Closed
  <1> HIDE DEF next, items
  <1>4. CASE event.op \in {"incumbent", "activate"}
    BY <1>2, <1>3, <1>4 DEF ItemsAfter, next
  <1>5. CASE event.op \notin {"incumbent", "activate"}
    <2>1. next.items = With(items, event.item, WorkAfter(items, event))
      BY <1>2, <1>5 DEF ItemsAfter
    <2>2. CASE event.item # id
      BY <2>1, <2>2, <1>3 DEF With, Closed, next
    <2>3. CASE event.item = id
      <3>1. EventForm(event) /\ event.op # "work-create"
        BY <2>3, <1>2, <1>3, <1>5 DEF Fits, Closed
      <3>2. event.op \in {"work-update", "work-close", "grounding-upsert", "served", "boundary"}
        BY <3>1, <1>5 DEF EventForm, ItemOps
      <3>3. event.op = "work-update" =>
              ApplyPatch(items[id], event.patch).status = items[id].status
        BY <2>3, <1>3 DEF ApplyPatch, Revives, WorkFields
      <3>4. WorkAfter(items, event).status # "active"
        BY <2>3, <3>1, <3>2, <3>3, <1>3 DEF WorkAfter, EventForm, Closed, WorkFields
      <3> QED
        BY <2>1, <2>3, <3>4 DEF With, Closed, next
    <2> QED
      BY <2>2, <2>3
  <1> QED
    BY <1>4, <1>5

LEMMA FoldKeepsClosed ==
  ASSUME NEW ledger, Whole(ledger), NEW id, Closed(ledger.items, id),
         NEW events, CommitForm(events),
         \A k \in 1..Len(events) : events[k] # Boundary(id, "work-reopen")
  PROVE  Closed(FoldCommit(ledger, events).ledger.items, id)
  <1>0. /\ Len(events) \in Nat
        /\ \A k \in 1..Len(events) : /\ EventForm(events[k]) \/ events[k].op = "incumbent"
                                     /\ ~(Revives(events[k]) /\ events[k].item = id)
    BY FormOps DEF CommitForm, WorkForm, Revives
  <1>1. PICK after : FoldTrace(ledger, events, after)
    BY <1>0, FoldSteps
  <1> DEFINE Ok(n) == Whole(after[n].ledger) /\ Closed(after[n].ledger.items, id)
             S == {n \in 0..Len(events) : Ok(n)}
  <1>2. ASSUME NEW n \in 0..Len(events), \A m \in 0..(n - 1) : m \in S
        PROVE  Ok(n)
    <2>1. CASE n = 0
      BY <2>1, <1>1 DEF FoldTrace
    <2>2. CASE n # 0
      <3>1. n \in 1..Len(events) /\ Ok(n - 1)
        BY <2>2, <1>2
      <3>2. after[n] = FoldedFrom(ledger, events, after[n - 1], n)
        BY <3>1, <1>1 DEF FoldTrace
      <3>3. Applies(after[n - 1].ledger, events[n]) =>
              /\ Whole(ApplyEvent(after[n - 1].ledger, events[n]))
              /\ Closed(ApplyEvent(after[n - 1].ledger, events[n]).items, id)
        BY <3>1, <1>0, ApplyWhole, ApplyKeepsClosed
      <3> QED
        BY <3>2, <3>3 DEF FoldedFrom
    <2> QED
      BY <2>1, <2>2
  <1>3. \A n \in 0..Len(events) : (\A m \in 0..(n - 1) : m \in S) => n \in S
    BY <1>2
  <1>4. 0..Len(events) \subseteq S
    <2> HIDE DEF S
    <2> QED
      BY <1>0, <1>3, UpToNumber
  <1>5. Closed(after[Len(events)].ledger.items, id)
    BY <1>0, <1>4
  <1> QED
    BY <1>1, <1>5 DEF FoldTrace

(* Whether a node after the first n records that an item was reopened.     *)
Reopens(tree, n, id) ==
  \E i \in 1..Len(tree) : /\ n < i
                          /\ \E k \in DOMAIN tree[i].events : tree[i].events[k] = Boundary(id, "work-reopen")

LEMMA CommitReopens ==
  ASSUME NEW st, StoreGood(st), Whole(st.ledger), NEW next, Commits(st, next),
         NEW id, Closed(st.ledger.items, id)
  PROVE  Closed(next.ledger.items, id) \/ Reopens(next.tree, Len(st.tree), id)
  <1>1. CASE next = st
    BY <1>1
  <1>2. ASSUME NEW from, NEW events,
               next = AppendCommit(st, from, events), CommitForm(events),
               from \in Named(st.tree, st.leaf)
        PROVE  Closed(next.ledger.items, id) \/ Reopens(next.tree, Len(st.tree), id)
    <2>1. next.ledger = FoldCommit(st.ledger, events).ledger
      BY <1>2, CommitAdds
    <2>2. /\ Len(next.tree) = Len(st.tree) + 1 /\ Len(st.tree) \in Nat
          /\ next.tree[Len(st.tree) + 1].events = events
      BY <1>2, CommitAdds
    <2>3. ASSUME NEW k \in 1..Len(events), events[k] = Boundary(id, "work-reopen")
          PROVE  Reopens(next.tree, Len(st.tree), id)
      <3>1. DOMAIN events = 1..Len(events)
        BY <1>2, FormOps DEF IsTree
      <3>2. Len(st.tree) + 1 \in 1..Len(next.tree) /\ Len(st.tree) < Len(st.tree) + 1
        BY <2>2
      <3> QED
        BY <2>2, <2>3, <3>1, <3>2 DEF Reopens
    <2> QED
      BY <1>2, <2>1, <2>3, FoldKeepsClosed
  <1> QED
    BY <1>1, <1>2 DEF Commits

(* Closed work is active again only after a reopening of it was recorded.  *)
LEMMA WriteReopens ==
  ASSUME NEW st, StoreGood(st), Whole(st.ledger), NEW next, Writes(st, next),
         NEW id, Closed(st.ledger.items, id)
  PROVE  Closed(next.ledger.items, id) \/ Reopens(next.tree, Len(st.tree), id)
  <1>1. PICK mid : Commits(st, mid) /\ Commits(mid, next)
    BY DEF Writes
  <1>2. StoreGood(mid) /\ Whole(mid.ledger) /\ StoreGood(next)
    BY <1>1, CommitsKeep
  <1>3. Closed(mid.ledger.items, id) \/ Reopens(mid.tree, Len(st.tree), id)
    BY <1>1, CommitReopens
  <1>4. Grows(st, mid) /\ Grows(mid, next)
    BY <1>1, <1>2, CommitsExtend DEF Extends
  <1>5. Len(st.tree) \in Nat /\ Len(mid.tree) \in Nat /\ Len(next.tree) \in Nat
    BY <1>2 DEF StoreGood, StoreOK, IsTree
  <1>6. CASE Closed(mid.ledger.items, id)
    <2>1. Closed(next.ledger.items, id) \/ Reopens(next.tree, Len(mid.tree), id)
      BY <1>1, <1>2, <1>6, CommitReopens
    <2> QED
      BY <2>1, <1>4, <1>5 DEF Reopens, Grows
  <1>7. CASE Reopens(mid.tree, Len(st.tree), id)
    <2>1. PICK i \in 1..Len(mid.tree) :
            /\ Len(st.tree) < i
            /\ \E k \in DOMAIN mid.tree[i].events : mid.tree[i].events[k] = Boundary(id, "work-reopen")
      BY <1>7 DEF Reopens
    <2>2. i \in 1..Len(next.tree) /\ next.tree[i].events = mid.tree[i].events
      BY <2>1, <1>4, <1>5 DEF Grows, NodeFields
    <2> QED
      BY <2>1, <2>2 DEF Reopens
  <1> QED
    BY <1>3, <1>6, <1>7

(* Done work becomes active again only by a step that records a reopening  *)
(* of it, or by going back to a branch where it was not done               *)
(* (reopenEvents, submitContextHandoff, submitReopenWork).                 *)
THEOREM ReopeningIsRecorded == Spec => ReopenRecorded
  <1> DEFINE Step == \A id \in DOMAIN store.ledger.items \cap DOMAIN store.ledger'.items :
                       (store.ledger.items[id].status = "done" /\ store.ledger'.items[id].status = "active"
                          /\ Len(store'.tree) > Len(store.tree) /\ auto' = auto)
                         => \E at \in Events(store'.tree) :
                              at[1] > Len(store.tree) /\ at[2] = Boundary(id, "work-reopen")
  <1>1. ASSUME EntryInv, SettleInv, LedgerInv, [Next]_vars PROVE Step
    <2> SUFFICES ASSUME NEW id \in DOMAIN store.ledger.items \cap DOMAIN store.ledger'.items,
                        store.ledger.items[id].status = "done", store.ledger'.items[id].status = "active",
                        Len(store'.tree) > Len(store.tree), auto' = auto
                 PROVE  \E at \in Events(store'.tree) :
                          at[1] > Len(store.tree) /\ at[2] = Boundary(id, "work-reopen")
      OBVIOUS
    <2>1. /\ PlaceInv /\ ShownInv /\ ForeignInv /\ FlightInv /\ PlanInv /\ FoldInv
          /\ StoreGood(store) /\ Whole(store.ledger) /\ Len(store.tree) \in Nat
      BY <1>1 DEF LedgerInv, FoldInv, PlaceInv, StoreGood, StoreOK, IsTree
    <2>2. /\ Closed(store.ledger.items, id) /\ ~Closed(store'.ledger.items, id)
          /\ store'.ledger # store.ledger
      BY DEF Closed
    <2>3. CASE Writes(store, store')
      <3>1. StoreGood(store') /\ Reopens(store'.tree, Len(store.tree), id)
        BY <2>1, <2>2, <2>3, WriteReopens, WritesKeep
      <3>2. PICK i \in 1..Len(store'.tree) :
              /\ Len(store.tree) < i
              /\ \E k \in DOMAIN store'.tree[i].events : store'.tree[i].events[k] = Boundary(id, "work-reopen")
        BY <3>1 DEF Reopens
      <3>3. PICK k \in DOMAIN store'.tree[i].events : store'.tree[i].events[k] = Boundary(id, "work-reopen")
        BY <3>2
      <3>4. i \in DOMAIN store'.tree
        BY <3>1 DEF StoreGood, StoreOK, IsTree
      <3> DEFINE at == <<i, store'.tree[i].events[k]>>
      <3>5. at \in Events(store'.tree)
        BY <3>3, <3>4 DEF Events
      <3>6. at[1] > Len(store.tree) /\ at[2] = Boundary(id, "work-reopen")
        BY <2>1, <3>2, <3>3
      <3> HIDE DEF at
      <3> QED
        BY <3>5, <3>6
    <2>4. CASE SendsStep
      BY <1>1, <2>1, <2>2, <2>4, SendsEffect DEF SendsStep
    <2>5. CASE NavigatesStep
      BY <1>1, <2>1, <2>5, NavigateEffect DEF NavigatesStep
    <2>6. CASE SelectModel
      <3>1. auto' = ~auto
        BY <2>6 DEF SelectModel
      <3>2. auto = TRUE \/ auto = FALSE
        BY <2>1 DEF FoldInv
      <3>3. auto' # auto
        <4>1. CASE auto = TRUE
          BY <3>1, <4>1
        <4>2. CASE auto = FALSE
          BY <3>1, <4>2
        <4> QED
          BY <3>2, <4>1, <4>2
      <3> QED
        BY <3>3
    <2>7. CASE RestartsStep
      <3>1. PlaceInv'
        BY <1>1, <2>1, PlaceNext
      <3> QED
        BY <1>1, <2>1, <2>7, <3>1, RestartEffect DEF RestartsStep
    <2> QED
      BY <1>1, <2>1, <2>3, <2>4, <2>5, <2>6, <2>7, StoreChanges
  <1> QED
    BY <1>1, LedgerInit, LedgerNext, PTL DEF Spec, ReopenRecorded

-----------------------------------------------------------------------------
(* A handoff records work that rests on its files as they were measured.    *)
(* Every file is named as a reference, so what a handoff requires is every  *)
(* file the work names; what was measured stays true of the work items      *)
(* because they do not change while a handoff or a reopening of this run    *)
(* waits, and the commit grounds only what was read, as it was read.        *)

Grounded(work, measured) ==
  \A p \in DOMAIN work.anchors : p \in DOMAIN measured /\ RestsOn(work.grounding, measured[p], p)

LEMMA ReferencesAreRequired ==
  /\ \A byPath : Referenced(byPath) =>
       /\ \A a \in Anchors(byPath) : a.role = "reference"
       /\ {a.path : a \in Anchors(byPath)} = DOMAIN byPath
  /\ \A anchors : (\A a \in anchors : a.role = "reference") =>
       ReferencedArtifactPaths(anchors) = {a.path : a \in anchors}
  <1>1. ASSUME NEW byPath, Referenced(byPath)
        PROVE  /\ \A a \in Anchors(byPath) : a.role = "reference"
               /\ {a.path : a \in Anchors(byPath)} = DOMAIN byPath
    <2> DEFINE anchor(p) == [path |-> p, role |-> byPath[p].role, source |-> byPath[p].source]
    <2>1. Anchors(byPath) = {anchor(p) : p \in DOMAIN byPath}
      BY DEF Anchors
    <2>2. \A p \in DOMAIN byPath : anchor(p).path = p /\ anchor(p).role = "reference"
      BY <1>1 DEF Referenced
    <2> HIDE DEF anchor
    <2> QED
      BY <2>1, <2>2
  <1>2. ASSUME NEW anchors, \A a \in anchors : a.role = "reference"
        PROVE  ReferencedArtifactPaths(anchors) = {a.path : a \in anchors}
    <2> DEFINE referencing == {a \in anchors : a.role \in ReferenceRoles}
               user == {a \in anchors : a.source = "user"}
    <2>1. referencing = anchors
      BY <1>2 DEF ReferenceRoles
    <2>2. (IF user \intersect referencing # {} THEN user \intersect referencing ELSE user)
            \union (referencing \ user) = anchors
      BY <2>1
    <2> HIDE DEF referencing, user
    <2> QED
      BY <2>2 DEF ReferencedArtifactPaths, referencing, user
  <1> QED
    BY <1>1, <1>2

(* What one event about a work item does to the files it names and has      *)
(* grounded.                                                                *)
LEMMA EventGrounds ==
  ASSUME NEW ledger, Whole(ledger), NEW event, EventForm(event), Applies(ledger, event)
  PROVE  LET id == event.item
             items == ApplyEvent(ledger, event).items
         IN  /\ id \in DOMAIN items
             /\ id \in DOMAIN ledger.items =>
                  /\ DOMAIN items[id].anchors \subseteq DOMAIN ledger.items[id].anchors \union Adds(event)
                  /\ items[id].grounding = IF event.op = "grounding-upsert"
                                             THEN With(ledger.items[id].grounding, event.path, event.version)
                                             ELSE ledger.items[id].grounding
             /\ id \notin DOMAIN ledger.items => DOMAIN items[id].anchors = Adds(event)
             /\ event.op = "grounding-upsert" => id \in DOMAIN ledger.items
  <1> DEFINE id == event.item
             old == ledger.items[id]
             items == ApplyEvent(ledger, event).items
             work == WorkAfter(ledger.items, event)
  <1>1. /\ event.op \in ItemOps
        /\ items = ItemsAfter(ledger.items, event) /\ Fits(ledger.items, event)
    BY ApplyEffect DEF EventForm, Whole, ItemOps
  <1>2. CASE event.op = "activate"
    BY <1>1, <1>2 DEF ItemsAfter, Fits, Adds
  <1>3. CASE event.op = "work-create"
    <2>1. work = event.work /\ id \notin DOMAIN ledger.items /\ Adds(event) = DOMAIN event.work.anchors
      BY <1>1, <1>3 DEF WorkAfter, Fits, Adds
    <2>2. items = With(ledger.items, id, work)
      BY <1>1, <1>3 DEF ItemsAfter
    <2> HIDE DEF work, items
    <2>3. id \in DOMAIN items /\ items[id] = work
      BY <2>2 DEF With
    <2> QED
      BY <1>3, <2>1, <2>3 DEF items
  <1>4. CASE event.op \notin {"activate", "work-create"}
    <2>1. id \in DOMAIN ledger.items /\ DOMAIN old = WorkFields
      BY <1>1, <1>4 DEF Fits, Whole, Full
    <2>2. items = With(ledger.items, id, work)
      BY <1>1, <1>4 DEF ItemsAfter, ItemOps
    <2>3. /\ event.op = "work-update" => work = ApplyPatch(old, event.patch) /\ PatchOK(event.patch)
          /\ event.op # "work-update" => work.anchors = old.anchors
          /\ event.op # "grounding-upsert" /\ event.op # "work-update" => work.grounding = old.grounding
          /\ event.op = "grounding-upsert" => work.grounding = With(old.grounding, event.path, event.version)
      <3> HIDE DEF old
      <3>1. event.op \in {"work-update", "work-close", "grounding-upsert", "served", "boundary"}
        BY <1>1, <1>4 DEF ItemOps
      <3>2. work = IF event.op = "work-update" THEN ApplyPatch(old, event.patch)
                   ELSE IF event.op = "work-close" THEN [old EXCEPT !.status = event.status]
                   ELSE IF event.op = "grounding-upsert"
                          THEN [old EXCEPT !.grounding = With(@, event.path, event.version)]
                   ELSE IF event.op = "served" THEN [old EXCEPT !.served = event.model]
                   ELSE IF event.boundary = "investigation-handoff" THEN [old EXCEPT !.open = {}] ELSE old
        BY <3>1 DEF WorkAfter, old
      <3>3. event.op = "work-update" => PatchOK(event.patch)
        BY DEF EventForm
      <3> HIDE DEF work
      <3> QED
        BY <2>1, <3>1, <3>2, <3>3 DEF WorkFields
    <2>4. event.op = "work-update" =>
            /\ DOMAIN work.anchors \subseteq DOMAIN old.anchors \union Adds(event)
            /\ work.grounding = old.grounding
      <3> HIDE DEF work, old
      <3> SUFFICES ASSUME event.op = "work-update"
                   PROVE  /\ DOMAIN work.anchors \subseteq DOMAIN old.anchors \union Adds(event)
                          /\ work.grounding = old.grounding
        OBVIOUS
      <3>1. work.grounding = old.grounding
        BY <2>1, <2>3 DEF ApplyPatch, PatchOK, WorkFields
      <3>2. work.anchors = IF "anchors" \in DOMAIN event.patch
                             THEN MergeAnchors(old.anchors, event.patch.anchors) ELSE old.anchors
        BY <2>1, <2>3 DEF ApplyPatch, WorkFields
      <3>3. \A added : DOMAIN MergeAnchors(old.anchors, added) = DOMAIN old.anchors \union DOMAIN added
        BY DEF MergeAnchors
      <3> QED
        BY <3>1, <3>2, <3>3 DEF Adds
    <2>5. work.grounding = IF event.op = "grounding-upsert"
                             THEN With(old.grounding, event.path, event.version) ELSE old.grounding
      <3> HIDE DEF work, old
      <3> QED
        BY <2>3, <2>4
    <2> HIDE DEF work, items
    <2>6. id \in DOMAIN items /\ items[id] = work
      BY <2>2 DEF With
    <2> QED
      BY <2>1, <2>3, <2>4, <2>5, <2>6 DEF items
  <1> QED
    BY <1>2, <1>3, <1>4

(* The files that were measured and found met by what was read, with what   *)
(* was grounded before; a commit about work that names only such files.     *)
Covered(items, id, read, measured) ==
  {p \in DOMAIN measured : RestsOn(KnownOf(items, id, read), measured[p], p)}

MeasuredFor(items, id, read, measured, events) ==
  /\ id \in DOMAIN items \/ (Len(events) > 0 /\ events[1].op = "work-create")
  /\ id \in DOMAIN items => DOMAIN items[id].anchors \subseteq Covered(items, id, read, measured)
  /\ About(events, id, Covered(items, id, read, measured), read)

Lists(events, read) ==
  \A p \in DOMAIN read : \E k \in 1..Len(events) :
    events[k].op = "grounding-upsert" /\ events[k].path = p

LEMMA FoldGrounds ==
  ASSUME NEW ledger, Whole(ledger), NEW events, WorkForm(events), NEW id, NEW read, NEW measured,
         MeasuredFor(ledger.items, id, read, measured, events), Lists(events, read),
         FoldCommit(ledger, events).ok
  PROVE  LET items == FoldCommit(ledger, events).ledger.items
         IN  id \in DOMAIN items /\ Grounded(items[id], measured)
  <1> DEFINE covered == Covered(ledger.items, id, read, measured)
             known == KnownOf(ledger.items, id, read)
             before == DOMAIN known \ DOMAIN read
  <1>0. /\ Len(events) \in Nat
        /\ \A k \in 1..Len(events) : EventForm(events[k]) /\ events[k].item = id
                                       /\ Adds(events[k]) \subseteq covered /\ Told(events[k], read)
    BY FormOps DEF WorkForm, CommitForm, MeasuredFor, About
  <1>1. PICK after : FoldTrace(ledger, events, after)
    BY <1>0, FoldSteps
  <1>9. /\ \A p \in DOMAIN read : p \in DOMAIN known /\ known[p] = read[p]
        /\ id \in DOMAIN ledger.items =>
             \A p \in before : p \in DOMAIN ledger.items[id].grounding
                               /\ known[p] = ledger.items[id].grounding[p]
        /\ id \notin DOMAIN ledger.items => before = {}
    BY DEF KnownOf, Over
  <1> HIDE DEF known
  <1> DEFINE Holds(g, n) ==
               /\ \A p \in before : p \in DOMAIN g /\ g[p] = known[p]
               /\ \A k \in 1..n : events[k].op = "grounding-upsert" =>
                    events[k].path \in DOMAIN g /\ g[events[k].path] = read[events[k].path]
             Good(items, n) ==
               /\ id \in DOMAIN items =>
                    DOMAIN items[id].anchors \subseteq covered /\ Holds(items[id].grounding, n)
               /\ id \in DOMAIN ledger.items \/ n > 0 => id \in DOMAIN items
             Ok(n) == after[n].ok => Whole(after[n].ledger) /\ Good(after[n].ledger.items, n)
             S == {n \in 0..Len(events) : Ok(n)}
  <1>2. ASSUME NEW n \in 0..Len(events), \A m \in 0..(n - 1) : m \in S
        PROVE  Ok(n)
    <2>1. CASE n = 0
      <3>1. after[0].ledger = ledger
        BY <1>1 DEF FoldTrace
      <3> HIDE DEF covered
      <3>2. id \in DOMAIN ledger.items => DOMAIN ledger.items[id].anchors \subseteq covered
        BY DEF MeasuredFor, covered
      <3>3. id \in DOMAIN ledger.items => Holds(ledger.items[id].grounding, 0)
        BY <1>9
      <3> HIDE DEF Holds
      <3> QED
        BY <2>1, <3>1, <3>2, <3>3
    <2>2. CASE n # 0
      <3> DEFINE was == after[n - 1].ledger
                 event == events[n]
                 next == ApplyEvent(was, event)
      <3>1. n \in 1..Len(events) /\ Ok(n - 1)
        BY <2>2, <1>2
      <3>2. after[n] = FoldedFrom(ledger, events, after[n - 1], n)
        BY <3>1, <1>1 DEF FoldTrace
      <3>3. SUFFICES ASSUME after[n].ok PROVE Whole(after[n].ledger) /\ Good(after[n].ledger.items, n)
        OBVIOUS
      <3>4. after[n - 1].ok /\ Applies(was, event) /\ after[n].ledger = next
        BY <3>2, <3>3 DEF FoldedFrom
      <3>5. Whole(was) /\ Good(was.items, n - 1) /\ EventForm(event) /\ event.item = id
            /\ Adds(event) \subseteq covered /\ Told(event, read)
        BY <3>1, <3>4, <1>0
      <3> HIDE DEF was, covered, Holds
      <3>6. Whole(next)
        <4> HIDE DEF event
        <4> QED
          BY <3>4, <3>5, ApplyWhole
      <3>7. /\ id \in DOMAIN next.items
            /\ id \in DOMAIN was.items =>
                  /\ DOMAIN next.items[id].anchors \subseteq DOMAIN was.items[id].anchors \union Adds(event)
                  /\ next.items[id].grounding = IF event.op = "grounding-upsert"
                                                  THEN With(was.items[id].grounding, event.path, event.version)
                                                  ELSE was.items[id].grounding
            /\ id \notin DOMAIN was.items => DOMAIN next.items[id].anchors = Adds(event)
            /\ event.op = "grounding-upsert" => id \in DOMAIN was.items
        <4> HIDE DEF event
        <4> QED
          BY <3>4, <3>5, EventGrounds
      <3>8. id \notin DOMAIN was.items => id \notin DOMAIN ledger.items /\ n = 1
        BY <3>1, <3>5
      <3> HIDE DEF next
      <3>9. DOMAIN next.items[id].anchors \subseteq covered
        BY <3>5, <3>7
      <3>10. Holds(next.items[id].grounding, n)
        <4>1. CASE id \in DOMAIN was.items
          <5> DEFINE g == was.items[id].grounding
                     h == next.items[id].grounding
          <5>1. Holds(g, n - 1)
            BY <3>5, <4>1
          <5>2. h = IF event.op = "grounding-upsert" THEN With(g, event.path, event.version) ELSE g
            BY <3>7, <4>1
          <5> HIDE DEF g, h
          <5>3. /\ \A p \in DOMAIN g : p \in DOMAIN h
                /\ \A p \in DOMAIN g : h[p] = g[p] \/ (event.op = "grounding-upsert" /\ p = event.path)
                /\ event.op = "grounding-upsert" =>
                     /\ event.path \in DOMAIN h /\ h[event.path] = event.version
                     /\ event.path \in DOMAIN read /\ event.version = read[event.path]
            BY <3>5, <5>2 DEF With, Told
          <5>4. \A p \in before : p \in DOMAIN h /\ h[p] = known[p]
            BY <5>1, <5>3 DEF Holds
          <5>5. ASSUME NEW k \in 1..n, events[k].op = "grounding-upsert"
                PROVE  events[k].path \in DOMAIN h /\ h[events[k].path] = read[events[k].path]
            <6>1. CASE k = n
              BY <5>3, <5>5, <6>1
            <6>2. CASE k # n
              <7>1. k \in 1..(n - 1)
                BY <3>1, <6>2
              <7>2. events[k].path \in DOMAIN g /\ g[events[k].path] = read[events[k].path]
                BY <5>1, <5>5, <7>1 DEF Holds
              <7> QED
                BY <5>3, <7>2
            <6> QED
              BY <6>1, <6>2
          <5>6. Holds(h, n)
            BY <5>4, <5>5 DEF Holds
          <5> QED
            BY <5>6 DEF h
        <4>2. CASE id \notin DOMAIN was.items
          <5>1. before = {} /\ event.op # "grounding-upsert" /\ n = 1
            BY <1>9, <3>7, <3>8, <4>2
          <5> QED
            BY <5>1 DEF Holds
        <4> QED
          BY <4>1, <4>2
      <3> HIDE DEF event
      <3> QED
        BY <3>4, <3>6, <3>7, <3>9, <3>10
    <2> QED
      BY <2>1, <2>2
  <1>3. \A n \in 0..Len(events) : (\A m \in 0..(n - 1) : m \in S) => n \in S
    BY <1>2
  <1>4. 0..Len(events) \subseteq S
    <2> HIDE DEF S
    <2> QED
      BY <1>0, <1>3, UpToNumber
  <1>5. FoldCommit(ledger, events) = after[Len(events)]
    BY <1>1 DEF FoldTrace
  <1> DEFINE items == FoldCommit(ledger, events).ledger.items
             g == items[id].grounding
  <1>6. Good(items, Len(events))
    <2> HIDE DEF Good
    <2> QED
      BY <1>0, <1>4, <1>5
  <1> HIDE DEF Ok, S
  <1>7. id \in DOMAIN items
    BY <1>0, <1>6 DEF MeasuredFor
  <1>8. DOMAIN items[id].anchors \subseteq covered /\ Holds(g, Len(events))
    <2> HIDE DEF covered, Holds
    <2> QED
      BY <1>6, <1>7
  <1> HIDE DEF g
  <1>10. \A p \in DOMAIN known : p \in DOMAIN g /\ g[p] = known[p]
    BY <1>8, <1>9 DEF Lists
  <1>11. \A p \in covered : p \in DOMAIN measured /\ RestsOn(g, measured[p], p)
    BY <1>10 DEF Covered, RestsOn, known
  <1> HIDE DEF covered, items
  <1> QED
    BY <1>7, <1>8, <1>11 DEF Grounded, g, items

(* Events about a work item the ledger holds apply, if none creates it.     *)
LEMMA FoldApplies ==
  ASSUME NEW ledger, Whole(ledger), NEW events, WorkForm(events), NEW id \in DOMAIN ledger.items,
         \A k \in 1..Len(events) : events[k].item = id /\ events[k].op # "work-create"
  PROVE  FoldCommit(ledger, events).ok
  <1>0. /\ Len(events) \in Nat
        /\ \A k \in 1..Len(events) : EventForm(events[k])
    BY FormOps DEF WorkForm, CommitForm
  <1>1. PICK after : FoldTrace(ledger, events, after)
    BY <1>0, FoldSteps
  <1> DEFINE Ok(n) == after[n].ok /\ Whole(after[n].ledger) /\ id \in DOMAIN after[n].ledger.items
             S == {n \in 0..Len(events) : Ok(n)}
  <1>2. ASSUME NEW n \in 0..Len(events), \A m \in 0..(n - 1) : m \in S
        PROVE  Ok(n)
    <2>1. CASE n = 0
      BY <2>1, <1>1 DEF FoldTrace
    <2>2. CASE n # 0
      <3> DEFINE was == after[n - 1].ledger
                 event == events[n]
      <3>1. n \in 1..Len(events) /\ Ok(n - 1)
        BY <2>2, <1>2
      <3>2. after[n] = FoldedFrom(ledger, events, after[n - 1], n)
        BY <3>1, <1>1 DEF FoldTrace
      <3>3. EventForm(event) /\ event.item = id /\ event.op # "work-create"
        BY <3>1, <1>0
      <3>4. Applies(was, event)
        BY <3>1, <3>3, ApplyEffect DEF EventForm, ItemOps, Fits, Whole
      <3>5. /\ Whole(ApplyEvent(was, event)) /\ id \in DOMAIN ApplyEvent(was, event).items
        BY <3>1, <3>3, <3>4, ApplyWhole, EventGrounds
      <3> QED
        BY <3>1, <3>2, <3>4, <3>5 DEF FoldedFrom
    <2> QED
      BY <2>1, <2>2
  <1>3. \A n \in 0..Len(events) : (\A m \in 0..(n - 1) : m \in S) => n \in S
    BY <1>2
  <1>4. 0..Len(events) \subseteq S
    <2> HIDE DEF S
    <2> QED
      BY <1>0, <1>3, UpToNumber
  <1> QED
    BY <1>0, <1>1, <1>4 DEF FoldTrace

(* The record of who served leaves the work items alone.                    *)
Serving(inc) == <<[op |-> "incumbent", incumbent |-> inc]>>

LEMMA IncumbentKeepsItems ==
  ASSUME NEW st, StoreOK(st), Whole(st.ledger), NEW from, NEW inc
  PROVE  AppendCommit(st, from, Serving(inc)).ledger.items = st.ledger.items
  <1> DEFINE event == [op |-> "incumbent", incumbent |-> inc]
             events == <<event>>
             folded == FoldCommit(st.ledger, events)
  <1>1. events[1].op = "incumbent" /\ Len(events) = 1
    OBVIOUS
  <1> HIDE DEF events
  <1>2. PICK after : FoldTrace(st.ledger, events, after)
    BY <1>1, FoldSteps
  <1>3. folded = FoldedFrom(st.ledger, events, after[0], 1) /\ after[0].ledger = st.ledger
    BY <1>1, <1>2 DEF FoldTrace
  <1>4. Applies(st.ledger, events[1]) =>
          ApplyEvent(st.ledger, events[1]).items = st.ledger.items
    BY <1>1, ApplyEffect DEF Whole, ItemsAfter
  <1>5. folded.ledger.items = st.ledger.items
    BY <1>3, <1>4 DEF FoldedFrom
  <1>6. DOMAIN st.ledger = LedgerFields
    BY DEF Whole, Fields
  <1> HIDE DEF folded
  <1>7. AppendCommit(st, from, events).ledger.items = st.ledger.items
    BY <1>5 DEF AppendCommit, AddEntry, folded
  <1> QED
    BY <1>7 DEF events, Serving

(* The upserts of what was read ground every file of it.                    *)
LEMMA UpsertsList ==
  ASSUME NEW id, NEW read, IsFiniteSet(DOMAIN read)
  PROVE  Lists(Upserts(id, read), read) /\ About(Upserts(id, read), id, {}, read)
  <1> DEFINE S == DOMAIN read
             paths == SetToSeq(S)
             n == Cardinality(S)
  <1>1. n \in Nat /\ \E f \in [1..n -> S] : IsInjective(f)
    <2>1. n \in Nat /\ ExistsBijection(1..n, S)
      BY FS_CardinalityType
    <2> QED
      BY <2>1 DEF ExistsBijection, Bijection, Injection, IsInjective
  <1>2. paths \in [1..n -> S] /\ IsInjective(paths)
    BY <1>1 DEF SetToSeq
  <1>3. IsFiniteSet(S)
    OBVIOUS
  <1> HIDE DEF paths, n, S
  <1>4. paths \in Injection(1..n, S)
    BY <1>2 DEF Injection, IsInjective
  <1>5. Cardinality(1..n) = n /\ Cardinality(S) = n
    <2>1. 1 \in Int /\ n \in Int /\ n \in Nat
      BY <1>1
    <2>2. Cardinality(1..n) = IF 1 > n THEN 0 ELSE n - 1 + 1
      BY <2>1, FS_Interval
    <2> QED
      BY <2>1, <2>2 DEF n
  <1>6. paths \in Surjection(1..n, S)
    BY <1>3, <1>4, <1>5, FS_Injection
  <1>7. Upserts(id, read) = [i \in 1..n |-> GroundingUpsert(id, paths[i], read[paths[i]], "read")]
    BY <1>2 DEF Upserts, paths, S
  <1>8. Len(Upserts(id, read)) = n
    BY <1>1, <1>7
  <1>9. \A k \in 1..n : /\ Upserts(id, read)[k].item = id /\ Upserts(id, read)[k].path = paths[k]
                        /\ Upserts(id, read)[k].op = "grounding-upsert"
                        /\ Upserts(id, read)[k].version = read[paths[k]] /\ paths[k] \in S
    BY <1>2, <1>7 DEF GroundingUpsert
  <1>10. \A p \in S : \E k \in 1..n : paths[k] = p
    BY <1>6 DEF Surjection
  <1> QED
    BY <1>8, <1>9, <1>10 DEF Lists, About, Adds, Told, S

LEMMA MeasuredJoins ==
  ASSUME NEW items, NEW id, NEW read, NEW measured, NEW s, IsTree(s),
         MeasuredFor(items, id, read, measured, s),
         NEW t, IsTree(t), About(t, id, {}, read)
  PROVE  /\ MeasuredFor(items, id, read, measured, s \o t)
         /\ Lists(s, read) \/ Lists(t, read) => Lists(s \o t, read)
  <1> DEFINE u == s \o t
             covered == Covered(items, id, read, measured)
  <1>1. /\ IsTree(u) /\ Len(u) = Len(s) + Len(t) /\ Len(s) \in Nat /\ Len(t) \in Nat
        /\ \A i \in 1..Len(s) : i \in 1..Len(u) /\ u[i] = s[i]
        /\ \A i \in 1..Len(u) : \/ i \in 1..Len(s) /\ u[i] = s[i]
                                \/ i - Len(s) \in 1..Len(t) /\ u[i] = t[i - Len(s)]
    BY JoinIs
  <1> HIDE DEF u, covered
  <1>2. \A k \in 1..Len(t) : Len(s) + k \in 1..Len(u) /\ u[Len(s) + k] = t[k]
    <2> TAKE k \in 1..Len(t)
    <2>1. Len(s) + k \in 1..Len(u) /\ ~(Len(s) + k \in 1..Len(s)) /\ (Len(s) + k) - Len(s) = k
      BY <1>1
    <2> QED
      BY <1>1, <2>1
  <1>3. About(u, id, covered, read)
    BY <1>1 DEF About, MeasuredFor, covered
  <1>4. Len(s) > 0 => Len(u) > 0 /\ u[1] = s[1]
    BY <1>1
  <1>5. MeasuredFor(items, id, read, measured, u)
    BY <1>3, <1>4 DEF MeasuredFor, covered
  <1>6. Lists(s, read) => Lists(u, read)
    BY <1>1 DEF Lists
  <1>7. Lists(t, read) => Lists(u, read)
    <2> SUFFICES ASSUME Lists(t, read), NEW p \in DOMAIN read
                 PROVE  \E k \in 1..Len(u) : u[k].op = "grounding-upsert" /\ u[k].path = p
      BY DEF Lists
    <2>1. PICK k \in 1..Len(t) : t[k].op = "grounding-upsert" /\ t[k].path = p
      BY DEF Lists
    <2> QED
      BY <1>2, <2>1
  <1> QED
    BY <1>5, <1>6, <1>7 DEF u

(* The work item the present entry may reopen.                              *)
Looked(state) == IF state.completion # None THEN state.completion.item ELSE state.prior

(* A flying handoff nothing was unmet for is about work whose files were    *)
(* met as they were measured; so is a flying reopening as long as its run   *)
(* waits.                                                                   *)
ReadyInv ==
  /\ Live(run.fly) /\ run.fly.kind = "handoff" /\ run.fly.plan # NoPlan /\ run.fly.unmet = {} =>
       MeasuredFor(store.ledger.items, run.fly.plan.item, run.fly.read, run.fly.measured,
                   run.fly.plan.events)
  /\ run.fly # None /\ run.fly.kind = "reopen" /\ run.calls > 0 =>
       /\ run.pc \in {"tools", "stop"}
       /\ phase # None /\ phase.pending # None /\ run.fly.unmet = {} =>
            DOMAIN store.ledger.items[Looked(phase)].anchors
              \subseteq Covered(store.ledger.items, Looked(phase), run.fly.read, run.fly.measured)

(* What a handoff accepted for selected work, or a reopening, records.      *)
LEMMA HandOffGrounds ==
  ASSUME EntryInv, ShownInv, FlightInv, FoldInv, ReadyInv, NEW persisted, SubmitHandOff(persisted),
         phase # None, phase.pending # None, phase' # None, phase'.status = "ready-pending",
         phase'.pending = None
  PROVE  /\ phase'.item \in DOMAIN store'.ledger.items
         /\ Grounded(store'.ledger.items[phase'.item], run.fly.measured)
  <1> DEFINE fly == run.fly
             selected == phase.pending # None
             item == IF selected THEN fly.plan.item ELSE phase.item
             planned == IF selected THEN fly.plan.events \o Upserts(item, fly.read) ELSE <<>>
             held == \/ item \in DOMAIN store.ledger.items
                     \/ \E i \in DOMAIN planned : planned[i].op = "work-create"
             last == IF item # None /\ held THEN <<Boundary(item, "investigation-handoff")>> ELSE <<>>
             events == planned \o last
             from == IF selected THEN phase.pending.source ELSE SourceOrKey(phase.key)
             entered == IF selected THEN [phase EXCEPT !.pending = None, !.provisional = <<>>, !.item = item]
                        ELSE phase
             refused == ~(phase = None \/ ~OpenForHandoff \/ fly.error) /\ fly.unmet # {}
             unplanned == selected /\ (fly.plan = NoPlan \/ session.gen # fly.gen)
             accepted == /\ ~(phase = None \/ ~OpenForHandoff \/ fly.error)
                         /\ ~refused /\ ~unplanned
                         /\ events # <<>> => CanAppend(store, events)
                         /\ store' = IF events = <<>> THEN store ELSE AppendCommit(store, from, events)
                         /\ phase' = [AcceptContextHandoff(entered, fly.deliverable)
                                        EXCEPT !.prior = None, !.completion = None]
  <1>1. /\ fly # None /\ fly.kind = "handoff"
        /\ PhaseOK(phase) /\ StoreOK(store) /\ Whole(store.ledger)
    BY DEF SubmitHandOff, EntryInv, ShapeInv, FoldInv
  <1>2. phase' = CountDenial(phase) \/ phase' = phase \/ accepted
    BY ZenonT(60) DEF SubmitHandOff
  <1>3. CountDenial(phase).pending = phase.pending
    BY <1>1 DEF CountDenial, PhaseOK, PhaseFields
  <1>4. accepted
    BY <1>2, <1>3
  <1>5. phase'.item = item /\ item = fly.plan.item
    BY <1>1, <1>4 DEF AcceptContextHandoff, PhaseOK, PhaseFields
  <1>6. MeasuredFor(store.ledger.items, item, fly.read, fly.measured, fly.plan.events)
    BY <1>1, <1>4 DEF ReadyInv, Live
  <1>7. WorkForm(fly.plan.events) /\ IsFiniteSet(DOMAIN fly.read)
    BY <1>1, LedgerAssumption, FS_Subset DEF FlightInv, ShownInv, FlyOK, ReadsOK
  <1>8. /\ PlainList(Upserts(item, fly.read)) /\ Lists(Upserts(item, fly.read), fly.read)
        /\ About(Upserts(item, fly.read), item, {}, fly.read)
    <2> HIDE DEF item
    <2>1. IsFiniteSet(DOMAIN fly.read)
      BY <1>7
    <2>2. PlainList(Upserts(item, fly.read))
      BY <2>1, UpsertsPlain
    <2> QED
      BY <2>1, <2>2, UpsertsList
  <1>9. planned = fly.plan.events \o Upserts(item, fly.read)
    OBVIOUS
  <1> HIDE DEF item, planned
  <1>0. /\ \A list : WorkForm(list) => IsTree(list)
        /\ \A list : PlainList(list) => IsTree(list)
    BY DEF WorkForm, PlainList
  <1>10. /\ WorkForm(planned) /\ Lists(planned, fly.read)
         /\ MeasuredFor(store.ledger.items, item, fly.read, fly.measured, planned)
    <2>1. WorkForm(planned)
      BY <1>7, <1>8, <1>9, FormJoins
    <2> HIDE DEF fly
    <2>2. IsTree(fly.plan.events) /\ IsTree(Upserts(item, fly.read))
      BY <1>0, <1>7, <1>8 DEF fly
    <2> QED
      BY <1>6, <1>8, <1>9, <2>1, <2>2, MeasuredJoins DEF fly
  <1>11. /\ PlainList(last)
         /\ About(last, item, {}, fly.read)
    <2> DEFINE e == Boundary(item, "investigation-handoff")
    <2>1. Plain(e) /\ e.item = item /\ Adds(e) = {} /\ Told(e, fly.read)
      BY DEF Boundary, Plain, Adds, Told
    <2> HIDE DEF e
    <2>2. About(<<e>>, item, {}, fly.read) /\ About(<<>>, item, {}, fly.read)
      BY <2>1 DEF About
    <2> QED
      BY <2>1, <2>2, ListedForms DEF e
  <1> HIDE DEF last
  <1>12. /\ WorkForm(events) /\ Lists(events, fly.read)
         /\ MeasuredFor(store.ledger.items, item, fly.read, fly.measured, events)
    <2>1. WorkForm(events)
      BY <1>10, <1>11, FormJoins
    <2>2. IsTree(planned) /\ IsTree(last)
      BY <1>0, <1>10, <1>11
    <2> HIDE DEF fly
    <2> QED
      BY <1>10, <1>11, <2>1, <2>2, MeasuredJoins DEF fly
  <1> HIDE DEF events
  <1> DEFINE folded == FoldCommit(store.ledger, events)
  <1>13. folded.ok
    <2>1. CASE events = <<>>
      <3>1. PICK after : FoldTrace(store.ledger, events, after)
        BY <2>1, FoldSteps
      <3> QED
        BY <2>1, <3>1 DEF FoldTrace
    <2>2. CASE events # <<>>
      BY <2>2, <1>4 DEF CanAppend
    <2> QED
      BY <2>1, <2>2
  <1>14. item \in DOMAIN folded.ledger.items /\ Grounded(folded.ledger.items[item], fly.measured)
    BY <1>1, <1>12, <1>13, FoldGrounds
  <1>15. store'.ledger = folded.ledger
    <2>1. CASE events = <<>>
      <3>1. PICK after : FoldTrace(store.ledger, events, after)
        BY <2>1, FoldSteps
      <3> QED
        BY <2>1, <3>1, <1>4 DEF FoldTrace
    <2>2. CASE events # <<>>
      BY <2>2, <1>1, <1>4 DEF AppendCommit, AddEntry, StoreOK
    <2> QED
      BY <2>1, <2>2
  <1> QED
    BY <1>5, <1>14, <1>15

LEMMA ReopenGrounds ==
  ASSUME EntryInv, ShownInv, FoldInv, ReadyInv, NEW persisted, SubmitReopen(persisted), run.calls > 0,
         phase # None, phase.pending # None, phase'.pending = None
  PROVE  /\ phase'.item \in DOMAIN store'.ledger.items
         /\ Grounded(store'.ledger.items[phase'.item], run.fly.measured)
  <1> DEFINE fly == run.fly
             target == IF phase = None THEN None ELSE ReopenTarget(store.ledger, phase)
             from == SourceOrKey(phase.key)
             owner == IF store.ledger.incumbent # None THEN store.ledger.incumbent.model ELSE session.served
             inc == [model |-> owner, dimension |-> fly.deliverable, item |-> target]
             patch == [deliverable |-> fly.deliverable]
             first == ReopenEvents(target, patch)
             upserts == Upserts(target, fly.read)
             reopened == AppendCommit(store, from, first \o upserts)
             accepted == /\ target # None /\ fly.unmet = {}
                         /\ store' = Put(reopened, from, Serving(inc), TRUE)
                         /\ phase' = [AcceptContextHandoff(phase, fly.deliverable)
                                        EXCEPT !.prior = None, !.completion = None, !.pending = None,
                                               !.provisional = <<>>, !.item = target]
  <1>1. /\ fly # None /\ fly.kind = "reopen"
        /\ PhaseOK(phase) /\ StoreOK(store) /\ Whole(store.ledger)
    BY DEF SubmitReopen, EntryInv, ShapeInv, FoldInv
  <1>2. phase' = phase \/ accepted
    BY ZenonT(60) DEF SubmitReopen, Serving
  <1>3. accepted
    BY <1>2
  <1>4. phase'.item = target
    BY <1>1, <1>3 DEF AcceptContextHandoff, PhaseOK, PhaseFields
  <1>5. target = Looked(phase) /\ target \in DOMAIN store.ledger.items
    BY <1>3 DEF ReopenTarget, Looked
  <1>6. DOMAIN store.ledger.items[target].anchors
          \subseteq Covered(store.ledger.items, target, fly.read, fly.measured)
    BY <1>1, <1>3, <1>5 DEF ReadyInv
  <1>7. IsFiniteSet(DOMAIN fly.read)
    BY <1>1, LedgerAssumption, FS_Subset DEF ShownInv, FlyOK, ReadsOK
  <1> HIDE DEF target
  <1>8. PatchOK(patch) /\ "anchors" \notin DOMAIN patch
    BY DEF PatchOK
  <1> HIDE DEF patch
  <1>9. /\ WorkForm(first)
        /\ About(first, target, Covered(store.ledger.items, target, fly.read, fly.measured), fly.read)
    BY <1>8, ReopeningForm, ReopeningIsAbout
  <1>10. \A k \in 1..Len(first) : first[k].op # "work-create"
    <2>1. Len(first) = 3 /\ first[1].op = "work-update" /\ first[2].op = "activate" /\ first[3].op = "boundary"
      BY DEF ReopenEvents, Update, Event, Boundary
    <2> HIDE DEF first
    <2> QED
      BY <2>1
  <1>11. PlainList(upserts) /\ Lists(upserts, fly.read) /\ About(upserts, target, {}, fly.read)
    BY <1>7, UpsertsPlain, UpsertsList
  <1> HIDE DEF first, upserts
  <1> DEFINE events == first \o upserts
             folded == FoldCommit(store.ledger, events)
  <1>12. IsTree(first) /\ IsTree(upserts)
    BY <1>9, <1>11 DEF WorkForm, PlainList
  <1>13. MeasuredFor(store.ledger.items, target, fly.read, fly.measured, first)
    BY <1>5, <1>6, <1>9 DEF MeasuredFor
  <1>14. /\ WorkForm(events) /\ Lists(events, fly.read)
         /\ MeasuredFor(store.ledger.items, target, fly.read, fly.measured, events)
    <2>1. WorkForm(events)
      BY <1>9, <1>11, FormJoins
    <2> HIDE DEF fly
    <2> QED
      BY <1>11, <1>12, <1>13, <2>1, MeasuredJoins DEF fly
  <1>15. \A k \in 1..Len(events) : events[k].item = target /\ events[k].op # "work-create"
    <2>1. \A k \in 1..Len(events) : \/ k \in 1..Len(first) /\ events[k] = first[k]
                                    \/ k - Len(first) \in 1..Len(upserts) /\ events[k] = upserts[k - Len(first)]
      BY <1>12, JoinIs
    <2>2. \A k \in 1..Len(upserts) : upserts[k].op # "work-create"
      BY <1>11 DEF PlainList, Plain
    <2>3. \A k \in 1..Len(events) : events[k].item = target
      BY <1>14 DEF MeasuredFor, About
    <2> HIDE DEF events
    <2> QED
      BY <1>10, <2>1, <2>2, <2>3
  <1> HIDE DEF events
  <1>16. folded.ok
    BY <1>1, <1>5, <1>14, <1>15, FoldApplies
  <1>17. target \in DOMAIN folded.ledger.items /\ Grounded(folded.ledger.items[target], fly.measured)
    BY <1>1, <1>14, <1>16, FoldGrounds
  <1>18. Whole(folded.ledger)
    BY <1>1, <1>14, FoldWhole DEF CommitForm
  <1> HIDE DEF folded, from
  <1>19. reopened.ledger = folded.ledger /\ StoreOK(reopened)
    <2>1. StoreOK(AppendCommit(store, from, events))
      BY <1>1, AppendGrows DEF Grows
    <2>2. AppendCommit(store, from, events).ledger = FoldCommit(store.ledger, events).ledger
      BY <1>1 DEF AppendCommit, AddEntry, StoreOK
    <2> QED
      BY <2>1, <2>2 DEF folded, events
  <1> HIDE DEF reopened, inc
  <1>20. store'.ledger.items = folded.ledger.items
    <2>1. StoreOK(reopened) /\ Whole(reopened.ledger)
      BY <1>18, <1>19
    <2>2. Put(reopened, from, Serving(inc), TRUE).ledger.items = reopened.ledger.items
      BY <2>1, IncumbentKeepsItems DEF Put
    <2> QED
      BY <1>3, <1>19, <2>2
  <1> QED
    BY <1>4, <1>17, <1>20

(* Nothing is unmet only of files that were grounded as they are, or need   *)
(* no grounding.                                                            *)
LEMMA MetIsCovered ==
  /\ \A items, id, read, required :
       UnmetArtifactPaths(KnownOf(items, id, read), {}, required, disk) = {}
         => required \subseteq Covered(items, id, read, [p \in required |-> disk[p]])
  /\ \A one, two : Referenced(one) /\ Referenced(two) =>
       ReferencedArtifactPaths(Anchors(one) \union Anchors(two)) = DOMAIN one \union DOMAIN two
  /\ \A refs : Referenced(PromptAnchors(refs)) /\ DOMAIN PromptAnchors(refs) = refs
  <1>1. \A known, required : UnmetArtifactPaths(known, {}, required, disk) = {} =>
          \A p \in required : RestsOn(known, disk[p], p)
    BY DEF UnmetArtifactPaths, RestsOn
  <1>2. \A items, id, read, required :
          UnmetArtifactPaths(KnownOf(items, id, read), {}, required, disk) = {}
            => required \subseteq Covered(items, id, read, [p \in required |-> disk[p]])
    BY <1>1 DEF Covered
  <1>3. ASSUME NEW one, NEW two, Referenced(one), Referenced(two)
        PROVE  ReferencedArtifactPaths(Anchors(one) \union Anchors(two)) = DOMAIN one \union DOMAIN two
    <2> DEFINE both == Anchors(one) \union Anchors(two)
    <2>1. \A a \in both : a.role = "reference"
      BY <1>3, ReferencesAreRequired
    <2>2. {a.path : a \in both} = {a.path : a \in Anchors(one)} \union {a.path : a \in Anchors(two)}
      OBVIOUS
    <2>3. {a.path : a \in both} = DOMAIN one \union DOMAIN two
      BY <1>3, <2>2, ReferencesAreRequired
    <2> HIDE DEF both
    <2> QED
      BY <2>1, <2>3, ReferencesAreRequired DEF both
  <1>4. \A refs : Referenced(PromptAnchors(refs)) /\ DOMAIN PromptAnchors(refs) = refs
    BY DEF Referenced, PromptAnchors
  <1> QED
    BY <1>2, <1>3, <1>4

LEMMA PlanIsMeasured ==
  ASSUME Whole(store.ledger), NEW plan, WorkForm(plan.events), NEW read,
         PlanIsAbout(plan, store.ledger.items, phase.pending.base.refs),
         UnmetArtifactPaths(KnownOf(store.ledger.items, plan.item, read),
                            {}, Required(plan), disk) = {}
  PROVE  MeasuredFor(store.ledger.items, plan.item, read, [p \in Required(plan) |-> disk[p]], plan.events)
  <1> DEFINE items == store.ledger.items
             id == plan.item
             refs == phase.pending.base.refs
             covered == Covered(items, id, read, [p \in Required(plan) |-> disk[p]])
             named == IF id \in DOMAIN items THEN items[id].anchors ELSE plan.events[1].work.anchors
  <1>1. Referenced(named)
    BY DEF Whole, Full, PlanIsAbout, WorkForm, EventForm
  <1>2. PlannedAnchors(plan) = Anchors(named)
    BY DEF PlannedAnchors
  <1> HIDE DEF named
  <1>3. Required(plan) = DOMAIN named \union refs
    BY <1>1, <1>2, MetIsCovered DEF Required
  <1>4. Required(plan) \subseteq covered
    BY MetIsCovered
  <1> HIDE DEF covered
  <1>5. DOMAIN named \subseteq covered /\ refs \subseteq covered
    BY <1>3, <1>4
  <1>6. About(plan.events, id, covered, read)
    BY <1>5 DEF PlanIsAbout, About
  <1> QED
    BY <1>5, <1>6 DEF MeasuredFor, PlanIsAbout, named, covered

LEMMA ReadyStays ==
  ASSUME ShapeInv, ReadyInv, session'.gen = session.gen, run'.fly = run.fly, run'.calls \in {run.calls, 0},
         Live(run.fly) => store'.ledger.items = store.ledger.items,
         run.fly # None /\ run.fly.kind = "reopen" /\ run.calls > 0 /\ run'.calls > 0 =>
           /\ store'.ledger.items = store.ledger.items /\ phase' = phase
           /\ run'.pc \in {run.pc, "stop"}
  PROVE  ReadyInv'
  <1>1. Live(run.fly)' = Live(run.fly)
    BY DEF Live
  <1>2. Live(run.fly)' /\ run'.fly.kind = "handoff" /\ run'.fly.plan # NoPlan /\ run'.fly.unmet = {} =>
          MeasuredFor(store'.ledger.items, run'.fly.plan.item, run'.fly.read, run'.fly.measured,
                      run'.fly.plan.events)
    BY <1>1 DEF ReadyInv
  <1>3. run'.fly # None /\ run'.fly.kind = "reopen" /\ run'.calls > 0 =>
          /\ run'.pc \in {"tools", "stop"}
          /\ phase' # None /\ phase'.pending # None /\ run'.fly.unmet = {} =>
               DOMAIN store'.ledger.items[Looked(phase')].anchors
                 \subseteq Covered(store'.ledger.items, Looked(phase'), run'.fly.read, run'.fly.measured)
    BY DEF ReadyInv
  <1> QED
    BY <1>2, <1>3 DEF ReadyInv, Looked

LEMMA ReadyNext ==
  ASSUME ShapeInv, PlaceInv, FlightInv, FoldInv, OpenInv, ReadyInv, [Next]_vars
  PROVE  ReadyInv'
  <1>0. /\ DOMAIN run = {"pc", "entry", "attempt", "calls", "scored", "fly"}
        /\ DOMAIN IdleRun = {"pc", "entry", "attempt", "calls", "scored", "fly"}
        /\ IdleRun.fly = None /\ IdleRun.calls = 0
        /\ DOMAIN session = {"gen", "cached", "decision", "served"} /\ session.gen \in Nat
        /\ run.calls \in Nat
    BY DEF ShapeInv, IdleRun, FlightInv
  <1> DEFINE stopped == [IdleRun EXCEPT !.fly = run.fly]
             Waits == run.fly # None /\ run.fly.kind = "reopen" /\ run.calls > 0
  <1>1. stopped.fly = run.fly /\ stopped.calls = 0
    BY <1>0
  <1> HIDE DEF stopped
  <1>2. Live(run.fly) \/ Waits => run.pc \in {"stop", "tools"} /\ run.fly # None
    BY DEF FlightInv, Live, ReadyInv
  <1>3. CASE run'.fly = None
    BY <1>3 DEF ReadyInv, Live
  <1> HIDE DEF Waits
  <1>4. ASSUME run.pc \in {"idle", "route", "walk", "settle"}, session'.gen = session.gen,
               run'.fly = run.fly, run'.calls \in {run.calls, 0}
        PROVE  ReadyInv'
    BY <1>2, <1>4, ReadyStays DEF Waits
  <1>5. CASE Route
    <2>1. run' = stopped \/ \E scored : run' = [run EXCEPT !.pc = "walk", !.attempt = 1, !.scored = scored]
      BY <1>5, RouteEffect, Zenon DEF stopped
    <2>2. run'.fly = run.fly /\ run'.calls \in {run.calls, 0}
      BY <2>1, <1>0, <1>1
    <2>3. session'.gen = session.gen /\ run.pc = "route"
      BY <1>5, <1>0 DEF Route
    <2> QED
      BY <2>2, <2>3, <1>4
  <1>6. CASE Walk
    <2>1. /\ run'.fly = run.fly /\ run'.calls \in {run.calls, 0}
          /\ session'.gen = session.gen /\ run.pc = "walk"
      BY <1>6, <1>0, <1>1 DEF Walk, Serve, AttemptFails, stopped
    <2> QED
      BY <2>1, <1>4
  <1>7. ASSUME ToolCall PROVE ReadyInv'
    <2>1. /\ run.fly = None /\ session' = session /\ run.pc = "tools"
      BY <1>7, ZenonT(40) DEF ToolCall, StartRead, Edit, RefuseEdit, DeclareAnswer, AskUser, StartHandOff,
                   StartReopen, CompleteWork, UpdateWork, InCall
    <2>2. CASE run' = Returned
      BY <2>1, <2>2, <1>0, <1>3 DEF Returned
    <2>3. ASSUME NEW facts, run' = Flying(facts)
          PROVE  run'.fly = facts /\ run'.pc = "tools"
      BY <1>0, <2>1, <2>3 DEF Flying
    <2>4. ASSUME NEW p, NEW part, StartRead(p, part) PROVE ReadyInv'
      <3>1. \E facts : run' = Flying(facts) /\ facts.kind = "read"
        BY <2>4 DEF StartRead
      <3> QED
        BY <3>1, <2>3 DEF ReadyInv
    <2>5. ASSUME NEW p, Edit(p) PROVE ReadyInv'
      <3>1. run' = Returned \/ \E facts : run' = Flying(facts) /\ facts.kind = "edit"
        BY <2>5 DEF Edit
      <3> QED
        BY <3>1, <2>2, <2>3 DEF ReadyInv
    <2>6. ASSUME NEW d, StartReopen(d) PROVE ReadyInv'
      <3> DEFINE target == ReopenTarget(store.ledger, phase)
      <3>1. PICK facts : /\ run' = Flying(facts) /\ facts.kind = "reopen" /\ target # None
                         /\ phase.pending # None =>
                              /\ facts.unmet = UnmetArtifactPaths(
                                   Over(facts.read, store.ledger.items[target].grounding),
                                   {}, ReopenRequired(target), disk)
                              /\ facts.measured = [p \in ReopenRequired(target) |-> disk[p]]
        BY <2>6, ReopenFlies
      <3>2. run'.fly = facts /\ run'.pc = "tools" /\ store' = store /\ phase' = phase
        BY <2>3, <2>6, <3>1 DEF StartReopen
      <3>3. target = Looked(phase) /\ target \in DOMAIN store.ledger.items
        BY <3>1 DEF ReopenTarget, Looked
      <3> HIDE DEF target
      <3>4. Referenced(store.ledger.items[target].anchors)
        BY <3>3 DEF FoldInv, Whole, Full
      <3>5. ASSUME phase.pending # None, facts.unmet = {}
            PROVE  DOMAIN store.ledger.items[target].anchors
                     \subseteq Covered(store.ledger.items, target, facts.read, facts.measured)
        <4>1. Over(facts.read, store.ledger.items[target].grounding)
                = KnownOf(store.ledger.items, target, facts.read)
          BY <3>3 DEF KnownOf
        <4>2. DOMAIN store.ledger.items[target].anchors \subseteq ReopenRequired(target)
          BY <3>4, MetIsCovered DEF ReopenRequired
        <4>3. ReopenRequired(target)
                \subseteq Covered(store.ledger.items, target, facts.read, facts.measured)
          BY <3>1, <3>5, <4>1, MetIsCovered
        <4> QED
          BY <4>2, <4>3
      <3>6. phase' # None /\ phase'.pending # None /\ run'.fly.unmet = {} =>
              DOMAIN store'.ledger.items[Looked(phase)'].anchors
                \subseteq Covered(store'.ledger.items, Looked(phase)', run'.fly.read, run'.fly.measured)
        BY <3>2, <3>3, <3>5 DEF Looked
      <3>7. run'.fly.kind = "reopen"
        BY <3>1, <3>2
      <3> QED
        BY <3>2, <3>6, <3>7 DEF ReadyInv, Live
    <2>7. ASSUME NEW c, NEW d, StartHandOff(c, d) PROVE ReadyInv'
      <3>1. PICK facts : /\ run' = Flying(facts) /\ facts.kind = "handoff"
                         /\ WorkForm(facts.plan.events)
                         /\ facts.plan # NoPlan =>
                              /\ PlanIsAbout(facts.plan, store.ledger.items, phase.pending.base.refs)
                              /\ facts.unmet = UnmetArtifactPaths(
                                   KnownOf(store.ledger.items, facts.plan.item, facts.read),
                                   {}, Required(facts.plan), disk)
                              /\ facts.measured = [p \in Required(facts.plan) |-> disk[p]]
        BY <2>7, HandOffFlies
      <3>2. run'.fly = facts /\ store' = store
        BY <2>3, <2>7, <3>1 DEF StartHandOff
      <3>3. facts.plan # NoPlan /\ facts.unmet = {} =>
              MeasuredFor(store.ledger.items, facts.plan.item, facts.read, facts.measured,
                          facts.plan.events)
        BY <3>1, PlanIsMeasured DEF FoldInv
      <3> QED
        BY <3>1, <3>2, <3>3 DEF ReadyInv
    <2>8. CASE \/ RefuseEdit \/ DeclareAnswer \/ AskUser \/ (\E outcome : CompleteWork(outcome))
               \/ (\E i, p : UpdateWork(i, p))
      <3>1. run' = Returned
        BY <2>8, Zenon DEF RefuseEdit, DeclareAnswer, AskUser, CompleteWork, UpdateWork
      <3> QED
        BY <3>1, <2>2
    <2> QED
      BY <1>7, <2>4, <2>5, <2>6, <2>7, <2>8 DEF ToolCall
  <1>8. CASE Finish
    <2>1. run' = Landed
      BY <1>8, Zenon DEF Finish, FinishRead, FinishEdit, SubmitHandOff, SubmitReopen
    <2>2. run'.fly = None
      BY <2>1, <1>0 DEF Landed
    <2> QED
      BY <2>2, <1>3
  <1>9. CASE NextRequest \/ FinalAnswer
    <2>1. session' = session /\ store' = store /\ phase' = phase
      BY <1>9 DEF NextRequest, FinalAnswer
    <2>2. run'.fly = None \/ (run'.fly = run.fly /\ run'.calls = run.calls /\ run.calls = 0)
      BY <1>9, <1>0 DEF NextRequest, FinalAnswer
    <2> QED
      BY <2>1, <2>2, <1>0, <1>3, ReadyStays
  <1>10. CASE Remind \/ Settled
    <2>1. session' = session /\ run.pc = "settle"
      BY <1>10 DEF Remind, Settled
    <2>2. run'.fly = run.fly /\ run'.calls \in {run.calls, 0}
      BY <1>10, <1>0, <1>1 DEF Remind, Settled, stopped
    <2> QED
      BY <2>1, <2>2, <1>4
  <1>11. CASE (\E refs, recorded : UserSends(refs, recorded)) \/ (\E leaf : Navigate(leaf))
    <2>1. session' = session /\ run.pc = "idle" /\ run'.fly = run.fly /\ run'.calls \in {run.calls, 0}
      BY <1>11, <1>0 DEF UserSends, Navigate
    <2> QED
      BY <2>1, <1>4
  <1>12. CASE SelectModel
    <2>1. session'.gen = session.gen /\ run' = run /\ phase' = phase
      BY <1>12, <1>0 DEF SelectModel
    <2> QED
      BY <2>1, <1>12, SelectOpen, ReadyStays
  <1>13. CASE UserAborts \/ (\E p : ExternalEdit(p)) \/ UNCHANGED vars
    <2>1. session' = session /\ store' = store /\ phase' = phase
      BY <1>13 DEF UserAborts, ExternalEdit, vars
    <2>2. /\ run'.fly = run.fly
          /\ run'.calls = 0 \/ (run'.calls = run.calls /\ run'.pc \in {run.pc, "stop"})
      BY <1>13, <1>0, <1>1 DEF UserAborts, ExternalEdit, vars, stopped
    <2> QED
      BY <2>1, <2>2, ReadyStays
  <1>14. ASSUME NEW isAuto, NEW damaged, Restart(isAuto, damaged) PROVE ReadyInv'
    <2>1. run'.fly = run.fly /\ session'.gen = session.gen + 1 /\ run'.calls = 0
      BY <1>14, <1>1 DEF Restart, stopped
    <2> QED
      BY <2>1, <1>0 DEF FlightInv, ReadyInv, Live
  <1> QED
    BY <1>5, <1>6, <1>7, <1>8, <1>9, <1>10, <1>11, <1>12, <1>13, <1>14 DEF Next, World

(* Only an accepted handoff or reopening places the entry on its work and   *)
(* leaves it ready.                                                         *)
LEMMA ReadySteps ==
  ASSUME EntryInv, [Next]_vars, phase # None, phase' # None, phase.pending # None,
         phase'.pending = None, phase'.status = "ready-pending"
  PROVE  \E persisted : SubmitHandOff(persisted) \/ SubmitReopen(persisted)
  <1>0. PhaseOK(phase) /\ ShapeInv
    BY DEF EntryInv, ShapeInv
  <1> DEFINE Done == \E persisted : SubmitHandOff(persisted) \/ SubmitReopen(persisted)
  <1>1. CASE phase' = phase
    BY <1>1
  <1>2. CASE Route
    <2>1. phase' = Entered \/ phase' = CountAcquisitionRequest(Entered, Key(run.entry))
      BY <1>2, RouteEffect
    <2>2. CASE Advanced = None
      <3>1. Entered = None
        BY <2>2 DEF Entered, EnterAcquisition
      <3> QED
        BY <2>1, <3>1 DEF CountAcquisitionRequest
    <2>3. CASE Advanced # None
      <3>1. Known \in BOOLEAN
        BY DEF Known
      <3>2. PhaseOK(Advanced)
        BY <1>0, <2>3, <3>1, AdvanceEffect DEF Advanced
      <3>3. \A f \in Placed : phase'[f] = Advanced[f]
        BY <2>1, <3>2, RouteKeeps DEF Entered
      <3>4. CASE Known
        <4>1. Advanced = [phase EXCEPT !.deniedNow = FALSE]
          BY <2>3, <3>4 DEF Advanced, AdvanceWorkPhase
        <4>2. Advanced.pending = phase.pending
          BY <4>1, <1>0 DEF PhaseOK, PhaseFields
        <4> QED
          BY <3>3, <4>2 DEF Placed
      <3>5. CASE ~Known
        <4>1. Advanced.status = None
          BY <3>5 DEF Advanced, AdvanceWorkPhase, FreshPhase
        <4>2. Entered.status \in {None, "acquiring", "clarification-only"}
          BY <2>3, <3>2, <4>1, EnterEffect, EntryAssumption DEF Entered
        <4>3. DOMAIN Entered = PhaseFields
          BY <3>2, RouteKeeps DEF Entered
        <4>4. phase'.status = Entered.status
          BY <2>1, <4>3 DEF CountAcquisitionRequest, PhaseFields
        <4> QED
          BY <4>2, <4>4, EntryAssumption
      <3> QED
        BY <3>4, <3>5
    <2> QED
      BY <2>2, <2>3
  <1>3. CASE Walk
    <2>1. \/ phase' = phase
          \/ phase' = CountAcquisitionRequest(phase, run.scored.key)
          \/ \E clears : phase' = SettleBoundary(phase, run.scored, clears)
      BY <1>3 DEF Walk, Serve, AttemptFails
    <2>2. phase'.pending = phase.pending
      BY <2>1, <1>0 DEF CountAcquisitionRequest, SettleBoundary, PhaseOK, PhaseFields
    <2> QED
      BY <2>2
  <1>4. CASE ToolCall
    <2>1. CASE DeclareAnswer
      <3>1. phase'.status = "acquiring"
        BY <2>1, <1>0 DEF DeclareAnswer, PhaseOK, PhaseFields
      <3> QED
        BY <3>1
    <2>2. CASE RefuseEdit
      <3>1. phase'.pending = phase.pending
        BY <2>2, <1>0 DEF RefuseEdit, CountDenial, PhaseOK, PhaseFields
      <3> QED
        BY <3>1
    <2>3. CASE AskUser \/ (\E p : Edit(p)) \/ (\E outcome : CompleteWork(outcome))
      <3>1. phase'.pending = phase.pending
        BY <2>3, <1>0 DEF AskUser, Edit, CompleteWork, PhaseOK, PhaseFields
      <3> QED
        BY <3>1
    <2>4. CASE \/ (\E p, part : StartRead(p, part)) \/ (\E c, d : StartHandOff(c, d))
               \/ (\E d : StartReopen(d)) \/ (\E i, p : UpdateWork(i, p))
      <3>1. phase' = phase
        BY <2>4 DEF StartRead, StartHandOff, StartReopen, UpdateWork
      <3> QED
        BY <1>1, <3>1
    <2> QED
      BY <1>4, <2>1, <2>2, <2>3, <2>4 DEF ToolCall
  <1>5. CASE Finish
    <2>1. ASSUME NEW persisted, FinishRead(persisted) \/ FinishEdit(persisted) PROVE FALSE
      <3>1. phase' = phase \/ phase' = [phase EXCEPT !.provisional = With(@, run.fly.path, run.fly.version)]
        BY <2>1, ZenonT(30) DEF FinishRead, FinishEdit
      <3>2. phase'.pending = phase.pending
        BY <3>1, <1>0 DEF PhaseOK, PhaseFields
      <3> QED
        BY <3>2
    <2> QED
      BY <1>5, <2>1 DEF Finish
  <1>6. CASE \/ NextRequest \/ FinalAnswer \/ Remind \/ Settled \/ SelectModel \/ UserAborts
             \/ (\E p : ExternalEdit(p)) \/ UNCHANGED vars
             \/ (\E refs, recorded : UserSends(refs, recorded))
    <2>1. \/ phase' = phase
          \/ \E value : \/ phase' = [phase EXCEPT !.contextReminded = value]
                        \/ phase' = [phase EXCEPT !.completionReminded = value]
                        \/ phase' = [phase EXCEPT !.outcomeLogged = value]
      BY <1>6, Zenon DEF NextRequest, FinalAnswer, Remind, Settled, SelectModel, UserAborts, ExternalEdit,
                  UserSends, vars
    <2>2. phase'.pending = phase.pending
      BY <2>1, <1>0 DEF PhaseOK, PhaseFields
    <2> QED
      BY <2>2
  <1>7. ASSUME NEW leaf, Navigate(leaf) PROVE Done
    <2>1. phase' = phase \/ \E deliverable : phase' = FreshPhase(phase.key, deliverable)
      BY <1>7, Zenon DEF Navigate, CarryAcrossBranch
    <2>2. \A deliverable : FreshPhase(phase.key, deliverable).status = None
      BY DEF FreshPhase
    <2> QED
      BY <2>1, <2>2, <1>1, EntryAssumption
  <1>8. CASE \E isAuto, damaged : Restart(isAuto, damaged)
    BY <1>8 DEF Restart
  <1> QED
    BY <1>2, <1>3, <1>4, <1>5, <1>6, <1>7, <1>8 DEF Next, World

LEMMA ReadyInit == Init => ReadyInv
  BY DEF Init, IdleRun, ReadyInv, Live

(* After a handoff accepted for selected work, and after a reopening whose  *)
(* run still waits for it, every file the work requires was compared with   *)
(* the disk and is recorded as grounded at the version it had then, but for *)
(* paths that did not exist, files above GROUNDING_MAX_BYTES and            *)
(* directories, although the user, the branch and other tools go on before  *)
(* the answer comes (submitContextHandoff, submitReopenWork,                *)
(* prepareHandoffFacts, unmetArtifactPaths).                                *)
THEOREM ReadyWorkIsGrounded == Spec => ReadyIsGrounded
  <1> DEFINE Step == (phase # None /\ phase' # None /\ phase'.status = "ready-pending" /\ phase'.item # None
                       /\ phase.pending # None /\ phase'.pending = None
                       /\ (run.fly.kind = "handoff" \/ run.calls > 0))
                       => LET work == store.ledger'.items[phase'.item]
                          IN \A p \in ReferencedArtifactPaths(Anchors(work.anchors)) :
                               p \in DOMAIN run.fly.measured
                                 /\ RestsOn(work.grounding, run.fly.measured[p], p)
  <1>1. ASSUME EntryInv, SettleInv, LedgerInv, ReadyInv, [Next]_vars PROVE Step
    <2> SUFFICES ASSUME phase # None, phase' # None, phase'.status = "ready-pending",
                        phase.pending # None, phase'.pending = None,
                        run.fly.kind = "handoff" \/ run.calls > 0
                 PROVE  LET work == store.ledger'.items[phase'.item]
                        IN \A p \in ReferencedArtifactPaths(Anchors(work.anchors)) :
                             p \in DOMAIN run.fly.measured
                               /\ RestsOn(work.grounding, run.fly.measured[p], p)
      OBVIOUS
    <2> DEFINE work == store'.ledger.items[phase'.item]
    <2>1. ShownInv /\ FlightInv /\ FoldInv
      BY <1>1 DEF LedgerInv
    <2>2. PICK persisted : SubmitHandOff(persisted) \/ SubmitReopen(persisted)
      BY <1>1, ReadySteps
    <2>3. SubmitReopen(persisted) => run.calls > 0
      BY DEF SubmitReopen
    <2>4. phase'.item \in DOMAIN store'.ledger.items /\ Grounded(work, run.fly.measured)
      BY <1>1, <2>1, <2>2, <2>3, HandOffGrounds, ReopenGrounds
    <2>5. Whole(store'.ledger)
      BY <1>1, LedgerNext DEF LedgerInv, FoldInv
    <2>6. Referenced(work.anchors)
      BY <2>4, <2>5 DEF Whole, Full
    <2> HIDE DEF work
    <2>7. ReferencedArtifactPaths(Anchors(work.anchors)) = DOMAIN work.anchors
      BY <2>6, ReferencesAreRequired
    <2>8. \A p \in ReferencedArtifactPaths(Anchors(work.anchors)) :
            p \in DOMAIN run.fly.measured /\ RestsOn(work.grounding, run.fly.measured[p], p)
      BY <2>4, <2>7 DEF Grounded
    <2> QED
      BY <2>8 DEF work
  <1>2. EntryInv /\ SettleInv /\ LedgerInv /\ ReadyInv /\ [Next]_vars => ReadyInv'
    BY ReadyNext DEF LedgerInv, EntryInv
  <1> QED
    BY <1>1, <1>2, LedgerInit, LedgerNext, ReadyInit, PTL DEF Spec, ReadyIsGrounded

-----------------------------------------------------------------------------
(* The type of every variable.                                             *)

CoverageType ==
  \A at \in DOMAIN coverage : coverage[at].parts \subseteq Parts /\ coverage[at].parts \notin {{}, Parts}

FlyType(fly) ==
  /\ fly.kind = "read" => fly.part \in Parts
  /\ fly.kind = "handoff" => fly.plan.item \in Items \union {None}

PhaseType(state) ==
  /\ state.status \in Statuses /\ state.denials \in 0..DenialLimit
  /\ state.status \in {None, "acquiring"} => state.denials < DenialLimit
  /\ state.item \in Items \union {None}

RunType ==
  /\ run.pc \in {"idle", "route", "walk", "tools", "settle", "stop"}
  /\ left.batch \in Nat /\ left.models \subseteq Models /\ left.kinds \subseteq FileKinds
  /\ run.calls \in 0..left.batch

TypeInv ==
  /\ CoverageType /\ RunType
  /\ run.fly # None => FlyType(run.fly)
  /\ phase # None => PhaseType(phase)
  /\ session.served \in Models \union {None}
  /\ disk \in [Paths -> [kind : FileKinds, version : Nat]]

LEMMA CoverageTypeStep ==
  ASSUME ShapeInv, TypeInv, [Next]_vars
  PROVE  CoverageType'
  <1>1. CASE coverage' = coverage \/ coverage' = <<>>
    BY <1>1 DEF TypeInv, CoverageType
  <1>2. ASSUME NEW persisted, FinishRead(persisted) PROVE CoverageType'
    <2> DEFINE fly == run.fly
               work == IF fly.work = None THEN fly.key ELSE fly.work
               at == <<work, fly.path>>
               version == disk[fly.path].version
               known == IF at \in DOMAIN coverage /\ coverage[at].version = version
                          THEN coverage[at].parts ELSE {}
               parts == known \union {fly.part}
    <2>1. coverage' = coverage \/ coverage' = NoteRead(coverage, work, fly.path, version, fly.part).coverage
      BY <1>2, Zenon DEF FinishRead
    <2>2. fly.part \in Parts
      BY <1>2 DEF FinishRead, TypeInv, FlyType
    <2>3. parts \subseteq Parts /\ parts # {}
      BY <2>2 DEF TypeInv, CoverageType
    <2>4. NoteRead(coverage, work, fly.path, version, fly.part).coverage
            = IF parts = Parts THEN [k \in DOMAIN coverage \ {at} |-> coverage[k]]
              ELSE With(coverage, at, [version |-> version, parts |-> parts])
      BY DEF NoteRead
    <2> HIDE DEF fly, work, at, version, known, parts
    <2> QED
      BY <2>1, <2>3, <2>4 DEF TypeInv, CoverageType, With
  <1> QED
    BY <1>1, <1>2, Zenon
       DEF Next, vars, Route, Walk, Serve, AttemptFails, ToolCall, StartRead, Edit, RefuseEdit,
           DeclareAnswer, AskUser, StartHandOff, StartReopen, CompleteWork, UpdateWork, Finish,
           FinishEdit, SubmitHandOff, SubmitReopen, NextRequest, FinalAnswer, Remind, Settled, World,
           UserSends, Navigate, SelectModel, UserAborts, Restart, ExternalEdit

(* How the run goes on.                                                    *)
LEMMA RunTypeStep ==
  ASSUME ShapeInv, FoldInv, TypeInv, [Next]_vars
  PROVE  RunType' /\ (run'.fly # None => FlyType(run'.fly))
  <1> DEFINE pcs == {"idle", "route", "walk", "tools", "settle", "stop"}
             stopped == [IdleRun EXCEPT !.fly = run.fly]
             Quietly == /\ run'.pc \in pcs
                        /\ run'.calls \in {run.calls, 0} /\ run'.fly \in {run.fly, None}
             Typed == RunType' /\ (run'.fly # None => FlyType(run'.fly))
  <1>0. /\ DOMAIN run = {"pc", "entry", "attempt", "calls", "scored", "fly"}
        /\ run.pc \in pcs /\ run.calls \in 0..left.batch /\ left.batch \in Nat
        /\ left'.batch = left.batch /\ left'.models = left.models /\ left.models \subseteq Models
        /\ left'.kinds = left.kinds /\ left.kinds \subseteq FileKinds
        /\ run.fly # None => FlyType(run.fly)
    BY LeftStep DEF ShapeInv, TypeInv, RunType
  <1>1. /\ DOMAIN IdleRun = {"pc", "entry", "attempt", "calls", "scored", "fly"}
        /\ IdleRun.fly = None /\ IdleRun.calls = 0 /\ IdleRun.pc = "idle"
        /\ stopped.fly = run.fly /\ stopped.calls = 0 /\ stopped.pc = "idle"
    BY DEF IdleRun
  <1> HIDE DEF stopped
  <1>2. ASSUME Quietly PROVE Typed
    BY <1>0, <1>2 DEF RunType
  <1>3. ASSUME Route PROVE Quietly
    <2>1. run' = stopped \/ \E scored : run' = [run EXCEPT !.pc = "walk", !.attempt = 1, !.scored = scored]
      BY <1>3, RouteEffect, Zenon DEF stopped
    <2> QED
      BY <2>1, <1>0, <1>1
  <1>4. ASSUME Walk PROVE Quietly
    BY <1>4, <1>0, <1>1 DEF Walk, Serve, AttemptFails, stopped
  <1>5. ASSUME Finish PROVE Quietly
    <2>1. run' = Landed
      BY <1>5, Zenon DEF Finish, FinishRead, FinishEdit, SubmitHandOff, SubmitReopen
    <2> QED
      BY <2>1, <1>0, <1>1 DEF Landed
  <1>6. ASSUME NextRequest \/ FinalAnswer \/ Remind \/ Settled PROVE Quietly
    BY <1>6, <1>0, <1>1 DEF NextRequest, FinalAnswer, Remind, Settled, stopped
  <1>7. ASSUME World PROVE Quietly
    <2>1. \/ run' = run \/ run' = stopped \/ run' = [run EXCEPT !.pc = "stop"]
          \/ \E entry : run' = [run EXCEPT !.pc = "route", !.entry = entry, !.calls = 0]
      BY <1>7, ZenonT(40)
         DEF World, UserSends, Navigate, SelectModel, UserAborts, Restart, ExternalEdit, stopped
    <2> QED
      BY <2>1, <1>0, <1>1
  <1>8. ASSUME UNCHANGED vars PROVE Quietly
    BY <1>8, <1>0 DEF vars
  <1>9. ASSUME ToolCall PROVE Typed
    <2>1. run.calls < left.batch /\ run.fly = None
      BY <1>9, ZenonT(40) DEF ToolCall, StartRead, Edit, RefuseEdit, DeclareAnswer, AskUser, StartHandOff,
                   StartReopen, CompleteWork, UpdateWork, InCall
    <2>2. ASSUME run' = Returned PROVE Typed
      BY <1>0, <2>1, <2>2 DEF Returned, RunType
    <2>3. ASSUME NEW facts, run' = Flying(facts), FlyType(facts) PROVE Typed
      BY <1>0, <2>1, <2>3 DEF Flying, RunType
    <2>4. ASSUME NEW p, NEW part \in Parts, StartRead(p, part) PROVE Typed
      <3>1. \E facts : run' = Flying(facts) /\ facts.kind = "read" /\ facts.part = part
        BY <2>4 DEF StartRead
      <3> QED
        BY <3>1, <2>3, <2>4 DEF FlyType
    <2>5. ASSUME NEW p, Edit(p) PROVE Typed
      <3>1. run' = Returned \/ \E facts : run' = Flying(facts) /\ facts.kind = "edit"
        BY <2>5 DEF Edit
      <3> QED
        BY <3>1, <2>2, <2>3 DEF FlyType
    <2>6. ASSUME NEW d, StartReopen(d) PROVE Typed
      <3>1. \E facts : run' = Flying(facts) /\ facts.kind = "reopen"
        BY <2>6, ReopenFlies
      <3> QED
        BY <3>1, <2>3 DEF FlyType
    <2>7. ASSUME NEW c, NEW d, StartHandOff(c, d) PROVE Typed
      <3>1. PICK facts : /\ run' = Flying(facts) /\ facts.kind = "handoff"
                         /\ facts.plan # NoPlan =>
                              PlanIsAbout(facts.plan, store.ledger.items, phase.pending.base.refs)
        BY <2>7, HandOffFlies
      <3>2. facts.plan.item \in Items \union {None}
        <4>1. CASE facts.plan = NoPlan
          BY <4>1 DEF NoPlan
        <4>2. CASE facts.plan # NoPlan
          BY <3>1, <4>2 DEF PlanIsAbout, FoldInv, Whole, Full
        <4> QED
          BY <4>1, <4>2
      <3> QED
        BY <3>1, <3>2, <2>3 DEF FlyType
    <2>8. CASE \/ RefuseEdit \/ DeclareAnswer \/ AskUser \/ (\E outcome : CompleteWork(outcome))
               \/ (\E i, p : UpdateWork(i, p))
      <3>1. run' = Returned
        BY <2>8, Zenon DEF RefuseEdit, DeclareAnswer, AskUser, CompleteWork, UpdateWork
      <3> QED
        BY <3>1, <2>2
    <2> QED
      BY <1>9, <2>4, <2>5, <2>6, <2>7, <2>8 DEF ToolCall
  <1> HIDE DEF Quietly, Typed
  <1>10. Typed
    BY <1>2, <1>3, <1>4, <1>5, <1>6, <1>7, <1>8, <1>9 DEF Next
  <1> QED
    BY <1>10 DEF Typed

(* What a step may do to an entry's status, refusals and item.             *)
Moves(state, next) ==
  /\ next.denials = state.denials /\ next.item \in Items \union {None}
  /\ \/ next.status = state.status
     \/ next.status \in {"clarification-only", "ready-pending", "served"}

LEMMA MovesKeepType ==
  ASSUME NEW state, PhaseType(state), NEW next, Moves(state, next)
  PROVE  PhaseType(next)
  BY EntryAssumption DEF PhaseType, Moves, Statuses

LEMMA StateTypes ==
  /\ \A key, deliverable : PhaseType(FreshPhase(key, deliverable))
  /\ \A state : DOMAIN state = PhaseFields /\ PhaseType(state) =>
       /\ PhaseType(CountDenial(state))
       /\ PhaseType(EnterAcquisition(state))
       /\ \A key : PhaseType(CountAcquisitionRequest(state, key))
       /\ \A scored, clears : PhaseType(SettleBoundary(state, scored, clears))
       /\ DOMAIN EnterAcquisition(state) = PhaseFields
  <1>1. \A key, deliverable : PhaseType(FreshPhase(key, deliverable))
    <2> TAKE key, deliverable
    <2>1. /\ FreshPhase(key, deliverable).status = None
          /\ FreshPhase(key, deliverable).denials = 0 /\ FreshPhase(key, deliverable).item = None
      BY DEF FreshPhase
    <2> QED
      BY <2>1, EntryAssumption DEF PhaseType, Statuses
  <1>2. ASSUME NEW state, DOMAIN state = PhaseFields, PhaseType(state)
        PROVE  /\ PhaseType(CountDenial(state))
               /\ PhaseType(EnterAcquisition(state))
               /\ \A key : PhaseType(CountAcquisitionRequest(state, key))
               /\ \A scored, clears : PhaseType(SettleBoundary(state, scored, clears))
               /\ DOMAIN EnterAcquisition(state) = PhaseFields
    <2>1. \A key : PhaseType(CountAcquisitionRequest(state, key))
      <3>1. \A key : Moves(state, CountAcquisitionRequest(state, key))
        BY <1>2 DEF CountAcquisitionRequest, PhaseFields, Moves, PhaseType
      <3> QED
        BY <1>2, <3>1, MovesKeepType
    <2>2. \A scored, clears : PhaseType(SettleBoundary(state, scored, clears))
      <3>1. \A scored, clears : Moves(state, SettleBoundary(state, scored, clears))
        BY <1>2 DEF SettleBoundary, PhaseFields, Moves, PhaseType
      <3> QED
        BY <1>2, <3>1, MovesKeepType
    <2>3. PhaseType(CountDenial(state))
      <3>1. CASE state.status # "acquiring" \/ state.deniedNow
        BY <1>2, <3>1 DEF CountDenial
      <3>2. CASE ~(state.status # "acquiring" \/ state.deniedNow)
        <4>1. /\ CountDenial(state).denials = state.denials + 1
              /\ CountDenial(state).item = state.item
              /\ CountDenial(state).status = IF state.denials + 1 >= DenialLimit
                                               THEN "clarification-only" ELSE "acquiring"
          BY <1>2, <3>2 DEF CountDenial, PhaseFields
        <4>2. state.denials \in Nat /\ state.denials < DenialLimit /\ DenialLimit \in Nat
          BY <1>2, <3>2, EntryAssumption DEF PhaseType
        <4> HIDE DEF PhaseFields
        <4> QED
          BY <1>2, <4>1, <4>2, EntryAssumption DEF PhaseType, Statuses
      <3> QED
        BY <3>1, <3>2
    <2>4. PhaseType(EnterAcquisition(state)) /\ DOMAIN EnterAcquisition(state) = PhaseFields
      <3> DEFINE begun == IF state.status = None
                            THEN [state EXCEPT !.status = "acquiring", !.requests = 0] ELSE state
      <3>1. DOMAIN begun = PhaseFields /\ PhaseType(begun)
        <4>1. /\ DOMAIN begun = PhaseFields
              /\ begun.denials = state.denials /\ begun.item = state.item
              /\ begun.status = IF state.status = None THEN "acquiring" ELSE state.status
          BY <1>2 DEF PhaseFields
        <4> HIDE DEF begun
        <4> QED
          BY <1>2, <4>1, EntryAssumption DEF PhaseType, Statuses
      <3>2. EnterAcquisition(state) \in {state, begun, [begun EXCEPT !.status = "clarification-only"]}
        BY DEF EnterAcquisition
      <3> HIDE DEF begun
      <3>3. /\ Moves(begun, [begun EXCEPT !.status = "clarification-only"])
            /\ DOMAIN [begun EXCEPT !.status = "clarification-only"] = PhaseFields
        BY <3>1 DEF Moves, PhaseFields, PhaseType
      <3>4. PhaseType([begun EXCEPT !.status = "clarification-only"])
        BY <3>1, <3>3, MovesKeepType
      <3> QED
        BY <1>2, <3>1, <3>2, <3>3, <3>4
    <2> QED
      BY <2>1, <2>2, <2>3, <2>4
  <1> QED
    BY <1>1, <1>2

LEMMA PhaseTypeStep ==
  ASSUME ShapeInv, FoldInv, TypeInv, [Next]_vars
  PROVE  phase' # None => PhaseType(phase')
  <1> DEFINE Good == phase' # None => PhaseType(phase')
  <1>1. phase # None => DOMAIN phase = PhaseFields /\ PhaseType(phase)
    BY DEF ShapeInv, PhaseOK, TypeInv
  <1>2. ASSUME phase' = phase PROVE Good
    BY <1>1, <1>2
  <1>3. ASSUME phase # None, Moves(phase, phase') PROVE Good
    BY <1>1, <1>3, MovesKeepType
  <1>4. ASSUME phase # None, phase' = CountDenial(phase) PROVE Good
    BY <1>1, <1>4, StateTypes
  <1>5. phase # None => phase.item \in Items \union {None}
    BY <1>1 DEF PhaseType
  <1>6. ASSUME Route PROVE Good
    <2>1. phase' = Entered \/ phase' = CountAcquisitionRequest(Entered, Key(run.entry))
      BY <1>6, RouteEffect
    <2>2. Advanced # None => DOMAIN Advanced = PhaseFields /\ PhaseType(Advanced)
      <3>1. \/ Advanced = None
            \/ phase # None /\ Advanced = [phase EXCEPT !.deniedNow = FALSE]
            \/ \E key, d, prior, serves, pending :
                 Advanced = [FreshPhase(key, d) EXCEPT !.incumbentServes = serves, !.prior = prior,
                                                       !.pending = pending]
        BY DEF Advanced, AdvanceWorkPhase
      <3>2. ASSUME phase # None, Advanced = [phase EXCEPT !.deniedNow = FALSE]
            PROVE  DOMAIN Advanced = PhaseFields /\ Moves(phase, Advanced)
        BY <1>1, <1>5, <3>2 DEF PhaseFields, Moves
      <3>3. ASSUME NEW key, NEW d, NEW prior, NEW serves, NEW pending,
                   Advanced = [FreshPhase(key, d) EXCEPT !.incumbentServes = serves,
                                                         !.prior = prior, !.pending = pending]
            PROVE  DOMAIN Advanced = PhaseFields /\ PhaseType(Advanced)
        <4>1. DOMAIN Advanced = PhaseFields /\ Moves(FreshPhase(key, d), Advanced)
          BY <3>3 DEF FreshPhase, PhaseFields, Moves
        <4>2. PhaseType(FreshPhase(key, d))
          BY StateTypes
        <4> QED
          BY <4>1, <4>2, MovesKeepType
      <3>4. ASSUME phase # None, Advanced = [phase EXCEPT !.deniedNow = FALSE]
            PROVE  PhaseType(Advanced)
        BY <1>1, <3>2, <3>4, MovesKeepType
      <3> QED
        BY <3>1, <3>2, <3>3, <3>4
    <2>3. Advanced = None => Entered = None
      BY DEF Entered, EnterAcquisition
    <2>4. Advanced # None => DOMAIN Entered = PhaseFields /\ PhaseType(Entered)
      BY <2>2, StateTypes DEF Entered
    <2>5. Entered = None => CountAcquisitionRequest(Entered, Key(run.entry)) = None
      BY DEF CountAcquisitionRequest
    <2> QED
      BY <2>1, <2>3, <2>4, <2>5, StateTypes
  <1>7. ASSUME NEW m, NEW clears, NEW lost, Serve(m, clears, lost) PROVE Good
    <2>1. phase # None /\ phase' = SettleBoundary(phase, run.scored, clears)
      BY <1>7 DEF Serve
    <2> QED
      BY <1>1, <2>1, StateTypes
  <1>8. ASSUME AttemptFails PROVE Good
    <2>1. phase' = phase \/ phase' = CountAcquisitionRequest(phase, run.scored.key)
      BY <1>8 DEF AttemptFails
    <2>2. phase = None => CountAcquisitionRequest(phase, run.scored.key) = None
      BY DEF CountAcquisitionRequest
    <2> QED
      BY <1>1, <2>1, <2>2, StateTypes
  <1>9. ASSUME NEW persisted, FinishRead(persisted) PROVE Good
    <2>1. \/ phase' = phase
          \/ \E read : phase # None /\ phase' = [phase EXCEPT !.provisional = read]
      BY <1>9, Zenon DEF FinishRead
    <2>2. ASSUME phase # None, NEW read, phase' = [phase EXCEPT !.provisional = read]
          PROVE  Moves(phase, phase')
      BY <1>1, <1>5, <2>2 DEF PhaseFields, Moves
    <2> QED
      BY <2>1, <2>2, <1>2, <1>3
  <1>10. ASSUME NEW persisted, SubmitHandOff(persisted) PROVE Good
    <2>1. \/ phase' = phase
          \/ phase # None /\ phase' = CountDenial(phase)
          \/ \E entered, deliverable :
               /\ phase # None /\ run.fly # None /\ run.fly.kind = "handoff"
               /\ \/ entered = phase
                  \/ entered = [phase EXCEPT !.pending = None, !.provisional = <<>>,
                                             !.item = run.fly.plan.item]
               /\ phase' = [AcceptContextHandoff(entered, deliverable)
                              EXCEPT !.prior = None, !.completion = None]
      BY <1>10, ZenonT(60) DEF SubmitHandOff
    <2>2. ASSUME phase # None, NEW entered, NEW deliverable, DOMAIN entered = PhaseFields,
                 entered.denials = phase.denials, entered.item \in Items \union {None},
                 phase' = [AcceptContextHandoff(entered, deliverable)
                             EXCEPT !.prior = None, !.completion = None]
          PROVE  Moves(phase, phase')
      <3>1. /\ phase'.denials = entered.denials /\ phase'.item = entered.item
            /\ phase'.status = "ready-pending"
        BY <2>2 DEF AcceptContextHandoff, PhaseFields
      <3> QED
        BY <2>2, <3>1 DEF Moves
    <2>3. ASSUME phase # None, run.fly # None, run.fly.kind = "handoff", NEW entered,
                 \/ entered = phase
                 \/ entered = [phase EXCEPT !.pending = None, !.provisional = <<>>,
                                            !.item = run.fly.plan.item]
          PROVE  /\ DOMAIN entered = PhaseFields /\ entered.denials = phase.denials
                 /\ entered.item \in Items \union {None}
      <3>1. run.fly.plan.item \in Items \union {None}
        BY <2>3 DEF TypeInv, FlyType
      <3>2. \/ entered = phase
            \/ /\ DOMAIN entered = PhaseFields /\ entered.denials = phase.denials
               /\ entered.item = run.fly.plan.item
        BY <1>1, <2>3 DEF PhaseFields
      <3> QED
        BY <1>1, <1>5, <2>3, <3>1, <3>2
    <2> HIDE DEF Good
    <2>4. CASE phase # None /\ phase' = CountDenial(phase)
      BY <2>4, <1>4
    <2>5. ASSUME NEW entered, NEW deliverable,
                 phase # None, run.fly # None, run.fly.kind = "handoff",
                 \/ entered = phase
                 \/ entered = [phase EXCEPT !.pending = None, !.provisional = <<>>,
                                            !.item = run.fly.plan.item],
                 phase' = [AcceptContextHandoff(entered, deliverable)
                             EXCEPT !.prior = None, !.completion = None]
          PROVE  Good
      BY <2>2, <2>3, <2>5, <1>3
    <2> QED
      BY <2>1, <2>4, <2>5, <1>2
  <1>11. ASSUME NEW persisted, SubmitReopen(persisted) PROVE Good
    <2>1. \/ phase' = phase
          \/ \E deliverable :
               /\ phase # None /\ ReopenTarget(store.ledger, phase) # None
               /\ phase' = [AcceptContextHandoff(phase, deliverable)
                              EXCEPT !.prior = None, !.completion = None, !.pending = None,
                                     !.provisional = <<>>, !.item = ReopenTarget(store.ledger, phase)]
      BY <1>11, ZenonT(60) DEF SubmitReopen
    <2>2. ASSUME ReopenTarget(store.ledger, phase) # None
          PROVE  ReopenTarget(store.ledger, phase) \in Items
      <3>1. ReopenTarget(store.ledger, phase) \in DOMAIN store.ledger.items
        BY <2>2 DEF ReopenTarget
      <3> QED
        BY <3>1 DEF FoldInv, Whole, Full
    <2>3. ASSUME phase # None, NEW deliverable, NEW target \in Items,
                 phase' = [AcceptContextHandoff(phase, deliverable)
                             EXCEPT !.prior = None, !.completion = None, !.pending = None,
                                    !.provisional = <<>>, !.item = target]
          PROVE  Moves(phase, phase')
      <3>1. /\ phase'.denials = phase.denials /\ phase'.item = target
            /\ phase'.status = "ready-pending"
        BY <1>1, <2>3 DEF AcceptContextHandoff, PhaseFields
      <3> QED
        BY <3>1 DEF Moves
    <2> QED
      BY <2>1, <2>2, <2>3, <1>2, <1>3
  <1>12. ASSUME Finish PROVE Good
    <2>1. ASSUME NEW persisted, FinishEdit(persisted) PROVE Good
      BY <2>1, <1>2 DEF FinishEdit
    <2> QED
      BY <1>9, <1>10, <1>11, <1>12, <2>1 DEF Finish
  <1>13. ASSUME ToolCall PROVE Good
    <2>0. phase # None
      BY <1>13, ZenonT(40) DEF ToolCall, StartRead, Edit, RefuseEdit, DeclareAnswer, AskUser, StartHandOff,
                          StartReopen, CompleteWork, UpdateWork, InCall
    <2>1. \/ phase' = phase
          \/ phase' = CountDenial(phase)
          \/ phase' = [phase EXCEPT !.mutated = TRUE]
          \/ phase' = [phase EXCEPT !.answered = TRUE, !.pending = None, !.provisional = <<>>]
          \/ phase' = [phase EXCEPT !.status = "clarification-only", !.needsUser = TRUE]
          \/ \E done : phase' = [phase EXCEPT !.completion = done]
      BY <1>13, ZenonT(40) DEF ToolCall, StartRead, Edit, RefuseEdit, DeclareAnswer, AskUser,
                          StartHandOff, StartReopen, CompleteWork, UpdateWork
    <2>2. phase' = phase \/ phase' = CountDenial(phase) \/ Moves(phase, phase')
      BY <1>1, <1>5, <2>0, <2>1 DEF PhaseFields, Moves
    <2> QED
      BY <2>0, <2>2, <1>2, <1>3, <1>4
  <1>14. ASSUME Remind \/ Settled PROVE Good
    <2>1. \/ phase' = phase
          \/ phase # None /\ \/ phase' = [phase EXCEPT !.contextReminded = TRUE]
                             \/ phase' = [phase EXCEPT !.completionReminded = TRUE]
                             \/ phase' = [phase EXCEPT !.outcomeLogged = TRUE]
      BY <1>14, Zenon DEF Remind, Settled
    <2>2. phase' = phase \/ (phase # None /\ Moves(phase, phase'))
      BY <1>1, <1>5, <2>1 DEF PhaseFields, Moves
    <2> QED
      BY <1>2, <1>3, <2>2
  <1>15. ASSUME World PROVE Good
    <2>1. \/ phase' = phase \/ phase' = None
          \/ \E key, deliverable : phase' = FreshPhase(key, deliverable)
      BY <1>15, Zenon DEF World, UserSends, Navigate, SelectModel, UserAborts, Restart, ExternalEdit,
                          CarryAcrossBranch
    <2> QED
      BY <1>2, <2>1, StateTypes
  <1>16. ASSUME NextRequest \/ FinalAnswer \/ UNCHANGED vars PROVE Good
    BY <1>2, <1>16 DEF NextRequest, FinalAnswer, vars
  <1> HIDE DEF Good
  <1>17. Good
    BY <1>6, <1>7, <1>8, <1>12, <1>13, <1>14, <1>15, <1>16 DEF Next, Walk
  <1> QED
    BY <1>17 DEF Good

(* What served, and the versions of the files.                             *)
LEMMA ServedTypeStep ==
  ASSUME ShapeInv, TypeInv, [Next]_vars
  PROVE  session'.served \in Models \union {None}
  <1> DEFINE Same == session'.served = session.served
             Good == session'.served \in Models \union {None}
  <1>0. DOMAIN session = {"gen", "cached", "decision", "served"} /\ left.models \subseteq Models
    BY DEF ShapeInv, TypeInv, RunType
  <1>1. Same => Good
    BY DEF TypeInv
  <1>2. ASSUME session' = session PROVE Same
    BY <1>2
  <1>3. ASSUME Route PROVE Same
    <2>1. \/ session' = session
          \/ \E cached, decision :
               session' = [session EXCEPT !.cached = cached, !.decision = decision]
      BY <1>3, RouteEffect, Zenon
    <2> QED
      BY <1>0, <2>1
  <1>4. ASSUME NEW m \in left.models, NEW clears, NEW lost, Serve(m, clears, lost) PROVE Good
    <2>1. session'.served = m
      BY <1>0, <1>4 DEF Serve
    <2> QED
      BY <1>0, <2>1
  <1>5. ASSUME Finish PROVE Same
    <2>1. session' = session \/ \E dimension : session' = [session EXCEPT !.cached.dimension = dimension]
      BY <1>5, Zenon DEF Finish, FinishRead, FinishEdit, SubmitHandOff, SubmitReopen
    <2> QED
      BY <1>0, <2>1
  <1>6. ASSUME World PROVE Good
    <2>1. \/ session' = session \/ session' = [session EXCEPT !.served = None]
          \/ \E gen, cached, decision :
               session' = [gen |-> gen, cached |-> cached, decision |-> decision, served |-> None]
      BY <1>6, Zenon DEF World, UserSends, Navigate, SelectModel, UserAborts, Restart, ExternalEdit
    <2>2. Same \/ session'.served = None
      BY <1>0, <2>1
    <2> QED
      BY <1>1, <2>2
  <1>7. ASSUME AttemptFails \/ ToolCall \/ NextRequest \/ FinalAnswer \/ Remind \/ Settled \/ UNCHANGED vars
        PROVE  Same
    <2>1. session' = session
      BY <1>7, Zenon DEF AttemptFails, ToolCall, StartRead, Edit, RefuseEdit, DeclareAnswer, AskUser,
           StartHandOff, StartReopen, CompleteWork, UpdateWork, NextRequest, FinalAnswer, Remind, Settled, vars
    <2> QED
      BY <2>1
  <1> HIDE DEF Same, Good
  <1>8. Good
    BY <1>1, <1>3, <1>4, <1>5, <1>6, <1>7 DEF Next, Walk
  <1> QED
    BY <1>8 DEF Good

LEMMA DiskTypeStep ==
  ASSUME TypeInv, [Next]_vars
  PROVE  disk' \in [Paths -> [kind : FileKinds, version : Nat]]
  <1> DEFINE Changes(p, kind) ==
               disk' = [disk EXCEPT ![p] = [kind |-> kind, version |-> @.version + 1]]
             Good == disk' \in [Paths -> [kind : FileKinds, version : Nat]]
  <1>0. /\ disk \in [Paths -> [kind : FileKinds, version : Nat]]
        /\ left.kinds \subseteq FileKinds /\ "file" \in FileKinds
    BY DEF TypeInv, RunType, FileKinds
  <1>1. ASSUME disk' = disk PROVE Good
    BY <1>0, <1>1
  <1>2. ASSUME NEW p, NEW kind, Changes(p, kind), p \in Paths => kind \in FileKinds PROVE Good
    <2> DEFINE file == [kind |-> kind, version |-> disk[p].version + 1]
    <2>1. disk' = [disk EXCEPT ![p] = file]
      BY <1>2
    <2>2. p \in Paths => file \in [kind : FileKinds, version : Nat]
      BY <1>0, <1>2
    <2> HIDE DEF file
    <2> QED
      BY <1>0, <2>1, <2>2
  <1>3. ASSUME NEW p, Edit(p) PROVE Good
    <2>1. Changes(p, "file") \/ Changes(p, disk[p].kind)
      BY <1>3 DEF Edit
    <2>2. p \in Paths => disk[p].kind \in FileKinds
      BY <1>0
    <2> QED
      BY <1>0, <1>2, <2>1, <2>2
  <1>4. ASSUME NEW p, ExternalEdit(p) PROVE Good
    <2>1. \E kind \in left.kinds : Changes(p, kind)
      BY <1>4 DEF ExternalEdit
    <2> QED
      BY <1>0, <1>2, <2>1
  <1> HIDE DEF Good
  <1>5. \/ disk' = disk
        \/ \E p : Edit(p)
        \/ \E p : ExternalEdit(p)
    BY Zenon
       DEF Next, vars, Route, Walk, Serve, AttemptFails, ToolCall, StartRead, RefuseEdit,
           DeclareAnswer, AskUser, StartHandOff, StartReopen, CompleteWork, UpdateWork, Finish,
           FinishRead, FinishEdit, SubmitHandOff, SubmitReopen, NextRequest, FinalAnswer, Remind,
           Settled, World, UserSends, Navigate, SelectModel, UserAborts, Restart
  <1>6. Good
    BY <1>1, <1>3, <1>4, <1>5
  <1> QED
    BY <1>6 DEF Good

LEMMA TypeInit == Init => TypeInv
  <1> SUFFICES ASSUME Init PROVE TypeInv
    OBVIOUS
  <1>1. CoverageType /\ phase = None
    BY DEF Init, CoverageType
  <1>2. run = IdleRun /\ IdleRun.fly = None /\ IdleRun.calls = 0 /\ IdleRun.pc = "idle"
    BY DEF Init, IdleRun
  <1>3. left.batch \in Nat /\ left.models \subseteq Models /\ left.kinds \subseteq FileKinds
    BY EntryAssumption DEF Init
  <1>4. session.served = None /\ disk \in [Paths -> [kind : FileKinds, version : Nat]]
    BY <1>3 DEF Init
  <1> QED
    BY <1>1, <1>2, <1>3, <1>4 DEF TypeInv, RunType

LEMMA TypeNext == ShapeInv /\ FoldInv /\ TypeInv /\ [Next]_vars => TypeInv'
  <1> SUFFICES ASSUME ShapeInv, FoldInv, TypeInv, [Next]_vars PROVE TypeInv'
    OBVIOUS
  <1> QED
    BY CoverageTypeStep, RunTypeStep, PhaseTypeStep, ServedTypeStep, DiskTypeStep DEF TypeInv

(* Every variable keeps the shape its TypeScript type gives it: among the   *)
(* rest, coverage is never kept of a file read whole (noteRead), an entry's *)
(* refusals never pass their limit (countDenial), its item and the active   *)
(* one are items there are (submitContextHandoff, submitReopenWork,         *)
(* applyEvent), and a message makes no more calls than it may.              *)
THEOREM EntryTypeCorrect == Spec => []TypeOK
  <1>1. ASSUME EntryInv, LedgerInv, TypeInv PROVE TypeOK
    <2>1. StoreOK(store) /\ (phase # None => PhaseOK(phase))
      BY <1>1 DEF EntryInv, ShapeInv
    <2>2. auto \in BOOLEAN /\ Whole(store.ledger)
      BY <1>1 DEF LedgerInv, FoldInv
    <2>3. /\ store.leaf \in 0..Len(store.tree)
          /\ store.ledger.active \in DOMAIN store.ledger.items \union {None}
          /\ DOMAIN store.ledger.items \subseteq Items
      BY <2>1, <2>2 DEF StoreOK, Whole, Full
    <2>4. \A at \in DOMAIN coverage : coverage[at].parts \in (SUBSET Parts) \ {{}, Parts}
      BY <1>1 DEF TypeInv, CoverageType
    <2>5. phase # None => /\ phase.status \in Statuses
                          /\ phase.requests \in Nat /\ phase.denials \in 0..DenialLimit
                          /\ phase.item \in Items \union {None}
      BY <1>1, <2>1 DEF TypeInv, PhaseType, PhaseOK
    <2>6. /\ run.pc \in {"idle", "route", "walk", "tools", "settle", "stop"}
          /\ run.calls \in 0..left.batch
          /\ session.served \in Models \union {None} /\ disk \in [Paths -> [kind : FileKinds, version : Nat]]
      BY <1>1 DEF TypeInv, RunType
    <2> QED
      BY <2>2, <2>3, <2>4, <2>5, <2>6 DEF TypeOK
  <1>2. EntryInv /\ SettleInv /\ LedgerInv /\ TypeInv /\ [Next]_vars => TypeInv'
    BY TypeNext DEF LedgerInv, EntryInv
  <1> QED
    BY <1>1, <1>2, LedgerInit, LedgerNext, TypeInit, PTL DEF Spec
=============================================================================
