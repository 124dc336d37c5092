----------------------------- MODULE ShownProofs -----------------------------
(***************************************************************************)
(* A theorem about groundings: what is recorded as read was shown in full. *)
(***************************************************************************)
EXTENDS BranchProofs, FiniteSetTheorems

-----------------------------------------------------------------------------
(* What a record of reads says was shown.                                  *)

AllShown(path, version, shown) == \A part \in Parts : <<path, version, part>> \in shown

Backed(event, shown) ==
  event.op = "grounding-upsert" /\ event.by = "read" => AllShown(event.path, event.version, shown)

EventsOK(events, shown) ==
  IsTree(events) /\ \A k \in 1..Len(events) : Backed(events[k], shown)

TreeBacked(tree, shown) ==
  \A i \in 1..Len(tree) : \A k \in DOMAIN tree[i].events : Backed(tree[i].events[k], shown)

CoverageOK(cov, shown) ==
  \A at \in DOMAIN cov : \A part \in cov[at].parts : <<at[2], cov[at].version, part>> \in shown

ReadsOK(read, shown) ==
  DOMAIN read \subseteq Paths /\ \A p \in DOMAIN read : AllShown(p, read[p], shown)

(* A call that has been made, and what it has measured so far.             *)
FlyOK(fly, shown) ==
  /\ fly.kind = "read" => fly.path \in Paths /\ <<fly.path, fly.version, fly.part>> \in shown
  /\ fly.kind \in {"handoff", "reopen"} => ReadsOK(fly.read, shown)
  /\ fly.kind = "handoff" => EventsOK(fly.plan.events, shown)

ShownInv ==
  /\ left.files \subseteq Paths
  /\ CoverageOK(coverage, hist.shown)
  /\ phase # None => ReadsOK(phase.provisional, hist.shown)
  /\ run.fly # None => FlyOK(run.fly, hist.shown)
  /\ TreeBacked(store.tree, hist.shown)

(* What was shown once stays shown.                                        *)
LEMMA ShownStays ==
  ASSUME NEW shown, NEW more, shown \subseteq more
  PROVE  /\ \A cov : CoverageOK(cov, shown) => CoverageOK(cov, more)
         /\ \A read : ReadsOK(read, shown) => ReadsOK(read, more)
         /\ \A fly : FlyOK(fly, shown) => FlyOK(fly, more)
         /\ \A tree : TreeBacked(tree, shown) => TreeBacked(tree, more)
  <1>1. \A path, version : AllShown(path, version, shown) => AllShown(path, version, more)
    BY DEF AllShown
  <1>2. \A event : Backed(event, shown) => Backed(event, more)
    BY <1>1 DEF Backed
  <1>3. \A events : EventsOK(events, shown) => EventsOK(events, more)
    BY <1>2 DEF EventsOK
  <1>4. \A read : ReadsOK(read, shown) => ReadsOK(read, more)
    BY <1>1 DEF ReadsOK
  <1>5. \A cov : CoverageOK(cov, shown) => CoverageOK(cov, more)
    BY DEF CoverageOK
  <1>6. \A fly : FlyOK(fly, shown) => FlyOK(fly, more)
    BY <1>3, <1>4 DEF FlyOK
  <1>7. \A tree : TreeBacked(tree, shown) => TreeBacked(tree, more)
    BY <1>2 DEF TreeBacked
  <1> QED
    BY <1>4, <1>5, <1>6, <1>7

-----------------------------------------------------------------------------
(* Lists of events.                                                        *)

LEMMA EventsJoin ==
  ASSUME NEW shown, NEW s, NEW t, EventsOK(s, shown), EventsOK(t, shown)
  PROVE  EventsOK(s \o t, shown)
  <1> DEFINE S == {s[i] : i \in 1..Len(s)} \union {t[i] : i \in 1..Len(t)}
  <1>1. /\ Len(s) \in Nat /\ Len(t) \in Nat
        /\ s = [i \in 1..Len(s) |-> s[i]] /\ t = [i \in 1..Len(t) |-> t[i]]
    BY DEF EventsOK, IsTree
  <1>2. s \in [1..Len(s) -> S] /\ t \in [1..Len(t) -> S]
    BY <1>1
  <1>3. s \in Seq(S) /\ t \in Seq(S)
    BY <1>1, <1>2, SeqDef
  <1> HIDE DEF S
  <1>4. /\ s \o t \in Seq(S) /\ Len(s \o t) = Len(s) + Len(t)
        /\ \A i \in 1..Len(s) + Len(t) :
             (s \o t)[i] = IF i <= Len(s) THEN s[i] ELSE t[i - Len(s)]
    BY <1>3, ConcatProperties
  <1>5. IsTree(s \o t)
    BY <1>4, LenProperties DEF IsTree
  <1>6. ASSUME NEW i \in 1..Len(s) + Len(t) PROVE Backed((s \o t)[i], shown)
    <2>1. CASE i <= Len(s)
      <3>1. i \in 1..Len(s)
        BY <2>1, <1>1
      <3> QED
        BY <2>1, <3>1, <1>4 DEF EventsOK
    <2>2. CASE ~(i <= Len(s))
      <3>1. i - Len(s) \in 1..Len(t)
        BY <2>2, <1>1
      <3> QED
        BY <2>2, <3>1, <1>4 DEF EventsOK
    <2> QED
      BY <2>1, <2>2
  <1> QED
    BY <1>4, <1>5, <1>6 DEF EventsOK

LEMMA EventsListed ==
  ASSUME NEW shown
  PROVE  /\ EventsOK(<<>>, shown)
         /\ \A e : Backed(e, shown) => EventsOK(<<e>>, shown)
         /\ \A e, f : Backed(e, shown) /\ Backed(f, shown) => EventsOK(<<e, f>>, shown)
         /\ \A e, f, g : Backed(e, shown) /\ Backed(f, shown) /\ Backed(g, shown)
                           => EventsOK(<<e, f, g>>, shown)
  BY DEF EventsOK, IsTree

LEMMA OtherEventsBacked ==
  ASSUME NEW shown, NEW id, NEW x
  PROVE  /\ Backed(Event("activate", id), shown)
         /\ Backed(Update(id, x), shown)
         /\ Backed(Boundary(id, x), shown)
         /\ Backed([op |-> "incumbent", incumbent |-> x], shown)
         /\ Backed([op |-> "served", item |-> id, model |-> x], shown)
         /\ Backed([op |-> "work-create", item |-> id, work |-> x], shown)
         /\ Backed([op |-> "work-close", item |-> id, status |-> x], shown)
  BY DEF Backed, Event, Update, Boundary

LEMMA UpsertsOK ==
  ASSUME NEW shown, NEW id, NEW read, ReadsOK(read, shown)
  PROVE  EventsOK(Upserts(id, read), shown)
  <1> DEFINE paths == SetToSeq(DOMAIN read)
             n == Cardinality(DOMAIN read)
  <1>1. IsFiniteSet(DOMAIN read)
    BY LedgerAssumption, FS_Subset DEF ReadsOK
  <1>2. n \in Nat /\ \E f \in [1..n -> DOMAIN read] : IsInjective(f)
    <2>1. n \in Nat /\ ExistsBijection(1..n, DOMAIN read)
      BY <1>1, FS_CardinalityType
    <2> QED
      BY <2>1 DEF ExistsBijection, Bijection, Injection, IsInjective
  <1>3. paths \in [1..n -> DOMAIN read]
    BY <1>2 DEF SetToSeq
  <1> HIDE DEF paths, n
  <1>4. Upserts(id, read) = [i \in 1..n |-> GroundingUpsert(id, paths[i], read[paths[i]], "read")]
    BY <1>3 DEF Upserts, paths
  <1>5. IsTree(Upserts(id, read)) /\ Len(Upserts(id, read)) = n
    BY <1>2, <1>4 DEF IsTree
  <1>6. ASSUME NEW i \in 1..n PROVE Backed(Upserts(id, read)[i], shown)
    <2>1. paths[i] \in DOMAIN read
      BY <1>3
    <2>2. AllShown(paths[i], read[paths[i]], shown)
      BY <2>1 DEF ReadsOK
    <2> QED
      BY <1>4, <2>2 DEF Backed, GroundingUpsert
  <1> QED
    BY <1>5, <1>6 DEF EventsOK

LEMMA NoteReadOK ==
  ASSUME NEW shown, NEW cov, CoverageOK(cov, shown), NEW work, NEW path, NEW version, NEW part,
         <<path, version, part>> \in shown
  PROVE  LET noted == NoteRead(cov, work, path, version, part)
         IN  /\ CoverageOK(noted.coverage, shown)
             /\ noted.complete => AllShown(path, version, shown)
  <1> DEFINE at == <<work, path>>
             known == IF at \in DOMAIN cov /\ cov[at].version = version THEN cov[at].parts ELSE {}
             grown == [version |-> version, parts |-> known \union {part}]
             noted == NoteRead(cov, work, path, version, part)
  <1>1. \A one \in known \union {part} : <<path, version, one>> \in shown
    BY DEF CoverageOK
  <1>2. noted.complete => AllShown(path, version, shown)
    BY <1>1 DEF NoteRead, AllShown
  <1>3. \/ noted.coverage = [k \in DOMAIN cov \ {at} |-> cov[k]]
        \/ noted.coverage = With(cov, at, grown)
    BY DEF NoteRead
  <1> HIDE DEF noted
  <1>4. CASE noted.coverage = [k \in DOMAIN cov \ {at} |-> cov[k]]
    BY <1>2, <1>4 DEF CoverageOK, noted
  <1>5. CASE noted.coverage = With(cov, at, grown)
    <2> DEFINE next == noted.coverage
    <2>1. DOMAIN next = DOMAIN cov \union {at}
      BY <1>5 DEF With
    <2>2. next[at] = grown /\ \A k \in DOMAIN cov \ {at} : next[k] = cov[k]
      BY <1>5 DEF With
    <2> HIDE DEF next, known
    <2>3. ASSUME NEW k \in DOMAIN next, NEW one \in next[k].parts
          PROVE  <<k[2], next[k].version, one>> \in shown
      <3>1. CASE k = at
        BY <3>1, <2>2, <2>3, <1>1
      <3>2. CASE k # at
        BY <3>2, <2>1, <2>2, <2>3 DEF CoverageOK
      <3> QED
        BY <3>1, <3>2
    <2>4. CoverageOK(next, shown)
      BY <2>3 DEF CoverageOK
    <2> QED
      BY <2>4, <1>2 DEF next, noted
  <1> QED
    BY <1>3, <1>4, <1>5

-----------------------------------------------------------------------------
(* What a step writes to the tree.                                         *)

LEMMA AddBacked ==
  ASSUME NEW shown, NEW st, StoreOK(st), TreeBacked(st.tree, shown),
         NEW entry, DOMAIN entry = NodeFields,
         \A k \in DOMAIN entry.events : Backed(entry.events[k], shown)
  PROVE  TreeBacked(AddEntry(st, entry).tree, shown)
  <1> DEFINE next == AddEntry(st, entry)
             new == Len(st.tree) + 1
  <1>1. /\ Grows(st, next) /\ Len(next.tree) = new /\ next.leaf = new
        /\ next.tree[next.leaf] = [entry EXCEPT !.id = Len(st.tree) + 1, !.parent = st.leaf]
    BY AddEntryGrows
  <1>2. next.tree[new].events = entry.events
    BY <1>1 DEF NodeFields
  <1>3. \A i \in 1..Len(st.tree) : next.tree[i].events = st.tree[i].events
    BY <1>1 DEF Grows, NodeFields
  <1>4. Len(st.tree) \in Nat
    BY DEF StoreOK, IsTree
  <1> HIDE DEF next
  <1>5. ASSUME NEW i \in 1..new
        PROVE  \A k \in DOMAIN next.tree[i].events : Backed(next.tree[i].events[k], shown)
    <2>1. CASE i = new
      BY <2>1, <1>2
    <2>2. CASE i \in 1..Len(st.tree)
      BY <2>2, <1>3 DEF TreeBacked
    <2> QED
      BY <2>1, <2>2, <1>4
  <1>6. TreeBacked(next.tree, shown)
    BY <1>1, <1>5 DEF TreeBacked
  <1> QED
    BY <1>6 DEF next

LEMMA AppendBacked ==
  ASSUME NEW shown, NEW st, StoreOK(st), TreeBacked(st.tree, shown), NEW from,
         NEW events, EventsOK(events, shown)
  PROVE  /\ TreeBacked(AppendCommit(st, from, events).tree, shown)
         /\ \A persisted : TreeBacked(Put(st, from, events, persisted).tree, shown)
  <1> DEFINE entry == [Entry("event") EXCEPT !.source = from, !.events = events]
             added == AddEntry(st, entry)
  <1>1. DOMAIN entry = NodeFields /\ entry.events = events
    BY EntryIsNode DEF Entry
  <1>2. DOMAIN events = 1..Len(events)
    BY DEF EventsOK, IsTree
  <1>3. TreeBacked(added.tree, shown)
    <2> HIDE DEF entry
    <2> QED
      BY <1>1, <1>2, AddBacked DEF EventsOK
  <1>4. DOMAIN added = {"tree", "leaf", "ledger"}
    <2> HIDE DEF entry
    <2>1. Grows(st, added)
      BY <1>1, AddEntryGrows
    <2> QED
      BY <2>1 DEF Grows, StoreOK
  <1>5. AppendCommit(st, from, events).tree = added.tree
    BY <1>4 DEF AppendCommit
  <1> QED
    BY <1>3, <1>5 DEF Put

LEMMA OneBacked ==
  ASSUME NEW shown, NEW st, StoreOK(st), TreeBacked(st.tree, shown), NEW from, NEW event,
         Backed(event, shown), NEW persisted
  PROVE  /\ TreeBacked(Put(st, from, <<event>>, persisted).tree, shown)
         /\ TreeBacked(AppendCommit(st, from, <<event>>).tree, shown)
         /\ StoreOK(Put(st, from, <<event>>, persisted))
  <1>1. EventsOK(<<event>>, shown)
    BY EventsListed
  <1> QED
    BY <1>1, AppendBacked, AppendGrows DEF Grows

LEMMA SelectionBacked ==
  ASSUME NEW shown, NEW st, StoreOK(st), TreeBacked(st.tree, shown)
  PROVE  /\ \A on : TreeBacked(AddSelection(st, on).tree, shown)
         /\ TreeBacked(ClearIncumbent(st).tree, shown)
         /\ \A leaf : TreeBacked(Restored(st, leaf).tree, shown)
  <1>1. ASSUME NEW on PROVE TreeBacked(AddSelection(st, on).tree, shown)
    <2> DEFINE entry == [Entry("selection") EXCEPT !.auto = on]
    <2>1. DOMAIN entry = NodeFields /\ DOMAIN entry.events = {}
      BY EntryIsNode DEF Entry
    <2>2. AddSelection(st, on) = AddEntry(st, entry)
      BY DEF AddSelection
    <2> HIDE DEF entry
    <2> QED
      BY <2>1, <2>2, AddBacked
  <1>2. ClearIncumbent(st).tree = st.tree /\ \A leaf : Restored(st, leaf).tree = st.tree
    BY DEF ClearIncumbent, Restored, StoreOK
  <1> QED
    BY <1>1, <1>2

LEMMA PlanBacked ==
  ASSUME NEW shown
  PROVE  /\ \A id, patch : EventsOK(ReopenEvents(id, patch), shown)
         /\ \A choice, deliverable, fresh :
              EventsOK(PlanPendingIdentity(choice, deliverable, fresh).events, shown)
  <1> USE OtherEventsBacked, EventsListed
  <1>1. ASSUME NEW id, NEW patch PROVE EventsOK(ReopenEvents(id, patch), shown)
    BY DEF ReopenEvents
  <1>2. ASSUME NEW ledger, NEW id, NEW base, NEW reasons
        PROVE  EventsOK(TouchItem(ledger, id, base, reasons), shown)
    <2>1. \E patch :
            \/ TouchItem(ledger, id, base, reasons) = ReopenEvents(id, patch)
            \/ TouchItem(ledger, id, base, reasons) =
                 (IF ledger.active = id THEN <<>> ELSE <<Event("activate", id)>>)
                   \o (IF patch = <<>> THEN <<>> ELSE <<Update(id, patch)>>)
      BY Zenon DEF TouchItem
    <2>2. PICK patch :
            \/ TouchItem(ledger, id, base, reasons) = ReopenEvents(id, patch)
            \/ TouchItem(ledger, id, base, reasons) =
                 (IF ledger.active = id THEN <<>> ELSE <<Event("activate", id)>>)
                   \o (IF patch = <<>> THEN <<>> ELSE <<Update(id, patch)>>)
      BY <2>1
    <2> DEFINE first == IF ledger.active = id THEN <<>> ELSE <<Event("activate", id)>>
               second == IF patch = <<>> THEN <<>> ELSE <<Update(id, patch)>>
    <2>3. EventsOK(first, shown) /\ EventsOK(second, shown)
      OBVIOUS
    <2>4. TouchItem(ledger, id, base, reasons) = ReopenEvents(id, patch)
          \/ TouchItem(ledger, id, base, reasons) = first \o second
      BY <2>2
    <2> HIDE DEF first, second
    <2>5. EventsOK(first \o second, shown)
      BY <2>3, EventsJoin
    <2>6. EventsOK(ReopenEvents(id, patch), shown)
      BY <1>1
    <2> QED
      BY <2>4, <2>5, <2>6
  <1>3. EventsOK(NoPlan.events, shown)
    BY DEF NoPlan
  <1>4. ASSUME NEW ledger, NEW id, NEW base PROVE EventsOK(PlanExisting(ledger, id, base).events, shown)
    BY <1>2 DEF PlanExisting
  <1>5. ASSUME NEW fresh, NEW base, NEW seed PROVE EventsOK(PlanNew(fresh, base, seed).events, shown)
    <2>1. \A reasons : EventsOK(CreateItem(fresh, base, reasons, seed), shown)
      BY DEF CreateItem
    <2> QED
      BY <2>1 DEF PlanNew
  <1>6. ASSUME NEW ledger, NEW catalog, NEW choice, NEW base, NEW fresh
        PROVE  EventsOK(PlanFromChoice(ledger, catalog, choice, base, fresh).events, shown)
    BY <1>3, <1>4, <1>5, Zenon DEF PlanFromChoice
  <1>7. ASSUME NEW ledger, NEW seed, NEW base, NEW fresh
        PROVE  EventsOK(PlanFromLegacy(ledger, seed, base, fresh).events, shown)
    BY <1>3, <1>4, <1>5, Zenon DEF PlanFromLegacy
  <1> QED
    BY <1>1, <1>6, <1>7, Zenon DEF PlanPendingIdentity

(* Nothing but what was shown is written as read.                          *)
LEMMA FinishBacked ==
  ASSUME ShapeInv, ShownInv, Finish
  PROVE  TreeBacked(store'.tree, hist.shown)
  <1> DEFINE shown == hist.shown
  <1>0. StoreOK(store) /\ TreeBacked(store.tree, shown)
    BY DEF ShapeInv, ShownInv
  <1>1. ASSUME NEW persisted, FinishRead(persisted) PROVE TreeBacked(store'.tree, shown)
    <2> DEFINE fly == run.fly
               at == IF fly.work = None THEN fly.key ELSE fly.work
               event == GroundingUpsert(fly.work, fly.path, fly.version, "read")
    <2>1. \/ store' = store
          \/ /\ fly.version = disk[fly.path].version
             /\ NoteRead(coverage, at, fly.path, disk[fly.path].version, fly.part).complete
             /\ store' = Put(store, CurrentSourceEntry, <<event>>, persisted)
      BY <1>1, Zenon DEF FinishRead
    <2>2. CoverageOK(coverage, shown) /\ <<fly.path, fly.version, fly.part>> \in shown
      BY <1>1 DEF FinishRead, ShownInv, FlyOK
    <2>3. CASE /\ fly.version = disk[fly.path].version
               /\ NoteRead(coverage, at, fly.path, disk[fly.path].version, fly.part).complete
               /\ store' = Put(store, CurrentSourceEntry, <<event>>, persisted)
      <3>1. AllShown(fly.path, fly.version, shown)
        <4> HIDE DEF at, shown, fly
        <4> QED
          BY <2>2, <2>3, NoteReadOK
      <3>2. Backed(event, shown)
        BY <3>1 DEF Backed, GroundingUpsert
      <3> QED
        BY <1>0, <2>3, <3>2, OneBacked
    <2> QED
      BY <1>0, <2>1, <2>3
  <1>2. ASSUME NEW persisted, FinishEdit(persisted) PROVE TreeBacked(store'.tree, shown)
    <2> DEFINE event == GroundingUpsert(run.fly.work, run.fly.path, disk[run.fly.path].version, "self-edit")
    <2>1. store' = store \/ store' = Put(store, CurrentSourceEntry, <<event>>, persisted)
      BY <1>2, Zenon DEF FinishEdit
    <2>2. Backed(event, shown)
      BY DEF Backed, GroundingUpsert
    <2> QED
      BY <1>0, <2>1, <2>2, OneBacked
  <1>3. ASSUME NEW persisted, SubmitHandOff(persisted) PROVE TreeBacked(store'.tree, shown)
    <2> DEFINE selected == phase.pending # None
               item == IF selected THEN run.fly.plan.item ELSE phase.item
               planned == IF selected THEN run.fly.plan.events \o Upserts(item, run.fly.read) ELSE <<>>
               held == \/ item \in DOMAIN store.ledger.items
                       \/ \E i \in DOMAIN planned : planned[i].op = "work-create"
               more == IF item # None /\ held THEN <<Boundary(item, "investigation-handoff")>> ELSE <<>>
               from == IF selected THEN phase.pending.source ELSE SourceOrKey(phase.key)
    <2>1. store' = store \/ store' = AppendCommit(store, from, planned \o more)
      BY <1>3, ZenonT(60) DEF SubmitHandOff
    <2>2. EventsOK(run.fly.plan.events, shown) /\ ReadsOK(run.fly.read, shown)
      BY <1>3 DEF SubmitHandOff, ShownInv, FlyOK
    <2>3. EventsOK(planned, shown)
      <3>1. EventsOK(Upserts(item, run.fly.read), shown)
        BY <2>2, UpsertsOK
      <3>2. EventsOK(run.fly.plan.events \o Upserts(item, run.fly.read), shown)
        BY <2>2, <3>1, EventsJoin
      <3> QED
        BY <3>2, EventsListed
    <2> HIDE DEF planned
    <2>4. EventsOK(<<>>, shown) /\ EventsOK(<<Boundary(item, "investigation-handoff")>>, shown)
      BY OtherEventsBacked, EventsListed
    <2>5. EventsOK(more, shown)
      BY <2>4, Zenon
    <2> HIDE DEF more, from, shown
    <2>6. EventsOK(planned \o more, shown)
      BY <2>3, <2>5, EventsJoin
    <2> QED
      BY <1>0, <2>1, <2>6, AppendBacked
  <1>4. ASSUME NEW persisted, SubmitReopen(persisted) PROVE TreeBacked(store'.tree, shown)
    <2> DEFINE target == IF phase = None THEN None ELSE ReopenTarget(store.ledger, phase)
               from == SourceOrKey(phase.key)
               owner == IF store.ledger.incumbent # None THEN store.ledger.incumbent.model
                                                         ELSE session.served
               reopening == ReopenEvents(target, [deliverable |-> run.fly.deliverable])
               events == reopening \o Upserts(target, run.fly.read)
               kept == [op |-> "incumbent", incumbent |->
                          [model |-> owner, dimension |-> run.fly.deliverable, item |-> target]]
               reopened == AppendCommit(store, from, events)
    <2>1. store' = store \/ store' = Put(reopened, from, <<kept>>, TRUE)
      BY <1>4, ZenonT(60) DEF SubmitReopen
    <2>2. ReadsOK(run.fly.read, shown)
      BY <1>4 DEF SubmitReopen, ShownInv, FlyOK
    <2>3. EventsOK(reopening, shown) /\ EventsOK(Upserts(target, run.fly.read), shown)
      BY <2>2, PlanBacked, UpsertsOK
    <2>4. Backed(kept, shown)
      BY DEF Backed
    <2> HIDE DEF reopening, target, from, shown, kept
    <2>5. EventsOK(events, shown)
      BY <2>3, EventsJoin
    <2> HIDE DEF events
    <2>6. TreeBacked(reopened.tree, shown) /\ StoreOK(reopened)
      BY <1>0, <2>5, AppendBacked, AppendGrows DEF Grows
    <2> HIDE DEF reopened
    <2>7. TreeBacked(Put(reopened, from, <<kept>>, TRUE).tree, shown)
      BY <2>4, <2>6, OneBacked
    <2> QED
      BY <1>0, <2>1, <2>7
  <1> QED
    BY <1>1, <1>2, <1>3, <1>4 DEF Finish

LEMMA StoreBacked ==
  ASSUME ShapeInv, ShownInv, [Next]_vars
  PROVE  TreeBacked(store'.tree, hist.shown)
  <1> DEFINE shown == hist.shown
             Good == TreeBacked(store'.tree, shown)
  <1>0. StoreOK(store) /\ TreeBacked(store.tree, shown)
    BY DEF ShapeInv, ShownInv
  <1>1. CASE store' = store
    BY <1>0, <1>1
  <1>2. ASSUME NEW refs, NEW recorded, UserSends(refs, recorded) PROVE Good
    <2> DEFINE noted == IF RequestRouting(Branch).routedAtEnd # auto /\ recorded
                          THEN AddSelection(store, auto) ELSE store
               entry == [Entry("user") EXCEPT !.refs = refs]
    <2>1. StoreOK(noted) /\ TreeBacked(noted.tree, shown)
      BY <1>0, SelectionGrows, SelectionBacked DEF Grows
    <2>2. store' = AddEntry(noted, entry)
      BY <1>2 DEF UserSends
    <2>3. DOMAIN entry = NodeFields /\ DOMAIN entry.events = {}
      BY EntryIsNode DEF Entry
    <2> HIDE DEF noted, entry, shown
    <2> QED
      BY <2>1, <2>2, <2>3, AddBacked
  <1>3. ASSUME NEW m, NEW clears, NEW lost, Serve(m, clears, lost) PROVE Good
    <2> DEFINE settled == SettleBoundary(phase, run.scored, clears)
               noted == NoteIncumbent(store, settled, m, run.scored, "incumbent" \notin lost)
    <2>1. \/ noted = store
          \/ \E from, kept, persisted :
               noted = Put(store, from, <<[op |-> "incumbent", incumbent |-> kept]>>, persisted)
      BY Zenon DEF NoteIncumbent
    <2>2. store' = RecordServedWork(noted, settled, m, "served" \notin lost)
      BY <1>3 DEF Serve
    <2> HIDE DEF noted, settled, shown
    <2>3. StoreOK(noted) /\ TreeBacked(noted.tree, shown)
      BY <1>0, <2>1, OneBacked, OtherEventsBacked
    <2>4. \/ store' = noted
          \/ \E from, item, persisted :
               store' = Put(noted, from, <<[op |-> "served", item |-> item, model |-> m]>>, persisted)
      BY <2>2, Zenon DEF RecordServedWork
    <2> QED
      BY <2>3, <2>4, OneBacked, OtherEventsBacked
  <1>4. CASE Walk
    BY <1>1, <1>3, <1>4 DEF Walk, AttemptFails
  <1>5. CASE Finish
    BY <1>5, FinishBacked
  <1>6. ASSUME NEW outcome, CompleteWork(outcome) PROVE Good
    <2> DEFINE item == store.ledger.active
               events == << [op |-> "work-close", item |-> item, status |-> outcome],
                            Boundary(item, "work-complete") >>
    <2>1. EventsOK(events, shown)
      BY OtherEventsBacked, EventsListed
    <2>2. \E from : store' = AppendCommit(store, from, events)
      BY <1>6 DEF CompleteWork
    <2> HIDE DEF events
    <2> QED
      BY <1>0, <2>1, <2>2, AppendBacked
  <1>7. ASSUME NEW i, NEW p, UpdateWork(i, p) PROVE Good
    <2>1. \E from, patch : store' = AppendCommit(store, from, <<Update(i, patch)>>)
      BY <1>7 DEF UpdateWork
    <2> QED
      BY <1>0, <2>1, OneBacked, OtherEventsBacked
  <1>8. CASE ToolCall
    BY <1>1, <1>6, <1>7, <1>8
       DEF ToolCall, StartRead, Edit, RefuseEdit, DeclareAnswer, AskUser, StartHandOff, StartReopen
  <1>9. ASSUME NEW leaf, Navigate(leaf) PROVE Good
    BY <1>0, <1>9, SelectionBacked DEF Navigate
  <1>10. CASE SelectModel
    <2> DEFINE switched == AddSelection(store, ~auto)
    <2>1. StoreOK(switched) /\ TreeBacked(switched.tree, shown)
      BY <1>0, SelectionGrows, SelectionBacked DEF Grows
    <2>2. store' = ClearIncumbent(switched) \/ store' = Restored(switched, switched.leaf)
      BY <1>10 DEF SelectModel
    <2> HIDE DEF switched
    <2> QED
      BY <2>1, <2>2, SelectionBacked
  <1>11. ASSUME NEW isAuto, NEW damaged, Restart(isAuto, damaged) PROVE Good
    <2> DEFINE tree == [i \in DOMAIN store.tree |->
                          IF i = damaged THEN [store.tree[i] EXCEPT !.damaged = TRUE]
                                         ELSE store.tree[i]]
    <2>1. store'.tree = tree
      BY <1>11, <1>0 DEF Restart, Restored, StoreOK
    <2>2. DOMAIN store.tree = 1..Len(store.tree) /\ Len(store.tree) \in Nat
      BY <1>0 DEF StoreOK, IsTree
    <2>3. Len(tree) = Len(store.tree)
      BY <2>2
    <2>4. \A i \in 1..Len(store.tree) : tree[i].events = store.tree[i].events
      BY <1>0, <2>2 DEF StoreOK, NodeFields
    <2> HIDE DEF tree, shown
    <2> QED
      BY <1>0, <2>1, <2>3, <2>4 DEF TreeBacked
  <1>12. CASE World
    BY <1>1, <1>2, <1>9, <1>10, <1>11, <1>12 DEF World, UserAborts, ExternalEdit
  <1> QED
    BY <1>1, <1>4, <1>5, <1>8, <1>12
       DEF Next, vars, Route, NextRequest, FinalAnswer, Remind, Settled

-----------------------------------------------------------------------------
(* What a step remembers of reads.                                         *)

LEMMA HistStep ==
  ASSUME ShapeInv, [Next]_vars
  PROVE  hist.shown \subseteq hist'.shown
  <1> DEFINE Kept == hist.shown \subseteq hist'.shown
  <1>0. DOMAIN hist = {"shown", "foreign", "sends", "settle", "unrecorded"}
    BY DEF ShapeInv
  <1>1. CASE hist' = hist
    BY <1>1
  <1>2. ASSUME NEW p, NEW part, StartRead(p, part) PROVE Kept
    BY <1>0, <1>2 DEF StartRead
  <1>3. ASSUME NEW p, Edit(p) PROVE Kept
    BY <1>0, <1>3 DEF Edit
  <1>4. CASE ToolCall
    BY <1>1, <1>2, <1>3, <1>4, Zenon
       DEF ToolCall, RefuseEdit, DeclareAnswer, AskUser, StartHandOff, StartReopen,
           CompleteWork, UpdateWork
  <1>5. CASE Route
    BY <1>0, <1>5 DEF Route
  <1>6. CASE Walk
    BY <1>0, <1>6 DEF Walk, Serve, AttemptFails
  <1>7. CASE Finish
    BY <1>1, <1>7, Zenon DEF Finish, FinishRead, FinishEdit, SubmitHandOff, SubmitReopen
  <1>8. CASE Remind \/ Settled
    BY <1>0, <1>8 DEF Remind, Settled
  <1>9. CASE World
    BY <1>0, <1>9 DEF World, UserSends, Navigate, SelectModel, UserAborts, Restart, ExternalEdit
  <1> QED
    BY <1>1, <1>4, <1>5, <1>6, <1>7, <1>8, <1>9 DEF Next, vars, NextRequest, FinalAnswer

(* A call made by this step measures what the entry holds.                 *)
LEMMA CallShown ==
  ASSUME ShapeInv, ShownInv, ToolCall
  PROVE  \/ run'.fly = run.fly
         \/ FlyOK(run'.fly, hist'.shown)
  <1>0. DOMAIN run = {"pc", "entry", "attempt", "calls", "scored", "fly"}
        /\ DOMAIN hist = {"shown", "foreign", "sends", "settle", "unrecorded"}
    BY DEF ShapeInv
  <1>1. \A facts : Flying(facts).fly = facts
    BY <1>0 DEF Flying
  <1>2. Returned.fly = run.fly
    BY <1>0 DEF Returned
  <1>3. ASSUME NEW p \in left.files, NEW part, StartRead(p, part)
        PROVE  FlyOK(run'.fly, hist'.shown)
    <2>1. \E work : run'.fly = [kind |-> "read", path |-> p, part |-> part, version |-> disk[p].version,
                                work |-> work, gen |-> session.gen, key |-> phase.key]
      BY <1>1, <1>3, Zenon DEF StartRead
    <2>2. <<p, disk[p].version, part>> \in hist'.shown
      BY <1>0, <1>3 DEF StartRead
    <2>3. p \in Paths
      BY DEF ShownInv
    <2> QED
      BY <2>1, <2>2, <2>3 DEF FlyOK
  <1>4. ASSUME NEW p, Edit(p)
        PROVE  run'.fly = run.fly \/ FlyOK(run'.fly, hist'.shown)
    <2>1. run' = Returned
          \/ \E work : run' = Flying([kind |-> "edit", path |-> p, work |-> work, gen |-> session.gen])
      BY <1>4, Zenon DEF Edit
    <2>2. CASE run' = Returned
      BY <1>2, <2>2
    <2>3. ASSUME NEW work,
                 run' = Flying([kind |-> "edit", path |-> p, work |-> work, gen |-> session.gen])
          PROVE  FlyOK(run'.fly, hist'.shown)
      <3>1. run'.fly = [kind |-> "edit", path |-> p, work |-> work, gen |-> session.gen]
        BY <1>1, <2>3, Zenon
      <3> QED
        BY <3>1 DEF FlyOK
    <2> QED
      BY <2>1, <2>2, <2>3
  <1>5. ASSUME NEW choice, NEW deliverable, StartHandOff(choice, deliverable)
        PROVE  FlyOK(run'.fly, hist'.shown)
    <2> DEFINE plan == PlanPendingIdentity(choice, deliverable,
                         CHOOSE i \in Items : FreshItems # {} => i \in FreshItems)
               pending == phase.pending
               required == ReferencedArtifactPaths(PlannedAnchors(plan)
                             \union Anchors(PromptAnchors(pending.base.refs)))
               read == [p \in DOMAIN phase.provisional \cap required |-> phase.provisional[p]]
    <2>1. /\ run'.fly.kind = "handoff"
          /\ \/ run'.fly.plan = NoPlan /\ run'.fly.read = <<>>
             \/ run'.fly.plan = plan /\ run'.fly.read = read
      <3>1. \E measured, unmet, error, gen :
              \/ run' = Flying([kind |-> "handoff", deliverable |-> deliverable, plan |-> NoPlan,
                                read |-> <<>>, measured |-> measured, unmet |-> unmet,
                                error |-> error, gen |-> gen])
              \/ run' = Flying([kind |-> "handoff", deliverable |-> deliverable, plan |-> plan,
                                read |-> read, measured |-> measured, unmet |-> unmet,
                                error |-> error, gen |-> gen])
        BY <1>5, ZenonT(60) DEF StartHandOff
      <3> HIDE DEF plan, read
      <3> QED
        BY <1>1, <3>1
    <2>2. hist' = hist /\ ReadsOK(phase.provisional, hist.shown)
      BY <1>5 DEF StartHandOff, InCall, ShownInv
    <2>3. EventsOK(plan.events, hist.shown) /\ EventsOK(NoPlan.events, hist.shown)
      BY PlanBacked, EventsListed DEF NoPlan
    <2> HIDE DEF plan
    <2>4. ReadsOK(<<>>, hist.shown) /\ ReadsOK(read, hist.shown)
      BY <2>2 DEF ReadsOK
    <2> HIDE DEF read
    <2> QED
      BY <2>1, <2>2, <2>3, <2>4 DEF FlyOK
  <1>6. ASSUME NEW deliverable, StartReopen(deliverable)
        PROVE  FlyOK(run'.fly, hist'.shown)
    <2>1. \E required, stale, measured, unmet :
            run' = Flying([kind |-> "reopen", deliverable |-> deliverable, stale |-> stale,
                           read |-> [p \in DOMAIN phase.provisional \cap required |->
                                       phase.provisional[p]],
                           measured |-> measured, unmet |-> unmet])
      BY <1>6, ZenonT(60) DEF StartReopen
    <2>2. hist' = hist /\ ReadsOK(phase.provisional, hist.shown)
      BY <1>6 DEF StartReopen, InCall, ShownInv
    <2>3. \A required :
            ReadsOK([p \in DOMAIN phase.provisional \cap required |-> phase.provisional[p]], hist.shown)
      BY <2>2 DEF ReadsOK
    <2>4. run'.fly.kind = "reopen" /\ \E required :
            run'.fly.read = [p \in DOMAIN phase.provisional \cap required |-> phase.provisional[p]]
      <3>1. PICK required, stale, measured, unmet :
              run' = Flying([kind |-> "reopen", deliverable |-> deliverable, stale |-> stale,
                             read |-> [p \in DOMAIN phase.provisional \cap required |->
                                         phase.provisional[p]],
                             measured |-> measured, unmet |-> unmet])
        BY <2>1
      <3> DEFINE read == [p \in DOMAIN phase.provisional \cap required |-> phase.provisional[p]]
                 facts == [kind |-> "reopen", deliverable |-> deliverable, stale |-> stale,
                           read |-> read, measured |-> measured, unmet |-> unmet]
      <3>2. run' = Flying(facts)
        BY <3>1
      <3> HIDE DEF read
      <3>3. facts.kind = "reopen" /\ facts.read = read
        OBVIOUS
      <3> HIDE DEF facts
      <3>4. run'.fly.kind = "reopen" /\ run'.fly.read = read
        BY <1>1, <3>2, <3>3
      <3> QED
        BY <3>4 DEF read
    <2> QED
      BY <2>2, <2>3, <2>4 DEF FlyOK
  <1> QED
    BY <1>2, <1>3, <1>4, <1>5, <1>6, Zenon
       DEF ToolCall, RefuseEdit, DeclareAnswer, AskUser, CompleteWork, UpdateWork

(* Otherwise the call in flight goes on, or has ended.                     *)
LEMMA FlyStep ==
  ASSUME ShapeInv, ShownInv, [Next]_vars
  PROVE  run'.fly = run.fly \/ run'.fly = None \/ FlyOK(run'.fly, hist'.shown)
  <1> DEFINE Same == run'.fly = run.fly \/ run'.fly = None
  <1>0. DOMAIN run = {"pc", "entry", "attempt", "calls", "scored", "fly"}
        /\ IdleRun.fly = None /\ DOMAIN IdleRun = {"pc", "entry", "attempt", "calls", "scored", "fly"}
    BY DEF ShapeInv, IdleRun
  <1>1. [IdleRun EXCEPT !.fly = run.fly].fly = run.fly /\ Landed.fly = None
    BY <1>0 DEF Landed
  <1>2. CASE run' = run
    BY <1>2
  <1>3. CASE ToolCall
    BY <1>3, CallShown
  <1>4. CASE Finish
    BY <1>1, <1>4, Zenon DEF Finish, FinishRead, FinishEdit, SubmitHandOff, SubmitReopen
  <1>5. ASSUME Route PROVE Same
    BY <1>0, <1>1, <1>5 DEF Route
  <1>6. ASSUME Walk PROVE Same
    BY <1>0, <1>1, <1>6 DEF Walk, Serve, AttemptFails
  <1>7. ASSUME NextRequest \/ FinalAnswer \/ Remind \/ Settled PROVE Same
    BY <1>0, <1>1, <1>7 DEF NextRequest, FinalAnswer, Remind, Settled
  <1>8. ASSUME World PROVE Same
    BY <1>0, <1>1, <1>8 DEF World, UserSends, Navigate, SelectModel, UserAborts, Restart, ExternalEdit
  <1> QED
    BY <1>2, <1>3, <1>4, <1>5, <1>6, <1>7, <1>8 DEF Next, vars

LEMMA CoverageStep ==
  ASSUME ShapeInv, ShownInv, [Next]_vars
  PROVE  CoverageOK(coverage', hist.shown)
  <1>0. CoverageOK(coverage, hist.shown) /\ CoverageOK(<<>>, hist.shown)
    BY DEF ShownInv, CoverageOK
  <1>1. CASE coverage' = coverage \/ coverage' = <<>>
    BY <1>0, <1>1
  <1>2. ASSUME NEW persisted, FinishRead(persisted) PROVE CoverageOK(coverage', hist.shown)
    <2> DEFINE fly == run.fly
               at == IF fly.work = None THEN fly.key ELSE fly.work
    <2>1. \/ coverage' = coverage
          \/ /\ fly.version = disk[fly.path].version
             /\ coverage' = NoteRead(coverage, at, fly.path, disk[fly.path].version, fly.part).coverage
      BY <1>2, Zenon DEF FinishRead
    <2>2. <<fly.path, fly.version, fly.part>> \in hist.shown
      BY <1>2 DEF FinishRead, ShownInv, FlyOK
    <2> HIDE DEF at, fly
    <2> QED
      BY <1>0, <2>1, <2>2, NoteReadOK
  <1> QED
    BY <1>1, <1>2, Zenon
       DEF Next, vars, Route, Walk, Serve, AttemptFails, ToolCall, StartRead, Edit, RefuseEdit,
           DeclareAnswer, AskUser, StartHandOff, StartReopen, CompleteWork, UpdateWork, Finish,
           FinishEdit, SubmitHandOff, SubmitReopen, NextRequest, FinalAnswer, Remind, Settled, World,
           UserSends, Navigate, SelectModel, UserAborts, Restart, ExternalEdit

(* The reads an entry keeps until its handoff.                             *)
LEMMA ProvisionalStep ==
  ASSUME ShapeInv, ShownInv, [Next]_vars
  PROVE  phase' # None => ReadsOK(phase'.provisional, hist.shown)
  <1> DEFINE Good == phase' # None => ReadsOK(phase'.provisional, hist.shown)
             Kept(state, next) == next.provisional = state.provisional \/ next.provisional = <<>>
  <1>0. ReadsOK(<<>>, hist.shown) /\ (phase # None => ReadsOK(phase.provisional, hist.shown))
    BY DEF ReadsOK, ShownInv
  <1>1. phase # None => DOMAIN phase = PhaseFields
    BY DEF ShapeInv, PhaseOK
  <1>2. \A key, deliverable : FreshPhase(key, deliverable).provisional = <<>>
    BY DEF FreshPhase
  <1>3. ASSUME phase' = phase PROVE Good
    BY <1>0, <1>3
  <1>4. ASSUME phase # None, Kept(phase, phase') PROVE Good
    BY <1>0, <1>4
  <1>5. \A state : DOMAIN state = PhaseFields =>
          /\ Kept(state, CountDenial(state))
          /\ \A scored, clears : Kept(state, SettleBoundary(state, scored, clears))
    BY DEF CountDenial, SettleBoundary, PhaseFields
  <1>6. ASSUME Route PROVE Good
    <2> DEFINE key == Key(run.entry)
               hit == session.cached.key = key
               base == BaseDimension(key)
               pending == ResolveEntryContext(key, base, store.tree[run.entry].refs)
               begun == AdvanceWorkPhase(key, hit, base, pending)
               entered == EnterAcquisition(begun)
    <2>1. phase' = entered \/ phase' = CountAcquisitionRequest(entered, key)
      BY <1>6, Zenon DEF Route
    <2>2. begun # None => DOMAIN begun = PhaseFields /\ ReadsOK(begun.provisional, hist.shown)
      BY <1>0, <1>1 DEF AdvanceWorkPhase, FreshPhase, PhaseFields
    <2> HIDE DEF begun, key
    <2>3. entered # None => DOMAIN entered = PhaseFields /\ entered.provisional = begun.provisional
                              /\ begun # None
      BY <2>2 DEF EnterAcquisition, PhaseFields
    <2> HIDE DEF entered
    <2> QED
      BY <2>1, <2>2, <2>3 DEF CountAcquisitionRequest, PhaseFields
  <1>7. ASSUME NEW m, NEW clears, NEW lost, Serve(m, clears, lost) PROVE Good
    BY <1>1, <1>4, <1>5, <1>7 DEF Serve
  <1>8. ASSUME AttemptFails PROVE Good
    BY <1>0, <1>1, <1>8 DEF AttemptFails, CountAcquisitionRequest, PhaseFields
  <1>9. ASSUME NEW persisted, FinishRead(persisted) PROVE Good
    <2> DEFINE fly == run.fly
               at == IF fly.work = None THEN fly.key ELSE fly.work
    <2>1. \/ phase' = phase
          \/ /\ phase # None /\ fly.version = disk[fly.path].version
             /\ NoteRead(coverage, at, fly.path, disk[fly.path].version, fly.part).complete
             /\ phase' = [phase EXCEPT !.provisional = With(@, fly.path, fly.version)]
      BY <1>9, Zenon DEF FinishRead
    <2>2. /\ CoverageOK(coverage, hist.shown) /\ fly.path \in Paths
          /\ <<fly.path, fly.version, fly.part>> \in hist.shown
      BY <1>9 DEF FinishRead, ShownInv, FlyOK
    <2> HIDE DEF at, fly
    <2>3. CASE /\ phase # None /\ fly.version = disk[fly.path].version
               /\ NoteRead(coverage, at, fly.path, disk[fly.path].version, fly.part).complete
               /\ phase' = [phase EXCEPT !.provisional = With(@, fly.path, fly.version)]
      <3>1. AllShown(fly.path, fly.version, hist.shown)
        BY <2>2, <2>3, NoteReadOK
      <3>2. phase'.provisional = With(phase.provisional, fly.path, fly.version)
        BY <1>1, <2>3 DEF PhaseFields
      <3> QED
        BY <1>0, <2>2, <2>3, <3>1, <3>2 DEF ReadsOK, With
    <2> QED
      BY <1>3, <2>1, <2>3
  <1>10. ASSUME NEW persisted, SubmitHandOff(persisted) PROVE Good
    <2>1. \/ phase' = phase
          \/ phase # None /\ phase' = CountDenial(phase)
          \/ \E entered, deliverable :
               /\ phase # None
               /\ \/ entered = phase
                  \/ \E item : entered = [phase EXCEPT !.pending = None, !.provisional = <<>>,
                                                       !.item = item]
               /\ phase' = [AcceptContextHandoff(entered, deliverable)
                              EXCEPT !.prior = None, !.completion = None]
      BY <1>10, ZenonT(60) DEF SubmitHandOff
    <2>2. ASSUME phase # None, NEW entered, NEW deliverable,
                 DOMAIN entered = PhaseFields, Kept(phase, entered),
                 phase' = [AcceptContextHandoff(entered, deliverable)
                             EXCEPT !.prior = None, !.completion = None]
          PROVE  Good
      <3>1. phase'.provisional = entered.provisional
        BY <2>2 DEF AcceptContextHandoff, PhaseFields
      <3> QED
        BY <2>2, <3>1, <1>4
    <2>3. ASSUME phase # None, NEW item
          PROVE  LET entered == [phase EXCEPT !.pending = None, !.provisional = <<>>, !.item = item]
                 IN  DOMAIN entered = PhaseFields /\ Kept(phase, entered)
      BY <1>1, <2>3 DEF PhaseFields
    <2> HIDE DEF Good, Kept
    <2>4. phase # None => DOMAIN phase = PhaseFields /\ Kept(phase, phase)
      BY <1>1 DEF Kept
    <2>5. CASE phase # None /\ phase' = CountDenial(phase)
      BY <2>5, <1>1, <1>4, <1>5
    <2> QED
      BY <2>1, <2>2, <2>3, <2>4, <2>5, <1>3
  <1>11. ASSUME NEW persisted, SubmitReopen(persisted) PROVE Good
    <2>1. \/ phase' = phase
          \/ \E deliverable, target :
               /\ phase # None
               /\ phase' = [AcceptContextHandoff(phase, deliverable)
                              EXCEPT !.prior = None, !.completion = None, !.pending = None,
                                     !.provisional = <<>>, !.item = target]
      BY <1>11, ZenonT(60) DEF SubmitReopen
    <2>2. ASSUME phase # None, NEW deliverable, NEW target,
                 phase' = [AcceptContextHandoff(phase, deliverable)
                             EXCEPT !.prior = None, !.completion = None, !.pending = None,
                                    !.provisional = <<>>, !.item = target]
          PROVE  Good
      <3>1. phase'.provisional = <<>>
        BY <1>1, <2>2 DEF AcceptContextHandoff, PhaseFields
      <3> QED
        BY <2>2, <3>1, <1>4
    <2> QED
      BY <2>1, <2>2, <1>3
  <1>12. ASSUME Finish PROVE Good
    <2>1. ASSUME NEW persisted, FinishEdit(persisted) PROVE Good
      BY <2>1, <1>3 DEF FinishEdit
    <2> QED
      BY <1>9, <1>10, <1>11, <1>12, <2>1 DEF Finish
  <1>13. ASSUME ToolCall PROVE Good
    <2>0. phase # None
      BY <1>13, Zenon DEF ToolCall, StartRead, Edit, RefuseEdit, DeclareAnswer, AskUser, StartHandOff,
                          StartReopen, CompleteWork, UpdateWork, InCall
    <2>1. \/ phase' = phase
          \/ phase' = CountDenial(phase)
          \/ phase' = [phase EXCEPT !.mutated = TRUE]
          \/ phase' = [phase EXCEPT !.answered = TRUE, !.pending = None, !.provisional = <<>>]
          \/ phase' = [phase EXCEPT !.status = "clarification-only", !.needsUser = TRUE]
          \/ \E done : phase' = [phase EXCEPT !.completion = done]
      BY <1>13, Zenon DEF ToolCall, StartRead, Edit, RefuseEdit, DeclareAnswer, AskUser,
                          StartHandOff, StartReopen, CompleteWork, UpdateWork
    <2>2. Kept(phase, phase')
      BY <1>1, <1>5, <2>0, <2>1 DEF PhaseFields
    <2> QED
      BY <2>0, <2>2, <1>4
  <1>14. ASSUME Remind \/ Settled PROVE Good
    <2>1. \/ phase' = phase
          \/ phase # None /\ \/ phase' = [phase EXCEPT !.contextReminded = TRUE]
                             \/ phase' = [phase EXCEPT !.completionReminded = TRUE]
                             \/ phase' = [phase EXCEPT !.outcomeLogged = TRUE]
      BY <1>14, Zenon DEF Remind, Settled
    <2> QED
      BY <1>1, <1>3, <1>4, <2>1 DEF PhaseFields
  <1>15. ASSUME World PROVE Good
    <2>1. phase' = phase \/ phase' = None
          \/ \E key, deliverable : phase' = FreshPhase(key, deliverable)
      BY <1>15, Zenon DEF World, UserSends, Navigate, SelectModel, UserAborts, Restart, ExternalEdit,
                          CarryAcrossBranch
    <2> QED
      BY <1>0, <1>2, <1>3, <2>1
  <1>16. ASSUME NextRequest \/ FinalAnswer \/ UNCHANGED vars PROVE Good
    BY <1>3, <1>16 DEF NextRequest, FinalAnswer, vars
  <1> QED
    BY <1>6, <1>7, <1>8, <1>12, <1>13, <1>14, <1>15, <1>16 DEF Next, Walk

-----------------------------------------------------------------------------
LEMMA ShownInit == Init => ShownInv
  <1> SUFFICES ASSUME Init PROVE ShownInv
    OBVIOUS
  <1>1. left.files \subseteq Paths
    BY EntryAssumption DEF Init
  <1>2. coverage = <<>> /\ phase = None /\ run.fly = None
    BY DEF Init, IdleRun
  <1>3. TreeBacked(store.tree, hist.shown)
    <2> DEFINE node == [Entry("selection") EXCEPT !.auto = TRUE, !.id = 1, !.parent = 0]
    <2>1. store.tree = <<node>>
      BY DEF Init, AddSelection, AddEntry, Entry
    <2>2. DOMAIN node.events = {}
      BY DEF Entry
    <2> HIDE DEF node
    <2> QED
      BY <2>1, <2>2 DEF TreeBacked
  <1> QED
    BY <1>1, <1>2, <1>3 DEF ShownInv, CoverageOK

LEMMA ShownNext == ShapeInv /\ ShownInv /\ [Next]_vars => ShownInv'
  <1> SUFFICES ASSUME ShapeInv, ShownInv, [Next]_vars PROVE ShownInv'
    OBVIOUS
  <1>1. hist.shown \subseteq hist'.shown
    BY HistStep
  <1>2. left'.files \subseteq Paths
    BY LeftStep DEF ShownInv
  <1>3. CoverageOK(coverage', hist'.shown)
    BY <1>1, CoverageStep, ShownStays
  <1>4. phase' # None => ReadsOK(phase'.provisional, hist'.shown)
    BY <1>1, ProvisionalStep, ShownStays
  <1>5. run'.fly # None => FlyOK(run'.fly, hist'.shown)
    BY <1>1, FlyStep, ShownStays DEF ShownInv
  <1>6. TreeBacked(store'.tree, hist'.shown)
    BY <1>1, StoreBacked, ShownStays
  <1> QED
    BY <1>2, <1>3, <1>4, <1>5, <1>6 DEF ShownInv

(* A grounding taken from reads names a version every part of which the    *)
(* model was shown: however reads, edits by others, restarts, moves in the *)
(* tree and failed writes interleave (observeNativeFileTool, noteRead,     *)
(* observePendingGrounding, submitContextHandoff, submitReopenWork).       *)
THEOREM GroundingsWereShown == Spec => []ReadsWereShown
  <1>1. Init => EntryInv /\ SettleInv /\ ShownInv
    BY InitEntry, ShownInit
  <1>2. EntryInv /\ SettleInv /\ ShownInv /\ [Next]_vars => (EntryInv /\ SettleInv /\ ShownInv)'
    BY EntryStep, ShownNext DEF EntryInv
  <1>3. EntryInv /\ SettleInv /\ ShownInv => ReadsWereShown
    <2> SUFFICES ASSUME EntryInv, ShownInv PROVE ReadsWereShown
      OBVIOUS
    <2>1. DOMAIN store.tree = 1..Len(store.tree)
      BY DEF EntryInv, ShapeInv, StoreOK, IsTree
    <2>2. \A at \in Events(store.tree) : Backed(at[2], hist.shown)
      BY <2>1 DEF Events, ShownInv, TreeBacked
    <2> QED
      BY <2>2 DEF ReadsWereShown, Backed, AllShown
  <1> QED
    BY <1>1, <1>2, <1>3, PTL DEF Spec

=============================================================================
