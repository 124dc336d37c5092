---------------------------- MODULE EntryProofs ----------------------------
(***************************************************************************)
(* Theorems about one user entry: how often it asks while it collects      *)
(* context, and how often it is reminded.                                  *)
(***************************************************************************)
EXTENDS ContextEntry, SequenceTheorems, TLAPS

-----------------------------------------------------------------------------
(* The session tree only grows.                                            *)

IsTree(tree) == tree = [i \in 1..Len(tree) |-> tree[i]] /\ Len(tree) \in Nat

NodeFields == {"kind", "auto", "refs", "source", "events", "damaged", "id", "parent"}

StoreOK(st) ==
  /\ DOMAIN st = {"tree", "leaf", "ledger"}
  /\ IsTree(st.tree)
  /\ \A i \in 1..Len(st.tree) : DOMAIN st.tree[i] = NodeFields
  /\ st.leaf \in 0..Len(st.tree)

(* Every node stays, with all that is read of it but the damage.           *)
Grows(st, next) ==
  /\ StoreOK(next)
  /\ Len(st.tree) <= Len(next.tree)
  /\ \A i \in 1..Len(st.tree) :
       \A f \in NodeFields \ {"damaged"} : next.tree[i][f] = st.tree[i][f]

LEMMA TreeIsSeq ==
  ASSUME NEW tree, IsTree(tree), NEW node
  PROVE  /\ IsTree(Append(tree, node))
         /\ Len(Append(tree, node)) = Len(tree) + 1
         /\ \A i \in 1..Len(tree) : Append(tree, node)[i] = tree[i]
         /\ Append(tree, node)[Len(tree) + 1] = node
  <1> DEFINE S == {tree[i] : i \in 1..Len(tree)} \union {node}
  <1>1. tree \in [1..Len(tree) -> S]
    BY DEF IsTree
  <1>2. tree \in Seq(S) /\ node \in S
    BY <1>1, SeqDef DEF IsTree
  <1>3. /\ Append(tree, node) \in Seq(S)
        /\ Len(Append(tree, node)) = Len(tree) + 1
        /\ \A i \in 1..Len(tree) : Append(tree, node)[i] = tree[i]
        /\ Append(tree, node)[Len(tree) + 1] = node
    BY <1>2, AppendProperties
  <1>4. IsTree(Append(tree, node))
    BY <1>3, LenProperties DEF IsTree
  <1> QED
    BY <1>3, <1>4

LEMMA GrowsIsPreorder ==
  /\ \A st : StoreOK(st) => Grows(st, st)
  /\ \A a, b, c : StoreOK(a) /\ Grows(a, b) /\ Grows(b, c) => Grows(a, c)
  BY DEF Grows, StoreOK, IsTree

LEMMA AddEntryGrows ==
  ASSUME NEW st, StoreOK(st), NEW entry, DOMAIN entry = NodeFields
  PROVE  LET next == AddEntry(st, entry)
         IN  /\ Grows(st, next)
             /\ next.leaf = Len(st.tree) + 1 /\ Len(next.tree) = Len(st.tree) + 1
             /\ next.ledger = st.ledger
             /\ next.tree[next.leaf] = [entry EXCEPT !.id = Len(st.tree) + 1, !.parent = st.leaf]
  <1> DEFINE node == [entry EXCEPT !.id = Len(st.tree) + 1, !.parent = st.leaf]
             next == AddEntry(st, entry)
  <1>1. /\ next.tree = Append(st.tree, node) /\ next.leaf = Len(st.tree) + 1
        /\ next.ledger = st.ledger /\ DOMAIN next = DOMAIN st
    BY DEF AddEntry, StoreOK
  <1> HIDE DEF node, next
  <1>2. /\ IsTree(next.tree) /\ Len(next.tree) = Len(st.tree) + 1
        /\ \A i \in 1..Len(st.tree) : next.tree[i] = st.tree[i]
        /\ next.tree[next.leaf] = node
    BY <1>1, TreeIsSeq DEF StoreOK
  <1>3. DOMAIN node = NodeFields
    BY DEF node
  <1>3a. \A i \in 1..Len(next.tree) : DOMAIN next.tree[i] = NodeFields
    BY <1>1, <1>2, <1>3 DEF StoreOK, IsTree
  <1>3b. Grows(st, next)
    BY <1>1, <1>2, <1>3a DEF Grows, StoreOK, IsTree
  <1>4. /\ Grows(st, next)
        /\ next.leaf = Len(st.tree) + 1 /\ Len(next.tree) = Len(st.tree) + 1
        /\ next.ledger = st.ledger /\ next.tree[next.leaf] = node
    BY <1>1, <1>2, <1>3b
  <1> QED
    BY <1>4 DEF next, node

LEMMA EntryIsNode ==
  /\ \A kind : DOMAIN Entry(kind) = NodeFields
  /\ \A kind, from, events :
       DOMAIN [Entry(kind) EXCEPT !.source = from, !.events = events] = NodeFields
  /\ \A kind, refs : DOMAIN [Entry(kind) EXCEPT !.refs = refs] = NodeFields
  /\ \A kind, on : DOMAIN [Entry(kind) EXCEPT !.auto = on] = NodeFields
  BY DEF Entry, NodeFields

LEMMA AppendGrows ==
  ASSUME NEW st, StoreOK(st), NEW from, NEW events
  PROVE  /\ Grows(st, AppendCommit(st, from, events))
         /\ \A persisted : Grows(st, Put(st, from, events, persisted))
  <1> DEFINE added == AddEntry(st, [Entry("event") EXCEPT !.source = from, !.events = events])
  <1>1. Grows(st, added)
    BY AddEntryGrows, EntryIsNode
  <1> HIDE DEF added
  <1>2. Grows(st, [added EXCEPT !.ledger = FoldCommit(st.ledger, events).ledger])
    BY <1>1 DEF Grows, StoreOK
  <1>3. Grows(st, AppendCommit(st, from, events))
    BY <1>2 DEF AppendCommit, added
  <1> QED
    BY <1>3, GrowsIsPreorder DEF Put

LEMMA ServedGrows ==
  ASSUME NEW st, StoreOK(st), NEW state, NEW model, NEW scored, NEW persisted
  PROVE  /\ Grows(st, NoteIncumbent(st, state, model, scored, persisted))
         /\ Grows(st, RecordServedWork(st, state, model, persisted))
  <1>1. \A from, events : Grows(st, Put(st, from, events, persisted))
    BY AppendGrows
  <1>2. Grows(st, st)
    BY GrowsIsPreorder
  <1>3. Grows(st, NoteIncumbent(st, state, model, scored, persisted))
    BY <1>1, <1>2 DEF NoteIncumbent
  <1>4. Grows(st, RecordServedWork(st, state, model, persisted))
    BY <1>1, <1>2 DEF RecordServedWork
  <1> QED
    BY <1>3, <1>4

LEMMA SelectionGrows ==
  ASSUME NEW st, StoreOK(st)
  PROVE  /\ \A on : Grows(st, AddSelection(st, on))
         /\ Grows(st, ClearIncumbent(st))
         /\ \A leaf \in 0..Len(st.tree) : Grows(st, Restored(st, leaf))
  <1>1. \A on : Grows(st, AddSelection(st, on))
    BY AddEntryGrows, EntryIsNode DEF AddSelection
  <1>2. Grows(st, ClearIncumbent(st))
    BY DEF ClearIncumbent, Grows, StoreOK, IsTree
  <1>3. ASSUME NEW leaf \in 0..Len(st.tree) PROVE Grows(st, Restored(st, leaf))
    BY DEF Restored, Grows, StoreOK, IsTree
  <1> QED
    BY <1>1, <1>2, <1>3

(* Whatever a step does to the store, the tree grows.                      *)
LEMMA StoreStep ==
  ASSUME StoreOK(store), [Next]_vars
  PROVE  Grows(store, store')
  <1> USE GrowsIsPreorder
  <1>1. CASE UNCHANGED store
    BY <1>1
  <1>2. ASSUME NEW refs, NEW recorded, UserSends(refs, recorded) PROVE Grows(store, store')
    <2> DEFINE noted == IF RequestRouting(Branch).routedAtEnd # auto /\ recorded
                          THEN AddSelection(store, auto) ELSE store
    <2>1. Grows(store, noted)
      BY SelectionGrows
    <2>2. store' = AddEntry(noted, [Entry("user") EXCEPT !.refs = refs])
      BY <1>2 DEF UserSends
    <2> HIDE DEF noted
    <2>3. Grows(noted, store')
      <3>1. StoreOK(noted)
        BY <2>1 DEF Grows
      <3> QED
        BY <3>1, <2>2, AddEntryGrows, EntryIsNode
    <2> QED
      BY <2>1, <2>3
  <1>3. ASSUME NEW m, NEW clears, NEW lost, Serve(m, clears, lost) PROVE Grows(store, store')
    <2> DEFINE settled == SettleBoundary(phase, run.scored, clears)
               noted == NoteIncumbent(store, settled, m, run.scored, "incumbent" \notin lost)
    <2>1. Grows(store, noted)
      BY ServedGrows
    <2>2. store' = RecordServedWork(noted, settled, m, "served" \notin lost)
      BY <1>3 DEF Serve
    <2> HIDE DEF noted, settled
    <2>3. Grows(noted, store')
      <3>1. StoreOK(noted)
        BY <2>1 DEF Grows
      <3> QED
        BY <3>1, <2>2, ServedGrows
    <2> QED
      BY <2>1, <2>3
  <1>4. CASE Walk
    BY <1>1, <1>3, <1>4 DEF Walk, AttemptFails
  <1>5. ASSUME NEW persisted, FinishRead(persisted) \/ FinishEdit(persisted)
        PROVE  Grows(store, store')
    BY <1>5, AppendGrows DEF FinishRead, FinishEdit
  <1>6. ASSUME NEW persisted, SubmitHandOff(persisted) PROVE Grows(store, store')
    <2>1. store' = store \/ \E from, events : store' = AppendCommit(store, from, events)
      BY <1>6, ZenonT(60) DEF SubmitHandOff
    <2> QED
      BY <2>1, AppendGrows
  <1>7. ASSUME NEW persisted, SubmitReopen(persisted) PROVE Grows(store, store')
    <2> DEFINE target == IF phase = None THEN None ELSE ReopenTarget(store.ledger, phase)
               from == SourceOrKey(phase.key)
               owner == IF store.ledger.incumbent # None THEN store.ledger.incumbent.model
                                                         ELSE session.served
               events == ReopenEvents(target, [deliverable |-> run.fly.deliverable])
                           \o Upserts(target, run.fly.read)
               more == << [op |-> "incumbent", incumbent |->
                             [model |-> owner, dimension |-> run.fly.deliverable, item |-> target]] >>
    <2>1. store' = store \/ store' = Put(AppendCommit(store, from, events), from, more, TRUE)
      BY <1>7, ZenonT(60) DEF SubmitReopen
    <2> HIDE DEF target, from, owner, events, more
    <2>2. Grows(store, Put(AppendCommit(store, from, events), from, more, TRUE))
      <3>1. Grows(store, AppendCommit(store, from, events))
        BY AppendGrows
      <3>2. Grows(AppendCommit(store, from, events),
                  Put(AppendCommit(store, from, events), from, more, TRUE))
        <4> HIDE DEF AppendCommit
        <4>1. StoreOK(AppendCommit(store, from, events))
          BY <3>1 DEF Grows
        <4> QED
          BY <4>1, AppendGrows
      <3> QED
        BY <3>1, <3>2
    <2> QED
      BY <2>1, <2>2
  <1>8. CASE Finish
    BY <1>5, <1>6, <1>7, <1>8 DEF Finish
  <1>9. ASSUME NEW outcome, CompleteWork(outcome) PROVE Grows(store, store')
    BY <1>9, AppendGrows DEF CompleteWork
  <1>10. ASSUME NEW i, NEW p, UpdateWork(i, p) PROVE Grows(store, store')
    BY <1>10, AppendGrows DEF UpdateWork
  <1>11. CASE ToolCall
    BY <1>1, <1>9, <1>10, <1>11
       DEF ToolCall, StartRead, Edit, RefuseEdit, DeclareAnswer, AskUser, StartHandOff, StartReopen
  <1>12. ASSUME NEW leaf \in 0..Len(store.tree), Navigate(leaf) PROVE Grows(store, store')
    BY <1>12, SelectionGrows DEF Navigate
  <1>13. CASE SelectModel
    <2> DEFINE switched == AddSelection(store, ~auto)
    <2>1. Grows(store, switched)
      BY SelectionGrows
    <2>2. store' = ClearIncumbent(switched) \/ store' = Restored(switched, switched.leaf)
      BY <1>13 DEF SelectModel
    <2> HIDE DEF switched
    <2>3. Grows(switched, ClearIncumbent(switched)) /\ Grows(switched, Restored(switched, switched.leaf))
      <3>1. StoreOK(switched) /\ switched.leaf \in 0..Len(switched.tree)
        BY <2>1 DEF Grows, StoreOK
      <3> QED
        BY <3>1, SelectionGrows
    <2>4. Grows(switched, store')
      BY <2>2, <2>3
    <2> QED
      BY <2>1, <2>4
  <1>14. ASSUME NEW isAuto, NEW damaged, Restart(isAuto, damaged) PROVE Grows(store, store')
    <2> DEFINE tree == [i \in DOMAIN store.tree |->
                          IF i = damaged THEN [store.tree[i] EXCEPT !.damaged = TRUE]
                                         ELSE store.tree[i]]
               st == [store EXCEPT !.tree = tree]
    <2>1. store' = Restored(st, store.leaf)
      BY <1>14 DEF Restart
    <2>2. Grows(store, st) /\ st.leaf = store.leaf
      <3>1. DOMAIN store.tree = 1..Len(store.tree) /\ Len(store.tree) \in Nat
        BY DEF StoreOK, IsTree
      <3>2. Len(tree) = Len(store.tree) /\ IsTree(tree)
        BY <3>1 DEF IsTree
      <3>3. \A i \in 1..Len(store.tree) :
              /\ DOMAIN tree[i] = NodeFields
              /\ \A f \in NodeFields \ {"damaged"} : tree[i][f] = store.tree[i][f]
        BY <3>1 DEF StoreOK, NodeFields
      <3> QED
        BY <3>2, <3>3 DEF Grows, StoreOK
    <2> HIDE DEF st
    <2>3. Grows(st, Restored(st, store.leaf))
      <3>1. StoreOK(st) /\ store.leaf \in 0..Len(st.tree)
        BY <2>2 DEF Grows, StoreOK
      <3> QED
        BY <3>1, SelectionGrows
    <2> QED
      BY <2>1, <2>2, <2>3
  <1>15. CASE World
    BY <1>1, <1>2, <1>12, <1>13, <1>14, <1>15 DEF World, UserAborts, ExternalEdit
  <1> QED
    BY <1>1, <1>4, <1>8, <1>11, <1>15
       DEF Next, vars, Route, NextRequest, FinalAnswer, Remind, Settled

-----------------------------------------------------------------------------
(* Steps within an entry.                                                  *)

PhaseFields ==
  {"key", "deliverable", "status", "answered", "incumbentServes", "pending", "provisional",
   "requests", "denials", "deniedNow", "dispatched", "needsUser", "handedOff", "item", "prior",
   "completion", "mutated", "contextReminded", "completionReminded", "outcomeLogged"}

PhaseOK(state) ==
  /\ DOMAIN state = PhaseFields
  /\ state.requests \in Nat
  /\ {state.contextReminded, state.completionReminded, state.outcomeLogged} \subseteq BOOLEAN

ShapeInv ==
  /\ StoreOK(store)
  /\ DOMAIN session = {"gen", "cached", "decision", "served"}
  /\ DOMAIN session.cached = {"key", "dimension"}
  /\ phase # None => PhaseOK(phase)
  /\ DOMAIN run = {"pc", "entry", "attempt", "calls", "scored", "fly"}
  /\ DOMAIN hist = {"shown", "foreign", "sends", "settle", "unrecorded"}
  /\ DOMAIN left = {"users", "calls", "reads", "upsets", "batch", "attempts", "models", "files",
                   "kinds"}
  /\ left.attempts \in Nat \ {0}

Fixed == {"key", "incumbentServes", "contextReminded", "completionReminded", "outcomeLogged"}

(* The same entry goes on: collecting can end, and begins in Route only.   *)
Follows(state, next) ==
  /\ PhaseOK(next)
  /\ \A f \in Fixed : next[f] = state[f]
  /\ \/ next.status = state.status /\ next.requests = state.requests
     \/ next.status \in {"clarification-only", "ready-pending", "served"}

PhaseFollows == phase' = phase \/ (phase # None /\ Follows(phase, phase'))

SessionFollows ==
  /\ DOMAIN session' = {"gen", "cached", "decision", "served"}
  /\ \/ session'.cached = session.cached
     \/ DOMAIN session'.cached = {"key", "dimension"} /\ session'.cached.key = session.cached.key

(* The run goes on with its entry, or ends.                                *)
RunFollows ==
  /\ DOMAIN run' = {"pc", "entry", "attempt", "calls", "scored", "fly"}
  /\ \/ run'.pc = "idle"
     \/ /\ run'.entry = run.entry /\ run'.scored = run.scored /\ run'.attempt = run.attempt
        /\ \/ run'.pc = run.pc
           \/ run.pc \in {"walk", "tools"} /\ run'.pc \in {"route", "tools", "settle"}
           \/ run.pc # "idle" /\ run'.pc = "stop"

HistFollows ==
  /\ DOMAIN hist' = {"shown", "foreign", "sends", "settle", "unrecorded"}
  /\ hist'.sends = hist.sends /\ hist'.settle = hist.settle

Follow == PhaseFollows /\ SessionFollows /\ RunFollows /\ HistFollows

LEMMA SpendKeeps ==
  ASSUME ShapeInv, NEW kind \in {"users", "calls", "reads", "upsets"}, Spend(kind)
  PROVE  DOMAIN left' = DOMAIN left /\ left'.attempts = left.attempts
         /\ left'.files = left.files /\ left'.kinds = left.kinds
         /\ left'.batch = left.batch /\ left'.models = left.models
  BY DEF ShapeInv, Spend

LEMMA LeftStep ==
  ASSUME ShapeInv, [Next]_vars
  PROVE  DOMAIN left' = DOMAIN left /\ left'.attempts = left.attempts
         /\ left'.files = left.files /\ left'.kinds = left.kinds
         /\ left'.batch = left.batch /\ left'.models = left.models
  <1> DEFINE Kept == DOMAIN left' = DOMAIN left /\ left'.attempts = left.attempts
                       /\ left'.files = left.files /\ left'.kinds = left.kinds
                       /\ left'.batch = left.batch /\ left'.models = left.models
  <1>1. CASE left' = left
    BY <1>1
  <1>2. ASSUME NEW kind \in {"users", "calls", "reads", "upsets"}, Spend(kind) PROVE Kept
    BY <1>2, SpendKeeps
  <1> HIDE DEF Kept
  <1>3. CASE Walk
    <2>1. Spend("upsets") \/ left' = left
      BY <1>3 DEF Walk, Serve, AttemptFails
    <2> QED
      BY <2>1, <1>1, <1>2 DEF Kept
  <1>4. CASE Finish
    <2>1. ASSUME NEW persisted, FinishRead(persisted) PROVE Spend("upsets") \/ left' = left
      BY <2>1 DEF FinishRead
    <2>2. ASSUME NEW persisted, FinishEdit(persisted) PROVE Spend("upsets") \/ left' = left
      BY <2>2 DEF FinishEdit
    <2>3. ASSUME NEW persisted, SubmitHandOff(persisted) PROVE Spend("upsets") \/ left' = left
      BY <2>3, Zenon DEF SubmitHandOff
    <2>4. ASSUME NEW persisted, SubmitReopen(persisted) PROVE Spend("upsets") \/ left' = left
      BY <2>4, Zenon DEF SubmitReopen
    <2>5. Spend("upsets") \/ left' = left
      BY <1>4, <2>1, <2>2, <2>3, <2>4 DEF Finish
    <2> QED
      BY <2>5, <1>1, <1>2 DEF Kept
  <1>5. CASE ToolCall
    <2>1. Spend("reads") \/ Spend("calls") \/ left' = left
      BY <1>5, Zenon
         DEF ToolCall, StartRead, Edit, RefuseEdit, DeclareAnswer, AskUser, StartHandOff, StartReopen,
             CompleteWork, UpdateWork, CallMade
    <2> QED
      BY <2>1, <1>1, <1>2 DEF Kept
  <1>6. ASSUME NEW refs, NEW recorded, UserSends(refs, recorded) PROVE Kept
    BY <1>6 DEF UserSends, ShapeInv, Kept
  <1>7. ASSUME NEW isAuto, NEW damaged, Restart(isAuto, damaged) PROVE Kept
    BY <1>7 DEF Restart, ShapeInv, Kept
  <1>8. CASE SelectModel \/ UserAborts \/ (\E leaf : Navigate(leaf)) \/ (\E p : ExternalEdit(p))
    <2>1. Spend("upsets")
      BY <1>8 DEF SelectModel, UserAborts, Navigate, ExternalEdit
    <2> QED
      BY <2>1, <1>2 DEF Kept
  <1>9. Kept
    BY <1>1, <1>3, <1>4, <1>5, <1>6, <1>7, <1>8
       DEF Next, World, vars, Route, NextRequest, FinalAnswer, Remind, Settled, Kept
  <1> QED
    BY <1>9 DEF Kept

LEMMA FollowsSame ==
  ASSUME ShapeInv
  PROVE  /\ session' = session => SessionFollows
         /\ run' = run => RunFollows
         /\ hist' = hist => HistFollows
         /\ phase' = phase => PhaseFollows
  BY DEF ShapeInv, SessionFollows, RunFollows, HistFollows, PhaseFollows

LEMMA CountDenialFollows ==
  ASSUME NEW state, PhaseOK(state)
  PROVE  Follows(state, CountDenial(state))
  BY DEF PhaseOK, PhaseFields, Follows, Fixed, CountDenial

LEMMA HandoffFollows ==
  ASSUME NEW state, PhaseOK(state), NEW deliverable
  PROVE  Follows(state, AcceptContextHandoff(state, deliverable))
  BY DEF PhaseOK, PhaseFields, Follows, Fixed, AcceptContextHandoff

(* Fields no other part of the entry reads for its limits.                 *)
LEMMA OtherFieldsFollow ==
  ASSUME NEW state, PhaseOK(state), NEW next, Follows(state, next), NEW value
  PROVE  /\ Follows(state, [next EXCEPT !.prior = value])
         /\ Follows(state, [next EXCEPT !.completion = value])
         /\ Follows(state, [next EXCEPT !.pending = value])
         /\ Follows(state, [next EXCEPT !.provisional = value])
         /\ Follows(state, [next EXCEPT !.item = value])
         /\ Follows(state, [next EXCEPT !.answered = value])
         /\ Follows(state, [next EXCEPT !.mutated = value])
         /\ Follows(state, [next EXCEPT !.dispatched = value])
         /\ Follows(state, [next EXCEPT !.needsUser = value])
         /\ \A status \in {"clarification-only", "ready-pending", "served"} :
              Follows(state, [next EXCEPT !.status = status])
  BY DEF PhaseOK, PhaseFields, Follows, Fixed

LEMMA FollowsItself ==
  ASSUME NEW state, PhaseOK(state)
  PROVE  Follows(state, state)
  BY DEF PhaseOK, Follows

LEMMA LandedFollows ==
  ASSUME ShapeInv, run' = Landed \/ run' = Returned \/ \E facts : run' = Flying(facts)
  PROVE  RunFollows
  <1>1. CASE run' = IdleRun
    BY <1>1 DEF RunFollows, IdleRun
  <1>2. CASE run' = [run EXCEPT !.fly = None]
    BY <1>2 DEF ShapeInv, RunFollows
  <1>3. CASE run' = Returned
    BY <1>3 DEF ShapeInv, RunFollows, Returned
  <1>4. ASSUME NEW facts, run' = Flying(facts) PROVE RunFollows
    BY <1>4 DEF ShapeInv, RunFollows, Flying
  <1> QED
    BY <1>1, <1>2, <1>3, <1>4 DEF Landed

LEMMA ServeFollows ==
  ASSUME ShapeInv, NEW m, NEW clears, NEW lost, Serve(m, clears, lost)
  PROVE  Follow
  <1>1. phase # None /\ PhaseOK(phase)
    BY DEF ShapeInv, Serve
  <1>2. Follows(phase, SettleBoundary(phase, run.scored, clears))
    <2> DEFINE dispatched == IF phase.key = run.scored.key /\ phase.status = "clarification-only"
                               THEN [phase EXCEPT !.dispatched = TRUE] ELSE phase
    <2>1. Follows(phase, dispatched)
      BY <1>1, OtherFieldsFollow, FollowsItself
    <2> HIDE DEF dispatched
    <2>2. Follows(phase, [dispatched EXCEPT !.status = "served"])
      BY <2>1, <1>1, OtherFieldsFollow
    <2>3. SettleBoundary(phase, run.scored, clears) \in
            {dispatched, [dispatched EXCEPT !.status = "served"]}
      BY DEF SettleBoundary, dispatched
    <2> QED
      BY <2>1, <2>2, <2>3
  <1>3. PhaseFollows
    BY <1>1, <1>2 DEF PhaseFollows, Serve
  <1>4. SessionFollows /\ RunFollows /\ HistFollows
    BY DEF Serve, ShapeInv, SessionFollows, RunFollows, HistFollows
  <1> QED
    BY <1>3, <1>4 DEF Follow

LEMMA ToolCallFollows ==
  ASSUME ShapeInv, ToolCall
  PROVE  Follow
  <1> USE FollowsSame
  <1>0. phase # None /\ PhaseOK(phase)
    BY Zenon DEF ToolCall, StartRead, Edit, RefuseEdit, DeclareAnswer, AskUser, StartHandOff,
                 StartReopen, CompleteWork, UpdateWork, InCall, ShapeInv
  <1>1. RunFollows
    <2>1. run' = Returned \/ \E facts : run' = Flying(facts)
      BY Zenon DEF ToolCall, StartRead, Edit, RefuseEdit, DeclareAnswer, AskUser, StartHandOff,
                   StartReopen, CompleteWork, UpdateWork
    <2> QED
      BY <2>1, LandedFollows
  <1>2. session' = session
    BY Zenon DEF ToolCall, StartRead, Edit, RefuseEdit, DeclareAnswer, AskUser, StartHandOff,
                 StartReopen, CompleteWork, UpdateWork
  <1>3. HistFollows
    <2>1. hist' = hist \/ \E shown : hist' = [hist EXCEPT !.shown = shown]
      BY Zenon DEF ToolCall, StartRead, Edit, RefuseEdit, DeclareAnswer, AskUser, StartHandOff,
                   StartReopen, CompleteWork, UpdateWork
    <2> QED
      BY <2>1 DEF ShapeInv, HistFollows
  <1>4. PhaseFollows
    <2>1. CASE phase' = phase
      BY <2>1
    <2>2. CASE phase' = CountDenial(phase)
      BY <2>2, <1>0, CountDenialFollows DEF PhaseFollows
    <2>3. CASE phase' = [phase EXCEPT !.mutated = TRUE]
      BY <2>3, <1>0, OtherFieldsFollow, FollowsItself DEF PhaseFollows
    <2>4. CASE phase' = [phase EXCEPT !.answered = TRUE, !.pending = None, !.provisional = <<>>]
      BY <2>4, <1>0 DEF PhaseFollows, Follows, Fixed, PhaseOK, PhaseFields
    <2>5. CASE phase' = [phase EXCEPT !.status = "clarification-only", !.needsUser = TRUE]
      BY <2>5, <1>0 DEF PhaseFollows, Follows, Fixed, PhaseOK, PhaseFields
    <2>6. ASSUME NEW done, phase' = [phase EXCEPT !.completion = done] PROVE PhaseFollows
      BY <2>6, <1>0, OtherFieldsFollow, FollowsItself DEF PhaseFollows
    <2> QED
      BY <2>1, <2>2, <2>3, <2>4, <2>5, <2>6, Zenon
         DEF ToolCall, StartRead, Edit, RefuseEdit, DeclareAnswer, AskUser, StartHandOff, StartReopen,
             CompleteWork, UpdateWork
  <1> QED
    BY <1>1, <1>2, <1>3, <1>4 DEF Follow

LEMMA DimensionFollows ==
  ASSUME ShapeInv, NEW deliverable,
         \/ session' = session
         \/ session' = [session EXCEPT !.cached.dimension = deliverable]
  PROVE  SessionFollows
  <1>1. CASE session' = session
    BY <1>1, FollowsSame
  <1>2. CASE session' = [session EXCEPT !.cached.dimension = deliverable]
    <2>1. DOMAIN session.cached = {"key", "dimension"}
      BY <1>2 DEF ShapeInv
    <2>2. DOMAIN session' = DOMAIN session
          /\ session'.cached = [session.cached EXCEPT !.dimension = deliverable]
      BY <1>2 DEF ShapeInv
    <2>3. DOMAIN session'.cached = {"key", "dimension"} /\ session'.cached.key = session.cached.key
      BY <2>1, <2>2
    <2> QED
      BY <1>2, <2>2, <2>3 DEF ShapeInv, SessionFollows
  <1> QED
    BY <1>1, <1>2

LEMMA FinishFollows ==
  ASSUME ShapeInv, Finish
  PROVE  Follow
  <1> USE FollowsSame
  <1>1. RunFollows
    <2>1. run' = Landed
      BY Zenon DEF Finish, FinishRead, FinishEdit, SubmitHandOff, SubmitReopen
    <2> QED
      BY <2>1, LandedFollows
  <1>2. HistFollows
    <2>1. hist' = hist
      BY Zenon DEF Finish, FinishRead, FinishEdit, SubmitHandOff, SubmitReopen
    <2> QED
      BY <2>1
  <1>3. ASSUME NEW persisted, FinishRead(persisted) \/ FinishEdit(persisted)
        PROVE  PhaseFollows /\ SessionFollows
    <2>1. session' = session
      BY <1>3 DEF FinishRead, FinishEdit
    <2>2. phase' = phase \/ (phase # None /\ \E read : phase' = [phase EXCEPT !.provisional = read])
      BY <1>3, Zenon DEF FinishRead, FinishEdit
    <2>3. ASSUME phase # None, NEW read, phase' = [phase EXCEPT !.provisional = read]
          PROVE  PhaseFollows
      BY <2>3, OtherFieldsFollow, FollowsItself DEF PhaseFollows, ShapeInv
    <2> QED
      BY <2>1, <2>2, <2>3
  <1>4. ASSUME NEW persisted, SubmitHandOff(persisted) PROVE PhaseFollows /\ SessionFollows
    <2> DEFINE selected == phase.pending # None
               item == IF selected THEN run.fly.plan.item ELSE phase.item
               entered == IF selected
                            THEN [phase EXCEPT !.pending = None, !.provisional = <<>>, !.item = item]
                            ELSE phase
    <2>1. \/ session' = session
          \/ session' = [session EXCEPT !.cached.dimension = run.fly.deliverable]
      BY <1>4, Zenon DEF SubmitHandOff
    <2>2. \/ phase' = phase
          \/ phase # None /\ phase' = CountDenial(phase)
          \/ phase # None /\ phase' = [AcceptContextHandoff(entered, run.fly.deliverable)
                                         EXCEPT !.prior = None, !.completion = None]
      BY <1>4, Zenon DEF SubmitHandOff
    <2>3. ASSUME phase # None PROVE Follows(phase, entered) /\ PhaseOK(entered) /\ PhaseOK(phase)
      BY <2>3 DEF ShapeInv, PhaseOK, PhaseFields, Follows, Fixed
    <2> HIDE DEF entered
    <2>4. ASSUME phase # None,
                 phase' = [AcceptContextHandoff(entered, run.fly.deliverable)
                             EXCEPT !.prior = None, !.completion = None]
          PROVE  PhaseFollows
      <3> DEFINE accepted == AcceptContextHandoff(entered, run.fly.deliverable)
      <3>1. Follows(entered, accepted)
        BY <2>3, <2>4, HandoffFollows
      <3> HIDE DEF accepted
      <3>2. Follows(phase, accepted)
        BY <3>1, <2>3, <2>4 DEF Follows
      <3>3. Follows(phase, [accepted EXCEPT !.prior = None, !.completion = None])
        BY <3>2 DEF Follows, Fixed, PhaseOK, PhaseFields
      <3> QED
        BY <3>3, <2>4 DEF PhaseFollows, accepted
    <2>5. PhaseFollows
      BY <2>2, <2>3, <2>4, CountDenialFollows DEF PhaseFollows
    <2> QED
      BY <2>1, <2>5, DimensionFollows
  <1>5. ASSUME NEW persisted, SubmitReopen(persisted) PROVE PhaseFollows /\ SessionFollows
    <2> DEFINE accepted == AcceptContextHandoff(phase, run.fly.deliverable)
    <2>1. \/ session' = session
          \/ session' = [session EXCEPT !.cached.dimension = run.fly.deliverable]
      BY <1>5, Zenon DEF SubmitReopen
    <2>2. \/ phase' = phase
          \/ \E target :
               phase # None /\ phase' = [accepted EXCEPT !.prior = None, !.completion = None,
                                           !.pending = None, !.provisional = <<>>, !.item = target]
      <3>1. CASE phase = None
        <4>1. phase' = phase
          BY <1>5, <3>1, Zenon DEF SubmitReopen
        <4> QED
          BY <4>1
      <3>2. CASE phase # None
        BY <1>5, <3>2, Zenon DEF SubmitReopen
      <3> QED
        BY <3>1, <3>2
    <2>3. ASSUME phase # None PROVE Follows(phase, accepted)
      BY <2>3, HandoffFollows DEF ShapeInv
    <2> HIDE DEF accepted
    <2>4. ASSUME phase # None, NEW target,
                 phase' = [accepted EXCEPT !.prior = None, !.completion = None,
                             !.pending = None, !.provisional = <<>>, !.item = target]
          PROVE  PhaseFollows
      BY <2>3, <2>4 DEF PhaseFollows, Follows, Fixed, PhaseOK, PhaseFields
    <2>5. PhaseFollows
      BY <2>2, <2>4
    <2> QED
      BY <2>1, <2>5, DimensionFollows
  <1> QED
    BY <1>1, <1>2, <1>3, <1>4, <1>5 DEF Finish, Follow

(* Steps of the run and of the world that leave the entry alone.           *)
LEMMA OtherStepsFollow ==
  ASSUME ShapeInv,
         \/ NextRequest \/ FinalAnswer \/ SelectModel \/ UserAborts
         \/ (\E p : ExternalEdit(p)) \/ UNCHANGED vars
  PROVE  Follow
  <1> USE FollowsSame DEF Follow
  <1>1. CASE NextRequest \/ FinalAnswer
    BY <1>1 DEF NextRequest, FinalAnswer, ShapeInv, RunFollows, IdleRun
  <1>2. CASE SelectModel
    BY <1>2 DEF SelectModel, ShapeInv, SessionFollows
  <1>3. CASE UserAborts
    BY <1>3 DEF UserAborts, ShapeInv, RunFollows, IdleRun
  <1>4. CASE \E p : ExternalEdit(p)
    BY <1>4 DEF ExternalEdit
  <1>5. CASE UNCHANGED vars
    BY <1>5 DEF vars
  <1> QED
    BY <1>1, <1>2, <1>3, <1>4, <1>5

-----------------------------------------------------------------------------
(* The limit on requests while an entry collects context.                  *)

Known == session.cached.key = Key(run.entry)

(* The run is at its entry: routed before, and not yet over.               *)
InEntry == run.pc \in {"walk", "tools", "settle"} \/ (run.pc = "route" /\ Known)

(* Keys that were used belong to messages that are in the tree, so a new   *)
(* message has a key of its own.                                           *)
KeysInv ==
  /\ session.cached.key = None \/ \E i \in 1..Len(store.tree) : session.cached.key = Key(i)
  /\ run.pc # "idle" => run.entry \in 1..Len(store.tree)

(* While the run is at its entry, what was sent while collecting is what   *)
(* the phase counted; one walk adds its attempts to less than the limit.   *)
CollectInv ==
  /\ InEntry /\ phase # None =>
       /\ phase.key = Key(run.entry)
       /\ phase.status = None => hist.sends = 0
       /\ phase.status = "acquiring" => hist.sends = phase.requests /\ ~phase.incumbentServes
  /\ run.pc = "walk" =>
       /\ run.scored.key = Key(run.entry)
       /\ run.attempt \in 1..left.attempts
       /\ phase # None /\ phase.status = "acquiring" =>
            phase.requests <= RequestLimit - 1 + run.attempt
  /\ hist.sends \in Nat
  /\ AcquisitionBounded

EntryInv == ShapeInv /\ KeysInv /\ CollectInv

LEMMA FollowKeepsShape ==
  ASSUME ShapeInv, Follow, [Next]_vars
  PROVE  ShapeInv'
  <1>1. StoreOK(store')
    BY StoreStep DEF ShapeInv, Grows
  <1>2. phase' # None => PhaseOK(phase')
    BY DEF Follow, PhaseFollows, Follows, ShapeInv
  <1> QED
    BY <1>1, <1>2, LeftStep
       DEF ShapeInv, Follow, SessionFollows, RunFollows, HistFollows

LEMMA FollowKeepsKeys ==
  ASSUME ShapeInv, KeysInv, Follow, [Next]_vars
  PROVE  KeysInv'
  <1>1. Len(store.tree) \in Nat /\ Len(store'.tree) \in Nat /\ Len(store.tree) <= Len(store'.tree)
    BY StoreStep DEF ShapeInv, Grows, StoreOK, IsTree
  <1>2. \A i \in 1..Len(store.tree) : i \in 1..Len(store'.tree)
    BY <1>1
  <1>3. session'.cached.key = None \/ \E i \in 1..Len(store'.tree) : session'.cached.key = Key(i)
    BY <1>2 DEF KeysInv, Follow, SessionFollows
  <1>4. run'.pc # "idle" => run'.entry \in 1..Len(store'.tree)
    BY <1>2 DEF KeysInv, Follow, RunFollows
  <1> QED
    BY <1>3, <1>4 DEF KeysInv

LEMMA FollowStep ==
  ASSUME EntryInv, Follow, [Next]_vars
  PROVE  CollectInv'
  <1> USE DEF EntryInv, Follow
  <1>1. left'.attempts = left.attempts /\ hist'.sends = hist.sends
    BY LeftStep DEF HistFollows
  <1>2. InEntry' => InEntry /\ run'.entry = run.entry
    BY DEF InEntry, Known, RunFollows, SessionFollows
  <1>3. run'.pc = "walk" =>
          run.pc = "walk" /\ run'.scored = run.scored /\ run'.attempt = run.attempt
            /\ run'.entry = run.entry
    BY DEF RunFollows
  <1>4. phase' # None =>
          /\ phase # None /\ phase'.key = phase.key
          /\ phase'.incumbentServes = phase.incumbentServes
          /\ \/ phase'.status = phase.status /\ phase'.requests = phase.requests
             \/ phase'.status \in {"clarification-only", "ready-pending", "served"}
    BY DEF PhaseFollows, Follows, Fixed
  <1> QED
    BY <1>1, <1>2, <1>3, <1>4, EntryAssumption DEF CollectInv, AcquisitionBounded

LEMMA AdvanceEffect ==
  ASSUME ShapeInv, NEW key, NEW hit \in BOOLEAN, NEW base, NEW pending,
         AdvanceWorkPhase(key, hit, base, pending) # None
  PROVE  LET state == AdvanceWorkPhase(key, hit, base, pending)
         IN  /\ PhaseOK(state)
             /\ hit => /\ phase # None
                       /\ \A f \in Fixed : state[f] = phase[f]
                       /\ state.status = phase.status /\ state.requests = phase.requests
             /\ ~hit => /\ state.key = key /\ state.status = None /\ state.requests = 0
                        /\ ~state.dispatched
                        /\ ~state.contextReminded /\ ~state.completionReminded
                        /\ ~state.outcomeLogged
  <1>1. CASE hit
    <2>1. phase # None /\ PhaseOK(phase)
      BY <1>1 DEF AdvanceWorkPhase, ShapeInv
    <2>2. AdvanceWorkPhase(key, hit, base, pending) = [phase EXCEPT !.deniedNow = FALSE]
      BY <1>1, <2>1 DEF AdvanceWorkPhase
    <2> QED
      BY <1>1, <2>1, <2>2 DEF PhaseOK, PhaseFields, Fixed
  <1>2. CASE ~hit
    BY <1>2 DEF AdvanceWorkPhase, FreshPhase, PhaseOK, PhaseFields
  <1> QED
    BY <1>1, <1>2

LEMMA EnterEffect ==
  ASSUME NEW state, PhaseOK(state), state # None,
         state.status = "acquiring" => ~state.incumbentServes
  PROVE  LET entered == EnterAcquisition(state)
         IN  /\ PhaseOK(entered)
             /\ \A f \in Fixed \union {"dispatched"} : entered[f] = state[f]
             /\ entered.status = "acquiring" =>
                  /\ entered.requests < RequestLimit /\ ~entered.incumbentServes
                  /\ \/ state.status = None /\ entered.requests = 0
                     \/ state.status = "acquiring" /\ entered.requests = state.requests
             /\ entered.status \in {state.status, "acquiring", "clarification-only"}
             /\ entered.status = "clarification-only" =>
                  state.status # None
  <1> DEFINE begun == IF state.status = None
                        THEN [state EXCEPT !.status = "acquiring", !.requests = 0] ELSE state
             entered == EnterAcquisition(state)
  <1>0. RequestLimit \in Nat \ {0} /\ None \notin {"acquiring", "clarification-only"}
    BY EntryAssumption
  <1>1. CASE ~Investigates(state)
    <2>1. entered = state
      BY <1>1 DEF EnterAcquisition
    <2>2. state.status # "acquiring"
      BY <1>1 DEF Investigates
    <2> QED
      BY <2>1, <2>2, <1>0
  <1>2. CASE Investigates(state)
    <2>1. entered = IF begun.status = "acquiring" /\ begun.requests >= RequestLimit
                      THEN [begun EXCEPT !.status = "clarification-only"] ELSE begun
      BY <1>2 DEF EnterAcquisition
    <2>2. begun.status = "acquiring" => ~state.incumbentServes
      BY <1>2, <1>0 DEF Investigates
    <2>3. /\ PhaseOK(begun)
          /\ \A f \in Fixed \union {"dispatched"} : begun[f] = state[f]
          /\ begun.requests = IF state.status = None THEN 0 ELSE state.requests
          /\ begun.status = IF state.status = None THEN "acquiring" ELSE state.status
      BY DEF PhaseOK, PhaseFields, Fixed
    <2> HIDE DEF begun, entered
    <2>4. CASE begun.status = "acquiring" /\ begun.requests >= RequestLimit
      <3>1. entered = [begun EXCEPT !.status = "clarification-only"]
        BY <2>1, <2>4
      <3>2. state.status # None
        BY <2>3, <2>4, <1>0
      <3>3. /\ PhaseOK(entered) /\ entered.status = "clarification-only"
            /\ \A f \in Fixed \union {"dispatched"} : entered[f] = state[f]
        BY <2>3, <3>1 DEF PhaseOK, PhaseFields, Fixed
      <3> QED
        BY <3>2, <3>3 DEF entered
    <2>5. CASE ~(begun.status = "acquiring" /\ begun.requests >= RequestLimit)
      <3>1. entered = begun
        BY <2>1, <2>5
      <3> QED
        BY <3>1, <2>2, <2>3, <2>5, <1>0 DEF entered, PhaseOK, Fixed
    <2> QED
      BY <2>4, <2>5
  <1> QED
    BY <1>1, <1>2

(* The phase a request starts from, and what the context part makes of it. *)
Advanced ==
  LET key == Key(run.entry)
      base == BaseDimension(key)
  IN  AdvanceWorkPhase(key, Known, base,
        ResolveEntryContext(key, base, store.tree[run.entry].refs))

Entered == EnterAcquisition(Advanced)

Ended == Entered # None /\ Entered.status = "clarification-only" /\ Entered.dispatched

LEMMA RouteEffect ==
  ASSUME Route
  PROVE  /\ run.pc = "route"
         /\ \/ /\ Ended /\ phase' = Entered /\ session' = session /\ hist' = hist
               /\ run' = [IdleRun EXCEPT !.fly = run.fly]
            \/ /\ ~Ended /\ phase' = CountAcquisitionRequest(Entered, Key(run.entry))
               /\ \E decision, scored :
                    /\ session' = [session EXCEPT
                         !.cached = IF Known THEN @ ELSE [key |-> Key(run.entry),
                                                          dimension |-> BaseDimension(Key(run.entry))],
                         !.decision = decision]
                    /\ scored.key = Key(run.entry)
                    /\ run' = [run EXCEPT !.pc = "walk", !.attempt = 1, !.scored = scored]
               /\ hist' = [hist EXCEPT !.sends = Sends(Entered, IF Known THEN @ ELSE 0)]
  <1> DEFINE key == Key(run.entry)
             base == BaseDimension(key)
             dimension == RoutedDimension(Entered, base)
             decided == [key |-> key, dimension |-> dimension]
             walked == [key |-> key, dimension |-> dimension,
                        boundary |-> Entered # None /\ Entered.status = "ready-pending"]
             next == CountAcquisitionRequest(Entered, key)
  <1>1. /\ run.pc = "route"
        /\ IF Ended
             THEN /\ phase' = Entered /\ session' = session /\ hist' = hist
                  /\ run' = [IdleRun EXCEPT !.fly = run.fly]
             ELSE /\ phase' = next
                  /\ session' = [session EXCEPT
                       !.cached = IF Known THEN @ ELSE [key |-> key, dimension |-> base],
                       !.decision = decided]
                  /\ run' = [run EXCEPT !.pc = "walk", !.attempt = 1, !.scored = walked]
                  /\ hist' = [hist EXCEPT !.sends = Sends(Entered, IF Known THEN @ ELSE 0)]
    BY Zenon DEF Route, Known, Ended, Entered, Advanced
  <1>2. walked.key = key
    OBVIOUS
  <1> HIDE DEF next, walked, decided
  <1>3. CASE Ended
    BY <1>1, <1>3
  <1>4. CASE ~Ended
    BY <1>1, <1>2, <1>4 DEF next
  <1> QED
    BY <1>3, <1>4

LEMMA RouteStep ==
  ASSUME EntryInv, Route, [Next]_vars
  PROVE  EntryInv'
  <1> DEFINE key == Key(run.entry)
             base == BaseDimension(key)
             state == Advanced
             entered == Entered
             ended == Ended
             next == CountAcquisitionRequest(entered, key)
  <1>1. /\ run.pc = "route"
        /\ \/ /\ ended /\ phase' = entered /\ session' = session /\ hist' = hist
              /\ run' = [IdleRun EXCEPT !.fly = run.fly]
           \/ /\ ~ended /\ phase' = next
              /\ \E decision, scored :
                   /\ session' = [session EXCEPT
                        !.cached = IF Known THEN @ ELSE [key |-> key, dimension |-> base],
                        !.decision = decision]
                   /\ scored.key = key
                   /\ run' = [run EXCEPT !.pc = "walk", !.attempt = 1, !.scored = scored]
              /\ hist' = [hist EXCEPT !.sends = Sends(entered, IF Known THEN @ ELSE 0)]
    BY RouteEffect
  <1>2. ASSUME state # None
        PROVE  /\ PhaseOK(state)
               /\ Known => /\ phase # None /\ \A f \in Fixed : state[f] = phase[f]
                           /\ state.status = phase.status /\ state.requests = phase.requests
               /\ ~Known => state.key = key /\ state.status = None /\ state.requests = 0
                              /\ ~state.dispatched
    <2>1. Known \in BOOLEAN
      BY DEF Known
    <2> QED
      BY <1>2, <2>1, AdvanceEffect DEF EntryInv, Advanced
  <1> HIDE DEF state
  <1>3. Known => InEntry
    BY <1>1 DEF InEntry
  <1>4. ASSUME state # None
        PROVE  /\ state.status = "acquiring" => ~state.incumbentServes
               /\ state.key = key
    BY <1>2, <1>3, <1>4, EntryAssumption DEF EntryInv, CollectInv, Fixed
  <1>5. ASSUME entered # None
        PROVE  /\ PhaseOK(entered) /\ entered.key = key
               /\ entered.status = "acquiring" =>
                    /\ entered.requests < RequestLimit /\ ~entered.incumbentServes
                    /\ entered.requests = IF Known THEN hist.sends ELSE 0
               /\ entered.status = None /\ Known => hist.sends = 0
               /\ ended => Known
    <2>1. state # None
      BY <1>5 DEF EnterAcquisition, Entered, state
    <2>2. /\ PhaseOK(entered)
          /\ \A f \in Fixed \union {"dispatched"} : entered[f] = state[f]
          /\ entered.status = "acquiring" =>
               /\ entered.requests < RequestLimit /\ ~entered.incumbentServes
               /\ \/ state.status = None /\ entered.requests = 0
                  \/ state.status = "acquiring" /\ entered.requests = state.requests
          /\ entered.status \in {state.status, "acquiring", "clarification-only"}
      BY <2>1, <1>2, <1>4, EnterEffect DEF state, Entered
    <2> HIDE DEF entered
    <2>3. entered.key = key
      BY <2>1, <2>2, <1>4 DEF Fixed
    <2>4. ASSUME entered.status = "acquiring"
          PROVE  entered.requests = IF Known THEN hist.sends ELSE 0
      BY <2>4, <2>1, <2>2, <1>2, <1>3, EntryAssumption DEF EntryInv, CollectInv
    <2>5. ASSUME entered.status = None, Known PROVE hist.sends = 0
      BY <2>5, <2>1, <2>2, <1>2, <1>3, EntryAssumption DEF EntryInv, CollectInv
    <2>6. ended => Known
      BY <2>1, <2>2, <1>2 DEF entered, Ended
    <2> QED
      BY <2>2, <2>3, <2>4, <2>5, <2>6
  <1> HIDE DEF entered
  <1>6. StoreOK(store') /\ store' = store /\ left' = left
    BY DEF Route, EntryInv, ShapeInv
  <1>7. CASE ended /\ phase' = entered /\ session' = session /\ hist' = hist
               /\ run' = [IdleRun EXCEPT !.fly = run.fly]
    <2>1. DOMAIN run' = {"pc", "entry", "attempt", "calls", "scored", "fly"} /\ run'.pc = "idle"
      BY <1>7 DEF IdleRun
    <2>2. ShapeInv'
      BY <1>5, <1>6, <1>7, <2>1 DEF EntryInv, ShapeInv
    <2>3. KeysInv'
      BY <1>6, <1>7, <2>1 DEF EntryInv, KeysInv
    <2>4. CollectInv'
      BY <1>6, <1>7, <2>1 DEF EntryInv, CollectInv, AcquisitionBounded, InEntry
    <2> QED
      BY <2>2, <2>3, <2>4 DEF EntryInv
  <1>8. ASSUME ~ended, phase' = next, NEW decision, NEW scored, scored.key = key,
               session' = [session EXCEPT
                 !.cached = IF Known THEN @ ELSE [key |-> key, dimension |-> base],
                 !.decision = decision],
               run' = [run EXCEPT !.pc = "walk", !.attempt = 1, !.scored = scored],
               hist' = [hist EXCEPT !.sends = Sends(entered, IF Known THEN @ ELSE 0)]
        PROVE  EntryInv'
    <2>1. /\ DOMAIN run' = {"pc", "entry", "attempt", "calls", "scored", "fly"}
          /\ run'.pc = "walk" /\ run'.attempt = 1 /\ run'.scored.key = key /\ run'.entry = run.entry
      BY <1>8 DEF EntryInv, ShapeInv
    <2>2. /\ DOMAIN session' = {"gen", "cached", "decision", "served"}
          /\ DOMAIN session'.cached = {"key", "dimension"} /\ session'.cached.key = key
      BY <1>8 DEF EntryInv, ShapeInv, Known
    <2>3. /\ DOMAIN hist' = {"shown", "foreign", "sends", "settle", "unrecorded"}
          /\ hist'.sends = Sends(entered, IF Known THEN hist.sends ELSE 0)
      BY <1>8 DEF EntryInv, ShapeInv
    <2>4. ASSUME next # None
          PROVE  /\ entered # None /\ PhaseOK(next) /\ next.key = key
                 /\ next.status = entered.status
                 /\ next.incumbentServes = entered.incumbentServes
                 /\ next.requests = IF entered.status = "acquiring" THEN entered.requests + 1
                                                                    ELSE entered.requests
      <3>1. entered # None
        BY <2>4 DEF CountAcquisitionRequest
      <3>2. next = IF entered.status = "acquiring"
                     THEN [entered EXCEPT !.requests = @ + 1] ELSE entered
        BY <3>1, <1>5 DEF CountAcquisitionRequest
      <3> HIDE DEF next
      <3> QED
        BY <3>1, <3>2, <1>5 DEF PhaseOK, PhaseFields
    <2> HIDE DEF next
    <2>5. ShapeInv'
      BY <1>6, <1>8, <2>1, <2>2, <2>3, <2>4 DEF EntryInv, ShapeInv
    <2>6. KeysInv'
      <3>1. run.entry \in 1..Len(store.tree)
        BY <1>1 DEF EntryInv, KeysInv
      <3> QED
        BY <3>1, <1>6, <2>1, <2>2 DEF KeysInv
    <2>7. CollectInv'
      <3>1. RequestLimit \in Nat \ {0} /\ left.attempts \in Nat \ {0} /\ hist.sends \in Nat
        BY EntryAssumption DEF EntryInv, ShapeInv, CollectInv
      <3>2. /\ hist'.sends \in Nat /\ AcquisitionBounded'
        BY <3>1, <2>3, <1>5, <1>6 DEF Sends, AcquisitionBounded, EntryInv, CollectInv
      <3>3. ASSUME phase' # None
            PROVE  /\ phase'.key = key
                   /\ phase'.status = None => hist'.sends = 0
                   /\ phase'.status = "acquiring" =>
                        hist'.sends = phase'.requests /\ ~phase'.incumbentServes
                          /\ phase'.requests <= RequestLimit
        BY <3>3, <3>1, <2>3, <2>4, <1>5, <1>8, EntryAssumption DEF Sends, PhaseOK
      <3> QED
        BY <3>1, <3>2, <3>3, <2>1, <1>6 DEF CollectInv
    <2> QED
      BY <2>5, <2>6, <2>7 DEF EntryInv
  <1> QED
    BY <1>1, <1>7, <1>8

-----------------------------------------------------------------------------
(* The reminders at the end of a run.                                      *)

(* The log of reminders and outcomes: SettleOnce of any such sequence.     *)
OnceIn(log) ==
  /\ \A i, j \in DOMAIN log : log[i] = log[j] => i = j
  /\ \A i \in DOMAIN log :
       log[i][3] # "reminded" =>
         /\ \E j \in 1..(i - 1) : log[j] = <<log[i][1], log[i][2], "reminded">>
         /\ \A j \in 1..(i - 1) :
              log[j][3] = "reminded" \/ log[j][1] # log[i][1] \/ log[j][2] # log[i][2]

LogOK(log) ==
  /\ IsTree(log)
  /\ \A i \in 1..Len(log) : log[i] = <<log[i][1], log[i][2], log[i][3]>>
  /\ OnceIn(log)

Logged(log, line) == \E i \in 1..Len(log) : log[i] = line

LEMMA LogsReminder ==
  ASSUME NEW log, LogOK(log), NEW key, NEW kind, ~Logged(log, <<key, kind, "reminded">>)
  PROVE  LogOK(Append(log, <<key, kind, "reminded">>))
  <1> DEFINE line == <<key, kind, "reminded">>
             next == Append(log, line)
  <1>1. /\ IsTree(next) /\ Len(next) = Len(log) + 1 /\ Len(log) \in Nat
        /\ \A i \in 1..Len(log) : next[i] = log[i]
        /\ next[Len(log) + 1] = line
    BY TreeIsSeq DEF LogOK, IsTree
  <1>2. /\ line[1] = key /\ line[2] = kind /\ line[3] = "reminded"
        /\ line = <<line[1], line[2], line[3]>>
    OBVIOUS
  <1> HIDE DEF line, next
  <1>3. DOMAIN next = 1..(Len(log) + 1) /\ DOMAIN log = 1..Len(log)
    BY <1>1 DEF IsTree, LogOK
  <1>4. \A i, j \in DOMAIN next : next[i] = next[j] => i = j
    BY <1>1, <1>3 DEF LogOK, OnceIn, Logged, line
  <1>5. ASSUME NEW i \in DOMAIN next, next[i][3] # "reminded"
        PROVE  /\ \E j \in 1..(i - 1) : next[j] = <<next[i][1], next[i][2], "reminded">>
               /\ \A j \in 1..(i - 1) :
                    next[j][3] = "reminded" \/ next[j][1] # next[i][1] \/ next[j][2] # next[i][2]
    <2>1. i \in 1..Len(log)
      BY <1>1, <1>2, <1>3, <1>5
    <2>2. CASE i \in 1..Len(log)
      <3>1. \A j \in 1..(i - 1) : j \in 1..Len(log)
        BY <2>1, <1>1
      <3>2. next[i] = log[i] /\ log[i][3] # "reminded" /\ i \in DOMAIN log
        BY <2>1, <1>1, <1>3, <1>5
      <3>3. /\ \E j \in 1..(i - 1) : log[j] = <<log[i][1], log[i][2], "reminded">>
            /\ \A j \in 1..(i - 1) :
                 log[j][3] = "reminded" \/ log[j][1] # log[i][1] \/ log[j][2] # log[i][2]
        BY <3>2 DEF LogOK, OnceIn
      <3>4. \A j \in 1..(i - 1) : next[j] = log[j]
        BY <3>1, <1>1
      <3> QED
        BY <3>2, <3>3, <3>4
    <2> QED
      BY <2>1, <2>2
  <1>6. \A i \in 1..Len(next) : next[i] = <<next[i][1], next[i][2], next[i][3]>>
    BY <1>1, <1>2 DEF LogOK
  <1>7. LogOK(next)
    BY <1>1, <1>4, <1>5, <1>6 DEF LogOK, OnceIn
  <1> QED
    BY <1>7 DEF next, line

LEMMA LogsOutcome ==
  ASSUME NEW log, LogOK(log), NEW key, NEW kind, NEW what, what # "reminded",
         Logged(log, <<key, kind, "reminded">>),
         \A i \in 1..Len(log) : log[i][1] = key /\ log[i][2] = kind => log[i][3] = "reminded"
  PROVE  LogOK(Append(log, <<key, kind, what>>))
  <1> DEFINE line == <<key, kind, what>>
             next == Append(log, line)
  <1>1. /\ IsTree(next) /\ Len(next) = Len(log) + 1 /\ Len(log) \in Nat
        /\ \A i \in 1..Len(log) : next[i] = log[i]
        /\ next[Len(log) + 1] = line
    BY TreeIsSeq DEF LogOK, IsTree
  <1>2. /\ line[1] = key /\ line[2] = kind /\ line[3] = what
        /\ line = <<line[1], line[2], line[3]>>
    OBVIOUS
  <1> HIDE DEF line, next
  <1>3. DOMAIN next = 1..(Len(log) + 1) /\ DOMAIN log = 1..Len(log)
    BY <1>1 DEF IsTree, LogOK
  <1>4. \A i, j \in DOMAIN next : next[i] = next[j] => i = j
    <2>1. \A i \in 1..Len(log) : log[i] # line
      BY <1>2
    <2> QED
      BY <2>1, <1>1, <1>3 DEF LogOK, OnceIn
  <1>5. ASSUME NEW i \in DOMAIN next, next[i][3] # "reminded"
        PROVE  /\ \E j \in 1..(i - 1) : next[j] = <<next[i][1], next[i][2], "reminded">>
               /\ \A j \in 1..(i - 1) :
                    next[j][3] = "reminded" \/ next[j][1] # next[i][1] \/ next[j][2] # next[i][2]
    <2>1. CASE i = Len(log) + 1
      <3>1. \A j \in 1..(i - 1) : j \in 1..Len(log) /\ next[j] = log[j]
        BY <2>1, <1>1
      <3>2. next[i][1] = key /\ next[i][2] = kind
        BY <2>1, <1>1, <1>2
      <3>3. \E j \in 1..(i - 1) : next[j] = <<key, kind, "reminded">>
        BY <2>1, <1>1 DEF Logged
      <3>4. \A j \in 1..(i - 1) : next[j][3] = "reminded" \/ next[j][1] # key \/ next[j][2] # kind
        BY <3>1
      <3> QED
        BY <3>2, <3>3, <3>4
    <2>2. CASE i \in 1..Len(log)
      <3>1. \A j \in 1..(i - 1) : j \in 1..Len(log)
        BY <2>2, <1>1
      <3>2. next[i] = log[i] /\ log[i][3] # "reminded" /\ i \in DOMAIN log
        BY <2>2, <1>1, <1>3, <1>5
      <3>3. /\ \E j \in 1..(i - 1) : log[j] = <<log[i][1], log[i][2], "reminded">>
            /\ \A j \in 1..(i - 1) :
                 log[j][3] = "reminded" \/ log[j][1] # log[i][1] \/ log[j][2] # log[i][2]
        BY <3>2 DEF LogOK, OnceIn
      <3>4. \A j \in 1..(i - 1) : next[j] = log[j]
        BY <3>1, <1>1
      <3> QED
        BY <3>2, <3>3, <3>4
    <2> QED
      BY <2>1, <2>2, <1>1, <1>3
  <1>6. \A i \in 1..Len(next) : next[i] = <<next[i][1], next[i][2], next[i][3]>>
    BY <1>1, <1>2 DEF LogOK
  <1>7. LogOK(next)
    BY <1>1, <1>4, <1>5, <1>6 DEF LogOK, OnceIn
  <1> QED
    BY <1>7 DEF next, line

Reminded(state) ==
  /\ Logged(hist.settle, <<state.key, "context", "reminded">>) <=> state.contextReminded
  /\ Logged(hist.settle, <<state.key, "completion", "reminded">>) <=> state.completionReminded

(* What the log says of a key: nothing before its first request, and while *)
(* the run is at it the reminders the phase remembers and no outcome.      *)
SettleInv ==
  /\ LogOK(hist.settle)
  /\ \A i \in 1..Len(hist.settle) : \E n \in 1..Len(store.tree) : hist.settle[i][1] = Key(n)
  /\ run.pc \in {"walk", "tools", "settle"} => Known
  /\ run.pc = "route" /\ ~Known =>
       \A i \in 1..Len(hist.settle) : hist.settle[i][1] # Key(run.entry)
  /\ InEntry /\ phase # None =>
       /\ ~phase.outcomeLogged /\ Reminded(phase)
       /\ \A i \in 1..Len(hist.settle) :
            hist.settle[i][1] = phase.key => hist.settle[i][3] = "reminded"

(* A step that logs nothing keeps it: the run stays at its entry, or comes *)
(* to a new message, or routes the first request of one.                   *)
LEMMA QuietStep ==
  ASSUME EntryInv, SettleInv, [Next]_vars, hist'.settle = hist.settle,
         run'.pc \in {"walk", "tools", "settle"} => Known',
         run'.pc = "route" /\ ~Known' =>
           \/ run.pc = "route" /\ ~Known /\ run'.entry = run.entry
           \/ run'.entry \in Nat /\ run'.entry > Len(store.tree),
         InEntry' /\ phase' # None =>
           \/ InEntry /\ phase # None /\ \A f \in Fixed : phase'[f] = phase[f]
           \/ /\ run.pc = "route" /\ ~Known /\ phase'.key = Key(run.entry)
              /\ phase'.contextReminded = FALSE /\ phase'.completionReminded = FALSE
              /\ phase'.outcomeLogged = FALSE
  PROVE  SettleInv'
  <1>1. Len(store.tree) \in Nat /\ Len(store'.tree) \in Nat /\ Len(store.tree) <= Len(store'.tree)
    BY StoreStep DEF EntryInv, ShapeInv, Grows, StoreOK, IsTree
  <1>2. LogOK(hist'.settle)
    BY DEF SettleInv
  <1>3. \A i \in 1..Len(hist'.settle) : \E n \in 1..Len(store'.tree) : hist'.settle[i][1] = Key(n)
    BY <1>1 DEF SettleInv
  <1>4. ASSUME run'.pc = "route", ~Known'
        PROVE  \A i \in 1..Len(hist'.settle) : hist'.settle[i][1] # Key(run'.entry)
    BY <1>1, <1>4 DEF SettleInv, Key
  <1>5. ASSUME InEntry', phase' # None
        PROVE  /\ ~phase'.outcomeLogged /\ Reminded(phase)'
               /\ \A i \in 1..Len(hist'.settle) :
                    hist'.settle[i][1] = phase'.key => hist'.settle[i][3] = "reminded"
    <2>1. CASE InEntry /\ phase # None /\ \A f \in Fixed : phase'[f] = phase[f]
      <3>1. /\ phase'.key = phase.key /\ phase'.outcomeLogged = phase.outcomeLogged
            /\ phase'.contextReminded = phase.contextReminded
            /\ phase'.completionReminded = phase.completionReminded
        BY <2>1 DEF Fixed
      <3>2. Reminded(phase)' <=> Reminded(phase)
        BY <3>1, Zenon DEF Reminded
      <3> QED
        BY <2>1, <3>1, <3>2 DEF SettleInv
    <2>2. CASE /\ run.pc = "route" /\ ~Known /\ phase'.key = Key(run.entry)
               /\ phase'.contextReminded = FALSE /\ phase'.completionReminded = FALSE
               /\ phase'.outcomeLogged = FALSE
      <3>1. \A i \in 1..Len(hist.settle) : hist.settle[i][1] # phase'.key
        BY <2>2 DEF SettleInv
      <3>2. \A kind : ~Logged(hist.settle, <<phase'.key, kind, "reminded">>)
        BY <3>1 DEF Logged
      <3>3. /\ ~Logged(hist'.settle, <<phase'.key, "context", "reminded">>)
            /\ ~Logged(hist'.settle, <<phase'.key, "completion", "reminded">>)
        BY <3>2
      <3>4. Reminded(phase)'
        BY <2>2, <3>3, Zenon DEF Reminded
      <3> QED
        BY <2>2, <3>1, <3>4
    <2> QED
      BY <1>5, <2>1, <2>2
  <1> QED
    BY <1>2, <1>3, <1>4, <1>5 DEF SettleInv

LEMMA FollowIsQuiet ==
  ASSUME EntryInv, SettleInv, Follow, [Next]_vars
  PROVE  SettleInv'
  <1>1. hist'.settle = hist.settle
    BY DEF Follow, HistFollows
  <1>2. run'.pc # "idle" => run'.entry = run.entry
    BY DEF Follow, RunFollows
  <1>3. run'.pc # "idle" => (Known' <=> Known)
    BY <1>2 DEF Follow, SessionFollows, Known
  <1>4. run'.pc \in {"walk", "tools", "settle"} => Known'
    BY <1>3 DEF Follow, RunFollows, SettleInv
  <1>5. run'.pc = "route" /\ ~Known' => run.pc = "route" /\ ~Known /\ run'.entry = run.entry
    BY <1>2, <1>3 DEF Follow, RunFollows, SettleInv
  <1>6. InEntry' => InEntry
    BY <1>3 DEF InEntry, Follow, RunFollows
  <1>7. InEntry' /\ phase' # None =>
          InEntry /\ phase # None /\ \A f \in Fixed : phase'[f] = phase[f]
    BY <1>6 DEF Follow, PhaseFollows, Follows
  <1> QED
    BY <1>1, <1>4, <1>5, <1>7, QuietStep

LEMMA RouteIsQuiet ==
  ASSUME EntryInv, SettleInv, Route, [Next]_vars
  PROVE  SettleInv'
  <1>1. run.pc = "route"
    BY RouteEffect
  <1>2. hist'.settle = hist.settle
    BY RouteEffect DEF EntryInv, ShapeInv
  <1>3. run'.pc = "idle" \/ (run'.pc = "walk" /\ Known')
    <2>1. CASE run' = [IdleRun EXCEPT !.fly = run.fly]
      BY <2>1 DEF IdleRun
    <2>2. ASSUME NEW decision, NEW scored,
                 session' = [session EXCEPT
                   !.cached = IF Known THEN @ ELSE [key |-> Key(run.entry),
                                                    dimension |-> BaseDimension(Key(run.entry))],
                   !.decision = decision],
                 run' = [run EXCEPT !.pc = "walk", !.attempt = 1, !.scored = scored]
          PROVE  run'.pc = "walk" /\ Known'
      <3>1. run'.pc = "walk" /\ run'.entry = run.entry
        BY <2>2 DEF EntryInv, ShapeInv
      <3>2. session'.cached.key = Key(run.entry)
        BY <2>2 DEF EntryInv, ShapeInv, Known
      <3> QED
        BY <3>1, <3>2 DEF Known
    <2> QED
      BY <2>1, <2>2, RouteEffect
  <1>4. ASSUME InEntry', phase' # None
        PROVE  \/ InEntry /\ phase # None /\ \A f \in Fixed : phase'[f] = phase[f]
               \/ /\ run.pc = "route" /\ ~Known /\ phase'.key = Key(run.entry)
                  /\ phase'.contextReminded = FALSE /\ phase'.completionReminded = FALSE
                  /\ phase'.outcomeLogged = FALSE
    <2>1. phase' = CountAcquisitionRequest(Entered, Key(run.entry))
      BY <1>4, RouteEffect DEF InEntry, IdleRun
    <2>2. Entered # None /\ Advanced # None
      BY <1>4, <2>1 DEF CountAcquisitionRequest, Entered, EnterAcquisition
    <2>3. /\ PhaseOK(Advanced)
          /\ Known => /\ phase # None /\ \A f \in Fixed : Advanced[f] = phase[f]
                      /\ Advanced.status = phase.status
          /\ ~Known => /\ Advanced.key = Key(run.entry) /\ Advanced.status = None
                       /\ ~Advanced.contextReminded /\ ~Advanced.completionReminded
                       /\ ~Advanced.outcomeLogged
      <3>1. Known \in BOOLEAN
        BY DEF Known
      <3> QED
        BY <2>2, <3>1, AdvanceEffect DEF Advanced, EntryInv
    <2>4. Known => InEntry
      BY <1>1 DEF InEntry
    <2>5. Advanced.status = "acquiring" => ~Advanced.incumbentServes
      BY <2>3, <2>4, EntryAssumption DEF EntryInv, CollectInv, Fixed
    <2>6. PhaseOK(Entered) /\ \A f \in Fixed : Entered[f] = Advanced[f]
      BY <2>2, <2>3, <2>5, EnterEffect DEF Entered
    <2>7. \A f \in Fixed : phase'[f] = Entered[f]
      <3>1. phase' = Entered \/ phase' = [Entered EXCEPT !.requests = @ + 1]
        BY <2>1, <2>2 DEF CountAcquisitionRequest
      <3> QED
        BY <3>1, <2>6 DEF PhaseOK, PhaseFields, Fixed
    <2>8. CASE Known
      BY <2>3, <2>4, <2>6, <2>7, <2>8
    <2>9. CASE ~Known
      BY <1>1, <2>3, <2>6, <2>7, <2>9 DEF Fixed, PhaseOK
    <2> QED
      BY <2>8, <2>9
  <1> QED
    BY <1>2, <1>3, <1>4, QuietStep

LEMMA AttemptStep ==
  ASSUME EntryInv, SettleInv, AttemptFails, [Next]_vars
  PROVE  EntryInv' /\ SettleInv'
  <1>1. /\ run.pc = "walk" /\ store' = store /\ session' = session
        /\ DOMAIN left' = DOMAIN left /\ left'.attempts = left.attempts
    BY LeftStep DEF AttemptFails, EntryInv
  <1>2. InEntry
    BY <1>1 DEF InEntry
  <1>3. CASE run' = [IdleRun EXCEPT !.fly = run.fly] /\ phase' = phase /\ hist' = hist
    <2>1. Follow
      <3>1. RunFollows
        BY <1>3 DEF RunFollows, IdleRun
      <3> QED
        BY <3>1, <1>1, <1>3, FollowsSame DEF Follow, EntryInv
    <2> QED
      BY <2>1, FollowKeepsShape, FollowKeepsKeys, FollowStep, FollowIsQuiet DEF EntryInv
  <1>4. CASE /\ run.attempt < left.attempts
             /\ run' = [run EXCEPT !.attempt = @ + 1]
             /\ phase' = CountAcquisitionRequest(phase, run.scored.key)
             /\ hist' = [hist EXCEPT !.sends = Sends(phase, @)]
    <2>1. /\ DOMAIN run' = DOMAIN run /\ run'.pc = "walk" /\ run'.attempt = run.attempt + 1
          /\ run'.entry = run.entry /\ run'.scored = run.scored
      BY <1>1, <1>4 DEF EntryInv, ShapeInv
    <2>2. DOMAIN hist' = DOMAIN hist /\ hist'.sends = Sends(phase, hist.sends)
          /\ hist'.settle = hist.settle
      BY <1>4 DEF EntryInv, ShapeInv
    <2>3. ASSUME phase' # None
          PROVE  /\ phase # None /\ PhaseOK(phase') /\ \A f \in Fixed : phase'[f] = phase[f]
                 /\ phase'.status = phase.status
                 /\ phase.status = "acquiring" => phase'.requests = phase.requests + 1
                 /\ phase.status # "acquiring" => phase'.requests = phase.requests
      <3>1. phase # None
        BY <1>4, <2>3 DEF CountAcquisitionRequest
      <3>2. phase.key = run.scored.key /\ PhaseOK(phase)
        BY <3>1, <1>1, <1>2 DEF EntryInv, ShapeInv, CollectInv
      <3>3. phase' = IF phase.status = "acquiring" THEN [phase EXCEPT !.requests = @ + 1] ELSE phase
        BY <3>1, <3>2, <1>4 DEF CountAcquisitionRequest
      <3> QED
        BY <3>1, <3>2, <3>3 DEF PhaseOK, PhaseFields, Fixed
    <2>4. ShapeInv'
      BY <1>1, <2>1, <2>2, <2>3 DEF EntryInv, ShapeInv
    <2>5. KeysInv'
      BY <1>1, <2>1 DEF EntryInv, KeysInv
    <2>6. CollectInv'
      <3>1. RequestLimit \in Nat \ {0} /\ left.attempts \in Nat \ {0} /\ hist.sends \in Nat
            /\ run.attempt \in 1..left.attempts
        BY <1>1, EntryAssumption DEF EntryInv, ShapeInv, CollectInv
      <3>2. CASE phase' # None
        <4>1. phase # None /\ phase.key = Key(run.entry) /\ phase'.key = Key(run.entry)
          BY <2>3, <3>2, <1>2 DEF EntryInv, CollectInv, Fixed
        <4>2. phase'.status = None => hist'.sends = 0
          BY <2>2, <2>3, <3>2, <1>2, EntryAssumption DEF EntryInv, CollectInv, Sends
        <4>3. ASSUME phase'.status = "acquiring"
              PROVE  /\ hist'.sends = phase'.requests /\ ~phase'.incumbentServes
                     /\ phase'.requests <= RequestLimit - 1 + run'.attempt
                     /\ hist'.sends \in Nat
          BY <2>1, <2>2, <2>3, <3>1, <3>2, <4>3, <1>1, <1>2 DEF EntryInv, CollectInv, Sends, Fixed
        <4>4. hist'.sends \in Nat /\ AcquisitionBounded'
          BY <1>1, <1>4, <2>1, <2>2, <2>3, <3>1, <3>2, <4>3
             DEF EntryInv, CollectInv, AcquisitionBounded, Sends
        <4> QED
          BY <1>1, <1>4, <2>1, <3>1, <4>1, <4>2, <4>3, <4>4 DEF EntryInv, CollectInv
      <3>3. CASE phase' = None
        <4>1. hist'.sends \in Nat /\ AcquisitionBounded'
          <5>1. ASSUME phase # None, phase.status = "acquiring"
                PROVE  hist.sends + 1 <= RequestLimit - 1 + left.attempts
            BY <5>1, <3>1, <1>1, <1>2, <1>4 DEF EntryInv, CollectInv
          <5> QED
            BY <5>1, <1>1, <2>2, <3>1 DEF EntryInv, CollectInv, AcquisitionBounded, Sends
        <4> QED
          BY <1>1, <1>4, <2>1, <3>1, <3>3, <4>1 DEF EntryInv, CollectInv
      <3> QED
        BY <3>2, <3>3
    <2>7. SettleInv'
      <3>1. run'.pc \in {"walk", "tools", "settle"} => Known'
        BY <1>1, <2>1 DEF SettleInv, Known
      <3>2. InEntry' /\ phase' # None =>
              InEntry /\ phase # None /\ \A f \in Fixed : phase'[f] = phase[f]
        BY <1>2, <2>3
      <3> QED
        BY <2>1, <2>2, <3>1, <3>2, QuietStep
    <2> QED
      BY <2>4, <2>5, <2>6, <2>7 DEF EntryInv
  <1> QED
    BY <1>3, <1>4, Zenon DEF AttemptFails

LEMMA UserSendsStep ==
  ASSUME EntryInv, SettleInv, NEW refs, NEW recorded, UserSends(refs, recorded), [Next]_vars
  PROVE  EntryInv' /\ SettleInv'
  <1> DEFINE noted == IF RequestRouting(Branch).routedAtEnd # auto /\ recorded
                        THEN AddSelection(store, auto) ELSE store
             sent == AddEntry(noted, [Entry("user") EXCEPT !.refs = refs])
  <1>1. /\ run.pc = "idle" /\ store' = sent /\ session' = session /\ phase' = phase
        /\ DOMAIN left' = DOMAIN left /\ left'.attempts = left.attempts
        /\ run' = IF auto THEN [run EXCEPT !.pc = "route", !.entry = sent.leaf, !.calls = 0] ELSE run
    BY LeftStep DEF UserSends, EntryInv
  <1>2. /\ DOMAIN hist' = DOMAIN hist /\ hist'.sends = hist.sends /\ hist'.settle = hist.settle
    BY DEF UserSends, EntryInv, ShapeInv
  <1>3. Grows(store, noted)
    BY SelectionGrows, GrowsIsPreorder DEF EntryInv, ShapeInv
  <1> HIDE DEF noted
  <1>4. sent.leaf > Len(store.tree) /\ sent.leaf \in 1..Len(sent.tree)
    <2>1. StoreOK(noted) /\ Len(noted.tree) \in Nat /\ Len(store.tree) \in Nat
          /\ Len(store.tree) <= Len(noted.tree)
      BY <1>3 DEF Grows, StoreOK, IsTree, EntryInv, ShapeInv
    <2>2. sent.leaf = Len(noted.tree) + 1 /\ Len(sent.tree) = Len(noted.tree) + 1
      BY <2>1, AddEntryGrows, EntryIsNode
    <2> HIDE DEF sent
    <2> QED
      BY <2>1, <2>2
  <1>5. Grows(store, store')
    BY StoreStep DEF EntryInv, ShapeInv
  <1> HIDE DEF sent
  <1>6. /\ DOMAIN run' = DOMAIN run
        /\ run'.pc \in {"idle", "route"}
        /\ run'.pc = "route" => run'.entry > Len(store.tree) /\ run'.entry \in 1..Len(store'.tree)
    BY <1>1, <1>4 DEF EntryInv, ShapeInv
  <1>7. /\ Len(store.tree) \in Nat /\ Len(store'.tree) \in Nat
        /\ Len(store.tree) <= Len(store'.tree) /\ StoreOK(store')
    BY <1>5 DEF Grows, StoreOK, IsTree, EntryInv, ShapeInv
  <1>8. ~InEntry'
    <2>1. ASSUME run'.pc = "route" PROVE session'.cached.key # Key(run'.entry)
      <3>1. run'.entry \in Nat /\ Key(run'.entry) \in Int
        BY <2>1, <1>6, <1>7 DEF Key
      <3>2. CASE session.cached.key = None
        BY <3>1, <3>2, <1>1, EntryAssumption
      <3>3. ASSUME NEW i \in 1..Len(store.tree), session.cached.key = Key(i)
            PROVE  session'.cached.key # Key(run'.entry)
        BY <2>1, <3>1, <3>3, <1>1, <1>6, <1>7 DEF Key
      <3> QED
        BY <3>2, <3>3 DEF EntryInv, KeysInv
    <2> QED
      BY <2>1, <1>6 DEF InEntry, Known
  <1>9. ShapeInv'
    BY <1>1, <1>2, <1>6, <1>7 DEF EntryInv, ShapeInv
  <1>10. KeysInv'
    BY <1>1, <1>6, <1>7 DEF EntryInv, KeysInv
  <1>11. CollectInv'
    BY <1>1, <1>2, <1>6, <1>8 DEF EntryInv, CollectInv, AcquisitionBounded
  <1>12. SettleInv'
    <2>1. run'.pc = "route" => run'.entry \in Nat /\ run'.entry > Len(store.tree)
      BY <1>6, <1>7
    <2> QED
      BY <1>2, <1>6, <1>8, <2>1, QuietStep
  <1> QED
    BY <1>9, <1>10, <1>11, <1>12 DEF EntryInv

KeysOf(log) == \A i \in 1..Len(log) : \E n \in 1..Len(store.tree) : log[i][1] = Key(n)

LEMMA LogGrows ==
  ASSUME NEW log, LogOK(log), NEW key, NEW kind, NEW what
  PROVE  LET next == Append(log, <<key, kind, what>>)
         IN  /\ KeysOf(log) /\ (\E n \in 1..Len(store.tree) : key = Key(n)) => KeysOf(next)
             /\ \A line : Logged(log, line) => Logged(next, line)
             /\ \A other : other # kind
                   /\ (\A i \in 1..Len(log) : log[i][1] = key => log[i][3] = "reminded")
                  => \A i \in 1..Len(next) :
                       next[i][1] = key /\ next[i][2] = other => next[i][3] = "reminded"
  <1> DEFINE line == <<key, kind, what>>
             next == Append(log, line)
  <1>1. /\ Len(next) = Len(log) + 1 /\ Len(log) \in Nat
        /\ \A i \in 1..Len(log) : next[i] = log[i]
        /\ next[Len(log) + 1] = line
    BY TreeIsSeq DEF LogOK, IsTree
  <1>2. line[1] = key /\ line[2] = kind
    OBVIOUS
  <1> HIDE DEF line, next
  <1>3. KeysOf(log) /\ (\E n \in 1..Len(store.tree) : key = Key(n)) => KeysOf(next)
    BY <1>1, <1>2 DEF KeysOf
  <1>4. \A l : Logged(log, l) => Logged(next, l)
    BY <1>1 DEF Logged
  <1>5. ASSUME NEW other, other # kind,
               \A i \in 1..Len(log) : log[i][1] = key => log[i][3] = "reminded"
        PROVE  \A i \in 1..Len(next) :
                 next[i][1] = key /\ next[i][2] = other => next[i][3] = "reminded"
    BY <1>1, <1>2, <1>5
  <1>6. \A other : other # kind
            /\ (\A i \in 1..Len(log) : log[i][1] = key => log[i][3] = "reminded")
          => \A i \in 1..Len(next) :
               next[i][1] = key /\ next[i][2] = other => next[i][3] = "reminded"
    BY <1>5
  <1> QED
    BY <1>3, <1>4, <1>6 DEF next, line

LEMMA LogConcat ==
  ASSUME NEW log, IsTree(log), NEW a, NEW b
  PROVE  /\ log \o (<<>> \o <<>>) = log
         /\ log \o (<<a>> \o <<>>) = Append(log, a)
         /\ log \o (<<>> \o <<b>>) = Append(log, b)
         /\ log \o (<<a>> \o <<b>>) = Append(Append(log, a), b)
  <1> DEFINE S == {log[i] : i \in 1..Len(log)} \union {a, b}
  <1>1. log \in Seq(S) /\ a \in S /\ b \in S
    <2>1. log \in [1..Len(log) -> S]
      BY DEF IsTree
    <2> QED
      BY <2>1, SeqDef DEF IsTree
  <1> HIDE DEF S
  <1> QED
    BY <1>1

(* A step that only sets what the phase remembers of its reminders.        *)
LEMMA FlagsKeepEntry ==
  ASSUME EntryInv, [Next]_vars, store' = store, session' = session, left' = left,
         DOMAIN run' = DOMAIN run, hist'.sends = hist.sends, DOMAIN hist' = DOMAIN hist,
         phase # None, PhaseOK(phase'),
         /\ phase'.key = phase.key /\ phase'.status = phase.status
         /\ phase'.requests = phase.requests /\ phase'.incumbentServes = phase.incumbentServes,
         run'.pc = "idle" \/ (run'.pc = "route" /\ run'.entry = run.entry), InEntry
  PROVE  EntryInv'
  <1>1. InEntry' => run'.entry = run.entry
    BY DEF InEntry
  <1>2. ShapeInv'
    BY DEF EntryInv, ShapeInv
  <1>3. run.pc # "idle"
    BY DEF InEntry
  <1>4. KeysInv'
    BY <1>3 DEF EntryInv, KeysInv
  <1>5. CollectInv'
    BY <1>1 DEF EntryInv, CollectInv, AcquisitionBounded
  <1> QED
    BY <1>2, <1>4, <1>5 DEF EntryInv

LEMMA RemindStep ==
  ASSUME EntryInv, SettleInv, Remind, [Next]_vars
  PROVE  EntryInv' /\ SettleInv'
  <1> DEFINE kind == IF OwesHandoff(phase) THEN "context" ELSE "completion"
             line == <<phase.key, kind, "reminded">>
  <1>1. /\ run.pc = "settle" /\ phase # None /\ store' = store /\ session' = session /\ left' = left
        /\ OwesHandoff(phase) \/ OwesCompletion(phase)
        /\ phase' = IF kind = "context" THEN [phase EXCEPT !.contextReminded = TRUE]
                    ELSE [phase EXCEPT !.completionReminded = TRUE]
        /\ hist' = [hist EXCEPT !.settle = Append(@, line)]
        /\ run' = [run EXCEPT !.pc = "route"]
    BY DEF Remind
  <1>2. InEntry /\ Known /\ PhaseOK(phase)
    BY <1>1 DEF InEntry, SettleInv, EntryInv, ShapeInv
  <1>3. /\ DOMAIN run' = DOMAIN run /\ run'.pc = "route" /\ run'.entry = run.entry
        /\ DOMAIN hist' = DOMAIN hist /\ hist'.sends = hist.sends
        /\ hist'.settle = Append(hist.settle, line)
    BY <1>1 DEF EntryInv, ShapeInv
  <1>4. /\ PhaseOK(phase') /\ phase'.key = phase.key /\ phase'.status = phase.status
        /\ phase'.requests = phase.requests /\ phase'.incumbentServes = phase.incumbentServes
        /\ phase'.outcomeLogged = phase.outcomeLogged
        /\ phase'.contextReminded = (phase.contextReminded \/ kind = "context")
        /\ phase'.completionReminded = (phase.completionReminded \/ kind = "completion")
    BY <1>1, <1>2 DEF PhaseOK, PhaseFields
  <1>5. EntryInv'
    BY <1>1, <1>2, <1>3, <1>4, FlagsKeepEntry
  <1>6. ~Logged(hist.settle, line)
    <2>1. CASE OwesHandoff(phase)
      BY <1>1, <1>2, <2>1 DEF OwesHandoff, SettleInv, Reminded
    <2>2. CASE ~OwesHandoff(phase)
      BY <1>1, <1>2, <2>2 DEF OwesCompletion, SettleInv, Reminded
    <2> QED
      BY <2>1, <2>2
  <1>7. LogOK(hist'.settle)
    BY <1>3, <1>6, LogsReminder DEF SettleInv
  <1>8. kind \in {"context", "completion"}
    OBVIOUS
  <1>9. /\ line[1] = phase.key /\ line[3] = "reminded"
        /\ \A k : line = <<phase.key, k, "reminded">> <=> kind = k
    OBVIOUS
  <1> HIDE DEF kind, line
  <1>10. /\ Len(hist'.settle) = Len(hist.settle) + 1 /\ Len(hist.settle) \in Nat
         /\ \A i \in 1..Len(hist.settle) : hist'.settle[i] = hist.settle[i]
         /\ hist'.settle[Len(hist.settle) + 1] = line
    BY <1>3, TreeIsSeq DEF SettleInv, LogOK, IsTree
  <1>11. Known' /\ run'.pc = "route"
    BY <1>1, <1>2, <1>3 DEF Known
  <1>12. ASSUME NEW i \in 1..Len(hist'.settle)
         PROVE  /\ \E n \in 1..Len(store'.tree) : hist'.settle[i][1] = Key(n)
                /\ hist'.settle[i][1] = phase'.key => hist'.settle[i][3] = "reminded"
    <2>1. CASE i \in 1..Len(hist.settle)
      BY <2>1, <1>1, <1>2, <1>4, <1>10 DEF SettleInv
    <2>2. CASE i = Len(hist.settle) + 1
      <3>1. phase.key = Key(run.entry) /\ run.entry \in 1..Len(store.tree)
        BY <1>1, <1>2 DEF EntryInv, CollectInv, KeysInv
      <3> QED
        BY <2>2, <3>1, <1>1, <1>9, <1>10
    <2> QED
      BY <2>1, <2>2, <1>10
  <1>13. \A k : Logged(hist'.settle, <<phase'.key, k, "reminded">>)
                  <=> Logged(hist.settle, <<phase.key, k, "reminded">>) \/ kind = k
    <2> TAKE k
    <2> DEFINE it == <<phase.key, k, "reminded">>
    <2>1. it = <<phase'.key, k, "reminded">> /\ (line = it <=> kind = k)
      BY <1>4, <1>9
    <2> HIDE DEF it
    <2>2. Logged(hist'.settle, it) <=> Logged(hist.settle, it) \/ line = it
      <3>1. \A i \in 1..Len(hist'.settle) : i \in 1..Len(hist.settle) \/ i = Len(hist.settle) + 1
        BY <1>10
      <3>2. Logged(hist'.settle, it) => Logged(hist.settle, it) \/ line = it
        BY <3>1, <1>10 DEF Logged
      <3>3. Logged(hist.settle, it) \/ line = it => Logged(hist'.settle, it)
        BY <1>10 DEF Logged
      <3> QED
        BY <3>2, <3>3
    <2> QED
      BY <2>1, <2>2 DEF it
  <1>14. Reminded(phase)'
    <2>1. /\ Logged(hist.settle, <<phase.key, "context", "reminded">>) <=> phase.contextReminded
          /\ Logged(hist.settle, <<phase.key, "completion", "reminded">>) <=> phase.completionReminded
      BY <1>1, <1>2 DEF SettleInv, Reminded
    <2>2. /\ Logged(hist'.settle, <<phase'.key, "context", "reminded">>) <=> phase'.contextReminded
          /\ Logged(hist'.settle, <<phase'.key, "completion", "reminded">>) <=> phase'.completionReminded
      BY <2>1, <1>4, <1>13
    <2> QED
      BY <2>2 DEF Reminded
  <1>15. ~phase'.outcomeLogged
    BY <1>1, <1>2, <1>4 DEF SettleInv
  <1>16. SettleInv'
    BY <1>7, <1>11, <1>12, <1>14, <1>15 DEF SettleInv
  <1> QED
    BY <1>5, <1>16

LEMMA SettledStep ==
  ASSUME EntryInv, SettleInv, Settled, [Next]_vars
  PROVE  EntryInv' /\ SettleInv'
  <1>1. /\ run.pc = "settle" /\ store' = store /\ session' = session /\ left' = left
        /\ run' = [IdleRun EXCEPT !.fly = run.fly]
        /\ \/ phase' = phase /\ hist' = hist
           \/ /\ phase # None
              /\ phase' = [phase EXCEPT !.outcomeLogged = TRUE]
              /\ hist' = [hist EXCEPT !.settle = @ \o Outcomes(phase)]
    BY DEF Settled
  <1>2. InEntry /\ Known
    BY <1>1 DEF InEntry, SettleInv
  <1>3. DOMAIN run' = DOMAIN run /\ run'.pc = "idle"
    BY <1>1 DEF IdleRun, EntryInv, ShapeInv
  <1>4. CASE phase' = phase /\ hist' = hist
    <2>1. RunFollows
      BY <1>3 DEF RunFollows, EntryInv, ShapeInv
    <2>2. Follow
      BY <2>1, <1>1, <1>4, FollowsSame DEF Follow, EntryInv
    <2> QED
      BY <2>2, FollowKeepsShape, FollowKeepsKeys, FollowStep, FollowIsQuiet DEF EntryInv
  <1>5. CASE /\ phase # None
             /\ phase' = [phase EXCEPT !.outcomeLogged = TRUE]
             /\ hist' = [hist EXCEPT !.settle = @ \o Outcomes(phase)]
    <2>1. PhaseOK(phase)
      BY <1>5 DEF EntryInv, ShapeInv
    <2>2. /\ PhaseOK(phase') /\ phase'.key = phase.key /\ phase'.status = phase.status
          /\ phase'.requests = phase.requests /\ phase'.incumbentServes = phase.incumbentServes
      BY <2>1, <1>5 DEF PhaseOK, PhaseFields
    <2>3. /\ DOMAIN hist' = DOMAIN hist /\ hist'.sends = hist.sends
          /\ hist'.settle = hist.settle \o Outcomes(phase)
      BY <1>5 DEF EntryInv, ShapeInv
    <2>4. EntryInv'
      BY <1>1, <1>2, <1>3, <1>5, <2>2, <2>3, FlagsKeepEntry
    <2>5. LogOK(hist'.settle) /\ KeysOf(hist'.settle)
      <3> DEFINE key == phase.key
                 context == IF DeclaredHandoff(phase) THEN "followed" ELSE "ignored"
                 completion == IF phase.completion # None THEN "followed" ELSE "ignored"
                 log == hist.settle
                 mid == IF phase.contextReminded THEN Append(log, <<key, "context", context>>) ELSE log
                 next == IF phase.completionReminded
                           THEN Append(mid, <<key, "completion", completion>>) ELSE mid
      <3>1. /\ LogOK(log) /\ KeysOf(log)
            /\ Logged(log, <<key, "context", "reminded">>) <=> phase.contextReminded
            /\ Logged(log, <<key, "completion", "reminded">>) <=> phase.completionReminded
            /\ \A i \in 1..Len(log) : log[i][1] = key => log[i][3] = "reminded"
        BY <1>2, <1>5 DEF SettleInv, KeysOf, Reminded
      <3>2. \E n \in 1..Len(store.tree) : key = Key(n)
        BY <1>1, <1>2, <1>5 DEF EntryInv, CollectInv, KeysInv
      <3>3. context # "reminded" /\ completion # "reminded"
        OBVIOUS
      <3>4. hist'.settle = next
        <4>1. Outcomes(phase) = (IF phase.contextReminded THEN << <<key, "context", context>> >> ELSE <<>>)
                \o (IF phase.completionReminded THEN << <<key, "completion", completion>> >> ELSE <<>>)
          BY DEF Outcomes
        <4>2. IsTree(log)
          BY <3>1 DEF LogOK
        <4> DEFINE a == <<key, "context", context>>
                   b == <<key, "completion", completion>>
        <4>3. hist'.settle = log \o ((IF phase.contextReminded THEN <<a>> ELSE <<>>)
                                       \o (IF phase.completionReminded THEN <<b>> ELSE <<>>))
          BY <4>1, <2>3
        <4>4. next = IF phase.completionReminded
                       THEN Append(IF phase.contextReminded THEN Append(log, a) ELSE log, b)
                       ELSE IF phase.contextReminded THEN Append(log, a) ELSE log
          OBVIOUS
        <4> HIDE DEF log, a, b, next
        <4>5. CASE phase.contextReminded /\ phase.completionReminded
          BY <4>2, <4>3, <4>4, <4>5, LogConcat
        <4>6. CASE phase.contextReminded /\ ~phase.completionReminded
          BY <4>2, <4>3, <4>4, <4>6, LogConcat
        <4>7. CASE ~phase.contextReminded /\ phase.completionReminded
          BY <4>2, <4>3, <4>4, <4>7, LogConcat
        <4>8. CASE ~phase.contextReminded /\ ~phase.completionReminded
          <5>1. hist'.settle = log \o (<<>> \o <<>>) /\ next = log
            BY <4>3, <4>4, <4>8
          <5>2. log \o (<<>> \o <<>>) = log
            BY <4>2, LogConcat
          <5> QED
            BY <5>1, <5>2
        <4> QED
          BY <4>5, <4>6, <4>7, <4>8
      <3> HIDE DEF context, completion, log, key
      <3>5. /\ LogOK(mid) /\ KeysOf(mid)
            /\ Logged(log, <<key, "completion", "reminded">>)
                 => Logged(mid, <<key, "completion", "reminded">>)
            /\ \A i \in 1..Len(mid) :
                 mid[i][1] = key /\ mid[i][2] = "completion" => mid[i][3] = "reminded"
        <4>1. CASE phase.contextReminded
          BY <4>1, <3>1, <3>2, <3>3, LogsOutcome, LogGrows
        <4>2. CASE ~phase.contextReminded
          BY <4>2, <3>1
        <4> QED
          BY <4>1, <4>2
      <3> HIDE DEF mid
      <3>6. LogOK(next) /\ KeysOf(next)
        BY <3>1, <3>2, <3>3, <3>5, LogsOutcome, LogGrows
      <3> QED
        BY <3>4, <3>6
    <2>6. SettleInv'
      BY <1>1, <1>3, <2>5 DEF SettleInv, InEntry, KeysOf
    <2> QED
      BY <2>4, <2>6
  <1> QED
    BY <1>1, <1>4, <1>5

LEMMA FreshPhaseOK ==
  ASSUME NEW key, NEW deliverable
  PROVE  PhaseOK(FreshPhase(key, deliverable))
  BY DEF FreshPhase, PhaseOK, PhaseFields

(* Steps after which no run is at an entry.                                *)
LEMMA IdleStep ==
  ASSUME EntryInv, SettleInv, [Next]_vars, run'.pc = "idle", DOMAIN run' = DOMAIN run,
         hist' = hist, phase' # None => PhaseOK(phase'),
         session' = session \/ session' = [gen |-> session.gen + 1, cached |-> Unscored,
                                            decision |-> None, served |-> None]
  PROVE  EntryInv' /\ SettleInv'
  <1>1. StoreOK(store') /\ DOMAIN left' = DOMAIN left /\ left'.attempts = left.attempts
    BY StoreStep, LeftStep DEF EntryInv, ShapeInv, Grows
  <1>2. /\ DOMAIN session' = {"gen", "cached", "decision", "served"}
        /\ DOMAIN session'.cached = {"key", "dimension"}
        /\ session'.cached.key \in {None, session.cached.key}
    BY DEF EntryInv, ShapeInv, Unscored
  <1>3. ShapeInv'
    BY <1>1, <1>2 DEF EntryInv, ShapeInv
  <1>4. KeysInv'
    <2>1. Len(store.tree) \in Nat /\ Len(store'.tree) \in Nat /\ Len(store.tree) <= Len(store'.tree)
      BY StoreStep DEF EntryInv, ShapeInv, Grows, StoreOK, IsTree
    <2> QED
      BY <1>2, <2>1 DEF EntryInv, KeysInv
  <1>5. CollectInv'
    BY <1>1 DEF EntryInv, CollectInv, AcquisitionBounded, InEntry
  <1>6. SettleInv'
    BY QuietStep DEF InEntry
  <1> QED
    BY <1>3, <1>4, <1>5, <1>6 DEF EntryInv

LEMMA NavigateStep ==
  ASSUME EntryInv, SettleInv, NEW leaf, Navigate(leaf), [Next]_vars
  PROVE  EntryInv' /\ SettleInv'
  <1>1. /\ run.pc = "idle" /\ run' = run /\ session' = session /\ hist' = hist
        /\ \/ phase' = None \/ phase' = phase
           \/ \E deliverable : phase' = CarryAcrossBranch(phase, deliverable)
    BY Zenon DEF Navigate
  <1>2. phase' # None => PhaseOK(phase')
    BY <1>1, FreshPhaseOK DEF CarryAcrossBranch, EntryInv, ShapeInv
  <1> QED
    BY <1>1, <1>2, IdleStep

LEMMA RestartStep ==
  ASSUME EntryInv, SettleInv, NEW isAuto, NEW damaged, Restart(isAuto, damaged), [Next]_vars
  PROVE  EntryInv' /\ SettleInv'
  <1>1. /\ run' = [IdleRun EXCEPT !.fly = run.fly] /\ hist' = hist /\ phase' = None
        /\ session' = [gen |-> session.gen + 1, cached |-> Unscored, decision |-> None, served |-> None]
    BY DEF Restart
  <1>2. run'.pc = "idle" /\ DOMAIN run' = DOMAIN run
    BY <1>1 DEF IdleRun, EntryInv, ShapeInv
  <1> QED
    BY <1>1, <1>2, IdleStep

LEMMA InitEntry == Init => EntryInv /\ SettleInv
  <1> SUFFICES ASSUME Init PROVE EntryInv /\ SettleInv
    OBVIOUS
  <1>1. StoreOK(store)
    <2> DEFINE empty == [tree |-> <<>>, leaf |-> 0, ledger |-> EmptyLedger]
    <2>1. DOMAIN empty = {"tree", "leaf", "ledger"} /\ empty.tree = <<>> /\ empty.leaf = 0
      OBVIOUS
    <2>2. store = AddSelection(empty, TRUE)
      BY DEF Init
    <2> HIDE DEF empty
    <2>3. StoreOK(empty)
      BY <2>1 DEF StoreOK, IsTree
    <2>4. Grows(empty, store)
      BY <2>2, <2>3, SelectionGrows
    <2> QED
      BY <2>4 DEF Grows
  <1>2. /\ session = [gen |-> 0, cached |-> Unscored, decision |-> None, served |-> None]
        /\ phase = None /\ run = IdleRun /\ left \in Workloads
        /\ hist = [shown |-> {}, foreign |-> {}, sends |-> 0, settle |-> <<>>, unrecorded |-> FALSE]
    BY DEF Init
  <1>3. ShapeInv
    <2>1. /\ DOMAIN left = {"users", "calls", "reads", "upsets", "batch", "attempts", "models", "files",
                   "kinds"}
          /\ left.attempts \in Nat \ {0}
      BY <1>2, EntryAssumption
    <2> QED
      BY <1>1, <1>2, <2>1 DEF ShapeInv, Unscored, IdleRun
  <1>4. KeysInv /\ ~InEntry /\ run.pc = "idle"
    BY <1>2 DEF KeysInv, Unscored, IdleRun, InEntry
  <1>5. CollectInv
    BY <1>2, <1>3, <1>4, EntryAssumption DEF CollectInv, AcquisitionBounded, ShapeInv
  <1>6. hist.settle = <<>> /\ LogOK(<<>>)
    BY <1>2 DEF LogOK, IsTree, OnceIn
  <1>7. SettleInv
    BY <1>4, <1>6 DEF SettleInv
  <1> QED
    BY <1>3, <1>4, <1>5, <1>7 DEF EntryInv

LEMMA EntryStep == EntryInv /\ SettleInv /\ [Next]_vars => EntryInv' /\ SettleInv'
  <1> SUFFICES ASSUME EntryInv, SettleInv, [Next]_vars PROVE EntryInv' /\ SettleInv'
    OBVIOUS
  <1>1. ASSUME Follow PROVE EntryInv' /\ SettleInv'
    BY <1>1, FollowKeepsShape, FollowKeepsKeys, FollowStep, FollowIsQuiet DEF EntryInv
  <1>2. CASE Route
    BY <1>2, RouteStep, RouteIsQuiet
  <1>3. CASE Walk
    BY <1>1, <1>3, ServeFollows, AttemptStep DEF Walk, EntryInv
  <1>4. CASE ToolCall
    BY <1>1, <1>4, ToolCallFollows DEF EntryInv
  <1>5. CASE Finish
    BY <1>1, <1>5, FinishFollows DEF EntryInv
  <1>6. CASE NextRequest \/ FinalAnswer \/ UNCHANGED vars
    BY <1>1, <1>6, OtherStepsFollow DEF EntryInv
  <1>7. CASE Remind \/ Settled
    BY <1>7, RemindStep, SettledStep
  <1>8. CASE World
    <2>1. CASE SelectModel \/ UserAborts \/ (\E p : ExternalEdit(p))
      BY <1>1, <2>1, OtherStepsFollow DEF EntryInv
    <2> QED
      BY <1>8, <2>1, UserSendsStep, NavigateStep, RestartStep DEF World
  <1> QED
    BY <1>2, <1>3, <1>4, <1>5, <1>6, <1>7, <1>8 DEF Next

(* While an entry collects context its requests pass the limit by the      *)
(* retries of one walk at most (scoreRouterTurn, countAcquisitionRequest). *)
THEOREM CollectingIsBounded == Spec => []AcquisitionBounded
  <1>1. EntryInv => AcquisitionBounded
    BY DEF EntryInv, CollectInv
  <1> QED
    BY <1>1, InitEntry, EntryStep, PTL DEF Spec

(* A reminder is sent once for an entry and kind, and its outcome is       *)
(* logged once and after it (settleReminder, logSettleOutcomes).           *)
THEOREM RemindersSettleOnce == Spec => []SettleOnce
  <1>1. SettleInv => SettleOnce
    BY DEF SettleInv, LogOK, OnceIn, SettleOnce
  <1> QED
    BY <1>1, InitEntry, EntryStep, PTL DEF Spec

=============================================================================
