---------------------------- MODULE SessionTurns ----------------------------
(***************************************************************************)
(* The routed turns of a session: streamSimple and the turn pipeline of    *)
(* src/extensions/serve/provider.ts over the state of RouterSession        *)
(* (serve/router-session-state.ts) and the event handlers of index.ts.     *)
(*                                                                         *)
(* A turn stops at each await of the code: while the entry's context is    *)
(* read ("entry"), while a dialog is open ("semi", "gate"), while          *)
(* candidates are asked ("walk") and while the serving one streams         *)
(* ("settle").  There the user, Pi and the subagents act.                  *)
(*                                                                         *)
(* Scoring and policy, trajectories, notes and roles are the operators of  *)
(* the extended modules.  Left to their own modules: the inside of the     *)
(* walk (Delegation), plans (ExecutionContract), what an entry owes and    *)
(* the work ledger (ContextEntry).  An incumbent is kept here as its key   *)
(* and dimension.  The session may also be told what the user decides      *)
(* elsewhere: a pin, a thinking level, another model, a blacklist pattern. *)
(***************************************************************************)
EXTENDS RoutingPolicy, TaskRequirement, Trajectory, RequestNotes, SubagentRoles

CONSTANTS
  Registry,     \* the models of Pi's registry, see RoutingPolicy
  MinSample,    \* the ladder steps that an effort estimate needs
  Workloads,    \* what a behaviour may do; each bounds its own counters
  TokensPerMessage

(* A workload: kind; version and semi (configuration); userPins and projectPins, the
   roles with a model of their own; penalties; levels Pi may be set to; manual pins; results
   (tool results); handoffs (declarations); spawns (requests of one subagent
   call); env (the operations of the user and of Pi); patterns (of the session
   blacklist); writable (whether a note can be recorded); and the bounds batch
   (calls of one answer), parallel (open at once), users, requests, calls,
   upsets (env operations) and fails (failed attempts). *)
VARIABLES
  w,         \* the workload
  session,   \* RouterSession
  black,     \* BlacklistState: keys, providers, patterns
  traj,      \* TrajectoryState
  notes,     \* RequestNoteState: the notes in memory
  pi,        \* Pi: model, level, head, messages, recorded notes, open calls
  turn,      \* the turn in progress
  roles,     \* SubagentRoutingState
  spawned,   \* the children of the last subagent call, for properties
  sent,      \* the content of the last request, for properties
  claims,    \* the recovery attempts given, for properties
  used       \* how much of the workload's bounds is used

vars == <<w, session, black, traj, notes, pi, turn, roles, spawned, sent, claims, used>>

NoDecision == [dimension |-> "none", chosen |-> NoKey, chain |-> <<>>, cause |-> "none",
               tiers |-> <<>>, friction |-> "none", raised |-> NoKey, from |-> NoKey,
               intent |-> NoIntent]
NoPhase == [intent |-> NoIntent, status |-> "none", deliverable |-> "none", target |-> "none",
            minimum |-> NoRequirement, pending |-> FALSE, incumbentServes |-> FALSE,
            identity |-> FALSE, invocation |-> 0, terminal |-> {}, band |-> 0,
            requirement |-> NoRequirement]
NoCached == [intent |-> NoIntent, dimension |-> "none", cause |-> "none"]
NoHold == [intent |-> NoIntent, pin |-> NoKey]
NoIncumbent == [key |-> NoKey, dimension |-> "none"]

\* Effort 0 is "off"; a level that was never resolved or synced is NoEffort.
FreshSession(gen, recoveryDue) ==
  [gen |-> gen, decision |-> NoDecision, chosen |-> NoKey, served |-> NoKey, previous |-> NoKey,
   hold |-> NoHold, pin |-> NoKey, snapshot |-> NoDecision, resumeIntent |-> NoIntent,
   resolved |-> NoEffort, synced |-> NoEffort, warm |-> {}, head |-> 0, tokens |-> 0,
   cached |-> NoCached, phase |-> NoPhase, incumbent |-> NoIncumbent, active |-> FALSE,
   recoveryDue |-> recoveryDue]

RouterAuto == <<"router", "auto">>
NoBlacklist == [keys |-> {}, providers |-> {}, patterns |-> {}]
Idle == [pc |-> "idle"]
NoSpawn == [open |-> {}, requests |-> <<>>, pool |-> {}, black |-> NoBlacklist, chains |-> <<>>,
            children |-> <<>>]

\* One record of two; the fields of f come before those of g.
Joined(f, g) == [x \in DOMAIN f \cup DOMAIN g |-> IF x \in DOMAIN f THEN f[x] ELSE g[x]]

\* ------------------------------------------------------------ the request
Genuine(messages) == SelectSeq(messages, LAMBDA m : m.role = "user")

\* The entry's key: the ordinal of its user message, and the message.
IntentKey(messages) ==
  IF Genuine(messages) = <<>> THEN NoIntent
  ELSE <<Len(Genuine(messages)), Last(Genuine(messages)).anchor>>

Tokens(messages) == TokensPerMessage * Len(messages)
Requested == IF pi.level = 0 THEN NoEffort ELSE pi.level

\* ------------------------------------------------------------- candidates
Drops == EffortDropsPerStep(UNION {m.rows : m \in Registry}, MinSample)
Expanded == UNION {ExpandModelCandidates(m, Drops) : m \in Registry}
ModelOf(id) == CHOOSE m \in Registry : <<m.provider, m.model>> = id

Matches(id, pattern) == pattern[1] = id[1] /\ pattern[2] \in {"*", id[2]}
Patterned(c, b) == \E pattern \in b.patterns : Matches(RegistryId(Key(c)), pattern)

ApplyRuntimeExclusions(pool, b) ==
  {c \in pool : Key(c) \notin b.keys /\ c.provider \notin b.providers}
BuildRoutableCandidates(b) ==
  {c \in ApplyRuntimeExclusions(Expanded, b) : ~Patterned(c, b)}

RolePins == ReadExistingOverrides(w.userPins, w.projectPins)

\* The role pool is filtered before models expand, so by their bare identity.
RolePool(b) ==
  {c \in Expanded : /\ ~Patterned(c, b)
                    /\ Base(Key(c)) \notin b.keys /\ c.provider \notin b.providers}

Lowest(pool) == CHOOSE c \in pool : \A o \in pool : c.effort <= o.effort

\* A pin serves a model that the router's own filters exclude.
ManualCandidates(pool, pin) ==
  LET model == ModelOf(RegistryId(pin))
      own == {c \in pool : RegistryId(Key(c)) = RegistryId(pin)}
      rows == IF own # {} THEN own ELSE {c \in Expanded : RegistryId(Key(c)) = RegistryId(pin)}
      measured == {c \in rows : c.effort = Effort(pin)}
  IN CASE Effort(pin) = NoEffort -> rows
       [] Effort(pin) \notin Supported(model) \cup {0} -> {}
       [] measured # {} -> measured
       [] OTHER -> {[Lowest(rows) EXCEPT !.effort = Effort(pin)]}

\* -------------------------------------------------- session state helpers
\* The session remembers the first decision before a pin, not the pins between.
SetManualModel(s, pin) ==
  [s EXCEPT !.pin = pin, !.snapshot = IF s.pin = NoKey THEN s.decision ELSE @]

HoldOf(s, intent) == IF s.hold.intent = intent THEN s.hold.pin ELSE NoKey
SetLastDecision(s, decision) == [s EXCEPT !.decision = decision, !.chosen = decision.chosen]
ClearPendingResume(s) == [s EXCEPT !.snapshot = NoDecision, !.resumeIntent = NoIntent]

\* The resumed decision, bound to the first entry that asks for it.
ResolveResumeDecision(s, intent) ==
  LET bound == IF s.resumeIntent = NoIntent THEN [s EXCEPT !.resumeIntent = intent] ELSE s
  IN IF s.pin # NoKey \/ s.snapshot = NoDecision THEN [session |-> s, decision |-> NoDecision]
     ELSE IF bound.resumeIntent = intent THEN [session |-> bound, decision |-> s.snapshot]
     ELSE [session |-> ClearPendingResume(s), decision |-> NoDecision]

\* Another prompt head shares no prefix with any earlier request.
NoteRequest(s, head, tokens) ==
  [s EXCEPT !.warm = IF s.head = head THEN @ ELSE {}, !.head = head, !.tokens = tokens]
WarmKeys(s, tokens) == {entry[1] : entry \in {e \in s.warm : e[2] <= tokens}}
SetLastServed(s, key) ==
  [s EXCEPT !.served = key, !.warm = {e \in @ : e[1] # key} \cup {<<key, s.tokens>>}]
RotateServed(s) ==
  [s EXCEPT !.previous = IF s.served # NoKey THEN s.served ELSE @, !.served = NoKey]
EndServing(s) == [s EXCEPT !.served = NoKey, !.previous = NoKey, !.chosen = NoKey]

\* ------------------------------------------------------------- trajectory
ServedTrajectoryKey(s) == IF s.served # NoKey THEN s.served ELSE s.decision.chosen
SetPending(t, s) == MaybeSetPending(t, ServedTrajectoryKey(s), s.decision.dimension)
AfterEvidence(result, s) == IF result.decided THEN SetPending(result.state, s) ELSE result.state
Invocation(s) == s.phase.invocation
FlushUnresolved(t, s) == AfterEvidence(AbandonUnresolvedCalls(BindOwner(t, s.served)), s)

\* ------------------------------------------------------------ the prelude
\* A level that the router did not write pins the model that served last.
PinOnThinkingChange(s) ==
  LET target == IF s.pin # NoKey THEN s.pin ELSE s.previous
      seen == [s EXCEPT !.synced = pi.level]
      level == ResolveThinkingLevel(ModelOf(RegistryId(target)), pi.level)
  IN CASE s.synced \in {NoEffort, pi.level} -> s
       [] target = NoKey -> seen
       [] OTHER -> SetManualModel(seen, <<target[1], target[2], level>>)

BaseIntent(s, intent) ==
  IF s.cached.intent = intent THEN s.cached
  ELSE IF s.incumbent # NoIncumbent
  THEN [intent |-> intent, dimension |-> s.incumbent.dimension, cause |-> "incumbent"]
  ELSE [intent |-> intent, dimension |-> "gather", cause |-> "investigation"]

\* Who serves: the pin, the model held for this entry, the resumed route, or
\* the router.  A resumed route that left the pool is expired.
ServingMode(s, intent, candidates) ==
  LET held == [s EXCEPT !.hold = IF s.hold.intent = intent THEN @ ELSE NoHold]
      resume == ResolveResumeDecision(held, intent)
      chain == Among(resume.decision.chain, {Key(c) : c \in candidates})
  IN CASE s.pin # NoKey -> [mode |-> "manual", session |-> s, pin |-> s.pin, resume |-> NoDecision]
       [] w.semi /\ held.hold.pin # NoKey ->
            [mode |-> "hold", session |-> held, pin |-> held.hold.pin, resume |-> NoDecision]
       [] resume.decision = NoDecision ->
            [mode |-> "auto", session |-> resume.session, pin |-> NoKey, resume |-> NoDecision]
       [] chain = <<>> -> [mode |-> "auto", session |-> ClearPendingResume(resume.session),
                           pin |-> NoKey, resume |-> NoDecision]
       [] OTHER -> [mode |-> "resume", session |-> resume.session, pin |-> NoKey,
                    resume |-> [resume.decision EXCEPT !.chain = chain]]

Routed == pi.model = RouterAuto
Spends(kind) == used[kind] < w[kind] /\ used' = [used EXCEPT ![kind] = @ + 1]

\* The turn that waits for its entry's context.
Entering(serving, intent, base, esc) ==
  [pc |-> "entry", mode |-> serving.mode, pin |-> serving.pin, resume |-> serving.resume,
   intent |-> intent, hit |-> session.cached.intent = intent, base |-> base,
   messages |-> pi.messages, requested |-> Requested, tokens |-> Tokens(pi.messages),
   black |-> black, esc |-> esc, gen |-> session.gen, asked |-> serving.session.pin,
   observed |-> used.calls]

\* The serving mode is chosen; without a model to serve, the turn ends at once.
Admit(s, intent, candidates, esc) ==
  LET serving == ServingMode(PinOnThinkingChange(s), intent, candidates)
  IN IF candidates = {} /\ s.pin = NoKey /\ HoldOf(s, intent) = NoKey
     THEN session' = [s EXCEPT !.hold = NoHold] /\ turn' = turn
     ELSE /\ session' = serving.session
          /\ turn' = Entering(serving, intent, BaseIntent(s, intent), esc)

\* A first struggle is a recovery attempt; another one is an escalation.
Recover(s, t, intent) ==
  LET recovers == {p \in t.pending : MayRecover(t, p.from)}
      from == (CHOOSE p \in recovers : TRUE).from
  IN /\ traj' = IF recovers = {} THEN t ELSE ClaimRecovery(t, from)
     /\ claims' = {c \in claims : c.intent = intent /\ c.gen = s.gen}
                  \cup {[intent |-> intent, from |-> p.from, at |-> used.calls, gen |-> s.gen] :
                          p \in recovers}
     /\ Admit([s EXCEPT !.recoveryDue = @ \/ recovers # {}], intent, BuildRoutableCandidates(black),
              IF recovers = {} THEN t.pending ELSE {})

\* turn_start, then streamSimple up to its first await: the evidence of the
\* last turn is closed, the request noted, and the serving mode chosen.
SendRequest ==
  /\ turn = Idle /\ Routed /\ pi.due /\ pi.open = {}
  /\ Spends("requests")
  /\ LET intent == IntentKey(pi.messages)
         rotated == NoteRequest(RotateServed(session), pi.head, Tokens(pi.messages))
     IN Recover(rotated, FlushUnresolved(BindIntent(FlushUnresolved(traj, session), intent), rotated),
                intent)
  /\ pi' = [pi EXCEPT !.calling = FALSE]
  /\ UNCHANGED <<w, black, notes, roles, spawned, sent>>

\* ------------------------------------------------------------ the phase
\* A new entry starts its own phase; the incumbent serves it when there is one.
AdvanceWorkPhase(s, t, identity) ==
  IF t.hit
  THEN IF s.phase = NoPhase THEN s ELSE [s EXCEPT !.phase.invocation = @ + 1]
  ELSE [s EXCEPT !.phase = [NoPhase EXCEPT !.intent = t.intent, !.deliverable = t.base.dimension,
                              !.incumbentServes = s.incumbent # NoIncumbent,
                              !.identity = identity, !.invocation = 1]]

EntryPhase(phase, base) ==
  CASE phase.target # "none" -> [dimension |-> phase.target, cause |-> "investigation-handoff"]
    [] phase.status \in {"ready-pending", "served"} ->
         [dimension |-> phase.deliverable, cause |-> "investigation-handoff"]
    [] phase.incumbentServes -> [dimension |-> base.dimension, cause |-> base.cause]
    [] OTHER -> [dimension |-> "gather", cause |-> "investigation"]

EnterAcquisition(s, cause) ==
  IF cause = "investigation" /\ s.phase # NoPhase /\ s.phase.status = "none"
  THEN [s EXCEPT !.phase.status = "acquiring"] ELSE s

\* The key that the next pick is compared with: what served, or what was chosen.
IncumbentKey(s, pool) ==
  LET scored == IF s.previous = NoKey THEN NoKey ELSE ScoredIncumbentKey(pool, s.previous)
  IN IF scored # NoKey THEN scored ELSE s.chosen

Preferred(pool, key) ==
  IF HasKey(key, pool) THEN key ELSE IF HasKey(Base(key), pool) THEN Base(key) ELSE NoKey

\* The decision with one candidate in place of the router's pick.
Pinned(decision, key, chain, cause) ==
  [decision EXCEPT !.chosen = key, !.chain = chain, !.cause = cause, !.friction = "none",
                   !.from = NoKey]

\* Outside collecting context and its boundary, the incumbent serves.
HoldIncumbentServing(s, pool, decision, pinned, applied) ==
  LET key == IF s.incumbent = NoIncumbent THEN NoKey ELSE Preferred(pool, s.incumbent.key)
      others == Among(decision.chain, Range(decision.chain) \ {key})
  IN IF \/ pinned \/ applied \/ key \in {NoKey, decision.chosen}
        \/ s.phase.status \in {"acquiring", "ready-pending"}
     THEN decision ELSE Pinned(decision, key, <<key>> \o others, "incumbent")

\* What one routing decision is made from, in the advanced phase of session s.
PolicyInput(s, t, routable, routed, esc) ==
  LET phase == s.phase
  IN [dimension |-> routed.dimension, cause |-> routed.cause, pool |-> routable,
      escalation |-> esc,
      user |-> [level |-> t.requested,
                override |-> t.requested # NoEffort /\ t.requested # s.resolved],
      tokens |-> t.tokens, vision |-> FALSE, warm |-> WarmKeys(s, t.tokens),
      penalties |-> w.penalties, incumbent |-> IncumbentKey(s, routable),
      sameIntent |-> s.decision.intent = t.intent, changed |-> FALSE,
      requirement |-> phase.minimum,
      handoffPending |-> phase.status = "ready-pending" /\ (phase.target # "none" => phase.pending),
      version |-> w.version]

Named(decision, esc, intent) ==
  Joined(decision,
         [from |-> IF decision.friction = "none" THEN NoKey ELSE (CHOOSE e \in esc : TRUE).from,
          intent |-> intent])

\* The decision is recorded with the pool it was made from.
WithDecision(s, pool, decision) ==
  [session |-> SetLastDecision(s, decision), decision |-> decision, pool |-> pool,
   boundary |-> s.phase.status = "ready-pending"]
Decided(s, t, routable, policy, esc, pinned) ==
  LET pool == routable \cup {c \in policy.pool : ~HasKey(Key(c), routable)}
  IN WithDecision(s, pool, HoldIncumbentServing(s, pool, Named(policy.decision, esc, t.intent), pinned,
                                                policy.applied))
ScoreEntered(s, t, routable, routed, esc, pinned) ==
  Decided(s, t, routable, ResolveWithPolicy(PolicyInput(s, t, routable, routed, esc)), esc, pinned)
ScorePhase(s, t, routable, routed, esc, pinned) ==
  ScoreEntered(EnterAcquisition(s, routed.cause), t, routable, routed, esc, pinned)

(* Advance the phase, score the pool that is left, and record the decision.
   The result is [session, decision, pool, boundary]; its pool is empty when
   nothing is routable. *)
ScoreRouterTurn(s, t, pool, esc, cause, identity, pinned) ==
  LET routable == IF pinned THEN pool ELSE ApplyRuntimeExclusions(pool, black)
      advanced == AdvanceWorkPhase(s, t, identity)
  IN IF routable = {} THEN [session |-> s, decision |-> NoDecision, pool |-> {}, boundary |-> FALSE]
     ELSE ScorePhase(advanced, t, routable, EntryPhase(advanced.phase, [t.base EXCEPT !.cause = cause]),
                     esc, pinned)

\* ---------------------------------------------------------- to delegation
EndTurn(s) == session' = s /\ turn' = Idle /\ UNCHANGED <<pi, notes, sent>>

\* The level to send, and what Pi and the router remember of it.
TurnEffort(s, t, pin) ==
  LET explicit == Effort(pin)
      asked == IF explicit # NoEffort THEN explicit ELSE t.requested
      inherited == explicit = NoEffort /\ t.requested = s.resolved
      chosen == CandidateAt(t.decision.chosen, t.pool)
      level == ResolveThinkingLevel(chosen,
                 IF inherited /\ chosen.effort # NoEffort THEN NoEffort ELSE asked)
      sent0 == IF level > 0 THEN level ELSE NoEffort
  IN [pin |-> pin, explicit |-> explicit, level |-> level, resolved |-> sent0,
      options |-> IF sent0 # NoEffort THEN sent0 ELSE t.requested,
      override |-> explicit # NoEffort \/ (~inherited /\ t.requested # NoEffort)]

\* The instruction that the entry's phase adds to the request.
Instruction(s, routed) ==
  CASE ~routed -> NoInstruction
    [] s.phase.status = "acquiring" -> "gather"
    [] s.active -> "work"
    [] OTHER -> NoInstruction

\* The walk starts: the request gets its notes, the notes their messages.
StartWalk(s, p, t, writable) ==
  LET routed == s.phase.intent = t.intent
      request == WithEntryNotes(notes, t.messages, t.intent, Instruction(s, routed), routed,
                                s.recoveryDue, writable)
  IN /\ session' = [s EXCEPT !.recoveryDue = FALSE]
     /\ notes' = request.notes
     /\ pi' = [p EXCEPT !.notes = @ \o SubSeq(request.notes, Len(notes) + 1, Len(request.notes))]
     /\ sent' = [content |-> Content(request.request), stable |-> request.recorded /\ t.entryGen = s.gen]
     /\ turn' = [t EXCEPT !.pc = "walk", !.gen = s.gen, !.pending = traj.pending]

\* The pin is read again here: it may not be the one that was scored.
Delegate(s, scored, decision, t, writable) ==
  LET pin == IF s.pin # NoKey THEN s.pin ELSE HoldOf(s, t.intent)
      ready == Joined([pc |-> "gate", decision |-> decision, pool |-> scored.pool,
                       boundary |-> scored.boundary, index |-> 1, dead |-> {}, served |-> NoKey,
                       pending |-> {}, entryGen |-> t.gen], t)
      effort == TurnEffort(s, ready, pin)
      level == IF effort.level = NoEffort THEN 0 ELSE effort.level
      synced == [s EXCEPT !.resolved = effort.level, !.synced = level]
      paced == [pi EXCEPT !.level = level]
      next == Joined(ready, [effort |-> effort])
  IN IF pin = NoKey /\ decision.friction = "unavailable" /\ w.semi
     THEN session' = synced /\ pi' = paced /\ turn' = next /\ UNCHANGED <<notes, sent>>
     ELSE StartWalk(synced, paced, next, writable)

ServeResumed(s, t, writable) ==
  LET decision == [t.resume EXCEPT !.chosen = t.resume.chain[1], !.cause = "resume",
                     !.friction = "none", !.from = NoKey, !.intent = t.intent]
      pool == ApplyRuntimeExclusions(BuildRoutableCandidates(t.black), t.black)
  IN Delegate(SetLastDecision(s, decision), [pool |-> pool, boundary |-> FALSE], decision, t, writable)

\* A pin or a held model is served alone, whatever the scorer ranks behind it.
DelegatePinned(s, t, scored, writable) ==
  LET chosen == scored.decision.chosen
      decision == Pinned(scored.decision, chosen, <<chosen>>,
                         IF t.mode = "manual" THEN "manual-override" ELSE "semi-hold")
  IN IF scored.pool = {} THEN EndTurn(s)
     ELSE Delegate(SetLastDecision(scored.session, decision), scored, decision, t, writable)

ServePinned(s, t, identity, writable) ==
  DelegatePinned(s, t, ScoreRouterTurn(s, t, ManualCandidates(BuildRoutableCandidates(t.black), t.pin),
                         {}, IF t.mode = "manual" THEN "manual-override" ELSE "semi-hold", identity,
                         t.mode = "manual"), writable)

\* A switch away from the model of the last turn is asked about once per entry.
DelegateRouted(s, t, scored, writable) ==
  LET switches == /\ w.semi /\ ~t.hit /\ s.previous # NoKey
                  /\ RegistryId(scored.decision.chosen) # RegistryId(s.previous)
  IN CASE scored.pool = {} -> EndTurn(s)
       [] switches -> /\ session' = scored.session
                      /\ turn' = Joined([pc |-> "semi", keep |-> s.previous, gateGen |-> s.gen,
                                         gatePin |-> s.pin,
                                         scored |-> [decision |-> scored.decision, pool |-> scored.pool,
                                                     boundary |-> scored.boundary]], t)
                      /\ UNCHANGED <<pi, notes, sent>>
       [] OTHER -> Delegate(scored.session, scored, scored.decision, t, writable)

ServeRouted(s, t, identity, writable) ==
  DelegateRouted(s, t, ScoreRouterTurn(s, t, BuildRoutableCandidates(t.black), t.esc, t.base.cause,
                                       identity, FALSE), writable)

(* The entry's context is read.  A failed read routes without it, even in a
   session that replaced the entry's own.  A resumed route gives way to an
   entry whose work is still to be identified. *)
EntryRead(outcome, writable) ==
  LET identity == IF turn.hit THEN session.phase.identity ELSE outcome = "identity"
      known == IF turn.hit THEN session ELSE [session EXCEPT !.cached = turn.base]
      t == Joined([steady |-> session.pin = turn.asked], turn)
  IN /\ turn.pc = "entry"
     /\ outcome \in IF turn.hit THEN {"cached"} ELSE {"identity", "failed"}
     /\ CASE outcome = "identity" /\ session.gen # turn.gen -> EndTurn(session)
          [] turn.mode = "resume" /\ identity ->
               /\ session' = ClearPendingResume(session)
               /\ turn' = [turn EXCEPT !.mode = "auto", !.gen = session.gen]
               /\ UNCHANGED <<pi, notes, sent>>
          [] turn.mode = "resume" -> ServeResumed(known, t, writable)
          [] turn.mode \in {"manual", "hold"} -> ServePinned(known, t, identity, writable)
          [] OTHER -> ServeRouted(known, t, identity, writable)
     /\ UNCHANGED <<w, black, traj, roles, spawned, claims, used>>

\* ------------------------------------------------------------ the dialogs
\* A bug: a pin set while the dialog is open does not cancel the switch.
CancelledMutant == session.gen # turn.gateGen
Cancelled == session.gen # turn.gateGen \/ session.pin # turn.gatePin

Asking == turn.pc = "semi" /\ UNCHANGED <<w, black, traj, roles, spawned, claims, used>>

DismissSwitch == Asking /\ EndTurn(session)

AcceptSwitch(writable) ==
  /\ Asking
  /\ IF Cancelled THEN EndTurn(session)
     ELSE Delegate(session, turn.scored, turn.scored.decision, turn, writable)

\* The override forgets the boundary that the router's pick would have served.
Override(s, candidates, cause, writable) ==
  LET key == Key(Lowest(candidates))
      decision == Pinned(turn.scored.decision, key, <<key>>, cause)
  IN Delegate(SetLastDecision(s, decision), [pool |-> candidates, boundary |-> FALSE], decision,
              turn, writable)

Available(pin) ==
  ApplyRuntimeExclusions(ManualCandidates(BuildRoutableCandidates(turn.black), pin), black)

\* Keep the previous model for this entry, at its level when it still can.
KeepIncumbent(writable) ==
  LET exact == Available(turn.keep)
      candidates == IF exact # {} THEN exact ELSE Available(Base(turn.keep))
      held == [intent |-> turn.intent, pin |-> IF exact # {} THEN turn.keep ELSE Base(turn.keep)]
  IN /\ Asking
     /\ IF Cancelled \/ candidates = {} THEN EndTurn(session)
        ELSE Override([session EXCEPT !.hold = held], candidates, "semi-hold", writable)

PinOther(pin, writable) ==
  /\ Asking /\ pin \in w.manual /\ Available(pin) # {}
  /\ IF Cancelled THEN EndTurn(session)
     ELSE Override(SetManualModel(session, pin), Available(pin), "manual-override", writable)

\* Nothing checks what changed while the user decided about a struggling model.
AnswerUnavailable(continue, writable) ==
  /\ turn.pc = "gate"
  /\ IF continue THEN StartWalk(session, pi, turn, writable) ELSE EndTurn(session)
  /\ UNCHANGED <<w, black, traj, roles, spawned, claims, used>>
\* -------------------------------------------------------------- the walk
\* The next candidate whose provider is not dead; 0 when none is left.
NextIndex(t, dead) ==
  LET alive == {i \in (t.index + 1)..Len(t.decision.chain) : t.decision.chain[i][1] \notin dead}
  IN IF alive = {} THEN 0 ELSE Min(alive)

(* A candidate fails, for the router to go on: with no consequence, with its key
   excluded, or with its provider's usage spent.  Strikes, retries, hops and the
   dialog of a fallback are Delegation's. *)
AttemptFails(consequence) ==
  LET key == turn.decision.chain[turn.index]
      dead == IF consequence = "provider" THEN turn.dead \cup {key[1]} ELSE turn.dead
      next == NextIndex(turn, dead)
  IN /\ turn.pc = "walk" /\ Spends("fails")
     /\ black' = CASE consequence = "none" -> black
                   [] consequence = "model" -> [black EXCEPT !.keys = @ \cup {key}]
                   [] OTHER -> [black EXCEPT !.keys = @ \cup {key},
                                             !.providers = @ \cup {key[1]}]
     /\ turn' = IF next = 0 THEN Idle ELSE [turn EXCEPT !.index = next, !.dead = dead]
     /\ UNCHANGED <<w, session, traj, notes, pi, roles, spawned, sent, claims>>

\* The thinking request of the turn: the pin's level, or the one resolved for Pi.
UserEffort(t) ==
  [level |-> IF t.effort.explicit # NoEffort THEN t.effort.explicit ELSE t.effort.resolved,
   override |-> t.effort.override]

\* The effort of one attempt: an incumbent's model is not lowered.
ResolveAttemptEffort(t, c) ==
  LET user == UserEffort(t)
      served == ServedEffort(c, user)
      minimum == IF RegistryId(t.decision.raised) = RegistryId(Key(c))
                 THEN Effort(t.decision.raised) ELSE NoEffort
      raised == LevelFrom(minimum, c)
  IN IF user.override \/ ~c.reasoning \/ served >= minimum \/ raised = NoEffort
     THEN served ELSE raised

\* The decision as it was served: a later candidate is a fallback.
FinalDecision(t) ==
  LET chain == t.decision.chain
  IN IF t.index = 1 THEN t.decision
     ELSE [t.decision EXCEPT !.chosen = chain[t.index],
             !.cause = IF @ = "manual-override" THEN @ ELSE "error-fallback",
             !.chain = SubSeq(chain, t.index, Len(chain)) \o SubSeq(chain, 1, t.index - 1)]

\* A newer session or entry may have taken ownership while a candidate answered.
StillCurrent(t) == session.gen = t.gen /\ session.cached.intent = t.decision.intent

AttemptServes ==
  LET candidate == CandidateAt(turn.decision.chain[turn.index], turn.pool)
      effort == ResolveAttemptEffort(turn, candidate)
      key == <<candidate.provider, candidate.model,
               IF effort # NoEffort THEN effort ELSE turn.effort.options>>
  IN /\ turn.pc = "walk"
     /\ turn' = [turn EXCEPT !.pc = "settle", !.served = key]
     /\ session' = IF StillCurrent(turn)
                   THEN SetLastDecision(SetLastServed(session, key), FinalDecision(turn))
                   ELSE session
     /\ UNCHANGED <<w, black, traj, notes, pi, roles, spawned, sent, claims, used>>

\* ------------------------------------------------------------ settlement
\* The chain's candidates of the first capability tier.
BoundaryQualifiers(decision) ==
  {key \in Range(decision.chain) : key \in DOMAIN decision.tiers => decision.tiers[key] = 0}

\* A bug: a model that meets the minimum at one effort meets it at each.
ServesBoundaryMutant(served, qualifiers) ==
  \E key \in qualifiers : RegistryId(key) = RegistryId(served)

ServesBoundary(served, qualifiers) ==
  \E key \in qualifiers : RegistryId(key) = RegistryId(served) /\ Effort(served) >= Effort(key)

\* The boundary belongs to the first invocation served above its minimum.
SettleBoundary(s, t) ==
  LET qualifiers == BoundaryQualifiers(t.decision)
  IN IF \/ qualifiers # {} /\ ~ServesBoundary(t.served, qualifiers)
        \/ ~t.boundary \/ s.phase.intent # t.intent \/ s.phase.status # "ready-pending"
     THEN s ELSE [s EXCEPT !.phase.status = "served", !.phase.pending = FALSE]

Recorded(p, op, key, dimension) ==
  [p EXCEPT !.branch = Append(@, [anchor |-> LastAnchor(p.messages), op |-> op, key |-> key,
                                  dimension |-> dimension])]

\* The session may be another one by now, and is not asked.
NotesIncumbent(s, t) ==
  s.phase.status # "acquiring" /\ s.pin = NoKey /\ HoldOf(s, t.intent) = NoKey

\* Only a proven stronger serving pick consumes the escalation it was made for.
ConsumesEscalation(t) ==
  LET dest == FindSourceCandidate(t.pool, t.served)
  IN /\ t.decision.from # NoKey /\ \E e \in t.pending : e.from = t.decision.from
     /\ \E c \in dest : StrictlyStronger(c, t.decision.from, t.decision.dimension, t.pool,
                                         UserEffort(t), w.version)
     /\ traj.pending = t.pending /\ session.gen = t.gen
     /\ t.mode = "auto" => session.gen = t.entryGen

SettleTurn ==
  LET settled == SettleBoundary(session, turn)
      incumbent == [key |-> turn.served, dimension |-> turn.decision.dimension]
      noted == NotesIncumbent(settled, turn)
      held == IF noted THEN [settled EXCEPT !.incumbent = incumbent] ELSE settled
      written == IF noted /\ settled.incumbent # incumbent
                 THEN Recorded(pi, "incumbent", turn.served, incumbent.dimension) ELSE pi
  IN /\ turn.pc = "settle"
     /\ session' = IF StillCurrent(turn) THEN SetLastDecision(held, FinalDecision(turn)) ELSE held
     /\ pi' = IF session.gen = turn.entryGen
              THEN [written EXCEPT !.server = turn.served, !.calling = TRUE, !.due = FALSE,
                                   !.batch = 0]
              ELSE written
     /\ traj' = IF ConsumesEscalation(turn) THEN ConsumePending(traj) ELSE traj
     /\ turn' = Idle
     /\ UNCHANGED <<w, black, notes, roles, spawned, sent, claims, used>>
\* ----------------------------------------------------------------- tools
Answered(p) == [p EXCEPT !.messages = Append(@, [role |-> "tool", anchor |-> p.next]),
                         !.next = @ + 1, !.due = TRUE]
Calls == pi.calling /\ Routed /\ turn = Idle /\ pi.batch < w.batch
         /\ Cardinality(pi.open) < w.parallel /\ Spends("calls")
NextId == used.calls + 1

Called(t, id) == AfterEvidence(NoteToolCall(BindOwner(t, session.served), id), session)
Observed(t, e) ==
  LET bound == [BindOwner(t, session.served) EXCEPT !.unserved = @ \/ session.served = NoKey]
  IN AfterEvidence(ObserveToolResult(bound, e, Invocation(session)), session)

CallTool ==
  /\ Calls
  /\ pi' = [pi EXCEPT !.open = @ \cup {NextId}, !.batch = @ + 1]
  /\ traj' = Called(traj, NextId)
  /\ UNCHANGED <<w, session, black, notes, turn, roles, spawned, sent, claims>>

\* Results arrive in any order.  A session with a concrete model observes none.
ToolResult(id, r) ==
  /\ turn = Idle /\ id \in pi.open /\ id \notin spawned.open
  /\ pi' = [Answered(pi) EXCEPT !.open = @ \ {id}]
  /\ traj' = IF Routed THEN Observed(traj, Joined([id |-> id, by |-> pi.server], r)) ELSE traj
  /\ UNCHANGED <<w, session, black, notes, turn, roles, spawned, sent, claims, used>>

\* A call that is stopped before it runs has no result to observe.
BlockCall(id) ==
  /\ "block" \in w.env /\ turn = Idle /\ id \in pi.open /\ id \notin spawned.open
  /\ pi' = [Answered(pi) EXCEPT !.open = @ \ {id}]
  /\ UNCHANGED <<w, session, black, traj, notes, turn, roles, spawned, sent, claims, used>>

\* What a declaration makes of the entry's phase.
AcceptContextHandoff(phase, h) ==
  LET terminal == WithStrongerTerminal(phase,
        [kind |-> h.deliverable, complexity |-> h.complexity, openEnded |-> h.openEnded], w.version)
      declared == DeclaredRequirement(h.deliverable, h.rubric, h.facts)
      next == [terminal EXCEPT !.status = "ready-pending", !.deliverable = h.deliverable,
                               !.identity = FALSE]
  IN IF h.deliverable \notin {"plan", "review", "implement"} THEN next
     ELSE [next EXCEPT !.target = h.deliverable, !.pending = TRUE,
             !.minimum = HandoffMinimum(terminal, h.deliverable, declared, h.openEnded, w.version)]

\* route_after_context, as a call whose result is not compared.
HandoffResult == [family |-> "other", action |-> "handoff", obs |-> "accepted", verified |-> FALSE,
                  path |-> "", body |-> NoBody, old |-> "", new |-> "", failure |-> NoSig,
                  error |-> FALSE]

AcceptHandoff(h) ==
  LET selects == session.phase.identity
      accepted == AcceptContextHandoff(session.phase, h)
      result == Joined([id |-> NextId, by |-> pi.server], HandoffResult)
      answered == [Answered(pi) EXCEPT !.batch = @ + 1]
  IN /\ Calls
     /\ session.phase.target = "none"
     /\ \/ session.phase.status = "acquiring"
        \/ session.phase.status = "none" /\ session.phase.incumbentServes
     /\ session' = [session EXCEPT !.phase = accepted, !.active = @ \/ selects,
          !.cached.dimension = IF selects /\ session.cached.intent = session.phase.intent
                               THEN h.deliverable ELSE @]
     /\ pi' = IF selects THEN Recorded(answered, "active", NoKey, h.deliverable) ELSE answered
     /\ traj' = Observed(Called(traj, NextId), result)
     /\ UNCHANGED <<w, black, notes, turn, roles, spawned, sent, claims>>

\* ------------------------------------------------------------- subagents
\* A `subagent` call is routed when it is made, and is no trajectory evidence.
Spawn(requests) ==
  /\ Calls
  /\ spawned' = [open |-> {NextId}, requests |-> requests, pool |-> roles.pool, black |-> black,
                 chains |-> roles.chains,
                 children |-> InjectSubagentRouting(requests, roles, black, Tokens(pi.messages))]
  /\ pi' = [pi EXCEPT !.open = @ \cup {NextId}, !.batch = @ + 1]
  /\ UNCHANGED <<w, session, black, traj, notes, turn, roles, sent, claims>>

\* A child that met a usage limit excludes its provider, and the roles follow.
SubagentResult(capped) ==
  LET next == [black EXCEPT !.providers = @ \cup capped]
  IN /\ turn = Idle /\ spawned.open # {}
     /\ capped \subseteq {child.model[1] : child \in Range(spawned.children)} \ {"none"}
     /\ black' = IF Routed THEN next ELSE black
     /\ roles' = IF Routed /\ capped # {} 
                 THEN RefreshRoles(roles, RolePool(next), RolePins, Tokens(pi.messages)) ELSE roles
     /\ pi' = [Answered(pi) EXCEPT !.open = @ \ spawned.open]
     /\ spawned' = [spawned EXCEPT !.open = {}]
     /\ UNCHANGED <<w, session, traj, notes, turn, sent, claims, used>>

\* ---------------------------------------------------------- the user and Pi
\* A cached entry is routed without an await, so nobody acts in between.
Upset(kind) == kind \in w.env /\ (turn.pc = "entry" => ~turn.hit) /\ Spends("upsets")
Quiet == turn = Idle /\ pi.open = {}

\* A user message; under a concrete model it leaves the active item behind.
NewUser ==
  /\ Quiet /\ Spends("users")
  /\ LET asked == [pi EXCEPT !.messages = Append(@, [role |-> "user", anchor |-> pi.next]),
                             !.next = @ + 1, !.due = TRUE, !.calling = FALSE]
     IN pi' = IF Routed THEN asked ELSE Recorded(asked, "unrouted", NoKey, "none")
  /\ UNCHANGED <<w, session, black, traj, notes, turn, roles, spawned, sent, claims>>

UserPin(pin) ==
  /\ Upset("pin") /\ pin \in w.manual
  /\ session' = SetManualModel(session, pin)
  /\ UNCHANGED <<w, black, traj, notes, pi, turn, roles, spawned, sent, claims>>

ResumeManual ==
  /\ Upset("resume")
  /\ traj' = IF session.pin # NoKey THEN ConsumePending(traj) ELSE traj
  /\ session' = [session EXCEPT !.pin = NoKey, !.resumeIntent = NoIntent]
  /\ UNCHANGED <<w, black, notes, pi, turn, roles, spawned, sent, claims>>

SetLevel(level) ==
  /\ Upset("level") /\ level \in w.levels
  /\ pi' = [pi EXCEPT !.level = level]
  /\ UNCHANGED <<w, session, black, traj, notes, turn, roles, spawned, sent, claims>>

\* Another prompt head: the tools or the instructions of the project changed.
FlipHead ==
  /\ Upset("head")
  /\ pi' = [pi EXCEPT !.head = 1 - @]
  /\ UNCHANGED <<w, session, black, traj, notes, turn, roles, spawned, sent, claims>>

Restored(branch) ==
  LET Apply(ledger, e) ==
        CASE e.op = "incumbent" -> [ledger EXCEPT !.incumbent = [key |-> e.key, dimension |-> e.dimension]]
          [] e.op = "concrete" -> [ledger EXCEPT !.incumbent = NoIncumbent]
          [] e.op = "active" -> [ledger EXCEPT !.active = TRUE]
          [] OTHER -> [ledger EXCEPT !.active = FALSE]
  IN FoldLeft(Apply, [incumbent |-> NoIncumbent, active |-> FALSE], branch)

RestoreWorkLedger(s, branch) ==
  [s EXCEPT !.incumbent = Restored(branch).incumbent, !.active = Restored(branch).active]

\* A concrete model ends the incumbent: its requests are not the router's.
SelectConcrete ==
  LET model == CHOOSE m \in Registry : TRUE
  IN /\ Upset("select") /\ Routed
     /\ session' = [EndServing(session) EXCEPT !.incumbent = NoIncumbent]
     /\ pi' = Recorded([pi EXCEPT !.model = <<model.provider, model.model>>], "concrete", NoKey, "none")
     /\ UNCHANGED <<w, black, traj, notes, turn, roles, spawned, sent, claims>>

\* Pi sets the level of the model it returns to; that is no choice of the user.
SelectRouter ==
  /\ Upset("select") /\ ~Routed
  /\ session' = RestoreWorkLedger([session EXCEPT !.synced = NoEffort], pi.branch)
  /\ notes' = pi.notes
  /\ roles' = RefreshRoles(roles, RolePool(black), RolePins, Tokens(pi.messages))
  /\ pi' = [pi EXCEPT !.model = RouterAuto]
  /\ UNCHANGED <<w, black, traj, turn, spawned, sent, claims>>

ConcreteRequest(writable) ==
  LET noted == WithConcreteNotes(notes, pi.messages, writable)
  IN /\ Quiet /\ ~Routed /\ pi.due /\ Spends("requests")
     /\ notes' = noted.notes
     /\ pi' = [pi EXCEPT !.due = FALSE, !.calling = FALSE,
                 !.notes = @ \o SubSeq(noted.notes, Len(notes) + 1, Len(noted.notes))]
     /\ sent' = [content |-> Content(noted.request), stable |-> noted.recorded]
     /\ UNCHANGED <<w, session, black, traj, turn, roles, spawned, claims>>

\* session_start: a reload keeps the branch, a new session has none.
SessionStart(reload) ==
  LET emptied == [pi EXCEPT !.messages = <<>>, !.notes = <<>>, !.branch = <<>>, !.due = FALSE]
      next == [IF reload THEN pi ELSE emptied EXCEPT !.open = {}, !.calling = FALSE]
  IN /\ Upset("session")
     /\ session' = RestoreWorkLedger(FreshSession(session.gen + 1, session.recoveryDue), next.branch)
     /\ black' = NoBlacklist
     /\ traj' = EmptyTrajectory
     /\ notes' = next.notes
     /\ pi' = next
     /\ roles' = IF Routed THEN RefreshRoles(NoRoles, RolePool(NoBlacklist), RolePins, 0) ELSE NoRoles
     /\ spawned' = NoSpawn
     /\ sent' = [sent EXCEPT !.stable = @ /\ reload]
     /\ UNCHANGED <<w, turn, claims>>

\* Compaction keeps the last entry, and no cached prefix matches any more.
Compact ==
  LET asked == {i \in DOMAIN pi.messages : pi.messages[i].role = "user"}
  IN /\ Upset("compact") /\ Quiet /\ Cardinality(asked) > 1
     /\ pi' = [pi EXCEPT !.messages = SubSeq(@, Max(asked), Len(@))]
     /\ session' = [session EXCEPT !.warm = {}]
     /\ sent' = [sent EXCEPT !.stable = FALSE]
     /\ UNCHANGED <<w, black, traj, notes, turn, roles, spawned, claims>>

\* What an entry leaves to a branch it is not on.
CarryAcrossBranch(phase) ==
  [NoPhase EXCEPT !.intent = phase.intent, !.deliverable = phase.deliverable,
     !.terminal = phase.terminal, !.band = phase.band, !.requirement = phase.requirement,
     !.invocation = phase.invocation]

\* session_tree: Pi goes back to the end of an earlier entry.
Tree(count) ==
  LET kept == SubSeq(pi.messages, 1, count)
      Kept(entries) == Among(entries, {e \in Range(entries) : e.anchor <= LastAnchor(kept)})
      branch == Kept(pi.branch)
      left == /\ session.phase # NoPhase
              /\ \A i \in DOMAIN kept : kept[i].anchor # session.phase.intent[2]
      restored == RestoreWorkLedger([session EXCEPT !.warm = {}], branch)
  IN /\ Upset("tree") /\ Quiet /\ count \in 1..(Len(pi.messages) - 1)
     /\ pi.messages[count + 1].role = "user"
     /\ pi' = [pi EXCEPT !.messages = kept, !.branch = branch, !.due = FALSE, !.calling = FALSE,
                         !.notes = Kept(@)]
     /\ notes' = pi'.notes
     /\ session' = IF left THEN [restored EXCEPT !.phase = CarryAcrossBranch(@)] ELSE restored
     /\ sent' = [sent EXCEPT !.stable = FALSE]
     /\ UNCHANGED <<w, black, traj, turn, roles, spawned, claims>>

BlacklistAdd(pattern) ==
  /\ Upset("black") /\ pattern \in w.patterns
  /\ black' = [black EXCEPT !.patterns = @ \cup {pattern}]
  /\ UNCHANGED <<w, session, traj, notes, pi, turn, roles, spawned, sent, claims>>

\* An exact pattern is a bare identity, and matches no key with an effort.
BlacklistRemove(pattern) ==
  LET wide == pattern[2] = "*"
      lifted == {key \in black.keys : Matches(RegistryId(key), pattern) /\ (wide \/ key = Base(key))}
  IN /\ Upset("black") /\ pattern \in w.patterns
     /\ black' = [keys |-> black.keys \ lifted, patterns |-> black.patterns \ {pattern},
                  providers |-> black.providers \ (IF wide THEN {pattern[1]} ELSE {})]
     /\ UNCHANGED <<w, session, traj, notes, pi, turn, roles, spawned, sent, claims>>

ClearSessionBlacklist ==
  /\ Upset("black") /\ black # NoBlacklist
  /\ black' = NoBlacklist
  /\ UNCHANGED <<w, session, traj, notes, pi, turn, roles, spawned, sent, claims>>

\* ------------------------------------------------------------------ spec
Init ==
  /\ w \in Workloads
  /\ session = FreshSession(1, FALSE)
  /\ black = NoBlacklist /\ traj = EmptyTrajectory /\ notes = <<>> /\ turn = Idle
  /\ pi = [model |-> RouterAuto, level |-> 0, head |-> 0, messages |-> <<>>, notes |-> <<>>,
           branch |-> <<>>, open |-> {}, next |-> 1, due |-> FALSE, calling |-> FALSE, batch |-> 0,
           server |-> NoKey]
  /\ roles = RefreshRoles(NoRoles, RolePool(NoBlacklist), RolePins, 0)
  /\ spawned = NoSpawn /\ claims = {}
  /\ sent = [content |-> <<>>, stable |-> FALSE]
  /\ used = [users |-> 0, requests |-> 0, calls |-> 0, upsets |-> 0, fails |-> 0]

Turn ==
  \/ SendRequest
  \/ \E outcome \in {"cached", "identity", "failed"}, writable \in w.writable : EntryRead(outcome, writable)
  \/ DismissSwitch
  \/ \E writable \in w.writable :
       \/ AcceptSwitch(writable)
       \/ KeepIncumbent(writable)
       \/ \E pin \in w.manual : PinOther(pin, writable)
       \/ \E continue \in BOOLEAN : AnswerUnavailable(continue, writable)
       \/ ConcreteRequest(writable)
  \/ \E consequence \in {"none", "model", "provider"} : AttemptFails(consequence)
  \/ AttemptServes
  \/ SettleTurn

Tools ==
  \/ CallTool
  \/ \E id \in pi.open : BlockCall(id) \/ \E r \in w.results : ToolResult(id, r)
  \/ \E h \in w.handoffs : AcceptHandoff(h)
  \/ \E requests \in w.spawns : Spawn(requests)
  \/ \E capped \in SUBSET {m.provider : m \in Registry} : SubagentResult(capped)

Environment ==
  \/ NewUser \/ ResumeManual \/ FlipHead \/ SelectConcrete \/ SelectRouter \/ Compact
  \/ ClearSessionBlacklist
  \/ \E pin \in w.manual : UserPin(pin)
  \/ \E level \in w.levels : SetLevel(level)
  \/ \E reload \in BOOLEAN : SessionStart(reload)
  \/ \E count \in DOMAIN pi.messages : Tree(count)
  \/ \E pattern \in w.patterns : BlacklistAdd(pattern) \/ BlacklistRemove(pattern)

Next == Turn \/ Tools \/ Environment
Spec == Init /\ [][Next]_vars
\* ------------------------------------------------------------ properties
(* What router-session-state.ts:623-628 says of syncTrajectoryOwner: a pending claim
   always names the model whose own cycles produced it.  The code does not keep
   it when the user changes the model during an answer. *)
ClaimNamesProducer ==
  \A p \in traj.pending : \A i \in DOMAIN traj.cycles :
    RegistryId(traj.cycles[i].by) = RegistryId(p.from)

(* Struggle evidence is about the model that produced it: an escalation away
   from a model rests on tool results of that model only, whatever was served,
   replaced, answered late or stopped in between, as long as each result of the
   entry came in while a served model was known (bindOwner, noteToolCall,
   abandonUnresolvedCalls, maybeSetPending). *)
PendingNamesProducer == ~traj.unserved => ClaimNamesProducer

(* No turn leaves a struggling model before that model had its one recovery
   attempt in the same entry, and three calls to use it (claimRecovery,
   takeRecoveryNotice, resolveBaseIntent). *)
RecoveryBeforeEscalation ==
  turn # Idle => \A e \in turn.esc : \E c \in claims :
    c.intent = turn.intent /\ c.from = e.from /\ c.at + 3 <= turn.observed

(* An applied escalation ends on a model proven stronger at the effort that
   was sent: the same model at a higher effort, or a better measured one
   (isStrictlyStrongerCandidate, resolveTurnEffort, resolveAttemptEffort). *)
EscalationIsStronger ==
  (turn.pc = "settle" /\ turn.index = 1 /\ turn.steady /\ turn.effort.pin = NoKey
   /\ turn.decision.friction = "applied") =>
    LET from == turn.decision.from
        Quality(key) == {CapabilityForDimension(c, turn.decision.dimension, w.version) :
                          c \in FindSourceCandidate(turn.pool, key)} \ {Unknown}
    IN \/ Model(turn.served) = Model(from) /\ Effort(turn.served) > Effort(from)
       \/ \E a \in Quality(turn.served), b \in Quality(from) : a > b

(* A pin and a held model are served alone: no other model is asked under a
   pin, and no pick of the router runs at a pin's level, also when the pin is
   set while a dialog is open (resolveSemiGate, runManualTurn). *)
PinServesAlone ==
  (turn.pc \in {"walk", "settle"} /\ turn.steady /\ turn.effort.pin # NoKey) =>
    \A key \in Range(turn.decision.chain) : RegistryId(key) = RegistryId(turn.effort.pin)

(* A request repeats the one before it and adds to its end, so that the
   provider's prefix cache holds, until the history itself is rewritten or a
   note could not be recorded (request-notes.ts). *)
PrefixStable ==
  [][sent.stable /\ sent'.content # sent.content => IsPrefix(sent.content, sent'.content)]_vars

(* A handoff's boundary is closed by a model that meets its minimum at the
   effort it ran with, whenever the turn's chain had one (settleBoundary). *)
MeetsBoundary(key, t) ==
  \E c \in FindSourceCandidate(Expanded, key) :
    TierOf(c.q, MinimumsFor(t.decision.dimension, session.phase.minimum, w.version)) = 0
BoundaryMeetsMinimum ==
  [][session.phase.status = "ready-pending" /\ session'.phase.status = "served" =>
       \/ MeetsBoundary(turn.served, turn)
       \/ \A key \in Range(turn.decision.chain) : ~MeetsBoundary(key, turn)]_vars

(* A reviewer is of another family than every worker of its call, routed or
   asked for, when its role's chain has a live candidate that is
   (selectTaskAwareRoleChildren). *)
ReviewerIndependent ==
  LET children == spawned.children
      workers == {children[j].model : j \in {i \in DOMAIN children : children[i].role = "worker"}}
                 \ {NoKey}
      Independent(key) == \A worker \in workers : ~SameFamily(key, worker)
  IN \A i \in DOMAIN children :
       children[i].role = "reviewer" /\ children[i].owned /\ ~Independent(children[i].model) =>
         ~\E key \in Range(spawned.chains["reviewer"]) :
            /\ Independent(key) /\ HasKey(key, spawned.pool)
            /\ ~ExcludedCandidate(key, spawned.black)
=============================================================================
