----------------------------- MODULE Trajectory -----------------------------
(* Struggle evidence and its detectors (src/extensions/routing/struggle/):
   what the tool results of one user entry say about the model that serves it,
   as operators on the state t of TrajectoryState.

   A tool result e is a record:
     id, family           its call; read, look (search or an inspecting shell
                          command), mutation, verifier, other
     action, obs          the identity of the call and of what it returned;
                          Unidentified for a mutation of unknown content
     verified             call and observation can be compared completely
     path, body, old, new the file, its lines (NoBody when unknown), an edit
     failure, error       signature of a verifier's failure (NoSig), isError
     by                   the model whose call it is, read by properties only
   t.unserved, which only properties read too, says that evidence of the entry
   came in while no model was known to serve.
   A displacement counts the lines added and deleted.  The wall-clock budget of
   a comparison, the size limits of the source and the TFI number, which
   nothing reads, are left out. *)
EXTENDS Integers, Sequences, FiniteSets, FiniteSetsExt, SequencesExt

NoBody == {"unknown"}
NoSig == "no failure"
Unidentified == "unidentified"
NoOwner == <<"none", "none", -1>>
NoIntent == <<0, 0>>
Evidence(e) == <<e.action, e.obs>>
\* f with one more key: what @@ and :> of the module TLC say, for the provers.
With(f, key, value) == [x \in DOMAIN f \cup {key} |-> IF x = key THEN value ELSE f[x]]
MaxCycles == 8

EmptyTrajectory ==
  [intent |-> NoIntent, owner |-> NoOwner, recovered |-> NoOwner, cycles |-> <<>>, frontier |-> {},
   failures |-> <<>>, lastMutation |-> -1, mutations |-> 0, gross |-> 0, files |-> <<>>,
   trusted |-> TRUE, stagnation |-> 0, pending |-> {}, fingerprint |-> <<>>, calls |-> <<>>,
   results |-> <<>>, done |-> {}, unserved |-> FALSE]

\* Files stay, rebased: the next owner is measured from where it starts.
ResetStruggle(t) ==
  [t EXCEPT !.cycles = <<>>, !.failures = <<>>, !.lastMutation = -1, !.mutations = 0,
     !.gross = 0, !.stagnation = 0, !.trusted = TRUE, !.pending = {}, !.fingerprint = <<>>,
     !.files = [p \in DOMAIN @ |-> [baseline |-> @[p].current, current |-> @[p].current,
                                    mutated |-> FALSE]]]

BindIntent(t, intent) ==
  IF t.intent = intent THEN t ELSE [EmptyTrajectory EXCEPT !.intent = intent]

\* A bug: the evidence of the previous model stays when another one serves.
BindOwnerMutant(t, owner) == IF owner = NoOwner THEN t ELSE [t EXCEPT !.owner = owner]

\* Evidence describes the model that produced it, and no other.
BindOwner(t, owner) ==
  IF owner \in {NoOwner, t.owner} THEN t
  ELSE IF t.owner = NoOwner THEN [t EXCEPT !.owner = owner]
  ELSE [ResetStruggle(t) EXCEPT !.owner = owner]

\* ------------------------------------------------------------- one cycle
Looks(e) == e.family \in {"read", "look"}

TrackFileSnapshot(t, e) ==
  IF e.family # "read" \/ e.path = "" \/ e.body \in {NoBody, {}} \/ e.path \in DOMAIN t.files THEN t
  ELSE [t EXCEPT !.files = With(@, e.path, [baseline |-> e.body, current |-> e.body,
                                                mutated |-> FALSE])]

LineDistance(a, b) == Cardinality((a \ b) \cup (b \ a))

\* The file after a mutation; an edit is applied to the snapshot.
NextFileBody(t, e) ==
  IF e.body # NoBody THEN e.body
  ELSE IF e.path \notin DOMAIN t.files \/ e.old \notin t.files[e.path].current THEN NoBody
  ELSE (t.files[e.path].current \ {e.old}) \cup {e.new}

ApplyMutationDisplacement(t, e) ==
  LET next == NextFileBody(t, e)
      file == t.files[e.path]
  IN CASE ~t.trusted \/ e.path = "" \/ next = NoBody -> [t EXCEPT !.trusted = FALSE]
       [] e.path \notin DOMAIN t.files ->
            [t EXCEPT !.files = With(@, e.path, [baseline |-> next, current |-> next,
                                                     mutated |-> TRUE])]
       [] OTHER -> [t EXCEPT !.gross = @ + LineDistance(file.current, next),
                             !.files[e.path] = [file EXCEPT !.current = next, !.mutated = TRUE]]

Failing(e) == e.error \/ e.failure # NoSig

ClassifyProgress(t, e) ==
  LET key == e.action
      active == IF key \in DOMAIN t.failures THEN {t.failures[key].sig} ELSE {}
  IN CASE e.family \in {"mutation", "other"} \/ ~e.verified -> "unknown"
       [] Looks(e) -> IF Evidence(e) \in t.frontier THEN "none" ELSE "progress"
       [] ~Failing(e) -> IF active # {} THEN "progress" ELSE "unknown"
       [] e.failure # NoSig /\ active # {} /\ e.failure \notin active -> "unknown"
       [] OTHER -> "none"

\* One live failure per verifier; a correction is a mutation between two runs
\* that leave the same failure.
UpdateFailures(t, e, invocation) ==
  LET key == e.action
      kept == Restrict(t.failures, DOMAIN t.failures \ {key})
      same == key \in DOMAIN t.failures /\ t.failures[key].sig = e.failure
      corrected == /\ same
                   /\ t.lastMutation > t.failures[key].last /\ t.lastMutation < invocation
      before == IF same THEN t.failures[key].corrections ELSE 0
  IN CASE ~Failing(e) -> [t EXCEPT !.failures = kept]
       [] e.failure = NoSig -> t
       [] OTHER -> [t EXCEPT !.failures = With(kept, key,
            [sig |-> e.failure, last |-> invocation,
             corrections |-> before + (IF corrected THEN 1 ELSE 0)])]

ApplyCycle(t, e, invocation) ==
  LET t1 == TrackFileSnapshot(t, e)
      progress == ClassifyProgress(t1, e)
      t2 == IF e.family = "mutation" /\ ~e.error
            THEN ApplyMutationDisplacement([t1 EXCEPT !.mutations = @ + 1,
                                                      !.lastMutation = invocation], e)
            ELSE t1
      t3 == IF e.family = "verifier" THEN UpdateFailures(t2, e, invocation) ELSE t2
      cycles == Append(t3.cycles, [action |-> e.action, obs |-> e.obs, verified |-> e.verified,
                                   progress |-> progress, by |-> e.by])
  IN [t3 EXCEPT
       !.stagnation = IF progress = "progress" THEN 0 ELSE IF progress = "none" THEN @ + 1 ELSE @,
       !.frontier = IF progress = "progress" \/ (progress = "unknown" /\ Looks(e))
                    THEN @ \cup {Evidence(e)} ELSE @,
       !.cycles = IF Len(cycles) > MaxCycles THEN Tail(cycles) ELSE cycles]

\* -------------------------------------------------------------- detectors
Severity(count, warning, severe) ==
  IF count >= severe THEN "severe" ELSE IF count >= warning THEN "warning" ELSE "none"
Signal(kind, severity, evidence) == [kind |-> kind, severity |-> severity, evidence |-> evidence]
LastOf(s, n) == SubSeq(s, IF Len(s) > n THEN Len(s) - n + 1 ELSE 1, Len(s))

\* The same call with the same answer, since the last progress.
DetectActionObservationRecurrence(t) ==
  LET window == LastOf(t.cycles, 6)
      last == window[Len(window)]
      breaks == {i \in DOMAIN window : window[i].progress = "progress" \/ ~window[i].verified}
      count == Cardinality({i \in DOMAIN window : /\ \A b \in breaks : b < i
                                                  /\ Evidence(window[i]) = Evidence(last)})
      severity == Severity(count, 2, 3)
  IN IF window = <<>> THEN Signal("aor", "none", <<>>)
     ELSE IF ~last.verified \/ last.action = Unidentified THEN Signal("aor", "none", <<>>)
     ELSE Signal("aor", severity, IF severity = "none" THEN <<>> ELSE <<Evidence(last)>>)

DetectFailurePersistence(t) ==
  LET most == Max({0} \cup {t.failures[k].corrections : k \in DOMAIN t.failures})
      worst == {k \in DOMAIN t.failures : t.failures[k].corrections = most}
  IN Signal("failure-persistence", Severity(most, 2, 3),
            IF most = 0 THEN <<>> ELSE <<<<"fail", t.failures[CHOOSE k \in worst : TRUE].sig>>>>)

NetDistance(t) ==
  FoldSet(LAMBDA p, sum : sum + LineDistance(t.files[p].baseline, t.files[p].current), 0,
          {p \in DOMAIN t.files : t.files[p].mutated})

\* In thousandths: the share of the written lines that was taken back.
DetectMutationBacktracking(t) ==
  LET severity == Severity(1000 - (NetDistance(t) * 1000) \div t.gross, 350, 600)
  IN IF ~t.trusted \/ t.mutations < 3 \/ t.gross = 0
     THEN Signal("backtracking", "unavailable", <<>>)
     ELSE Signal("backtracking", severity, <<<<"mb">>>>)

DetectProgressStagnation(t) ==
  LET run == IF t.stagnation = 0 THEN t.cycles ELSE LastOf(t.cycles, t.stagnation)
  IN Signal("stagnation", Severity(t.stagnation, 2, 3), [i \in DOMAIN run |-> Evidence(run[i])])

Active(signal) == signal.severity \in {"warning", "severe"}

\* In detector order, a signal that shares evidence with a kept one is the same warning.
IndependentWarningCount(signals) ==
  LET Keep(kept, signal) ==
        IF /\ Active(signal)
           /\ \A k \in kept : Range(k.evidence) \cap Range(signal.evidence) = {}
        THEN kept \cup {signal} ELSE kept
      kept[n \in 0..Len(signals)] == IF n = 0 THEN {} ELSE Keep(kept[n - 1], signals[n])
  IN Cardinality(kept[Len(signals)])

ClassifyTrajectoryStruggle(t) ==
  LET aor == DetectActionObservationRecurrence(t)
      fp == DetectFailurePersistence(t)
      mb == DetectMutationBacktracking(t)
      ps == DetectProgressStagnation(t)
      others == {aor, fp, ps}
      backtrackingOnly == Active(mb) /\ \A o \in others : o.severity = "none"
  IN [escalate |-> \/ \E o \in others : o.severity = "severe"
                   \/ ~backtrackingOnly /\ IndependentWarningCount(<<aor, fp, mb, ps>>) >= 2,
      signals |-> <<aor, fp, mb, ps>>]

\* ------------------------------------------------------------ batches
\* The results of a batch count in call order, under one invocation.
FlushBatch(t, invocation) ==
  LET after[n \in 0..Len(t.calls)] ==
        IF n = 0 THEN t
        ELSE IF t.calls[n] \in DOMAIN t.results
        THEN ApplyCycle(after[n - 1], t.results[t.calls[n]], invocation)
        ELSE after[n - 1]
  IN [after[Len(t.calls)] EXCEPT !.calls = <<>>, !.results = <<>>, !.done = @ \cup DOMAIN t.results]

\* [state, decided]: a decision is due when evidence was applied.
ObserveToolResult(t, e, invocation) ==
  LET held == [t EXCEPT !.results = IF e.id \in DOMAIN @ THEN @ ELSE With(@, e.id, e)]
  IN IF e.id \in t.done THEN [state |-> t, decided |-> FALSE]
     ELSE IF ~Contains(t.calls, e.id)
     THEN [state |-> [ApplyCycle(t, e, invocation) EXCEPT !.done = @ \cup {e.id}], decided |-> TRUE]
     ELSE IF \E id \in Range(t.calls) : id \notin DOMAIN held.results
     THEN [state |-> held, decided |-> FALSE]
     ELSE [state |-> FlushBatch(held, invocation), decided |-> TRUE]

AbandonUnresolvedCalls(t) ==
  CASE t.calls = <<>> -> [state |-> t, decided |-> FALSE]
    [] DOMAIN t.results # {} ->
         [state |-> FlushBatch(t, Max({0, t.lastMutation})), decided |-> TRUE]
    [] OTHER -> [state |-> [t EXCEPT !.calls = <<>>, !.results = <<>>], decided |-> FALSE]

\* A call after results closes the batch before it.
NoteToolCall(t, id) ==
  LET flushed == IF DOMAIN t.results # {} THEN AbandonUnresolvedCalls(t)
                 ELSE [state |-> t, decided |-> FALSE]
  IN IF id \in t.done \/ Contains(t.calls, id) THEN [state |-> t, decided |-> FALSE]
     ELSE [flushed EXCEPT !.state.calls = Append(@, id)]

\* --------------------------------------------------- pending escalation
\* Set after applied evidence, for the model that owns it and no other.
MaybeSetPending(t, from, dimension) ==
  LET decision == ClassifyTrajectoryStruggle(t)
  IN CASE from = NoOwner \/ dimension = "none" -> t
       [] t.owner \notin {NoOwner, from} -> t
       [] ~decision.escalate -> [t EXCEPT !.pending = {}, !.fingerprint = <<>>]
       [] decision.signals = t.fingerprint -> t
       [] OTHER -> [t EXCEPT !.fingerprint = decision.signals,
                             !.pending = {[from |-> from, dimension |-> dimension]}]

ConsumePending(t) == [t EXCEPT !.pending = {}]

\* A bug: every struggle counts as recovered already.
MayRecoverMutant(t, owner) == FALSE
MayRecover(t, owner) == t.recovered # owner
ClaimRecovery(t, owner) == [ResetStruggle(t) EXCEPT !.recovered = owner]
=============================================================================
