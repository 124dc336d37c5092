--------------------------- MODULE RoutingPolicy ---------------------------
(* One routing decision (src/extensions/routing/policy/routing-policy.ts) and the
   expansion of registry models into candidates, measured or estimated
   (provider.ts, src/extensions/routing/score/effort-estimate.ts).

   input: dimension, cause, pool, escalation (empty, or the pending one),
   user, tokens, vision, warm, penalties, incumbent, sameIntent, changed (the
   recorded work relation is a move), requirement, handoffPending, version. *)
EXTENDS Scoring

PassiveCauses == {"heuristic", "continuation-context", "no-data"}

\* ------------------------------------------------------------- candidates
LadderAxes == {"intelligence", "coding", "agenticCoding", "agenticIndex"}
QualityBearing(row) == DOMAIN row.q # {}

\* One step of the 90th percentile of the observed drops, per axis; an axis
\* with a thin sample has none.  MinSample is MIN_SAMPLE of the source.
Percentile90(sorted) ==
  LET k == (Len(sorted) - 1) * 9
      low == k \div 10 + 1
      high == Min({low + 1, Len(sorted)})
  IN sorted[low] + ((sorted[high] - sorted[low]) * (k % 10)) \div 10

ObservedDrops(rows, axis) ==
  LET on == {r \in rows : r.effort # NoEffort /\ axis \in DOMAIN r.q}
      Adjacent(a, b) == /\ a.id = b.id /\ a.effort < b.effort
                        /\ ~\E m \in on : m.id = a.id /\ a.effort < m.effort /\ m.effort < b.effort
      steps == {s \in on \X on : Adjacent(s[1], s[2])}
  IN {<<s[1].id, s[1].effort, (s[2].q[axis] - s[1].q[axis]) \div (s[2].effort - s[1].effort)>> :
        s \in steps}

EffortDropsPerStep(rows, MinSample) ==
  LET usable == {axis \in LadderAxes : Cardinality(ObservedDrops(rows, axis)) >= MinSample}
      Sorted(axis) == SortSeq(SetToSeq(ObservedDrops(rows, axis)), LAMBDA a, b : a[3] < b[3])
      Values(axis) == [i \in DOMAIN Sorted(axis) |-> Sorted(axis)[i][3]]
  IN [axis \in usable |-> Max({0, Percentile90(Values(axis))})]

\* The missing ladder axes, stepped down from the nearest measured level above.
EstimateQuality(level, own, rows, drops) ==
  LET Above(axis) == {r \in rows : r.effort > level /\ axis \in DOMAIN r.q}
      Anchor(axis) == CHOOSE r \in Above(axis) : \A o \in Above(axis) : r.effort <= o.effort
      filled == {axis \in DOMAIN drops \ DOMAIN own : Above(axis) # {}}
  IN [q |-> [axis \in DOMAIN own \cup filled |->
               IF axis \in DOMAIN own THEN own[axis]
               ELSE Max({0, Anchor(axis).q[axis] - drops[axis] * (Anchor(axis).effort - level)})],
      anchors |-> {Anchor(axis) : axis \in filled}]

CompleteMeasuredRow(row, rows, drops) ==
  LET result == EstimateQuality(row.effort, row.q, rows, drops)
  IN IF DOMAIN result.q \cap (LadderAxes \cup {"knowledge", "research"}) = {} THEN {}
     ELSE {[row EXCEPT !.q = result.q, !.estimated = @ \/ result.anchors # {}]}

\* Task cost, time and speed are measurements of one effort: never carried.
EstimateRow(level, rows, drops) ==
  LET result == EstimateQuality(level, <<>>, rows, drops)
      anchor == CHOOSE r \in result.anchors : \A o \in result.anchors : r.effort <= o.effort
  IN IF result.anchors = {} THEN {}
     ELSE {[anchor EXCEPT !.effort = level, !.q = result.q, !.estimated = TRUE,
                          !.task = Unknown, !.time = Unknown, !.tps = 0]}

ServesThinkingOff(m) == ~m.reasoning \/ (0 \in Supported(m) /\ m.turnsOff)

BuildCandidate(m, row) ==
  [provider |-> m.provider, model |-> m.model, name |-> m.name, effort |-> row.effort,
   bench |-> row.bench, estimated |-> row.estimated, q |-> row.q, exact |-> <<>>,
   price |-> m.price, task |-> row.task, time |-> row.time, tps |-> row.tps,
   window |-> m.window, vision |-> m.vision, reasoning |-> m.reasoning, levels |-> m.levels,
   cached |-> m.cached, sharesCache |-> m.sharesCache]

NoRow == [id |-> "none", effort |-> NoEffort, bench |-> FALSE, estimated |-> FALSE, q |-> <<>>,
          task |-> Unknown, time |-> Unknown, tps |-> 0]

PlainRow(rows) ==
  LET bearing == {r \in rows : QualityBearing(r)}
  IN CASE bearing # {} -> CHOOSE r \in bearing : TRUE
       [] rows # {} -> CHOOSE r \in rows : TRUE
       [] OTHER -> NoRow

\* Without a supported row, the model's best one stands for it, unlabelled.
SupportedRows(rows, labelled) ==
  IF rows # {} THEN rows ELSE {[PlainRow(labelled) EXCEPT !.effort = NoEffort]}

\* One candidate per supported effort with a measured or an estimated row.
ExpandModelCandidates(m, drops) ==
  LET labelled == {r \in m.rows : r.effort # NoEffort}
      ExactAt(e) == OnlyExact((CHOOSE r \in labelled : r.effort = e).q)
      exact == [e \in {x \in {r.effort : r \in labelled} : DOMAIN ExactAt(x) # {}} |-> ExactAt(e)]
      levels == {l \in Levels : IF l = 0 THEN ServesThinkingOff(m) ELSE l \in Supported(m)}
      RowAt(l) ==
        LET measured == {r \in labelled : r.effort = l}
        IN IF measured # {} THEN UNION {CompleteMeasuredRow(r, labelled, drops) : r \in measured}
           ELSE IF l = 1 THEN {} ELSE EstimateRow(l, labelled, drops)
  IN IF labelled = {} THEN {BuildCandidate(m, PlainRow(m.rows))}
     ELSE {[BuildCandidate(m, r) EXCEPT !.exact = exact] :
             r \in SupportedRows(UNION {RowAt(l) : l \in levels}, labelled)}

\* ------------------------------------------------------ incumbent minimums
\* The effort the incumbent's key says it served at; off and none set no minimum.
IncumbentEffortOf(key) == IF Effort(key) <= 0 THEN NoKey ELSE key

Labelled(pool, key) ==
  {c \in pool : RegistryId(Key(c)) = RegistryId(key) /\ c.reasoning /\ c.effort # NoEffort}

\* The pool as delegation will serve it: no lower effort of the incumbent.
AtIncumbentEffort(pool, minimum) ==
  LET labelled == Labelled(pool, minimum)
      below == {c \in labelled : c.effort < Effort(minimum)}
      served == LevelFrom(Effort(minimum), CHOOSE c \in below : TRUE)
      hasServedRow == \E c \in labelled : c.effort = served
      nearest == CHOOSE c \in below : \A o \in below : o.effort <= c.effort
      exact == IF served \in DOMAIN nearest.exact THEN nearest.exact[served] ELSE <<>>
      ladder == DOMAIN nearest.q \ ExactAxes
      raised == [nearest EXCEPT !.effort = served,
                   !.q = [axis \in ladder \cup DOMAIN exact |->
                            IF axis \in ladder THEN nearest.q[axis] ELSE exact[axis]]]
  IN IF minimum = NoKey THEN pool
     ELSE IF below = {} THEN pool
     ELSE IF served = NoEffort THEN pool
     ELSE (pool \ below) \cup (IF hasServedRow THEN {} ELSE {raised})

\* The key the policy can score the incumbent at; NoKey when it cannot.
ScoredIncumbentKey(pool, key) ==
  IF \/ HasKey(key, pool)
     \/ /\ IncumbentEffortOf(key) # NoKey
        /\ \E c \in Labelled(pool, key) : c.effort < Effort(key)
  THEN key ELSE NoKey

\* The served model keeps one task at its known capability.
ApplyIncumbentModelFloor(decision, pool, dim, incumbent, skip, version) ==
  LET Quality(key) == IF HasKey(key, pool)
                      THEN CapabilityForDimension(CandidateAt(key, pool), dim, version) ELSE Unknown
      allowed == Max({1, decision.tiers[decision.chosen]})
      meets == Among(decision.chain, {key \in Range(decision.chain) :
                 /\ decision.tiers[key] <= allowed
                 /\ Quality(key) # Unknown /\ Quality(key) >= Quality(incumbent)})
      target == meets[1]
  IN IF \/ skip \/ incumbent \in {NoKey, decision.chosen}
        \/ ~HasKey(incumbent, pool) \/ ~Contains(decision.chain, incumbent)
        \/ Quality(incumbent) = Unknown \/ Quality(decision.chosen) = Unknown
        \/ Quality(incumbent) <= Quality(decision.chosen)
        \/ meets = <<>>
     THEN decision
     ELSE [decision EXCEPT !.chosen = target,
             !.chain = <<target>> \o Among(decision.chain, Range(decision.chain) \ {target})]

\* Delegation raises every entry of the incumbent's model to its effort.
ApplyIncumbentEffort(decision, minimum) ==
  IF minimum # NoKey /\ \E key \in Range(decision.chain) : RegistryId(key) = RegistryId(minimum)
  THEN [decision EXCEPT !.raised = minimum] ELSE decision

\* Struggle owns the head of the chain; ordinary recovery stays behind it.
ApplyPick(decision, picked, from) ==
  LET p == CHOOSE x \in picked : TRUE
      recovery == Among(decision.chain, {key \in Range(decision.chain) :
        IsValidEscalationCandidate(key, from) /\ ~Contains(p.chain, key)})
  IN IF picked = {} THEN [decision EXCEPT !.friction = "unavailable"]
     ELSE [decision EXCEPT !.chosen = p.chosen, !.chain = p.chain \o recovery, !.friction = "applied",
             !.cause = IF @ \in PassiveCauses THEN "trajectory-escalation" ELSE @]

ApplyTrajectoryRepick(decision, input, opts) ==
  LET from == (CHOOSE e \in input.escalation : TRUE).from
  IN IF input.escalation = {} THEN decision
     ELSE ApplyPick(decision, EscalationChain(input.pool, input.dimension, from, opts, input.user,
                                              input.version), from)

\* ---------------------------------------------------------------- decision
\* The served model's minimums hold, unless a move or a handoff released them.
KeepMinimums(input) == ~(~input.sameIntent /\ input.changed) /\ ~input.handoffPending
MinimumOf(input) == IF KeepMinimums(input) THEN IncumbentEffortOf(input.incumbent) ELSE NoKey

Annotated(decision, input) ==
  [decision EXCEPT !.cause = IF (\E c \in input.pool : c.bench) \/ input.cause # "heuristic"
                             THEN input.cause ELSE "no-data"]

\* The floors under a pick; an applied escalation owns its chain.
Floored(repick, input, pool) ==
  LET applied == repick.friction = "applied"
      floored == ApplyIncumbentModelFloor(repick, pool, input.dimension, input.incumbent,
                                          applied \/ ~KeepMinimums(input), input.version)
  IN [decision |-> IF applied THEN floored ELSE ApplyIncumbentEffort(floored, MinimumOf(input)),
      pool |-> pool, applied |-> applied]

PolicyFor(input, pool) ==
  LET cheapest == input.version = "cheapest-sufficient"
      base == [tokens |-> input.tokens, vision |-> input.vision, version |-> input.version,
               requirement |-> NoRequirement, minimums |-> "default",
               incumbent |-> input.incumbent, warm |-> input.warm, spawn |-> FALSE,
               penalties |-> input.penalties, unknownPriceLast |-> FALSE]
      pick == [base EXCEPT !.requirement = input.requirement, !.unknownPriceLast = cheapest]
      weights == IF cheapest THEN EconomicsFirst ELSE Weights(input.dimension)
      opts == IF cheapest THEN [base EXCEPT !.minimums = RequiredMinimums(input.dimension, pick)]
              ELSE base
      best == Annotated(PickBest(pool, input.dimension, weights, pick), input)
  IN Floored(ApplyTrajectoryRepick(best, input, opts), input, pool)

ResolveWithPolicy(input) == PolicyFor(input, AtIncumbentEffort(input.pool, MinimumOf(input)))
=============================================================================
