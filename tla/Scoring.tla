------------------------------ MODULE Scoring ------------------------------
(* The candidate scorer (src/extensions/routing/score/scorer.ts): capability
   tiers, the score inside a tier, the fallback chain, and the proof that one
   candidate is stronger than another.  The module holds operators only;
   RoutingPolicy and SessionTurns apply them.

   A key is <<provider, model, effort>>.  A candidate is a record:
     provider, model, effort   its key; effort \in Levels or NoEffort
     name                      its place in the alphabetical order of keys
     bench, estimated          a benchmark row is present, and is an estimate
     q                         quality: the measured axes to their values
     exact                     effort -> the exact-effort axes measured there
     price, task, time         costs as exponents of two, or Unknown, so that
                               the logarithmic utilities are exact ratios
     tps, window, vision       speed, context window, image input
     reasoning, levels         thinking support
     cached, sharesCache       its cache prices are known and a re-read is
                               dearer than a hit; effort keeps its prefix
   Index values are tenths of a point, shares are hundredths; a
   requirement is in thousandths, and a minimum is kept a thousand times larger,
   so a share of a reference is exact.  Scores
   are integers, Unit for 1.0.  A cache credit always reaches the margin: the
   registry prices tokens by the million, so one token's loss exceeds it. *)
EXTENDS Integers, Sequences, FiniteSets, FiniteSetsExt, SequencesExt

Unknown == -1
NoEffort == -1
Levels == 0..6     \* off, minimal, low, medium, high, xhigh, max
Unit == 60000000
Margin == 9000000  \* DEFAULT_SWITCH_MARGIN, 0.15
NoKey == <<"none", "none", NoEffort>>
NoRequirement == -1

Key(c) == <<c.provider, c.model, c.effort>>
Model(key) == key[2]
Effort(key) == key[3]
RegistryId(key) == <<key[1], key[2]>>
Base(key) == <<key[1], key[2], NoEffort>>
CandidateAt(key, pool) == CHOOSE c \in pool : Key(c) = key
HasKey(key, pool) == \E c \in pool : Key(c) = key

\* The elements of a sequence that are in a set, in order.
Among(seq, S) == FlattenSeq([i \in DOMAIN seq |-> IF seq[i] \in S THEN <<seq[i]>> ELSE <<>>])

\* ---------------------------------------------------------------- effort
\* A model without reasoning has no thinking level to send.
Supported(c) == IF c.reasoning THEN c.levels ELSE {}

\* The level itself, raised to the nearest one the model supports.
LevelFrom(level, c) ==
  LET up == {l \in Supported(c) : l >= level}
  IN IF up = {} THEN NoEffort ELSE Min(up)

ChooseThinkingLevel(c) ==
  IF c.effort = NoEffort THEN NoEffort ELSE LevelFrom(c.effort, c)

\* The nearest supported level, upwards first; the scored effort without a request.
Distance(a, b) == IF a > b THEN a - b ELSE b - a
ResolveThinkingLevel(c, requested) ==
  IF requested = NoEffort THEN ChooseThinkingLevel(c)
  ELSE IF Supported(c) = {} THEN NoEffort
  ELSE CHOOSE l \in Supported(c) : \A k \in Supported(c) \ {l} :
         \/ Distance(l, requested) < Distance(k, requested)
         \/ Distance(l, requested) = Distance(k, requested) /\ l > k

\* user = [level, override]: the session's thinking request.
ServedEffort(c, user) ==
  IF c.effort # NoEffort /\ ~user.override
  THEN LevelFrom(c.effort, c)
  ELSE ResolveThinkingLevel(c, user.level)

\* ------------------------------------------------------------ capability
RankingAxis(dim, requirement, version) ==
  CASE version = "cheapest-sufficient" \/ dim # "implement" -> "intelligence"
    [] requirement # NoRequirement /\ requirement < 450 -> "agenticIndex"
    [] OTHER -> "agenticCoding"

Axis(q, axis) == IF axis \in DOMAIN q THEN q[axis] ELSE Unknown

QualityForDimension(q, dim, requirement, version) ==
  LET measured == Axis(q, RankingAxis(dim, requirement, version))
  IN IF version = "legacy" /\ dim = "implement" /\ measured = Unknown
     THEN Axis(q, "coding") ELSE measured

CapabilityForDimension(c, dim, version) ==
  IF c.bench THEN QualityForDimension(c.q, dim, NoRequirement, version) ELSE Unknown

AxisReference == [intelligence |-> 576, coding |-> 783, agenticCoding |-> 636,
                  agenticIndex |-> 579, research |-> 61, longContext |-> 100,
                  visionReasoning |-> 100]

FixedMinimums(dim, version) ==
  CASE dim = "gather" -> [intelligence |-> 200000]
    [] dim \in {"plan", "review"} ->
         [intelligence |-> 300000, knowledge |-> 0, research |-> 35000]
    [] dim = "implement" /\ version = "cheapest-sufficient" ->
         [intelligence |-> 650 * AxisReference.intelligence]
    [] dim = "implement" -> [agenticCoding |-> 340000]
    [] OTHER -> <<>>

MinimumsFor(dim, requirement, version) ==
  LET fixed == FixedMinimums(dim, version)
  IN CASE requirement = NoRequirement -> fixed
       [] RankingAxis(dim, requirement, version) = "agenticIndex" ->
            [agenticIndex |-> requirement * AxisReference.agenticIndex]
       [] OTHER -> [axis \in DOMAIN fixed |->
            IF axis = "knowledge" THEN fixed[axis] ELSE requirement * AxisReference[axis]]

\* The fixed minimums as one requirement, rounded up to a thousandth.
DefaultRequirement(dim, version) ==
  LET fixed == FixedMinimums(dim, version)
  IN Max({0} \cup {(fixed[axis] + AxisReference[axis] - 1) \div AxisReference[axis] :
                    axis \in DOMAIN fixed \ {"knowledge"}})

ExactAxes == {"knowledge", "research", "longContext", "visionReasoning"}
OnlyExact(q) == [axis \in DOMAIN q \cap ExactAxes |-> q[axis]]

\* The exact-effort axes at the effort that delegation will serve.
ServedExactQuality(c, pool) ==
  LET served == IF c.effort = NoEffort THEN NoEffort ELSE LevelFrom(c.effort, c)
      siblings == {p \in pool : RegistryId(Key(p)) = RegistryId(Key(c)) /\ p.effort = served}
  IN CASE served \in {NoEffort, c.effort} -> OnlyExact(c.q)
       [] served \in DOMAIN c.exact -> OnlyExact(c.exact[served])
       [] siblings # {} -> OnlyExact((CHOOSE p \in siblings : TRUE).q)
       [] OTHER -> <<>>

ServedQuality(c, pool) ==
  LET exact == ServedExactQuality(c, pool)
      kept == DOMAIN c.q \ ExactAxes
  IN [axis \in kept \cup DOMAIN exact |-> IF axis \in kept THEN c.q[axis] ELSE exact[axis]]

\* 0 meets every minimum, 1 lacks a measurement, 2 is measured below one.
TierOf(q, minimums) ==
  IF \E axis \in DOMAIN minimums \cap DOMAIN q : q[axis] * 1000 < minimums[axis] THEN 2
  ELSE IF DOMAIN minimums \subseteq DOMAIN q THEN 0 ELSE 1

Eligibility(c, pool, minimums) ==
  TierOf(IF c.bench THEN ServedQuality(c, pool) ELSE <<>>, minimums)

\* --------------------------------------------------------------- scoring
(* opts: tokens (thousands of context), vision, version, requirement,
   minimums ("default" or a vector), incumbent, warm (keys), spawn, penalties
   (model -> units), unknownPriceLast. *)
Weights(dim) ==
  CASE dim = "lightweight" -> [quality |-> 20, cost |-> 60, speed |-> 20]
    [] dim = "gather" -> [quality |-> 40, cost |-> 40, speed |-> 20]
    [] dim = "plan" -> [quality |-> 80, cost |-> 15, speed |-> 5]
    [] dim = "implement" -> [quality |-> 60, cost |-> 30, speed |-> 10]
    [] dim = "review" -> [quality |-> 70, cost |-> 25, speed |-> 5]
EconomicsFirst == [quality |-> 0, cost |-> 100, speed |-> 0]

\* The alphabetical order of the effort suffixes; a bare key comes first.
EffortName == [e \in Levels \cup {NoEffort} |->
  IF e = NoEffort THEN -1 ELSE <<5, 4, 1, 3, 0, 6, 2>>[e + 1]]
NameBefore(a, b) ==
  \/ a.name < b.name
  \/ a.name = b.name /\ EffortName[a.effort] < EffortName[b.effort]

\* Windows and tokens in thousands; a window of 0 is unknown.
ApplyCandidateGuards(pool, opts) ==
  LET holding == {c \in pool : c.window = 0 \/ c.window * 10 >= opts.tokens * 12}
      Wider(a, b) == a.window > b.window \/ (a.window = b.window /\ ~NameBefore(b, a))
      fits == IF holding # {} THEN holding
              ELSE {c \in pool : \A p \in pool : Wider(c, p)}
      seeing == {c \in fits : c.vision}
  IN IF opts.vision /\ seeing # {} THEN seeing ELSE fits

\* The scale that most of the pool carries.
MostlyMeasured(pool, measured) == 2 * Cardinality(measured) > Cardinality(pool)

BlendedPrice(c) == c.price
CostSignal(pool) ==
  IF MostlyMeasured(pool, {c \in pool : c.bench /\ c.task # Unknown}) THEN "task" ELSE "per-1m"
SpeedSignal(pool) ==
  IF MostlyMeasured(pool, {c \in pool : c.bench /\ c.time # Unknown}) THEN "task" ELSE "tps"
CostOf(c, basis) ==
  IF basis = "task" THEN IF c.bench THEN c.task ELSE Unknown ELSE BlendedPrice(c)

\* 1 - (log cost - log min) / (log max - log min), in Unit per hundredth of weight.
LogUtility(value, peers, weight) ==
  LET known == peers \ {Unknown}
      lo == Min(known)
      hi == Max(known)
  IN IF value = Unknown THEN 0
     ELSE IF lo = hi THEN weight * (Unit \div 100)
     ELSE (weight * (Unit \div 100) * (hi - value)) \div (hi - lo)

\* Unknown quality is assumed high for hard task types.
NormalizedQuality(q, dim) ==
  CASE q # Unknown -> Min({q, 1000})
    [] dim \in {"plan", "review"} -> 700
    [] dim = "implement" -> 500
    [] OTHER -> 300
QualityComponent(c, dim, weights, opts) ==
  LET q == IF c.bench THEN QualityForDimension(c.q, dim, opts.requirement, opts.version) ELSE Unknown
      axis == RankingAxis(dim, opts.requirement, opts.version)
      ceiling == IF opts.requirement = NoRequirement THEN weights.quality * (Unit \div 100)
                 ELSE (opts.requirement * AxisReference[axis] * weights.quality * 6) \div 10
  IN Min({NormalizedQuality(q, dim) * weights.quality * 600, ceiling,
          weights.quality * (Unit \div 100)})

\* The incumbent keeps the whole conversation, another key its own warm prefix.
KeepsFullPrefix(c, opts) ==
  \/ Key(c) = opts.incumbent
  \/ /\ opts.incumbent # NoKey
     /\ RegistryId(Key(c)) = RegistryId(opts.incumbent)
     /\ c.effort = NoEffort \/ c.sharesCache

SwitchBonus(c, scored, opts) ==
  LET incumbentCached == \E i \in scored : Key(i) = opts.incumbent /\ i.cached
      earns == IF KeepsFullPrefix(c, opts) THEN incumbentCached
               ELSE Key(c) \in opts.warm /\ c.cached
  IN IF ~opts.spawn /\ earns THEN Margin ELSE 0

ProtocolPenalty(c, opts) ==
  IF Model(Key(c)) \in DOMAIN opts.penalties
  THEN Min({opts.penalties[Model(Key(c))], Margin}) ELSE 0

TimeOf(c) == IF c.bench THEN c.time ELSE Unknown
SpeedComponent(c, peers, basis, weight) ==
  IF basis = "task" THEN LogUtility(TimeOf(c), {TimeOf(p) : p \in peers}, weight)
  ELSE Min({c.tps, 200}) * weight * 3000

(* The score of c with quality component `quality`.  Cost and time compare only
   with its peers, the candidates of its capability tier. *)
ScoreCandidate(c, tier, quality, filtered, costBasis, speedBasis, weights, opts) ==
  LET peers == {p \in filtered : tier[p] = tier[c]}
  IN [candidate |-> c, tier |-> tier[c], quality |-> quality,
      priceRank |-> IF opts.unknownPriceLast /\ CostOf(c, costBasis) = Unknown THEN 1 ELSE 0,
      score |-> quality + LogUtility(CostOf(c, costBasis), {CostOf(p, costBasis) : p \in peers}, weights.cost)
                + SpeedComponent(c, peers, speedBasis, weights.speed)
                + SwitchBonus(c, filtered, opts) - ProtocolPenalty(c, opts),
      speed |-> IF speedBasis # "task" THEN c.tps
                ELSE IF TimeOf(c) = Unknown THEN -1000 ELSE -TimeOf(c)]

ScoreWithinTiers(filtered, tier, dim, weights, opts) ==
  LET meeting == {c \in filtered : tier[c] = 0}
      pool == IF meeting # {} THEN meeting ELSE filtered
  IN {ScoreCandidate(c, tier, QualityComponent(c, dim, weights, opts), filtered, CostSignal(pool),
                     SpeedSignal(pool), weights, opts) : c \in filtered}

\* A sort key: tier, known prices first, then score, quality, speed, name.
Before(a, b) ==
  LET first == <<a.tier, a.priceRank, -a.score, -a.quality, -a.speed>>
      second == <<b.tier, b.priceRank, -b.score, -b.quality, -b.speed>>
      differ == {i \in 1..5 : first[i] # second[i]}
  IN IF differ = {} THEN NameBefore(a.candidate, b.candidate)
     ELSE LET i == Min(differ) IN first[i] < second[i]

RankedChain(scored) ==
  [i \in 1..Cardinality(scored) |->
    Key((CHOOSE s \in scored : Cardinality({o \in scored : Before(o, s)}) = i - 1).candidate)]
AssembleDecision(scored, chain, dim) ==
  [dimension |-> dim, chosen |-> chain[1], chain |-> chain, cause |-> "heuristic",
   tiers |-> [key \in Range(chain) |-> (CHOOSE s \in scored : Key(s.candidate) = key).tier],
   friction |-> "none", raised |-> NoKey]

\* Long contexts and images add the measured minimum of the input shape.
RequiredMinimums(dim, opts) ==
  LET base == MinimumsFor(dim, opts.requirement, opts.version)
      shapes == (IF opts.tokens >= 64 THEN {"longContext"} ELSE {})
                \cup (IF opts.vision THEN {"visionReasoning"} ELSE {})
  IN IF opts.minimums # "default" THEN opts.minimums
     ELSE [axis \in DOMAIN base \cup shapes |-> IF axis \in shapes THEN 30000 ELSE base[axis]]

PickScored(scored, dim) == AssembleDecision(scored, RankedChain(scored), dim)
PickFiltered(filtered, dim, weights, opts, minimums) ==
  PickScored(ScoreWithinTiers(filtered, [c \in filtered |-> Eligibility(c, filtered, minimums)],
                              dim, weights, opts), dim)
PickBest(pool, dim, weights, opts) ==
  PickFiltered(ApplyCandidateGuards(pool, opts), dim, weights, opts, RequiredMinimums(dim, opts))

\* ------------------------------------------------------------ escalation
IsValidEscalationCandidate(key, from) ==
  /\ key # from
  /\ \/ Model(key) # Model(from)
     \/ /\ Effort(key) # NoEffort /\ Effort(from) # NoEffort
        /\ Effort(key) > Effort(from)

\* The source's own row: its key, or its model's unlabelled row.
FindSourceCandidate(pool, from) ==
  {c \in pool : IF HasKey(from, pool) THEN Key(c) = from ELSE Key(c) = Base(from)}

DestServingKey(c, user) ==
  LET effort == ServedEffort(c, user)
  IN IF effort = NoEffort THEN IF c.reasoning THEN Base(Key(c)) ELSE Key(c)
     ELSE <<c.provider, c.model, effort>>

\* The row that describes the attempt that will run; empty when none does.
DestAtServedEffort(c, user, pool) ==
  LET effort == ServedEffort(c, user)
      sibling == {p \in pool : RegistryId(Key(p)) = RegistryId(Key(c)) /\ p.effort = effort}
  IN CASE effort = NoEffort -> IF c.effort = NoEffort \/ ~c.reasoning THEN {c} ELSE {}
       [] c.effort = effort -> {c}
       [] sibling # {} -> sibling
       [] OTHER -> IF c.effort = NoEffort THEN {c} ELSE {}

\* A bug: any other model counts as stronger.
StrictlyStrongerMutant(c, from, dim, pool, user, version) ==
  IsValidEscalationCandidate(DestServingKey(c, user), from)

StrictlyStronger(c, from, dim, pool, user, version) ==
  LET destKey == DestServingKey(c, user)
      Measured(rows) == {CapabilityForDimension(r, dim, version) :
                          r \in {x \in rows : ~x.estimated}} \ {Unknown}
      dest == Measured(DestAtServedEffort(c, user, pool))
      source == Measured(FindSourceCandidate(pool, from))
  IN /\ IsValidEscalationCandidate(destKey, from)
     /\ \/ Model(destKey) = Model(from)
        \/ \E d \in dest, s \in source : d > s

BandForRequirement(r) ==
  CASE r < 450 -> 1 [] r < 700 -> 2 [] r < 850 -> 3 [] OTHER -> 4

\* 0 without a measurement.
CandidateBand(c, dim) ==
  LET axes == IF dim = "implement" THEN <<"agenticCoding", "coding">> ELSE <<"intelligence">>
      known == {i \in DOMAIN axes : c.bench /\ axes[i] \in DOMAIN c.q}
      axis == axes[Min(known)]
  IN IF known = {} THEN 0
     ELSE BandForRequirement((c.q[axis] * 1000) \div AxisReference[axis])

\* The lowest band above the source's, or everything when there is none.
NextBandCandidates(stronger, source, dim) ==
  LET own == Max({0} \cup {CandidateBand(s, dim) : s \in source})
      Rank(c) == IF CandidateBand(c, dim) = 0 THEN own ELSE CandidateBand(c, dim)
      above == {c \in stronger : Rank(c) > own}
      next == Min({Rank(c) : c \in above})
  IN IF own = 0 \/ above = {} THEN stronger ELSE {c \in above : Rank(c) = next}

PickEscalation(pool, dim, from, opts) ==
  LET alternatives == {c \in pool : IsValidEscalationCandidate(Key(c), from)}
  IN IF alternatives = {} THEN {} ELSE {PickBest(alternatives, dim, EconomicsFirst, opts)}

\* The next band first, then everything stronger above it.
WithHigher(first, rest) ==
  IF rest = {} THEN first ELSE {[f EXCEPT !.chain = f.chain \o r.chain] : f \in first, r \in rest}
ChainOf(stronger, next, dim, from, opts, version) ==
  CASE stronger = {} -> {}
    [] version = "cheapest-sufficient" ->
         PickEscalation(stronger, dim, from, [opts EXCEPT !.unknownPriceLast = TRUE])
    [] OTHER -> WithHigher(PickEscalation(next, dim, from, opts),
                           PickEscalation(stronger \ next, dim, from, opts))

\* A set with the escalation decision, empty when nothing stronger is reachable.
EscalationChain(pool, dim, from, opts, user, version) ==
  LET eligible == ApplyCandidateGuards(pool, opts)
      stronger == {c \in eligible : StrictlyStronger(c, from, dim, pool, user, version)}
  IN ChainOf(stronger, NextBandCandidates(stronger, FindSourceCandidate(pool, from), dim),
             dim, from, opts, version)
=============================================================================
