-------------------------- MODULE TaskRequirement --------------------------
(* What a handoff asks of the model of the next phase
   (src/extensions/routing/policy/execution-difficulty.ts and work-phase.ts):
   the declared rubric, the measured facts and the final step, in thousandths.

   A rubric maps every criterion to a level 1..5, or to 0 for an unscored or
   invalid one.  facts is [applicable, files, directories, lines, fixes]: the
   file and directory counts, the existing lines as k for 250 * 2^k, and the
   fix commits; Unknown for a failed measurement of the last two.  state is
   [terminal, band, requirement]: the final step of the entry. *)
EXTENDS Scoring

Frontier == 850
Clamp(value, low, high) == IF value < low THEN low ELSE IF value > high THEN high ELSE value

ExecutionCriteria == {"openDecisions", "spread", "verification", "knowledge", "coupling"}
ReasoningCriteria == {"alternatives", "stakes", "spread", "knowledge", "uncertainty"}

\* Unscored criteria take the highest declared level; no scored one is no rubric.
ParseLevels(rubric) ==
  LET scored == {rubric[c] : c \in DOMAIN rubric} \ {0}
  IN IF scored = {} THEN {}
     ELSE {[c \in DOMAIN rubric |-> IF rubric[c] = 0 THEN Max(scored) ELSE rubric[c]]}

\* The sum of the measured terms for a weight in thousandths; an unmeasured
\* fact counts as the hardest.  Thirds and quarters are rounded down.
MeasuredTerm(facts, weight) ==
  IF ~facts.applicable THEN 0
  ELSE (weight * Clamp(facts.files - 1, 0, 4)) \div 4
       + (weight * Clamp(facts.directories - 1, 0, 3)) \div 3
       + (IF facts.lines = Unknown THEN weight ELSE (weight * Clamp(facts.lines, 0, 4)) \div 4)
       + (IF facts.fixes = Unknown THEN weight ELSE (weight * Clamp(facts.fixes, 0, 5)) \div 5)

CriteriaTerm(rubric, dominant) ==
  FoldSet(LAMBDA c, sum : sum + 20 * (rubric[c] - 1), 0, DOMAIN rubric \ {dominant})

ExecutionRequirement(rubric, facts) ==
  Min({1000, 300 + <<0, 100, 250, 420, 600>>[rubric.openDecisions]
                 + CriteriaTerm(rubric, "openDecisions") + MeasuredTerm(facts, 40)})

ReasoningRequirement(rubric, facts) ==
  Min({1000, 400 + <<0, 60, 180, 340, 460>>[rubric.alternatives]
                 + CriteriaTerm(rubric, "alternatives") + MeasuredTerm(facts, 30)})

\* The set holds the parsed rubric with its requirement, or nothing.
DeclaredRequirement(target, rubric, facts) ==
  {[rubric |-> r, value |-> IF target = "implement" THEN ExecutionRequirement(r, facts)
                            ELSE ReasoningRequirement(r, facts)] : r \in ParseLevels(rubric)}

\* ------------------------------------------------------------- final step
Complexity == [trivial |-> 0, routine |-> 125, moderate |-> 250, hard |-> 375, frontier |-> 500]
KindBase == [lightweight |-> 100, gather |-> 200, implement |-> 300, review |-> 300, plan |-> 350]
TerminalRequirement(t) ==
  Clamp(KindBase[t.kind] + Complexity[t.complexity] + (IF t.openEnded THEN 100 ELSE 0), 0, 1000)

\* economy, standard, strong and frontier as 1..4; what each asks of a handoff.
CapabilityBandFor(r) == CASE r < 300 -> 1 [] r < 500 -> 2 [] r < 750 -> 3 [] OTHER -> 4
BandRequirement(band) == <<NoRequirement, 450, 700, Frontier>>[band]

WithStrongerTerminal(state, terminal, version) ==
  LET asked == TerminalRequirement(terminal)
  IN IF \E t \in state.terminal : asked <= TerminalRequirement(t) THEN state
     ELSE IF version = "cheapest-sufficient"
     THEN [state EXCEPT !.terminal = {terminal}, !.requirement = asked]
     ELSE [state EXCEPT !.terminal = {terminal}, !.band = CapabilityBandFor(asked)]

TerminalMinimum(state, target, version) ==
  IF version # "cheapest-sufficient"
  THEN IF state.band = 0 THEN NoRequirement ELSE BandRequirement(state.band)
  ELSE IF state.requirement > DefaultRequirement(target, version)
  THEN state.requirement ELSE NoRequirement

AboveDefault(minimum, target, version) ==
  IF minimum > DefaultRequirement(target, version) THEN minimum ELSE NoRequirement

RubricCeiling(target, openEnded, declared) ==
  IF target = "implement" /\ ~openEnded /\ \E d \in declared : d.rubric.openDecisions <= 3
  THEN 650 ELSE Frontier

\* The minimum of one declaration: at most the ceiling, raised by the final step.
HandoffMinimum(state, target, declared, openEnded, version) ==
  LET raised == TerminalMinimum(state, target, version)
      asked == CHOOSE d \in declared : TRUE
  IN IF declared = {} THEN AboveDefault(raised, target, version)
     ELSE Max({Min({asked.value, RubricCeiling(target, openEnded, declared)}), raised})
=============================================================================
