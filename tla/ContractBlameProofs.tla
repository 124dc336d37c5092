------------------------ MODULE ContractBlameProofs ------------------------
(***************************************************************************)
(* Theorems about what plans cost the models that execute them, about the  *)
(* outcomes they are logged with, and about whom a plan is blamed on, how  *)
(* often, and for how long a plan lives.                                   *)
(***************************************************************************)
EXTENDS ExecutionContractProofs, FiniteSetTheorems, SequenceTheorems

(* Strikes and exclusions that agree, of an entry or of a prior entry: two *)
(* strikes exclude, and nobody is excluded without a strike.  The second   *)
(* half is what lets withContinuedPenalties() overwrite the two fields     *)
(* separately, each only when the prior entry has it.                      *)
Agree(p) ==
  /\ \A m \in Model : p.strikes[m] >= ContractStrikeLimit => m \in p.excluded
  /\ p.excluded # {} => p.strikes # NoStrikes

PenaltiesAgree(s) == Agree(s) /\ (s.prior # None => Agree(s.prior))

SamePenalties(s, t) ==
  t.strikes = s.strikes /\ t.excluded = s.excluded /\ t.prior = s.prior

(* strike() keeps strikes and exclusions in agreement.                     *)
LEMMA StrikeAgrees ==
  ASSUME NEW s \in EntryStates, NEW m \in Model, NEW submitter,
         PenaltiesAgree(s)
  PROVE  PenaltiesAgree(Strike(s, m, submitter))
  <1> DEFINE n == [s.strikes EXCEPT ![m] = @ + 1]
             x == IF s.strikes[m] + 1 >= ContractStrikeLimit
                  THEN s.excluded \union {m} ELSE s.excluded
             t == [s EXCEPT !.strikes = n, !.excluded = x]
  <1>1. s.strikes \in [Model -> Nat]
    BY DEF EntryStates
  <1>2. \A k \in Model : n[k] >= ContractStrikeLimit => k \in x
    BY <1>1 DEF PenaltiesAgree, Agree
  <1>3. n # NoStrikes
    <2>1. n[m] # 0
      BY <1>1
    <2> QED
      BY <2>1 DEF NoStrikes
  <1>4. t.strikes = n /\ t.excluded = x /\ t.prior = s.prior
    BY DEF EntryStates
  <1>5. PenaltiesAgree(t)
    <2> HIDE DEF n, x, t
    <2> QED BY <1>2, <1>3, <1>4 DEF PenaltiesAgree, Agree
  <1>6. Strike(s, m, submitter) \in {s, t}
    BY DEF Strike, EntryStates
  <1> QED
    BY <1>5, <1>6

(* Entry states with the same penalties agree alike.                       *)
LEMMA SameAgree ==
  ASSUME NEW s, NEW t, SamePenalties(s, t), PenaltiesAgree(s)
  PROVE  PenaltiesAgree(t)
  BY DEF SamePenalties, PenaltiesAgree, Agree

(* breakContract() keeps the agreement.                                    *)
LEMMA BreakAgrees ==
  ASSUME NEW s \in EntryStates, NEW m \in Model \union {None}, NEW reason,
         PenaltiesAgree(s)
  PROVE  PenaltiesAgree(BreakContract(s, m, reason))
  <1> DEFINE struck == IF m # None /\ reason # "unattributed-mutation"
                       THEN Strike(s, m, s.contract.submitter) ELSE s
  <1>1. CASE ~Has(s, "active")
    BY <1>1 DEF BreakContract
  <1>2. CASE Has(s, "active")
    <2>1. struck \in EntryStates /\ PenaltiesAgree(struck)
      BY StrikeType, StrikeAgrees
    <2>2. BreakContract(s, m, reason) = [struck EXCEPT !.contract.status = "broken"]
      BY <1>2 DEF BreakContract
    <2>3. SamePenalties(struck, [struck EXCEPT !.contract.status = "broken"])
      <3> HIDE DEF struck
      <3> QED BY <2>1 DEF SamePenalties, EntryStates
    <2> QED
      <3> HIDE DEF struck
      <3> QED BY <2>1, <2>2, <2>3, SameAgree
  <1> QED
    BY <1>1, <1>2

(* reworkContract() keeps the agreement.                                   *)
LEMMA ReworkAgrees ==
  ASSUME NEW s \in EntryStates, PenaltiesAgree(s)
  PROVE  PenaltiesAgree(ReworkContract(s))
  <1>1. CASE Has(s, "executed") /\ s.contract.executor # None
    <2>1. s.contract.executor \in Model
      BY <1>1 DEF Has, EntryStates, Contracts
    <2> QED
      BY <1>1, <2>1, StrikeAgrees DEF ReworkContract
  <1>2. CASE ~(Has(s, "executed") /\ s.contract.executor # None)
    BY <1>2 DEF ReworkContract
  <1> QED
    BY <1>1, <1>2

(* The other transitions of a contract leave the penalties alone.          *)
LEMMA ContractKeepsPenalties ==
  ASSUME NEW s \in EntryStates, NEW m \in Model \union {None}
  PROVE  /\ SamePenalties(s, AttributeExecutor(s, m))
         /\ SamePenalties(s, ExpireContract(s))
         /\ SamePenalties(s, Closed(s, m))
         /\ \A f \in File : SamePenalties(s, NoteContractEdit(s, f, m))
         /\ \A p, known, serial :
              SamePenalties(s, AcceptContract(s, p, m, known, serial))
  <1>1. SamePenalties(s, AttributeExecutor(s, m))
    BY DEF SamePenalties, AttributeExecutor, EntryStates
  <1>2. SamePenalties(s, ExpireContract(s))
    BY DEF SamePenalties, ExpireContract, EntryStates
  <1>3. SamePenalties(s, Closed(s, m))
    BY DEF SamePenalties, AttributeExecutor, Closed, EntryStates
  <1>4. \A f \in File : SamePenalties(s, NoteContractEdit(s, f, m))
    BY DEF SamePenalties, AttributeExecutor, NoteContractEdit, EntryStates
  <1>5. \A p, known, serial :
          SamePenalties(s, AcceptContract(s, p, m, known, serial))
    BY DEF SamePenalties, AcceptContract, EntryStates
  <1> QED
    BY <1>1, <1>2, <1>3, <1>4, <1>5

(* withContinuedPenalties() keeps the agreement, though it replaces strikes*)
(* and exclusions one by one.                                              *)
LEMMA ContinueAgrees ==
  ASSUME NEW s \in EntryStates, NEW w, NEW relation, PenaltiesAgree(s)
  PROVE  PenaltiesAgree(WithContinuedPenalties(s, w, relation))
  <1> DEFINE q == s.prior
             n == IF q.strikes # NoStrikes THEN q.strikes ELSE s.strikes
             x == IF q.excluded # {} THEN q.excluded ELSE s.excluded
             t == [s EXCEPT !.strikes = n, !.excluded = x]
  <1>1. CASE q # None
    <2>1. Agree(q) /\ Agree(s)
      BY <1>1 DEF PenaltiesAgree
    <2>2. \A m \in Model : n[m] >= ContractStrikeLimit => m \in x
      <3>1. CASE q.strikes # NoStrikes
        BY <2>1, <3>1 DEF Agree
      <3>2. CASE q.strikes = NoStrikes
        BY <2>1, <3>2 DEF Agree
      <3> QED
        BY <3>1, <3>2
    <2>3. x # {} => n # NoStrikes
      BY <2>1 DEF Agree
    <2>4. t.strikes = n /\ t.excluded = x /\ t.prior = s.prior
      BY DEF EntryStates
    <2>5. PenaltiesAgree(t)
      <3> HIDE DEF n, x, t
      <3> QED BY <2>1, <2>2, <2>3, <2>4 DEF PenaltiesAgree, Agree
    <2>6. WithContinuedPenalties(s, w, relation) \in {s, t}
      BY DEF WithContinuedPenalties, EntryStates
    <2> QED
      BY <2>5, <2>6
  <1>2. CASE q = None
    BY <1>2 DEF WithContinuedPenalties
  <1> QED
    BY <1>1, <1>2

(* settleExecutionContract() keeps the agreement.                          *)
LEMMA SettleExecutionAgrees ==
  ASSUME NEW s \in EntryStates, NEW prev \in Model \union {None},
         NEW struggled, PenaltiesAgree(s)
  PROVE  PenaltiesAgree(SettleExecution(s, prev, struggled))
  <1> DEFINE a == AttributeExecutor(s, prev)
  <1>1. a \in EntryStates /\ PenaltiesAgree(a)
    BY AttributeType, ContractKeepsPenalties, SameAgree
  <1>2. PenaltiesAgree(BreakContract(a, prev, "struggle"))
    BY <1>1, BreakAgrees
  <1>3. PenaltiesAgree(ExpireContract(a))
    BY <1>1, ContractKeepsPenalties, SameAgree
  <1> QED
    BY <1>1, <1>2, <1>3 DEF SettleExecution

(* A new entry starts without penalties; what it may take over agrees.     *)
LEMMA FreshAgrees ==
  ASSUME NEW s \in EntryStates, PenaltiesAgree(s), NEW d, NEW status,
         NEW completed
  PROVE  PenaltiesAgree(FreshEntry(d, status, completed, PenaltiesOf(s)))
  <1> DEFINE q == PenaltiesOf(s)
             t == FreshEntry(d, status, completed, q)
  <1>1. q # None => Agree(q)
    BY DEF PenaltiesOf, PenaltiesAgree, Agree
  <1>2. t.strikes = NoStrikes /\ t.excluded = {} /\ t.prior = q
    BY DEF FreshEntry
  <1>3. Agree(t)
    BY <1>2 DEF Agree, NoStrikes, ContractStrikeLimit
  <1> QED
    <2> HIDE DEF q, t
    <2> QED BY <1>1, <1>2, <1>3 DEF PenaltiesAgree, t, q

(* Every step of the specification keeps the agreement.                    *)
LEMMA NextAgrees ==
  ASSUME TypeInv, PenaltiesAgree(state), [Next]_vars
  PROVE  PenaltiesAgree(state')
  <1>0. state \in EntryStates /\ served \in Model \union {None}
          /\ Rotated \in Model \union {None}
    BY DEF TypeInv, TypeOK, Rotated
  <1>1. ASSUME NEW pool \in Pools, NEW struggled \in BOOLEAN,
               RouteAgain(pool, struggled)
        PROVE  PenaltiesAgree(state')
    <2> DEFINE s == SettleExecution(state, Rotated, struggled)
    <2>1. s \in EntryStates /\ PenaltiesAgree(s)
      BY <1>0, SettleExecutionAgrees, SettleExecutionEvolves
    <2>2. SamePenalties(s, state')
      <3> HIDE DEF s
      <3> QED BY <1>1, <2>1 DEF RouteAgain, Commit, SamePenalties, EntryStates, s
    <2> QED
      BY <2>1, <2>2, SameAgree
  <1>2. ASSUME NEW pool \in Pools, NEW d \in Deliverables, RouteNewEntry(pool, d)
        PROVE  PenaltiesAgree(state')
    BY <1>0, <1>2, FreshAgrees DEF RouteNewEntry
  <1>3. ASSUME NEW qualified \in BOOLEAN, Settle(qualified)
        PROVE  PenaltiesAgree(state')
    <2>1. SamePenalties(state, state')
      BY <1>0, <1>3 DEF Settle, SamePenalties, EntryStates
    <2> QED
      BY <2>1, SameAgree
  <1>4. ASSUME EntrySettles
        PROVE  PenaltiesAgree(state')
    BY <1>0, <1>4, ContractKeepsPenalties, SameAgree DEF EntrySettles
  <1>5. ASSUME NEW measured \in BOOLEAN, JudgePlan(measured)
        PROVE  PenaltiesAgree(state')
    <2> DEFINE known == submission.open /\ measured
               reviewed == state.contract # None /\ IsUnderReview(state.contract)
               base == IF reviewed THEN ReworkContract(state) ELSE state
    <2>1. base \in EntryStates /\ PenaltiesAgree(base)
      BY <1>0, ReworkType, ReworkAgrees
    <2>2. PenaltiesAgree(AcceptContract(base, submission.plan, served, known,
                                        accepted + 1))
      <3> HIDE DEF base, known
      <3> QED BY <1>0, <2>1, ContractKeepsPenalties, SameAgree
    <2>3. PenaltiesAgree(BreakContract(state, served, "replan"))
      BY <1>0, BreakAgrees
    <2>4. state' \in {state, BreakContract(state, served, "replan"),
                      AcceptContract(base, submission.plan, served, known,
                                     accepted + 1)}
      BY <1>5 DEF JudgePlan, Commit
    <2> QED
      BY <2>2, <2>3, <2>4
  <1>6. ASSUME NEW f \in File, CallEdit(f)
        PROVE  PenaltiesAgree(state')
    BY <1>0, <1>6, BreakAgrees DEF CallEdit, Commit
  <1>7. ASSUME NEW f \in File, NEW ok \in BOOLEAN, EditReturns(f, ok)
        PROVE  PenaltiesAgree(state')
    BY <1>0, <1>7, ContractKeepsPenalties, SameAgree DEF EditReturns, Commit
  <1>8. ASSUME ShellWrites
        PROVE  PenaltiesAgree(state')
    BY <1>0, <1>8, BreakAgrees DEF ShellWrites, Commit
  <1>9. ASSUME NEW w \in Item, NEW d \in Deliverables, HandOffContext(w, d)
        PROVE  PenaltiesAgree(state')
    <2> DEFINE s == WithContinuedPenalties(state, w, RelationTo(w))
    <2>1. s \in EntryStates /\ PenaltiesAgree(s)
      BY <1>0, ContinueType, ContinueAgrees
    <2>2. SamePenalties(s, state')
      <3> HIDE DEF s
      <3> QED BY <1>9, <2>1 DEF HandOffContext, SamePenalties, EntryStates, s
    <2> QED
      BY <2>1, <2>2, SameAgree
  <1>10. ASSUME NEW status \in {"done", "superseded"}, CompleteWork(status)
         PROVE  PenaltiesAgree(state')
    <2>1. SamePenalties(state, state')
      BY <1>0, <1>10 DEF CompleteWork, SamePenalties, EntryStates
    <2> QED
      BY <2>1, SameAgree
  <1>11. ASSUME NEW d \in Deliverables, ReopenWork(d)
         PROVE  PenaltiesAgree(state')
    <2> DEFINE s == WithContinuedPenalties(state, ReopenTarget, "reopen")
               c == Closed(s, served)
    <2>1. ReopenTarget \in Item
      BY <1>0, <1>11 DEF ReopenWork, ReopenTarget, EntryStates
    <2>2. s \in EntryStates /\ PenaltiesAgree(s)
      BY <1>0, <2>1, ContinueType, ContinueAgrees
    <2>3. c \in EntryStates /\ PenaltiesAgree(c)
      <3> HIDE DEF s
      <3> QED BY <1>0, <2>2, ClosedType, ContractKeepsPenalties, SameAgree
    <2>4. SamePenalties(c, state')
      <3> HIDE DEF c
      <3>1. state' = [c EXCEPT !.item = ReopenTarget, !.deliverable = d,
                      !.status = "ready", !.completion = None,
                      !.priorCompletion = None]
        BY <1>11 DEF ReopenWork, c
      <3> QED BY <2>3, <3>1 DEF SamePenalties, EntryStates
    <2> QED
      BY <2>3, <2>4, SameAgree
  <1>12. ASSUME UNCHANGED state
         PROVE  PenaltiesAgree(state')
    BY <1>12
  <1> QED
    BY <1>1, <1>2, <1>3, <1>4, <1>5, <1>6, <1>7, <1>8, <1>9, <1>10, <1>11,
       <1>12
       DEF Next, Invocation, ToolCall, Serve, InvocationFails, SubmitPlan, vars

(* Two strikes exclude an executor, over any number of entries, reopened   *)
(* items and plans.                                                        *)
THEOREM StrikesExclude == Spec => []StruckAreExcluded
  <1>1. Init => PenaltiesAgree(state)
    BY DEF Init, FreshEntry, PenaltiesAgree, Agree, NoStrikes,
           ContractStrikeLimit
  <1>2. TypeInv /\ PenaltiesAgree(state) /\ [Next]_vars => PenaltiesAgree(state)'
    BY NextAgrees
  <1>3. PenaltiesAgree(state) => StruckAreExcluded
    BY DEF PenaltiesAgree, Agree, StruckAreExcluded
  <1> QED
    BY <1>1, <1>2, <1>3, TypeCorrect, PTL DEF Spec

(* Every plan accepted so far has one logged outcome, but the one in force:*)
(* no handler logs a plan twice and none forgets one.                      *)
THEOREM OutcomePerPlan == Spec => []Lifecycle!OneOutcomeEach
  <1>1. Init => Lifecycle!OneOutcomeEach
    BY DEF Init, FreshEntry, Stage, Lifecycle!OneOutcomeEach
  <1>2. TypeInv /\ Lifecycle!OneOutcomeEach /\ [Lifecycle!Next]_Lifecycle!vars
          => Lifecycle!OneOutcomeEach'
    <2> SUFFICES ASSUME TypeInv, Lifecycle!OneOutcomeEach,
                        [Lifecycle!Next]_Lifecycle!vars
                 PROVE  Lifecycle!OneOutcomeEach'
      OBVIOUS
    <2>0. accepted \in Nat /\ logged \in Nat
      BY BoundAssumption DEF TypeInv, TypeOK
    <2>1. CASE Lifecycle!Open \/ Lifecycle!End \/ Lifecycle!Replace
      BY <2>0, <2>1 DEF Lifecycle!OneOutcomeEach, Lifecycle!Open, Lifecycle!End,
         Lifecycle!Replace, Lifecycle!FreshPlan, Lifecycle!LogOutcome
    <2>2. CASE \/ Lifecycle!Attribute \/ Lifecycle!Touch
               \/ Lifecycle!Progress("broken") \/ Lifecycle!Progress("executed")
      BY <2>2 DEF Lifecycle!OneOutcomeEach, Lifecycle!Attribute,
         Lifecycle!Touch, Lifecycle!Progress
    <2>3. CASE UNCHANGED Lifecycle!vars
      BY <2>3 DEF Lifecycle!OneOutcomeEach, Lifecycle!vars, Lifecycle!plan
    <2> QED
      BY <2>1, <2>2, <2>3 DEF Lifecycle!Next
  <1> QED
    BY <1>1, <1>2, TypeCorrect, Refinement, PTL
       DEF Spec, LifecycleSpec, Lifecycle!Spec

-----------------------------------------------------------------------------
(* What a pure transition does to the plan and to the strikes.             *)

(* The place of an entry in the work: all but its plan and its penalties.  *)
Kept(s, t) ==
  /\ t.item = s.item /\ t.prior = s.prior /\ t.status = s.status
  /\ t.completion = s.completion /\ t.priorCompletion = s.priorCompletion

Identity(c, d) ==
  /\ d.serial = c.serial /\ d.submitter = c.submitter /\ d.plan = c.plan
  /\ d.acceptedAt = c.acceptedAt

(* The same plan, in the same stage or executed; a broken one is final.    *)
Continues(c, d) ==
  /\ c = None <=> d = None
  /\ c # None =>
       /\ Identity(c, d)
       /\ d.status = c.status \/ (c.status = "active" /\ d.status = "executed")
       /\ c.status = "broken" => d = c

Adds(old, new, m) == m \in Model /\ new = [old EXCEPT ![m] = @ + 1]

Quietly(s, t) ==
  Kept(s, t) /\ Continues(s.contract, t.contract) /\ t.strikes = s.strikes

(* An active plan breaks; m may have been struck for it.                   *)
Breaking(s, t, m) ==
  /\ Kept(s, t)
  /\ Has(s, "active") /\ Has(t, "broken") /\ Identity(s.contract, t.contract)
  /\ \/ t.strikes = s.strikes
     \/ m # s.contract.submitter /\ Adds(s.strikes, t.strikes, m)

LEMMA AttributeQuietly ==
  ASSUME NEW s \in EntryStates, NEW m \in Model \union {None}
  PROVE  /\ Quietly(s, AttributeExecutor(s, m))
         /\ AttributeExecutor(s, m).invocation = s.invocation
  <1> DEFINE t == [s EXCEPT !.contract.executor = m]
  <1>1. CASE AttributeExecutor(s, m) = s
    BY <1>1 DEF Quietly, Kept, Continues, Identity
  <1>2. CASE /\ AttributeExecutor(s, m) = t
             /\ s.contract # None /\ s.contract.status # "broken"
    <2>1. s.contract \in Contracts
      BY <1>2 DEF EntryStates
    <2>2. t.contract = [s.contract EXCEPT !.executor = m]
      BY DEF EntryStates
    <2>3. Continues(s.contract, t.contract)
      <3> HIDE DEF t
      <3>1. t.contract \in [serial : 1..MaxPlans,
                            status : {"active", "broken", "executed"},
                            submitter : Model, plan : Plans,
                            release : BOOLEAN, pending : SUBSET File,
                            acceptedAt : 1..MaxInvocations,
                            executor : Model \union {None},
                            reviewEdited : BOOLEAN]
            /\ t.contract.status = s.contract.status
            /\ Identity(s.contract, t.contract)
        BY <2>1, <2>2 DEF Identity, Contracts
      <3>2. AttributeExecutor(s, m).contract \in Contracts \union {None}
        BY AttributeType DEF EntryStates
      <3> QED
        BY <1>2, <2>1, <3>1, <3>2, AttributeEvolves, NoneAssumption
           DEF Continues, SamePlan, Attributes, Stage
    <2>4. Kept(s, t) /\ t.strikes = s.strikes /\ t.invocation = s.invocation
      BY DEF Kept, EntryStates
    <2> QED
      <3> HIDE DEF t
      <3> QED BY <1>2, <2>3, <2>4 DEF Quietly
  <1> QED
    BY <1>1, <1>2 DEF AttributeExecutor

LEMMA ExpireQuietly ==
  ASSUME NEW s \in EntryStates
  PROVE  /\ Quietly(s, ExpireContract(s))
         /\ ExpireContract(s).invocation = s.invocation
         /\ Has(ExpireContract(s), "active") =>
              s.invocation - s.contract.acceptedAt
                <= ContractBudget(s.contract.plan.steps)
  <1> DEFINE t == [s EXCEPT !.contract.status = "executed"]
  <1>1. CASE ~Has(s, "active")
    BY <1>1 DEF ExpireContract, Quietly, Kept, Continues, Identity
  <1>2. CASE Has(s, "active")
    <2>1. s.contract \in Contracts /\ s.contract # None
          /\ s.contract.status = "active"
      BY <1>2 DEF EntryStates, Has
    <2>2. t.contract = [s.contract EXCEPT !.status = "executed"]
      BY DEF EntryStates
    <2>3. t.contract \in Contracts /\ t.contract.status = "executed"
          /\ Identity(s.contract, t.contract)
      <3> HIDE DEF t
      <3> QED BY <2>1, <2>2 DEF Identity, Contracts
    <2>4. Kept(s, t) /\ t.strikes = s.strikes /\ t.invocation = s.invocation
      BY DEF Kept, EntryStates
    <2>5. Quietly(s, t) /\ t.invocation = s.invocation /\ ~Has(t, "active")
      <3> HIDE DEF t
      <3> QED BY <2>1, <2>3, <2>4, NoneAssumption DEF Quietly, Continues, Has
    <2>6. CASE s.invocation - s.contract.acceptedAt
                 > ContractBudget(s.contract.plan.steps)
      <3> HIDE DEF t
      <3>1. ExpireContract(s) = t
        BY <1>2, <2>6 DEF ExpireContract, t
      <3> QED
        BY <2>5, <3>1
    <2>7. CASE ~(s.invocation - s.contract.acceptedAt
                   > ContractBudget(s.contract.plan.steps))
      <3>1. ExpireContract(s) = s
        BY <2>7 DEF ExpireContract
      <3>2. /\ s.invocation \in Nat /\ s.contract.acceptedAt \in Nat
            /\ s.contract.plan.steps \in Nat
        BY <2>1, PlanAssumption, BoundAssumption DEF EntryStates, Contracts
      <3> QED
        BY <2>7, <3>1, <3>2
           DEF Quietly, Kept, Continues, Identity, ContractBudget
    <2> QED
      BY <2>6, <2>7
  <1> QED
    BY <1>1, <1>2

LEMMA NoteEditQuietly ==
  ASSUME NEW s \in EntryStates, NEW m \in Model \union {None}, NEW f \in File
  PROVE  /\ Quietly(s, NoteContractEdit(s, f, m))
         /\ NoteContractEdit(s, f, m).invocation = s.invocation
  <1> DEFINE left == s.contract.pending \ {f}
             a    == AttributeExecutor(s, m)
             done == [a EXCEPT !.contract.pending = left]
             t    == NoteContractEdit(s, f, m)
  <1>1. CASE t = s
    BY <1>1 DEF Quietly, Kept, Continues, Identity
  <1>2. CASE /\ Has(s, "executed")
             /\ t = [s EXCEPT !.contract.reviewEdited = TRUE]
    <2>1. s.contract \in Contracts /\ s.contract.status = "executed"
          /\ s.contract # None
      BY <1>2 DEF Has, EntryStates
    <2>2. t.contract = [s.contract EXCEPT !.reviewEdited = TRUE]
          /\ Kept(s, t) /\ t.strikes = s.strikes
          /\ t.invocation = s.invocation
      BY <1>2 DEF EntryStates, Kept
    <2>3. t.contract \in Contracts /\ t.contract.status = "executed"
          /\ Identity(s.contract, t.contract)
      <3> HIDE DEF t
      <3> QED BY <2>1, <2>2 DEF Identity, Contracts
    <2> QED
      <3> HIDE DEF t
      <3> QED BY <2>1, <2>2, <2>3, NoneAssumption DEF Quietly, Continues, t
  <1>3. CASE /\ Has(s, "active")
             /\ t \in {done, [done EXCEPT !.contract.status = "executed"]}
    <2>1. Quietly(s, a) /\ a.invocation = s.invocation /\ a \in EntryStates
      BY AttributeQuietly, AttributeType
    <2>2. /\ s.contract # None /\ s.contract.status = "active"
          /\ s.contract \in Contracts
      BY <1>3 DEF Has, EntryStates
    <2>3. /\ a.contract # None /\ a.contract \in Contracts
          /\ a.contract.status \in {"active", "executed"}
          /\ Identity(s.contract, a.contract)
      <3> HIDE DEF a
      <3> QED BY <2>1, <2>2 DEF Quietly, Continues, EntryStates
    <2>4. /\ t.contract \in {[a.contract EXCEPT !.pending = left],
                             [a.contract EXCEPT !.pending = left,
                                                !.status = "executed"]}
          /\ Kept(a, t) /\ t.strikes = a.strikes
          /\ t.invocation = a.invocation
      <3>1. /\ done.contract = [a.contract EXCEPT !.pending = left]
            /\ Kept(a, done) /\ done.strikes = a.strikes
            /\ done.invocation = a.invocation /\ DOMAIN done = DOMAIN a
        <4> HIDE DEF a, left
        <4> QED BY <2>1 DEF EntryStates, Kept
      <3>2. LET e == [done EXCEPT !.contract.status = "executed"] IN
            /\ e.contract = [done.contract EXCEPT !.status = "executed"]
            /\ Kept(done, e) /\ e.strikes = done.strikes
            /\ e.invocation = done.invocation
        <4>1. DOMAIN done = {"item", "deliverable", "status", "completion",
                             "priorCompletion", "prior", "strikes",
                             "excluded", "invocation", "contract"}
          BY <2>1, <3>1 DEF EntryStates
        <4> HIDE DEF done
        <4> QED BY <4>1 DEF Kept
      <3>3. [[a.contract EXCEPT !.pending = left] EXCEPT !.status = "executed"]
              = [a.contract EXCEPT !.pending = left, !.status = "executed"]
        <4> HIDE DEF a, left
        <4> QED BY <2>3 DEF Contracts
      <3> HIDE DEF done, t, a
      <3> QED
        BY <1>3, <3>1, <3>2, <3>3 DEF Kept
    <2>5. /\ t.contract # None /\ Identity(s.contract, t.contract)
          /\ t.contract.status \in {"active", "executed"}
      <3>1. left \subseteq File
        BY <2>2 DEF Contracts
      <3>2. t.contract \in Contracts /\ Identity(a.contract, t.contract)
            /\ t.contract.status \in {"active", "executed"}
        <4> HIDE DEF t, a, left
        <4> QED BY <2>3, <2>4, <3>1 DEF Contracts, Identity
      <3> HIDE DEF t, a
      <3> QED BY <2>3, <3>2, NoneAssumption DEF Identity
    <2> QED
      <3> HIDE DEF t, a
      <3> QED BY <2>1, <2>2, <2>4, <2>5 DEF Quietly, Continues, Kept, t
  <1>4. \/ t = s
        \/ Has(s, "executed") /\ t = [s EXCEPT !.contract.reviewEdited = TRUE]
        \/ /\ Has(s, "active")
           /\ t \in {done, [done EXCEPT !.contract.status = "executed"]}
    BY DEF NoteContractEdit
  <1> QED
    BY <1>1, <1>2, <1>3, <1>4

(* strike() moves nothing but the strikes and the exclusions.              *)
LEMMA StrikeKeeps ==
  ASSUME NEW s \in EntryStates, NEW m \in Model, NEW submitter
  PROVE  LET t == Strike(s, m, submitter) IN
         /\ Kept(s, t) /\ t.invocation = s.invocation
         /\ t.contract = s.contract
         /\ \/ t.strikes = s.strikes
            \/ m # submitter /\ Adds(s.strikes, t.strikes, m)
  <1> DEFINE n == [s.strikes EXCEPT ![m] = @ + 1]
             x == IF s.strikes[m] + 1 >= ContractStrikeLimit
                  THEN s.excluded \union {m} ELSE s.excluded
             t == [s EXCEPT !.strikes = n, !.excluded = x]
  <1>1. /\ Kept(s, t) /\ t.invocation = s.invocation
        /\ t.contract = s.contract /\ t.strikes = n
    BY DEF Kept, EntryStates
  <1>2. Strike(s, m, submitter) = IF m = submitter THEN s ELSE t
    BY DEF Strike, EntryStates
  <1> QED
    <2> HIDE DEF t
    <2> QED BY <1>1, <1>2 DEF Adds, Kept

LEMMA BreakEffect ==
  ASSUME NEW s \in EntryStates, NEW m \in Model \union {None}, NEW reason
  PROVE  LET t == BreakContract(s, m, reason) IN
         /\ t.invocation = s.invocation
         /\ (Quietly(s, t) /\ ~Has(s, "active")) \/ Breaking(s, t, m)
  <1> DEFINE struck == IF m # None /\ reason # "unattributed-mutation"
                       THEN Strike(s, m, s.contract.submitter) ELSE s
             t == BreakContract(s, m, reason)
  <1>1. CASE ~Has(s, "active")
    BY <1>1 DEF BreakContract, Quietly, Kept, Continues, Identity
  <1>2. CASE Has(s, "active")
    <2>1. s.contract \in Contracts /\ s.contract # None
      BY <1>2 DEF Has, EntryStates
    <2>2. /\ struck \in EntryStates /\ struck.contract = s.contract
          /\ Kept(s, struck) /\ struck.invocation = s.invocation
          /\ \/ struck.strikes = s.strikes
             \/ m # s.contract.submitter /\ Adds(s.strikes, struck.strikes, m)
      BY StrikeType, StrikeKeeps DEF Kept
    <2>3. /\ t.contract = [s.contract EXCEPT !.status = "broken"]
          /\ Kept(struck, t) /\ t.strikes = struck.strikes
          /\ t.invocation = struck.invocation
      <3>1. t = [struck EXCEPT !.contract.status = "broken"]
        BY <1>2 DEF BreakContract
      <3> HIDE DEF struck, t
      <3> QED BY <2>2, <3>1 DEF EntryStates, Kept
    <2>4. /\ t.contract \in Contracts /\ t.contract.status = "broken"
          /\ Identity(s.contract, t.contract)
      <3> HIDE DEF struck, t
      <3>1. /\ [s.contract EXCEPT !.status = "broken"] \in Contracts
            /\ [s.contract EXCEPT !.status = "broken"].status = "broken"
            /\ Identity(s.contract, [s.contract EXCEPT !.status = "broken"])
        BY <2>1 DEF Identity, Contracts
      <3> QED BY <2>3, <3>1
    <2>5. t.invocation = s.invocation /\ Breaking(s, t, m)
      <3> HIDE DEF struck, t
      <3> QED BY <1>2, <2>2, <2>3, <2>4, NoneAssumption DEF Breaking, Kept, Has
    <2> QED
      BY <2>5
  <1> QED
    BY <1>1, <1>2

(* What the routing of an invocation does to the plan.                     *)
LEMMA SettleExecutionEffect ==
  ASSUME NEW s \in EntryStates, NEW prev \in Model \union {None},
         NEW struggled
  PROVE  LET t == SettleExecution(s, prev, struggled) IN
         /\ Quietly(s, t) \/ Breaking(s, t, prev)
         /\ t.invocation = s.invocation
         /\ Has(t, "active") =>
              s.invocation - s.contract.acceptedAt
                <= ContractBudget(s.contract.plan.steps)
  <1> DEFINE a == AttributeExecutor(s, prev)
             t == SettleExecution(s, prev, struggled)
  <1>1. a \in EntryStates /\ Quietly(s, a) /\ a.invocation = s.invocation
    BY AttributeType, AttributeQuietly
  <1>2. \/ ~Has(a, "active") /\ t = a
        \/ t = BreakContract(a, prev, "struggle")
        \/ t = ExpireContract(a)
    BY DEF SettleExecution
  <1>3. /\ Quietly(a, t) \/ Breaking(a, t, prev)
        /\ t.invocation = a.invocation
        /\ Has(t, "active") =>
             a.invocation - a.contract.acceptedAt
               <= ContractBudget(a.contract.plan.steps)
    <2> HIDE DEF a, t
    <2>1. CASE ~Has(a, "active") /\ t = a
      BY <2>1 DEF Quietly, Kept, Continues, Identity
    <2>2. CASE t = BreakContract(a, prev, "struggle")
      BY <1>1, <2>2, BreakEffect
         DEF Breaking, Quietly, Continues, Has
    <2>3. CASE t = ExpireContract(a)
      BY <1>1, <2>3, ExpireQuietly
    <2> QED
      BY <1>2, <2>1, <2>2, <2>3
  <1>4. Quietly(a, t) => Quietly(s, t)
    <2> HIDE DEF a, t
    <2> QED BY <1>1 DEF Quietly, Kept, Continues, Identity
  <1>5. Breaking(a, t, prev) => Breaking(s, t, prev)
    <2> HIDE DEF a, t
    <2> QED BY <1>1 DEF Quietly, Breaking, Kept, Continues, Identity, Has
  <1>6. /\ t.invocation = s.invocation
        /\ Has(t, "active") =>
             s.invocation - s.contract.acceptedAt
               <= ContractBudget(s.contract.plan.steps)
    <2> HIDE DEF a, t
    <2> QED BY <1>1, <1>3
            DEF Quietly, Breaking, Continues, Identity, Has
  <1> QED
    BY <1>3, <1>4, <1>5, <1>6

LEMMA ReworkEffect ==
  ASSUME NEW s \in EntryStates
  PROVE  LET t == ReworkContract(s) IN
         /\ Kept(s, t) /\ t.contract = s.contract /\ t.invocation = s.invocation
         /\ \/ t.strikes = s.strikes
            \/ /\ Has(s, "executed")
               /\ Adds(s.strikes, t.strikes, s.contract.executor)
  <1>1. CASE Has(s, "executed") /\ s.contract.executor # None
    <2>1. s.contract.executor \in Model
      BY <1>1 DEF Has, EntryStates, Contracts
    <2> QED
      BY <1>1, <2>1, StrikeKeeps DEF ReworkContract
  <1>2. CASE ~(Has(s, "executed") /\ s.contract.executor # None)
    BY <1>2 DEF ReworkContract, Kept
  <1> QED
    BY <1>1, <1>2

-----------------------------------------------------------------------------
(* What a step does to the plan in force and to the record of strikes.     *)

Blame(m) == [plan |-> accepted, item |-> state.item, entry |-> entry,
             model |-> m]

(* The history records a strike exactly when the entry state got one.      *)
LEMMA CommitEffect ==
  ASSUME TypeInv, NEW s \in EntryStates, Commit(s)
  PROVE  /\ state' = s
         /\ s.strikes = state.strikes => blames' = blames
         /\ \A m : Adds(state.strikes, s.strikes, m) =>
              blames' = Append(blames, Blame(m))
  <1>1. state.strikes \in [Model -> Nat]
    BY DEF TypeInv, TypeOK, EntryStates
  <1>2. s.strikes = state.strikes => Struck(state, s) = {}
    BY <1>1 DEF Struck
  <1>3. ASSUME NEW m, Adds(state.strikes, s.strikes, m)
        PROVE  blames' = Append(blames, Blame(m))
    <2>1. Struck(state, s) = {m}
      BY <1>1, <1>3 DEF Struck, Adds
    <2>2. (CHOOSE k \in {m} : TRUE) = m
      OBVIOUS
    <2> QED
      BY <2>1, <2>2 DEF Commit, Blame
  <1> QED
    BY <1>2, <1>3 DEF Commit

SameBlames ==
  /\ blames' \in Seq(Blames) /\ Len(blames') = Len(blames)
  /\ \A i \in 1..Len(blames) : blames'[i].plan = blames[i].plan

(* The plan in force goes on, is executed, or stays absent.                *)
Continued ==
  /\ Continues(state.contract, state'.contract)
  /\ SameBlames /\ UNCHANGED <<accepted, brokeAt>>
  /\ \/ state'.invocation = state.invocation
     \/ /\ state'.invocation = state.invocation + 1
        /\ Has(state, "active")' =>
             state.invocation - state.contract.acceptedAt
               <= ContractBudget(state.contract.plan.steps)
  /\ \/ Rotated' = Rotated /\ UNCHANGED workers
     \/ \E m \in Model : Serve(m)

Ended ==
  state'.contract = None /\ SameBlames /\ UNCHANGED <<accepted, brokeAt>>

(* The plan breaks; the last model served may be struck for it.            *)
Broke ==
  /\ Has(state, "active") /\ Has(state, "broken")'
  /\ Identity(state.contract, state'.contract)
  /\ state'.invocation >= state.invocation
  /\ brokeAt' = state.invocation /\ UNCHANGED accepted
  /\ \/ blames' = blames
     \/ /\ Rotated # None /\ Rotated # state.contract.submitter
        /\ blames' = Append(blames, Blame(Rotated))

(* A new plan takes its place; a reviewed one may cost a strike.           *)
Opened ==
  /\ ~Has(state, "active") /\ Has(state, "active")'
  /\ state'.contract.serial = accepted + 1 /\ accepted' = accepted + 1
  /\ state'.contract.submitter = Rotated /\ Rotated' = Rotated
  /\ state'.contract.acceptedAt = state'.invocation
  /\ UNCHANGED brokeAt
  /\ \/ blames' = blames
     \/ Has(state, "executed") /\ \E m : blames' = Append(blames, Blame(m))

LEMMA BlamesStay == TypeOK /\ blames' = blames => SameBlames
  BY DEF TypeOK, SameBlames

LEMMA PlacedStays ==
  ASSUME TypeOK, NEW w \in Item, blames' = Placed(w)
  PROVE  SameBlames
  <1>1. blames \in Seq(Blames) /\ Placed(w) \in Seq(Blames)
    BY PlacedType DEF TypeOK
  <1>2. DOMAIN Placed(w) = DOMAIN blames
    BY DEF Placed
  <1>3. Len(Placed(w)) = Len(blames)
    BY <1>1, <1>2, LenProperties
  <1>4. \A i \in 1..Len(blames) : Placed(w)[i].plan = blames[i].plan
    <2> SUFFICES ASSUME NEW i \in 1..Len(blames)
                 PROVE  Placed(w)[i].plan = blames[i].plan
      OBVIOUS
    <2>1. blames[i] \in Blames /\ i \in DOMAIN blames
      BY <1>1
    <2>2. [blames[i] EXCEPT !.item = w].plan = blames[i].plan
      BY <2>1 DEF Blames
    <2> QED
      BY <2>1, <2>2 DEF Placed
  <1> QED
    BY <1>1, <1>3, <1>4 DEF SameBlames

(* A break committed by a tool call or by routing.                         *)
LEMMA BreakCommitted ==
  ASSUME TypeInv, NEW s \in EntryStates, Breaking(state, s, Rotated),
         s.invocation >= state.invocation, Commit(s), UNCHANGED accepted
  PROVE  Broke
  <1>1. state' = s /\ Has(state, "broken")' /\ ~Has(state, "broken")
    BY DEF Commit, Breaking, Has
  <1>2. brokeAt' = state.invocation
    BY <1>1 DEF Commit, Breaking
  <1>3. \/ blames' = blames
        \/ /\ Rotated # None /\ Rotated # state.contract.submitter
           /\ blames' = Append(blames, Blame(Rotated))
    BY CommitEffect, ModelAssumption DEF Breaking, Adds
  <1> QED
    BY <1>1, <1>2, <1>3 DEF Broke, Breaking

(* A quiet transition committed.                                           *)
LEMMA QuietCommitted ==
  ASSUME TypeInv, NEW s \in EntryStates, Quietly(state, s), Commit(s)
  PROVE  /\ Continues(state.contract, state'.contract)
         /\ SameBlames /\ UNCHANGED brokeAt
  <1>1. state' = s /\ blames' = blames
    BY CommitEffect DEF Quietly
  <1>2. Has(s, "broken") => Has(state, "broken")
    BY DEF Quietly, Continues, Has
  <1> QED
    BY <1>1, <1>2, BlamesStay DEF Commit, TypeInv, Quietly

LEMMA InvocationSteps ==
  ASSUME TypeInv, Invocation
  PROVE  Continued \/ Ended \/ Broke
  <1>0. /\ TypeOK /\ state \in EntryStates /\ served \in Model \union {None}
        /\ Rotated \in Model \union {None} /\ None \notin Model
    BY ModelAssumption DEF TypeInv, TypeOK, Rotated
  <1>1. ASSUME NEW pool \in Pools, NEW struggled \in BOOLEAN,
               RouteAgain(pool, struggled)
        PROVE  Continued \/ Ended \/ Broke
    <2> DEFINE s == SettleExecution(state, Rotated, struggled)
               t == [s EXCEPT !.invocation = @ + 1]
    <2>1. /\ s \in EntryStates /\ s.invocation = state.invocation
          /\ Quietly(state, s) \/ Breaking(state, s, Rotated)
          /\ Has(s, "active") =>
               state.invocation - state.contract.acceptedAt
                 <= ContractBudget(state.contract.plan.steps)
      BY <1>0, SettleExecutionEvolves, SettleExecutionEffect
    <2>2. /\ t \in EntryStates /\ t.invocation = state.invocation + 1
          /\ Quietly(state, t) \/ Breaking(state, t, Rotated)
          /\ t.contract = s.contract
      <3>1. state.invocation \in Nat /\ state.invocation + 1 \in 1..MaxInvocations
        BY <1>0, <1>1, BoundAssumption DEF RouteAgain, EntryStates
      <3>2. /\ t \in EntryStates /\ t.invocation = state.invocation + 1
            /\ Kept(s, t) /\ t.contract = s.contract /\ t.strikes = s.strikes
        <4> HIDE DEF s
        <4> QED BY <2>1, <3>1 DEF EntryStates, Kept
      <3> HIDE DEF s, t
      <3> QED BY <2>1, <3>2 DEF Quietly, Breaking, Kept, Has
    <2>3. /\ Commit(t) /\ UNCHANGED accepted /\ UNCHANGED workers
          /\ served' = None /\ previous' = Rotated
      BY <1>1 DEF RouteAgain, Score, log
    <2>4. state' = t /\ Rotated' = Rotated
      BY <2>3 DEF Commit, Rotated
    <2> HIDE DEF s, t
    <2>5. CASE Quietly(state, t)
      <3>1. Has(state, "active")' => Has(s, "active")
        BY <2>2, <2>4 DEF Has
      <3> QED
        BY <2>1, <2>2, <2>3, <2>4, <2>5, <3>1, QuietCommitted DEF Continued
    <2>6. CASE Breaking(state, t, Rotated)
      <3>1. t.invocation >= state.invocation
        BY <1>0, <2>2, BoundAssumption DEF EntryStates
      <3> QED
        BY <2>2, <2>3, <2>6, <3>1, BreakCommitted
    <2> QED
      BY <2>2, <2>5, <2>6
  <1>2. ASSUME NEW pool \in Pools, NEW d \in Deliverables, RouteNewEntry(pool, d)
        PROVE  Ended
    BY <1>0, <1>2, BlamesStay DEF RouteNewEntry, FreshEntry, Ended, blamed
  <1>3. ASSUME UNCHANGED <<state, accepted, blamed>>,
               \/ UNCHANGED <<served, previous, workers>>
               \/ \E m \in Model : Serve(m)
        PROVE  Continued
    BY <1>0, <1>3, BlamesStay
       DEF Continued, Continues, Identity, blamed, Rotated
  <1>4. ASSUME NEW qualified \in BOOLEAN, Settle(qualified)
        PROVE  Continued \/ Ended
    <2>1. /\ UNCHANGED <<served, previous, workers, accepted>>
          /\ SameBlames /\ UNCHANGED brokeAt
      BY <1>0, <1>4, BlamesStay DEF Settle, blamed
    <2>2. /\ state'.contract \in {state.contract, None}
          /\ state'.invocation = state.invocation
      BY <1>0, <1>4 DEF Settle, EntryStates
    <2> QED
      BY <2>1, <2>2 DEF Continued, Ended, Continues, Identity, Rotated
  <1>5. ASSUME EntrySettles
        PROVE  Ended
    BY <1>0, <1>5, ClosedType, BlamesStay DEF EntrySettles, Ended, blamed
  <1>6. ASSUME NEW m \in Model, Serve(m)
        PROVE  Continued
    BY <1>3, <1>6 DEF Serve, log
  <1>7. ASSUME InvocationFails
        PROVE  Continued
    BY <1>3, <1>7 DEF InvocationFails, log
  <1> QED
    BY <1>1, <1>2, <1>4, <1>5, <1>6, <1>7 DEF Invocation

LEMMA ToolSteps ==
  ASSUME TypeInv, ToolCall
  PROVE  Continued \/ Ended \/ Broke \/ Opened
  <1>0. /\ TypeOK /\ state \in EntryStates /\ served \in Model \union {None}
        /\ None \notin Model
        /\ ToolsRun \/ ~Quiet => served \in Model /\ Rotated = served
    BY ModelAssumption DEF TypeInv, TypeOK, Rotated, Orderly, ToolsRun
  <1>1. ASSUME state'.contract = state.contract, SameBlames,
               state'.invocation = state.invocation,
               UNCHANGED <<accepted, brokeAt, served, previous, workers>>
        PROVE  Continued
    BY <1>1 DEF Continued, Continues, Identity, Rotated
  <1>2. ASSUME NEW s \in EntryStates, Commit(s), ToolsRun \/ ~Quiet,
               s.invocation = state.invocation,
               Quietly(state, s) \/ Breaking(state, s, served),
               UNCHANGED <<accepted, served, previous, workers>>
        PROVE  Continued \/ Broke
    <2>1. CASE Quietly(state, s)
      <3>1. state' = s /\ Rotated' = Rotated
        BY <1>2 DEF Commit, Rotated
      <3> QED
        BY <1>2, <2>1, <3>1, QuietCommitted DEF Continued
    <2>2. CASE Breaking(state, s, served)
      <3>1. s.invocation >= state.invocation /\ Rotated = served
        BY <1>0, <1>2, BoundAssumption DEF EntryStates
      <3> QED
        BY <1>2, <2>2, <3>1, BreakCommitted
    <2> QED
      BY <1>2, <2>1, <2>2
  <1>3. ASSUME NEW reason,
               Commit(BreakContract(state, served, reason)) \/ Commit(state),
               ToolsRun \/ ~Quiet,
               UNCHANGED <<accepted, served, previous, workers>>
        PROVE  Continued \/ Broke
    <2>1. CASE Commit(state)
      BY <1>0, <1>2, <1>3, <2>1 DEF Quietly, Kept, Continues, Identity
    <2>2. CASE Commit(BreakContract(state, served, reason))
      <3> DEFINE s == BreakContract(state, served, reason)
      <3>1. /\ s \in EntryStates /\ s.invocation = state.invocation
            /\ Quietly(state, s) \/ Breaking(state, s, served)
        BY <1>0, BreakType, BreakEffect
      <3> HIDE DEF s
      <3> QED
        BY <1>2, <1>3, <2>2, <3>1 DEF s
    <2> QED
      BY <1>3, <2>1, <2>2
  <1>4. ASSUME NEW f \in File, NEW ok \in BOOLEAN, EditReturns(f, ok)
        PROVE  Continued \/ Broke
    <2> DEFINE s == NoteContractEdit(state, f, served)
    <2>1. /\ s \in EntryStates /\ s.invocation = state.invocation
          /\ Quietly(state, s)
      BY <1>0, NoteEditType, NoteEditQuietly
    <2>2. /\ Commit(s) \/ Commit(state)
          /\ UNCHANGED <<accepted, served, previous, workers>>
      BY <1>4 DEF EditReturns, ToolFrame, turnVars, log, Quiet
    <2>3. ~Quiet
      BY <1>4 DEF EditReturns, Quiet
    <2> HIDE DEF s
    <2> QED
      BY <1>2, <1>3, <2>1, <2>2, <2>3
  <1>5. ASSUME NEW measured \in BOOLEAN, JudgePlan(measured)
        PROVE  Continued \/ Broke \/ Opened
    <2> DEFINE known == submission.open /\ measured
               reviewed == state.contract # None /\ IsUnderReview(state.contract)
               base == IF reviewed THEN ReworkContract(state) ELSE state
               a == AcceptContract(base, submission.plan, served, known,
                                   accepted + 1)
    <2>0. /\ ~Quiet /\ UNCHANGED turnVars /\ Rotated = served
          /\ Rotated' = Rotated /\ served \in Model
      BY <1>0, <1>5 DEF JudgePlan, ToolFrame, Quiet, turnVars, Rotated
    <2>1. CASE Commit(BreakContract(state, served, "replan"))
               /\ UNCHANGED <<log, workers>>
      BY <1>3, <2>0, <2>1 DEF log, turnVars
    <2>2. CASE UNCHANGED <<state, log, blamed, workers>>
      BY <1>0, <1>1, <2>0, <2>2, BlamesStay DEF log, blamed, turnVars
    <2>3. CASE ~Has(state, "active") /\ Commit(a) /\ accepted' = accepted + 1
      <3>1. /\ submission.plan \in Plans /\ submission.open \in BOOLEAN
            /\ accepted + 1 \in 1..MaxPlans /\ known \in BOOLEAN
        BY <1>5, BoundAssumption DEF TypeInv, JudgePlan, TypeOK, Orderly, Quiet
      <3>2. /\ base \in EntryStates /\ base.invocation = state.invocation
            /\ \/ base.strikes = state.strikes
               \/ /\ Has(state, "executed")
                  /\ \E m : Adds(state.strikes, base.strikes, m)
        BY <1>0, ReworkType, ReworkEffect
      <3>3. /\ a \in EntryStates /\ Has(a, "active") /\ a.contract # None
        <4>1. a \in EntryStates /\ a.contract \in Contracts
              /\ a.contract.status = "active"
          <5> HIDE DEF base, known
          <5> QED BY <2>0, <3>1, <3>2, AcceptType
        <4> HIDE DEF a
        <4> QED
          BY <4>1, NoneAssumption DEF Has
      <3>4. /\ a.contract.serial = accepted + 1 /\ a.contract.submitter = served
            /\ a.contract.acceptedAt = a.invocation /\ a.strikes = base.strikes
        <4> HIDE DEF base, known
        <4> QED BY <3>2 DEF AcceptContract, EntryStates
      <3> HIDE DEF a, base
      <3>5. state' = a /\ brokeAt' = brokeAt
        BY <2>3, <3>3 DEF Commit, Has
      <3>6. \/ blames' = blames
            \/ Has(state, "executed") /\ \E m : blames' = Append(blames, Blame(m))
        BY <2>3, <3>2, <3>3, <3>4, CommitEffect
      <3> QED
        BY <2>0, <2>3, <3>3, <3>4, <3>5, <3>6 DEF Opened, Has
    <2> HIDE DEF a
    <2> QED
      BY <1>5, <2>1, <2>2, <2>3 DEF JudgePlan, a
  <1>6. ASSUME NEW f \in File, CallEdit(f)
        PROVE  Continued \/ Broke
    BY <1>3, <1>6 DEF CallEdit, ToolFrame, turnVars, log
  <1>7. ASSUME ShellWrites
        PROVE  Continued \/ Broke
    BY <1>3, <1>7 DEF ShellWrites, ToolFrame, turnVars, log
  <1>8. ASSUME NEW w \in Item, NEW d \in Deliverables, HandOffContext(w, d)
        PROVE  Continued
    <2>1. state'.contract = state.contract /\ state'.invocation = state.invocation
      BY <1>0, <1>8 DEF HandOffContext, WithContinuedPenalties, EntryStates
    <2> QED
      BY <1>0, <1>1, <1>8, <2>1, PlacedStays
         DEF HandOffContext, ToolFrame, turnVars, log
  <1>9. ASSUME NEW status \in {"done", "superseded"}, CompleteWork(status)
        PROVE  Continued
    <2>1. state'.contract = state.contract /\ state'.invocation = state.invocation
      BY <1>0, <1>9 DEF CompleteWork, EntryStates
    <2> QED
      BY <1>0, <1>1, <1>9, <2>1, BlamesStay
         DEF CompleteWork, ToolFrame, turnVars, log, blamed
  <1>10. ASSUME NEW d \in Deliverables, ReopenWork(d)
         PROVE  Ended
    <2> DEFINE s == WithContinuedPenalties(state, ReopenTarget, "reopen")
               c == Closed(s, served)
    <2>1. ReopenTarget \in Item
      BY <1>0, <1>10 DEF ReopenWork, ReopenTarget, EntryStates
    <2>2. c \in EntryStates /\ c.contract = None
      BY <1>0, <2>1, ContinueType, ClosedType
    <2>3. state'.contract = None
      <3> HIDE DEF c
      <3>1. state' = [c EXCEPT !.item = ReopenTarget, !.deliverable = d,
                      !.status = "ready", !.completion = None,
                      !.priorCompletion = None]
        BY <1>10 DEF ReopenWork, c
      <3> QED BY <2>2, <3>1 DEF EntryStates
    <2>4. SameBlames /\ UNCHANGED <<accepted, brokeAt>>
      BY <1>0, <1>10, <2>1, PlacedStays DEF ReopenWork
    <2> QED
      BY <2>3, <2>4 DEF Ended
  <1>11. ASSUME NEW p \in Plans, SubmitPlan(p)
         PROVE  Continued
    BY <1>0, <1>1, <1>11, BlamesStay
       DEF SubmitPlan, ToolFrame, turnVars, log, blamed
  <1> QED
    BY <1>4, <1>5, <1>6, <1>7, <1>8, <1>9, <1>10, <1>11 DEF ToolCall

LEMMA PlanSteps ==
  ASSUME TypeInv, [Next]_vars
  PROVE  Continued \/ Ended \/ Broke \/ Opened
  <1>1. CASE UNCHANGED vars
    BY <1>1, BlamesStay
       DEF vars, turnVars, log, blamed, Continued, Continues, Identity,
           Rotated, TypeInv
  <1> QED
    BY <1>1, InvocationSteps, ToolSteps DEF Next

-----------------------------------------------------------------------------
(* A plan lives no longer than its budget.                                 *)

LEMMA BudgetStep ==
  ASSUME TypeInv, BudgetBound, [Next]_vars
  PROVE  BudgetBound'
  <1> SUFFICES ASSUME Has(state, "active")'
               PROVE  state'.invocation - state'.contract.acceptedAt
                        <= ContractBudget(state'.contract.plan.steps) + 1
    BY DEF BudgetBound
  <1>1. /\ state'.contract \in Contracts /\ state' \in EntryStates
        /\ state'.invocation \in Nat /\ state'.contract.acceptedAt \in Nat
        /\ ContractBudget(state'.contract.plan.steps) \in Nat
    <2>1. TypeInv'
      BY TypeStep
    <2>2. state' \in EntryStates
      BY <2>1 DEF TypeInv, TypeOK
    <2>3. state'.contract \in Contracts
      BY <2>2 DEF EntryStates, Has
    <2>4. state'.contract.plan.steps \in 1..12
      BY <2>3, PlanAssumption DEF Contracts
    <2> QED
      BY <2>2, <2>3, <2>4, BoundAssumption
         DEF EntryStates, Contracts, ContractBudget
  <1>2. CASE Continued
    <2>1. Has(state, "active") /\ Identity(state.contract, state'.contract)
      BY <1>2 DEF Continued, Continues, Has
    <2>2. state.invocation \in Nat
      BY BoundAssumption DEF TypeInv, TypeOK, EntryStates
    <2> QED
      BY <1>1, <1>2, <2>1, <2>2 DEF Continued, BudgetBound, Identity
  <1>3. CASE Ended \/ Broke
    BY <1>3 DEF Ended, Broke, Has
  <1>4. CASE Opened
    BY <1>1, <1>4 DEF Opened
  <1> QED
    BY <1>2, <1>3, <1>4, PlanSteps

(* An active plan outlives its budget by at most the invocation in flight. *)
THEOREM BudgetHolds == Spec => []BudgetBound
  <1>1. Init => BudgetBound
    BY DEF Init, FreshEntry, Has, BudgetBound
  <1> QED
    BY <1>1, BudgetStep, TypeCorrect, PTL DEF Spec

-----------------------------------------------------------------------------
(* A plan costs one strike.                                                *)

(* A struck plan is broken, replaced or gone: only the plan in force, in   *)
(* one of the two stages a strike ends, can still be struck for.           *)
StruckPlansOver ==
  /\ OneStrikePerPlan
  /\ \A i \in 1..Len(blames) :
       /\ blames[i].plan <= accepted
       /\ blames[i].plan = accepted =>
            state.contract = None \/ Has(state, "broken")

LEMMA StruckPlansStep ==
  ASSUME TypeInv, StruckPlansOver, [Next]_vars
  PROVE  StruckPlansOver'
  <1>0. /\ blames \in Seq(Blames) /\ Len(blames) \in Nat
        /\ DOMAIN blames = 1..Len(blames) /\ accepted \in Nat
        /\ \A i \in 1..Len(blames) : blames[i].plan \in Nat
    <2>1. blames \in Seq(Blames) /\ accepted \in Nat
      BY BoundAssumption DEF TypeInv, TypeOK
    <2>2. \A b \in Blames : b.plan \in Nat
      BY BoundAssumption DEF Blames
    <2>3. \A i \in 1..Len(blames) : blames[i] \in Blames
      BY <2>1
    <2> QED
      BY <2>1, <2>2, <2>3
  <1>1. ASSUME SameBlames, accepted' = accepted,
               state.contract = None \/ Has(state, "broken") =>
                 state'.contract = None \/ Has(state, "broken")'
        PROVE  StruckPlansOver'
    <2>1. DOMAIN blames' = 1..Len(blames) /\ Len(blames') = Len(blames)
      BY <1>1 DEF SameBlames
    <2> QED
      BY <1>0, <1>1, <2>1 DEF StruckPlansOver, OneStrikePerPlan, SameBlames
  <1>2. ASSUME NEW m, blames' = Append(blames, Blame(m)),
               Has(state, "active") \/ Has(state, "executed"),
               accepted' >= accepted, accepted' \in Nat,
               accepted' = accepted => Has(state, "broken")'
        PROVE  StruckPlansOver'
    <2>1. /\ Len(blames') = Len(blames) + 1
          /\ DOMAIN blames' = 1..Len(blames) + 1
          /\ \A i \in 1..Len(blames) : blames'[i] = blames[i]
          /\ blames'[Len(blames) + 1] = Blame(m)
      BY <1>0, <1>2
    <2>2. Blame(m).plan = accepted
      BY DEF Blame
    <2>3. \A i \in 1..Len(blames) : blames[i].plan # accepted
      BY <1>2 DEF StruckPlansOver, Has
    <2>4. \A i \in 1..Len(blames) + 1 :
            i \in 1..Len(blames) \/ i = Len(blames) + 1
      BY <1>0
    <2>5. \A i, j \in 1..Len(blames) + 1 :
            blames'[i].plan = blames'[j].plan => i = j
      BY <1>0, <2>1, <2>2, <2>3, <2>4 DEF StruckPlansOver, OneStrikePerPlan
    <2>6. \A i \in 1..Len(blames) + 1 :
            /\ blames'[i].plan <= accepted'
            /\ blames'[i].plan = accepted' => Has(state, "broken")'
      BY <1>0, <1>2, <2>1, <2>2, <2>4 DEF StruckPlansOver
    <2> QED
      BY <2>1, <2>5, <2>6 DEF StruckPlansOver, OneStrikePerPlan
  <1>3. CASE Continued
    BY <1>1, <1>3 DEF Continued, Continues, Has
  <1>4. CASE Ended
    BY <1>1, <1>4 DEF Ended
  <1>5. CASE Broke
    <2>1. CASE blames' = blames
      BY <1>1, <1>5, <2>1, BlamesStay DEF Broke, TypeInv
    <2>2. CASE blames' = Append(blames, Blame(Rotated))
      <3>1. /\ Has(state, "active") /\ Has(state, "broken")'
            /\ accepted' = accepted
        BY <1>5 DEF Broke
      <3>2. accepted' >= accepted /\ accepted' \in Nat
        BY <1>0, <3>1
      <3> QED
        BY <1>2, <2>2, <3>1, <3>2
    <2> QED
      BY <1>5, <2>1, <2>2 DEF Broke
  <1>6. CASE Opened
    <2>1. accepted' = accepted + 1
      BY <1>6 DEF Opened
    <2>2. CASE blames' = blames
      BY <1>0, <2>1, <2>2 DEF StruckPlansOver, OneStrikePerPlan
    <2>3. ASSUME NEW m, Has(state, "executed"),
                 blames' = Append(blames, Blame(m))
          PROVE  StruckPlansOver'
      BY <1>0, <1>2, <2>1, <2>3
    <2> QED
      BY <1>6, <2>2, <2>3 DEF Opened
  <1> QED
    BY <1>3, <1>4, <1>5, <1>6, PlanSteps

(* Whatever order breaks, struggles, late edits and reworks come in, no    *)
(* plan is struck for twice.                                               *)
THEOREM PlansAreStruckOnce == Spec => []OneStrikePerPlan
  <1>1. Init => StruckPlansOver
    BY DEF Init, StruckPlansOver, OneStrikePerPlan
  <1>2. StruckPlansOver => OneStrikePerPlan
    BY DEF StruckPlansOver
  <1> QED
    BY <1>1, <1>2, StruckPlansStep, TypeCorrect, PTL DEF Spec

-----------------------------------------------------------------------------
(* A break is blamed on a model that served the plan.                      *)

(* The last model served is the plan's submitter, or served the plan.      *)
LastServedWorked ==
  Has(state, "active") =>
    Rotated \in workers \union {state.contract.submitter, None}

LEMMA LastServedStep ==
  ASSUME TypeInv, LastServedWorked, [Next]_vars
  PROVE  LastServedWorked'
  <1>1. CASE Continued
    <2> SUFFICES ASSUME Has(state, "active")'
                 PROVE  Rotated' \in workers' \union
                                       {state'.contract.submitter, None}
      BY DEF LastServedWorked
    <2>1. /\ Has(state, "active")
          /\ state'.contract.submitter = state.contract.submitter
      BY <1>1 DEF Continued, Continues, Identity, Has
    <2>2. CASE Rotated' = Rotated /\ UNCHANGED workers
      BY <2>1, <2>2 DEF LastServedWorked
    <2>3. ASSUME NEW m \in Model, Serve(m)
          PROVE  Rotated' \in workers'
      BY <2>1, <2>3, ModelAssumption DEF Serve, Rotated
    <2> QED
      BY <1>1, <2>2, <2>3 DEF Continued
  <1>2. CASE Ended \/ Broke \/ Opened
    BY <1>2 DEF Ended, Broke, Opened, LastServedWorked, Has
  <1> QED
    BY <1>1, <1>2, PlanSteps

(* Only a model that served the broken plan is struck for the break, never *)
(* its submitter, though the struggle of an invocation is noticed when the *)
(* next one is routed and edits report after their invocation settled.     *)
THEOREM BreaksBlameExecutors == Spec => BreakBlamesExecutor
  <1>1. Init => LastServedWorked
    BY DEF Init, FreshEntry, Has, LastServedWorked
  <1>2. ASSUME TypeInv, LastServedWorked, [Next]_vars,
               Len(blames') > Len(blames), Has(state, "broken")'
        PROVE  blames'[Len(blames')].model
                 \in workers \ {state.contract.submitter}
    <2>0. blames \in Seq(Blames) /\ Len(blames) \in Nat
      BY <1>2 DEF TypeInv, TypeOK
    <2>1. ~Continued /\ ~Ended
      BY <1>2, <2>0 DEF Continued, Ended, SameBlames
    <2>2. ~Opened
      BY <1>2 DEF Opened, Has
    <2>3. /\ Rotated # None /\ Rotated # state.contract.submitter
          /\ blames' = Append(blames, Blame(Rotated)) /\ Has(state, "active")
      BY <1>2, <2>0, <2>1, <2>2, PlanSteps DEF Broke
    <2>4. blames'[Len(blames')] = Blame(Rotated)
      BY <2>0, <2>3
    <2> QED
      BY <1>2, <2>3, <2>4 DEF LastServedWorked, Blame
  <1>3. TypeInv /\ LastServedWorked /\ [Next]_vars =>
          [Len(blames') > Len(blames) /\ Has(state, "broken")'
             => blames'[Len(blames')].model
                  \in workers \ {state.contract.submitter}]_vars
    BY <1>2
  <1> QED
    BY <1>1, <1>3, LastServedStep, TypeCorrect, PTL DEF Spec, BreakBlamesExecutor

-----------------------------------------------------------------------------
(* The handback.                                                           *)

(* Every plan has its own serial, so the contract an invocation was scored *)
(* with is either still the one in force, broken before that invocation,   *)
(* or it can never be met again.                                           *)
HandbackInv ==
  /\ state.contract # None => state.contract.serial = accepted
  /\ Has(state, "broken") => brokeAt <= state.invocation
  /\ route.restored # None =>
       /\ route.restored.serial <= accepted
       /\ route.restored.serial = accepted =>
            state.contract \in {None, route.restored}
       /\ state.contract = route.restored => brokeAt < state.invocation

LEMMA RouteSteps ==
  ASSUME TypeInv, [Next]_vars
  PROVE  \/ UNCHANGED route
         \/ route'.restored = None
         \/ /\ route'.restored = state'.contract /\ Has(state, "broken")'
            /\ state'.invocation = state.invocation + 1
  <1>1. ASSUME NEW pool \in Pools, NEW struggled \in BOOLEAN,
               RouteAgain(pool, struggled)
        PROVE  \/ route'.restored = None
               \/ /\ route'.restored = state'.contract /\ Has(state, "broken")'
                  /\ state'.invocation = state.invocation + 1
    <2> DEFINE s == SettleExecution(state, Rotated, struggled)
    <2>1. s \in EntryStates /\ s.invocation = state.invocation
      BY SettleExecutionEvolves, SettleExecutionEffect
         DEF TypeInv, TypeOK, Rotated
    <2>2. /\ state' = [s EXCEPT !.invocation = @ + 1]
          /\ route'.restored = IF Has(s, "broken") THEN s.contract ELSE None
      BY <1>1 DEF RouteAgain, Commit, Score
    <2>3. /\ state'.contract = s.contract
          /\ state'.invocation = state.invocation + 1
      <3> HIDE DEF s
      <3> QED BY <2>1, <2>2 DEF EntryStates
    <2> HIDE DEF s
    <2> QED
      BY <2>2, <2>3 DEF Has
  <1>2. ASSUME NEW pool \in Pools, NEW d \in Deliverables, RouteNewEntry(pool, d)
        PROVE  route'.restored = None
    BY <1>2 DEF RouteNewEntry, Score, FreshEntry, Has
  <1> QED
    BY <1>1, <1>2
       DEF Next, Invocation, Serve, InvocationFails, Settle, EntrySettles,
           ToolCall, SubmitPlan, JudgePlan, CallEdit, EditReturns, ShellWrites,
           HandOffContext, CompleteWork, ReopenWork, ToolFrame, turnVars, vars

LEMMA HandbackStep ==
  ASSUME TypeInv, HandbackInv, [Next]_vars
  PROVE  HandbackInv'
  <1>0. /\ accepted \in Nat /\ brokeAt \in Nat /\ state.invocation \in Nat
        /\ state'.invocation \in Nat
        /\ route.restored # None => /\ route.restored.serial \in Nat
                                    /\ route.restored.status = "broken"
    <2>1. TypeInv'
      BY TypeStep
    <2>2. state.invocation \in Nat /\ state'.invocation \in Nat
      <3>1. state \in EntryStates /\ state' \in EntryStates
        BY <2>1 DEF TypeInv, TypeOK
      <3> QED
        BY <3>1, BoundAssumption DEF EntryStates
    <2>3. route.restored \in Contracts \union {None}
      BY DEF TypeInv, TypeOK
    <2> QED
      BY <2>2, <2>3, BoundAssumption DEF TypeInv, TypeOK, Orderly, Contracts
  <1>1. state'.contract # None => state'.contract.serial = accepted'
    BY <1>0, PlanSteps DEF HandbackInv, Continued, Continues, Ended, Broke,
                           Opened, Identity, Has
  <1>2. Has(state, "broken")' =>
          /\ brokeAt' <= state'.invocation
          /\ state'.invocation = state.invocation + 1 =>
               brokeAt' < state'.invocation
    <2>1. CASE Continued
      <3>1. Has(state, "broken")' => Has(state, "broken")
        BY <2>1 DEF Continued, Continues, Has
      <3> QED
        BY <1>0, <2>1, <3>1 DEF Continued, HandbackInv
    <2>2. CASE Broke
      BY <1>0, <2>2 DEF Broke
    <2>3. CASE Ended \/ Opened
      BY <2>3 DEF Ended, Opened, Has
    <2> QED
      BY <2>1, <2>2, <2>3, PlanSteps
  <1>3. ASSUME UNCHANGED route, route.restored # None
        PROVE  /\ route.restored.serial <= accepted'
               /\ route.restored.serial = accepted' =>
                    state'.contract \in {None, route.restored}
               /\ state'.contract = route.restored =>
                    brokeAt' < state'.invocation
    <2>1. CASE Continued
      <3>1. state.contract = route.restored => state'.contract = state.contract
        BY <1>0, <1>3, <2>1 DEF Continued, Continues
      <3>2. state'.contract = route.restored => state.contract = route.restored
        BY <1>0, <1>3, <2>1 DEF Continued, Continues
      <3>3. state.contract = None => state'.contract = None
        BY <2>1 DEF Continued, Continues
      <3> QED
        BY <1>0, <1>3, <2>1, <3>1, <3>2, <3>3 DEF Continued, HandbackInv
    <2>2. CASE Ended
      BY <1>3, <2>2 DEF Ended, HandbackInv
    <2>3. CASE Broke
      <3>1. state.contract # None /\ state.contract.status = "active"
        BY <2>3 DEF Broke, Has
      <3>2. route.restored.serial # accepted
        BY <1>0, <1>3, <3>1 DEF HandbackInv
      <3>3. accepted' = accepted /\ state'.contract # None
        BY <2>3 DEF Broke, Has
      <3> QED
        BY <1>1, <1>3, <3>2, <3>3 DEF HandbackInv
    <2>4. CASE Opened
      <3>1. /\ accepted' = accepted + 1
            /\ state'.contract.status = "active"
        BY <2>4 DEF Opened, Has
      <3> QED
        BY <1>0, <1>3, <3>1 DEF HandbackInv
    <2> QED
      BY <2>1, <2>2, <2>3, <2>4, PlanSteps
  <1>4. CASE UNCHANGED route
    BY <1>1, <1>2, <1>3, <1>4 DEF HandbackInv
  <1>5. CASE route'.restored = None
    BY <1>1, <1>2, <1>5 DEF HandbackInv
  <1>6. CASE /\ route'.restored = state'.contract /\ Has(state, "broken")'
             /\ state'.invocation = state.invocation + 1
    <2>1. accepted' \in Nat
      BY <1>0, PlanSteps DEF Continued, Ended, Broke, Opened
    <2>2. state'.contract # None
      BY <1>6 DEF Has
    <2> QED
      BY <1>1, <1>2, <1>6, <2>1, <2>2 DEF HandbackInv
  <1> QED
    BY <1>4, <1>5, <1>6, RouteSteps

LEMMA OnlySettleSettles ==
  ASSUME [Next]_vars, turn = "serving", turn' = "settled"
  PROVE  \E qualified \in BOOLEAN : Settle(qualified)
  BY DEF Next, Invocation, RouteAgain, RouteNewEntry, Score, Serve,
         InvocationFails, EntrySettles, ToolCall, SubmitPlan, JudgePlan,
         CallEdit, EditReturns, ShellWrites, HandOffContext, CompleteWork,
         ReopenWork, ToolFrame, turnVars, vars

(* A broken plan goes back to its submitter, in a later invocation than    *)
(* the one that broke it, also when another plan came and broke between.   *)
THEOREM HandbacksReachSubmitters == Spec => HandbackReachesSubmitter
  <1>1. Init => HandbackInv
    BY DEF Init, FreshEntry, NoRoute, Has, HandbackInv
  <1>2. ASSUME TypeInv, HandbackInv, [Next]_vars, turn = "serving",
               turn' = "settled", Has(state, "broken"), state'.contract = None
        PROVE  served = state.contract.submitter /\ state.invocation > brokeAt
    <2>1. PICK qualified \in BOOLEAN : Settle(qualified)
      BY <1>2, OnlySettleSettles
    <2>2. HandsBack(state)
      <3> SUFFICES ASSUME ~HandsBack(state) PROVE FALSE
        OBVIOUS
      <3>1. state'.contract = state.contract
        BY <1>2, <2>1 DEF Settle, TypeInv, TypeOK, EntryStates
      <3> QED
        BY <1>2, <3>1 DEF Has
    <2>3. brokeAt \in Nat /\ state.invocation \in Nat
      BY <1>2, BoundAssumption DEF TypeInv, TypeOK, EntryStates
    <2> QED
      BY <1>2, <2>2, <2>3 DEF HandsBack, HandbackInv
  <1>3. TypeInv /\ HandbackInv /\ [Next]_vars =>
          [turn = "serving" /\ turn' = "settled"
             /\ Has(state, "broken") /\ state'.contract = None
             => served = state.contract.submitter
                  /\ state.invocation > brokeAt]_vars
    BY <1>2
  <1> QED
    BY <1>1, <1>3, HandbackStep, TypeCorrect, PTL
       DEF Spec, HandbackReachesSubmitter

-----------------------------------------------------------------------------
(* Releasing ends.                                                         *)

LEMMA OnlyJudgeAccepts ==
  ASSUME [Next]_vars, accepted' > accepted, accepted \in Nat
  PROVE  \E measured \in BOOLEAN : JudgePlan(measured)
  <1>1. CASE Invocation
    <2>1. accepted' = accepted
      BY <1>1 DEF Invocation, RouteAgain, RouteNewEntry, Serve,
                  InvocationFails, Settle, EntrySettles, log
    <2> QED
      BY <2>1
  <1>2. CASE ToolCall
    <2>1. accepted' = accepted \/ \E measured \in BOOLEAN : JudgePlan(measured)
      BY <1>2 DEF ToolCall, SubmitPlan, CallEdit, EditReturns, ShellWrites,
                  HandOffContext, CompleteWork, ReopenWork, log
    <2> QED
      BY <2>1
  <1>3. CASE UNCHANGED vars
    BY <1>3 DEF vars, log
  <1> QED
    BY <1>1, <1>2, <1>3 DEF Next

(* The band of a released plan leaves room below the frontier for every    *)
(* model that two strikes exclude.                                         *)
LEMMA ReleasedBand ==
  ASSUME NEW s \in EntryStates, Agree(s), NEW p \in Plans, NEW m, NEW known,
         ~KeepsSubmitter(s, p, m, known)
  PROVE  Larger(p.assessed, ShapeBand(p))
           + Cardinality({k \in Model : s.strikes[k] >= ContractStrikeLimit})
           < Frontier
  <1> DEFINE base == Larger(p.assessed, ShapeBand(p))
             struck == {k \in Model : s.strikes[k] >= ContractStrikeLimit}
  <1>1. base \in Nat
    <2>1. p.assessed \in Nat
      BY PlanAssumption
    <2>2. ShapeBand(p) \in Nat
      BY DEF ShapeBand, Frontier
    <2> QED
      BY <2>1, <2>2 DEF Larger
  <1>2. s.excluded \in SUBSET Model /\ struck \in SUBSET s.excluded
    BY DEF Agree, EntryStates
  <1>3. IsFiniteSet(s.excluded)
    BY <1>2, FS_Subset, ModelAssumption
  <1>4. /\ Cardinality(s.excluded) \in Nat /\ Cardinality(struck) \in Nat
        /\ Cardinality(struck) <= Cardinality(s.excluded)
    BY <1>2, <1>3, FS_Subset, FS_CardinalityType
  <1>5. AtMost(base + Cardinality(s.excluded), Frontier) # Frontier
    BY DEF KeepsSubmitter, ExecutionBand
  <1>6. base + Cardinality(s.excluded) < Frontier
    <2> HIDE DEF base
    <2> QED BY <1>1, <1>4, <1>5 DEF AtMost, Frontier
  <1> HIDE DEF base, struck
  <1>7. base + Cardinality(struck) < Frontier
    BY <1>1, <1>4, <1>6 DEF Frontier
  <1> QED
    BY <1>7 DEF base, struck

(* Every model with two strikes moves the next plan one band nearer to the *)
(* frontier, where its submitter keeps it: releasing cannot go on for ever.*)
THEOREM ReleasesConverge == Spec => ReleaseConverges
  <1> DEFINE Room(s) ==
        LET p == s.contract.plan IN
        Larger(p.assessed, ShapeBand(p))
          + Cardinality({m \in Model : s.strikes[m] >= ContractStrikeLimit})
          < Frontier
  <1>1. ASSUME TypeInv, PenaltiesAgree(state), [Next]_vars,
               accepted' > accepted, state'.contract.release
        PROVE  Room(state')
    <2>0. accepted \in Nat /\ state \in EntryStates
      BY <1>1, BoundAssumption DEF TypeInv, TypeOK
    <2>1. PICK measured \in BOOLEAN : JudgePlan(measured)
      BY <1>1, <2>0, OnlyJudgeAccepts
    <2> DEFINE known == submission.open /\ measured
               reviewed == state.contract # None /\ IsUnderReview(state.contract)
               base == IF reviewed THEN ReworkContract(state) ELSE state
               a == AcceptContract(base, submission.plan, served, known,
                                   accepted + 1)
    <2>2. state' = a /\ submission.plan \in Plans
      BY <1>1, <2>0, <2>1 DEF JudgePlan, Commit, log, TypeInv, TypeOK
    <2>3. base \in EntryStates /\ Agree(base)
      BY <1>1, <2>0, ReworkType, ReworkAgrees DEF PenaltiesAgree
    <2>4. /\ a.contract.plan = submission.plan /\ a.strikes = base.strikes
          /\ a.contract.release =
               ~KeepsSubmitter(base, submission.plan, served, known)
      <3> HIDE DEF base, known
      <3> QED BY <2>3 DEF AcceptContract, EntryStates
    <2> HIDE DEF a, base, known
    <2> QED
      BY <1>1, <2>2, <2>3, <2>4, ReleasedBand
  <1>2. TypeInv /\ PenaltiesAgree(state) /\ [Next]_vars =>
          [accepted' > accepted /\ state'.contract.release => Room(state')]_vars
    BY <1>1
  <1>3. Init => PenaltiesAgree(state)
    BY DEF Init, FreshEntry, PenaltiesAgree, Agree, NoStrikes,
           ContractStrikeLimit
  <1>4. TypeInv /\ PenaltiesAgree(state) /\ [Next]_vars => PenaltiesAgree(state)'
    BY NextAgrees
  <1> QED
    BY <1>2, <1>3, <1>4, TypeCorrect, PTL DEF Spec, ReleaseConverges

-----------------------------------------------------------------------------
(* Penalties stay with the work they were earned on.                       *)

Given(bs, m, w) == {i \in 1..Len(bs) : bs[i].model = m /\ bs[i].item = w}
Here(bs, m, e)  == {i \in 1..Len(bs) : bs[i].model = m /\ bs[i].entry = e}

(* What an entry's strikes are charged to: its item once it has one.       *)
Granted(m) ==
  IF state.item = None THEN Here(blames, m, entry)
                       ELSE Given(blames, m, state.item)

(* An entry gets one item, works on that, and completes or reopens only    *)
(* that.                                                                   *)
OneItemPerEntry ==
  state.item # None =>
    /\ state.status \in {"ready", "served"}
    /\ active \in {None, state.item}
    /\ state.completion \in {None, state.item}
    /\ state.priorCompletion = None

PenaltiesInv ==
  /\ \A i \in 1..Len(blames) :
       /\ blames[i].entry <= entry
       /\ blames[i].entry = entry => blames[i].item = state.item
  /\ \A m \in Model : state.strikes[m] <= Cardinality(Granted(m))
  /\ state.prior # None => \A m \in Model :
       state.prior.strikes[m] <= Cardinality(Given(blames, m, state.prior.item))

LEMMA IndexSets ==
  ASSUME NEW n \in Nat, NEW S \in SUBSET (1..n), NEW T \in SUBSET (1..n+1),
         S \subseteq T
  PROVE  /\ Cardinality(S) \in Nat /\ Cardinality(T) \in Nat
         /\ Cardinality(S) <= Cardinality(T)
         /\ n + 1 \in T => Cardinality(S) + 1 <= Cardinality(T)
  <1>1. IsFiniteSet(1..n+1)
    BY FS_Interval
  <1>2. IsFiniteSet(T) /\ IsFiniteSet(S)
    BY <1>1, FS_Subset
  <1>3. Cardinality(S) <= Cardinality(T)
    BY <1>2, FS_Subset
  <1>4. ASSUME n + 1 \in T PROVE Cardinality(S) + 1 <= Cardinality(T)
    <2>1. n + 1 \notin S
      OBVIOUS
    <2>2. S \union {n + 1} \in SUBSET T
      BY <1>4
    <2>3. Cardinality(S \union {n + 1}) <= Cardinality(T)
      BY <1>2, <2>2, FS_Subset
    <2>4. Cardinality(S \union {n + 1}) = Cardinality(S) + 1
      BY <1>2, <2>1, FS_AddElement
    <2> QED
      BY <2>3, <2>4
  <1> QED
    BY <1>2, <1>3, <1>4, FS_CardinalityType

(* What a step does to an entry's work, strikes and prior penalties.       *)
Unmoved ==
  /\ UNCHANGED entry
  /\ state'.item = state.item /\ state'.prior = state.prior
  /\ state'.status \in {state.status, "served"}
  /\ state'.priorCompletion = state.priorCompletion
  /\ \/ state'.completion = state.completion /\ UNCHANGED active
     \/ state'.completion = active /\ active' = None
  /\ \/ state'.strikes = state.strikes /\ blames' = blames
     \/ \E m \in Model : /\ Adds(state.strikes, state'.strikes, m)
                         /\ blames' = Append(blames, Blame(m))

NewEntry ==
  /\ entry' = entry + 1 /\ UNCHANGED blames
  /\ state'.item = None /\ state'.strikes = NoStrikes
  /\ state'.prior = PenaltiesOf(state)

Places(w) ==
  /\ UNCHANGED entry /\ blames' = Placed(w)
  /\ state.item \in {None, w}
  /\ state'.item = w /\ state'.prior = state.prior
  /\ state'.status = "ready" /\ state'.completion = None
  /\ state'.priorCompletion = None /\ active' = w
  /\ \/ state'.strikes = state.strikes
     \/ /\ state.prior # None /\ state.prior.item = w
        /\ state'.strikes = state.prior.strikes

LEMMA KeptCommitted ==
  ASSUME TypeInv, NEW s \in EntryStates, NEW m, Commit(s),
         UNCHANGED <<entry, active>>,
         Quietly(state, s) \/ Breaking(state, s, m)
  PROVE  Unmoved
  <1>1. state' = s /\ Kept(state, s)
    BY DEF Commit, Quietly, Breaking
  <1>2. s.strikes = state.strikes \/ Adds(state.strikes, s.strikes, m)
    BY DEF Quietly, Breaking
  <1> QED
    BY <1>1, <1>2, CommitEffect DEF Unmoved, Kept, Adds

LEMMA CloseKeeps ==
  ASSUME NEW s \in EntryStates, NEW m \in Model \union {None}
  PROVE  Kept(s, Closed(s, m)) /\ Closed(s, m).strikes = s.strikes
  <1> DEFINE a == AttributeExecutor(s, m)
  <1>1. a \in EntryStates /\ Quietly(s, a)
    BY AttributeType, AttributeQuietly
  <1>2. Closed(s, m) = [a EXCEPT !.contract = None]
    BY DEF Closed
  <1>3. Kept(a, Closed(s, m)) /\ Closed(s, m).strikes = a.strikes
    <2> HIDE DEF a
    <2> QED BY <1>1, <1>2 DEF EntryStates, Kept
  <1> HIDE DEF a
  <1> QED
    BY <1>1, <1>3 DEF Quietly, Kept

(* withContinuedPenalties() takes over only what the item itself earned.   *)
LEMMA ContinueKeeps ==
  ASSUME NEW s \in EntryStates, NEW w \in Item, NEW relation
  PROVE  LET t == WithContinuedPenalties(s, w, relation) IN
         /\ Kept(s, t)
         /\ \/ t.strikes = s.strikes
            \/ /\ s.prior # None /\ s.prior.item = w
               /\ t.strikes = s.prior.strikes
  BY DEF WithContinuedPenalties, EntryStates, Kept

LEMMA WorkSteps ==
  ASSUME TypeInv, OneItemPerEntry, [Next]_vars
  PROVE  Unmoved \/ NewEntry \/ \E w \in Item : Places(w)
  <1>0. /\ TypeOK /\ state \in EntryStates /\ served \in Model \union {None}
        /\ Rotated \in Model \union {None}
    BY DEF TypeInv, TypeOK, Rotated
  <1>1. ASSUME NEW pool \in Pools, NEW struggled \in BOOLEAN,
               RouteAgain(pool, struggled)
        PROVE  Unmoved
    <2> DEFINE s == SettleExecution(state, Rotated, struggled)
               t == [s EXCEPT !.invocation = @ + 1]
    <2>1. s \in EntryStates /\ s.invocation = state.invocation
          /\ (Quietly(state, s) \/ Breaking(state, s, Rotated))
      BY <1>0, SettleExecutionEvolves, SettleExecutionEffect
    <2>2. /\ t \in EntryStates
          /\ Quietly(state, t) \/ Breaking(state, t, Rotated)
      <3>1. state.invocation + 1 \in 1..MaxInvocations
        BY <1>0, <1>1, BoundAssumption DEF RouteAgain, EntryStates
      <3>2. /\ t \in EntryStates /\ Kept(s, t) /\ t.contract = s.contract
            /\ t.strikes = s.strikes
        <4> HIDE DEF s
        <4> QED BY <2>1, <3>1 DEF EntryStates, Kept
      <3> HIDE DEF s, t
      <3> QED BY <2>1, <3>2 DEF Quietly, Breaking, Kept, Has
    <2>3. Commit(t) /\ UNCHANGED <<entry, active>>
      BY <1>1 DEF RouteAgain, ledger
    <2> HIDE DEF s, t
    <2> QED
      BY <2>2, <2>3, KeptCommitted
  <1>2. ASSUME NEW pool \in Pools, NEW d \in Deliverables, RouteNewEntry(pool, d)
        PROVE  NewEntry
    BY <1>2 DEF RouteNewEntry, FreshEntry, NewEntry, blamed
  <1>3. ASSUME UNCHANGED <<state, entry, active, blames>>
        PROVE  Unmoved
    BY <1>3 DEF Unmoved
  <1>4. ASSUME NEW qualified \in BOOLEAN, Settle(qualified)
        PROVE  Unmoved
    <2>1. /\ state'.item = state.item /\ state'.prior = state.prior
          /\ state'.strikes = state.strikes
          /\ state'.status \in {state.status, "served"}
          /\ state'.priorCompletion = state.priorCompletion
          /\ state'.completion = state.completion
      BY <1>0, <1>4 DEF Settle, EntryStates
    <2> QED
      BY <1>4, <2>1 DEF Settle, Unmoved, blamed
  <1>5. ASSUME EntrySettles
        PROVE  Unmoved
    BY <1>0, <1>5, CloseKeeps DEF EntrySettles, Unmoved, Kept, blamed,
                                   ledger
  <1>6. ASSUME NEW reason, UNCHANGED <<entry, active>>,
               Commit(BreakContract(state, served, reason)) \/ Commit(state)
        PROVE  Unmoved
    <2>1. CASE Commit(state)
      BY <1>0, <1>6, <2>1, KeptCommitted
         DEF Quietly, Kept, Continues, Identity
    <2>2. CASE Commit(BreakContract(state, served, reason))
      <3> DEFINE s == BreakContract(state, served, reason)
      <3>1. s \in EntryStates /\ (Quietly(state, s) \/ Breaking(state, s, served))
        BY <1>0, BreakType, BreakEffect
      <3> HIDE DEF s
      <3> QED
        BY <1>6, <2>2, <3>1, KeptCommitted DEF s
    <2> QED
      BY <1>6, <2>1, <2>2
  <1>7. ASSUME NEW f \in File, NEW ok \in BOOLEAN, EditReturns(f, ok)
        PROVE  Unmoved
    <2> DEFINE s == NoteContractEdit(state, f, served)
    <2>1. s \in EntryStates /\ Quietly(state, s)
      BY <1>0, NoteEditType, NoteEditQuietly
    <2>2. (Commit(s) \/ Commit(state)) /\ UNCHANGED <<entry, active>>
      BY <1>7 DEF EditReturns, ToolFrame, ledger
    <2> HIDE DEF s
    <2> QED
      BY <1>6, <2>1, <2>2, KeptCommitted
  <1>8. ASSUME NEW measured \in BOOLEAN, JudgePlan(measured)
        PROVE  Unmoved
    <2> DEFINE known == submission.open /\ measured
               reviewed == state.contract # None /\ IsUnderReview(state.contract)
               base == IF reviewed THEN ReworkContract(state) ELSE state
               a == AcceptContract(base, submission.plan, served, known,
                                   accepted + 1)
    <2>0. UNCHANGED <<entry, active>>
      BY <1>8 DEF JudgePlan, ToolFrame, ledger
    <2>1. CASE Commit(BreakContract(state, served, "replan"))
      BY <1>6, <2>0, <2>1
    <2>2. CASE UNCHANGED <<state, log, blamed, workers>>
      BY <1>3, <2>0, <2>2 DEF blamed
    <2>3. CASE Commit(a)
      <3>1. /\ submission.plan \in Plans /\ submission.open \in BOOLEAN
            /\ accepted + 1 \in 1..MaxPlans /\ known \in BOOLEAN
            /\ served \in Model
        BY <1>8, BoundAssumption DEF TypeInv, JudgePlan, TypeOK, Orderly, Quiet
      <3>2. /\ base \in EntryStates /\ Kept(state, base)
            /\ \/ base.strikes = state.strikes
               \/ \E m : Adds(state.strikes, base.strikes, m)
        BY <1>0, ReworkType, ReworkEffect DEF Kept
      <3>3. a \in EntryStates
        <4> HIDE DEF base, known
        <4> QED BY <3>1, <3>2, AcceptType
      <3>4. a.strikes = base.strikes /\ Kept(base, a)
        <4> HIDE DEF base, known
        <4> QED BY <3>2 DEF AcceptContract, EntryStates, Kept
      <3> HIDE DEF a, base
      <3> QED
        BY <2>0, <2>3, <3>2, <3>3, <3>4, CommitEffect
           DEF Unmoved, Kept, Adds
    <2> HIDE DEF a
    <2> QED
      BY <1>8, <2>1, <2>2, <2>3 DEF JudgePlan, a
  <1>9. ASSUME NEW w \in Item, NEW d \in Deliverables, HandOffContext(w, d)
        PROVE  Places(w)
    <2> DEFINE s == WithContinuedPenalties(state, w, RelationTo(w))
    <2>1. /\ s \in EntryStates /\ Kept(state, s)
          /\ \/ s.strikes = state.strikes
             \/ /\ state.prior # None /\ state.prior.item = w
                /\ s.strikes = state.prior.strikes
      BY <1>0, ContinueType, ContinueKeeps
    <2>2. /\ state' = [s EXCEPT !.item = w, !.deliverable = d,
                       !.status = "ready", !.completion = None,
                       !.priorCompletion = None]
          /\ blames' = Placed(w) /\ UNCHANGED entry /\ active' = w
      BY <1>9 DEF HandOffContext, ToolFrame, Activate
    <2>3. /\ state'.item = w /\ state'.prior = s.prior
          /\ state'.strikes = s.strikes
          /\ state'.status = "ready" /\ state'.completion = None
          /\ state'.priorCompletion = None
      <3> HIDE DEF s
      <3> QED BY <2>1, <2>2 DEF EntryStates
    <2>4. state.item = None
      BY <1>9 DEF HandOffContext, OneItemPerEntry
    <2> HIDE DEF s
    <2> QED
      BY <2>1, <2>2, <2>3, <2>4 DEF Places, Kept
  <1>10. ASSUME NEW status \in {"done", "superseded"}, CompleteWork(status)
         PROVE  Unmoved
    <2>1. /\ state'.item = state.item /\ state'.prior = state.prior
          /\ state'.strikes = state.strikes
          /\ state'.status = state.status /\ state'.completion = active
          /\ state'.priorCompletion = state.priorCompletion
      BY <1>0, <1>10 DEF CompleteWork, EntryStates
    <2> QED
      BY <1>10, <2>1 DEF CompleteWork, ToolFrame, Unmoved, blamed
  <1>11. ASSUME NEW d \in Deliverables, ReopenWork(d)
         PROVE  \E w \in Item : Places(w)
    <2> DEFINE w == ReopenTarget
               s == WithContinuedPenalties(state, w, "reopen")
               c == Closed(s, served)
    <2>1. w \in Item
      BY <1>0, <1>11 DEF ReopenWork, ReopenTarget, EntryStates
    <2>2. /\ s \in EntryStates /\ Kept(state, s)
          /\ \/ s.strikes = state.strikes
             \/ /\ state.prior # None /\ state.prior.item = w
                /\ s.strikes = state.prior.strikes
      BY <1>0, <2>1, ContinueType, ContinueKeeps
    <2>3. c \in EntryStates /\ Kept(s, c) /\ c.strikes = s.strikes
      <3> HIDE DEF s
      <3> QED BY <1>0, <2>2, ClosedType, CloseKeeps
    <2>4. /\ state' = [c EXCEPT !.item = w, !.deliverable = d,
                       !.status = "ready", !.completion = None,
                       !.priorCompletion = None]
          /\ blames' = Placed(w) /\ UNCHANGED entry /\ active' = w
      BY <1>11 DEF ReopenWork, ToolFrame, Activate
    <2>5. /\ state'.item = w /\ state'.prior = c.prior
          /\ state'.strikes = c.strikes
          /\ state'.status = "ready" /\ state'.completion = None
          /\ state'.priorCompletion = None
      <3> HIDE DEF c, w
      <3> QED BY <2>3, <2>4 DEF EntryStates
    <2>6. state.item \in {None, w}
      BY <1>11 DEF ReopenWork, ReopenTarget, OneItemPerEntry
    <2>7. Places(w)
      <3> HIDE DEF s, c, w
      <3> QED BY <2>2, <2>3, <2>4, <2>5, <2>6 DEF Places, Kept
    <2> HIDE DEF w
    <2> QED
      BY <2>1, <2>7
  <1> QED
    BY <1>1, <1>2, <1>3, <1>4, <1>5, <1>6, <1>7, <1>8, <1>9, <1>10, <1>11
       DEF Next, Invocation, ToolCall, Serve, InvocationFails, SubmitPlan,
           CallEdit, ShellWrites, ToolFrame, ledger, blamed, vars

LEMMA OneItemStep ==
  ASSUME TypeInv, OneItemPerEntry, [Next]_vars
  PROVE  OneItemPerEntry'
  <1>1. CASE Unmoved
    BY <1>1 DEF Unmoved, OneItemPerEntry
  <1>2. CASE NewEntry
    BY <1>2 DEF NewEntry, OneItemPerEntry
  <1>3. ASSUME NEW w \in Item, Places(w)
        PROVE  OneItemPerEntry'
    BY <1>3 DEF Places, OneItemPerEntry
  <1> QED
    BY <1>1, <1>2, <1>3, WorkSteps

LEMMA PenaltiesStep ==
  ASSUME TypeInv, OneItemPerEntry, PenaltiesInv, [Next]_vars
  PROVE  PenaltiesInv'
  <1> DEFINE n == Len(blames)
  <1>0. /\ state \in EntryStates /\ entry \in Nat /\ n \in Nat
        /\ blames \in Seq(Blames) /\ None \notin Item
        /\ \A i \in 1..n : blames[i] \in Blames /\ blames[i].entry \in Nat
    <2>1. \A b \in Blames : b.entry \in Nat
      BY BoundAssumption DEF Blames
    <2> QED
      BY <2>1, BoundAssumption, WorkAssumption DEF TypeInv, TypeOK
  <1>1. CASE Unmoved /\ state'.strikes = state.strikes /\ blames' = blames
    BY <1>1 DEF Unmoved, PenaltiesInv, Granted
  <1>2. ASSUME Unmoved, NEW k \in Model,
               Adds(state.strikes, state'.strikes, k),
               blames' = Append(blames, Blame(k))
        PROVE  PenaltiesInv'
    <2>1. /\ Len(blames') = n + 1 /\ blames'[n+1] = Blame(k)
          /\ \A i \in 1..n : blames'[i] = blames[i]
          /\ \A i \in 1..n+1 : i \in 1..n \/ i = n + 1
          /\ \A i \in 1..n : i \in 1..n+1
      BY <1>0, <1>2
    <2>2. /\ entry' = entry /\ state'.item = state.item
          /\ state'.prior = state.prior
      BY <1>2 DEF Unmoved
    <2>3. \A i \in 1..n+1 :
            /\ blames'[i].entry <= entry
            /\ blames'[i].entry = entry => blames'[i].item = state.item
      BY <1>0, <2>1 DEF PenaltiesInv, Blame
    <2>4. ASSUME NEW m \in Model
          PROVE  state'.strikes[m] <= Cardinality(Granted(m)')
      <3>1. /\ Granted(m) \in SUBSET (1..n) /\ Granted(m)' \in SUBSET (1..n+1)
            /\ Granted(m) \subseteq Granted(m)'
            /\ m = k => n + 1 \in Granted(m)'
        BY <2>1, <2>2 DEF Granted, Here, Given, Blame
      <3>2. state.strikes[m] \in Nat /\ state.strikes \in [Model -> Nat]
        BY <1>0 DEF EntryStates
      <3>3. /\ m = k => state'.strikes[m] = state.strikes[m] + 1
            /\ m # k => state'.strikes[m] = state.strikes[m]
        BY <1>2, <3>2 DEF Adds
      <3>4. state.strikes[m] <= Cardinality(Granted(m))
        BY DEF PenaltiesInv
      <3> QED
        BY <1>0, <3>1, <3>2, <3>3, <3>4, IndexSets
    <2>5. ASSUME state.prior # None, NEW m \in Model
          PROVE  state.prior.strikes[m] <=
                   Cardinality(Given(blames', m, state.prior.item))
      <3> DEFINE S == Given(blames, m, state.prior.item)
                 T == Given(blames', m, state.prior.item)
      <3>1. S \in SUBSET (1..n) /\ T \in SUBSET (1..n+1) /\ S \subseteq T
        BY <2>1 DEF Given
      <3>2. state.prior.strikes[m] \in Nat
        BY <1>0, <2>5 DEF EntryStates, Penalties
      <3>3. state.prior.strikes[m] <= Cardinality(S)
        BY <2>5 DEF PenaltiesInv
      <3> HIDE DEF S, T
      <3>4. Cardinality(S) <= Cardinality(T) /\ Cardinality(S) \in Nat
            /\ Cardinality(T) \in Nat
        BY <1>0, <3>1, IndexSets
      <3> QED
        BY <3>2, <3>3, <3>4 DEF T
    <2> QED
      BY <2>1, <2>2, <2>3, <2>4, <2>5 DEF PenaltiesInv
  <1>3. CASE NewEntry
    <2>1. /\ entry' = entry + 1 /\ blames' = blames /\ state'.item = None
          /\ state'.strikes = NoStrikes /\ state'.prior = PenaltiesOf(state)
      BY <1>3 DEF NewEntry
    <2>2. \A i \in 1..n : blames[i].entry < entry'
      BY <1>0, <2>1 DEF PenaltiesInv
    <2>3. ASSUME NEW m \in Model
          PROVE  state'.strikes[m] <= Cardinality(Granted(m)')
      <3>1. Granted(m)' \in SUBSET (1..n)
        BY <2>1 DEF Granted, Here
      <3>2. Cardinality(Granted(m)') \in Nat
        <4>1. IsFiniteSet(1..n)
          BY <1>0, FS_Interval
        <4>2. IsFiniteSet(Granted(m)')
          BY <3>1, <4>1, FS_Subset
        <4> QED
          BY <4>2, FS_CardinalityType
      <3> QED
        BY <2>1, <3>2 DEF NoStrikes
    <2>4. ASSUME PenaltiesOf(state) # None, NEW m \in Model
          PROVE  LET q == PenaltiesOf(state) IN
                 q.strikes[m] <= Cardinality(Given(blames, m, q.item))
      BY <2>4 DEF PenaltiesOf, PenaltiesInv, Granted
    <2> QED
      BY <1>0, <2>1, <2>2, <2>3, <2>4 DEF PenaltiesInv
  <1>4. ASSUME NEW w \in Item, Places(w)
        PROVE  PenaltiesInv'
    <2>1. /\ Len(blames') = n
          /\ \A i \in 1..n :
               /\ blames'[i].entry = blames[i].entry
               /\ blames'[i].model = blames[i].model
               /\ blames'[i].item = IF /\ blames[i].entry = entry
                                       /\ blames[i].item = None
                                    THEN w ELSE blames[i].item
      <3>1. blames' = Placed(w) /\ DOMAIN blames = 1..n
        BY <1>0, <1>4 DEF Places
      <3>2. Placed(w) \in Seq(Blames) /\ DOMAIN Placed(w) = 1..n
        BY <3>1, PlacedType DEF Placed, TypeInv
      <3>3. \A b \in Blames :
              LET c == [b EXCEPT !.item = w] IN
              c.entry = b.entry /\ c.model = b.model /\ c.item = w
        BY DEF Blames
      <3>4. \A i \in 1..n :
              Placed(w)[i] = IF blames[i].entry = entry /\ blames[i].item = None
                             THEN [blames[i] EXCEPT !.item = w] ELSE blames[i]
        BY <3>1 DEF Placed
      <3>5. Len(Placed(w)) = n
        BY <1>0, <3>2, LenProperties
      <3>6. ASSUME NEW i \in 1..n
            PROVE  /\ Placed(w)[i].entry = blames[i].entry
                   /\ Placed(w)[i].model = blames[i].model
                   /\ Placed(w)[i].item = IF /\ blames[i].entry = entry
                                             /\ blames[i].item = None
                                          THEN w ELSE blames[i].item
        <4>1. CASE blames[i].entry = entry /\ blames[i].item = None
          <5>1. Placed(w)[i] = [blames[i] EXCEPT !.item = w]
            BY <3>4, <4>1
          <5> QED
            BY <1>0, <3>3, <4>1, <5>1
        <4>2. CASE ~(blames[i].entry = entry /\ blames[i].item = None)
          <5>1. Placed(w)[i] = blames[i]
            BY <3>4, <4>2
          <5> QED
            BY <4>2, <5>1
        <4> QED
          BY <4>1, <4>2
      <3> QED
        BY <3>1, <3>5, <3>6
    <2>2. /\ entry' = entry /\ state'.item = w /\ state'.prior = state.prior
          /\ state.item \in {None, w} /\ w # None
      BY <1>0, <1>4 DEF Places
    <2>3. \A i \in 1..n :
            /\ blames'[i].entry <= entry
            /\ blames'[i].entry = entry => blames'[i].item = w
      BY <2>1, <2>2 DEF PenaltiesInv
    <2>4. ASSUME NEW m \in Model
          PROVE  /\ Cardinality(Granted(m)) <= Cardinality(Granted(m)')
                 /\ Cardinality(Granted(m)) \in Nat
                 /\ Cardinality(Granted(m)') \in Nat
      <3>1. Granted(m) \in SUBSET (1..n) /\ Granted(m)' \in SUBSET (1..n+1)
        BY <1>0, <2>1, <2>2 DEF Granted, Here, Given
      <3>2. Granted(m) \subseteq Granted(m)'
        <4>1. CASE state.item = None
          BY <2>1, <2>2, <4>1 DEF Granted, Here, Given, PenaltiesInv
        <4>2. CASE state.item = w
          BY <2>1, <2>2, <4>2 DEF Granted, Given
        <4> QED
          BY <2>2, <4>1, <4>2
      <3> QED
        BY <1>0, <3>1, <3>2, IndexSets
    <2>5. ASSUME state.prior # None, NEW m \in Model
          PROVE  /\ state.prior.strikes[m] <=
                      Cardinality(Given(blames', m, state.prior.item))
                 /\ Cardinality(Given(blames', m, state.prior.item)) \in Nat
      <3> DEFINE S == Given(blames, m, state.prior.item)
                 T == Given(blames', m, state.prior.item)
      <3>1. state.prior.item # None /\ state.prior.strikes[m] \in Nat
        BY <1>0, <2>5 DEF EntryStates, Penalties
      <3>2. S \in SUBSET (1..n) /\ T \in SUBSET (1..n+1) /\ S \subseteq T
        BY <1>0, <2>1, <3>1 DEF Given
      <3>3. state.prior.strikes[m] <= Cardinality(S)
        BY <2>5 DEF PenaltiesInv
      <3> HIDE DEF S, T
      <3>4. Cardinality(S) <= Cardinality(T) /\ Cardinality(S) \in Nat
            /\ Cardinality(T) \in Nat
        BY <1>0, <3>2, IndexSets
      <3> QED
        BY <3>1, <3>3, <3>4 DEF T
    <2>6. ASSUME NEW m \in Model
          PROVE  state'.strikes[m] <= Cardinality(Granted(m)')
      <3>1. CASE state'.strikes = state.strikes
        <4>1. /\ state.strikes[m] <= Cardinality(Granted(m))
              /\ state.strikes[m] \in Nat
          BY <1>0 DEF PenaltiesInv, EntryStates
        <4> QED
          BY <2>4, <3>1, <4>1
      <3>2. CASE /\ state.prior # None /\ state.prior.item = w
                 /\ state'.strikes = state.prior.strikes
        <4>1. Granted(m)' = Given(blames', m, w)
          BY <2>2 DEF Granted
        <4> QED
          BY <2>5, <3>2, <4>1
      <3> QED
        BY <1>4, <3>1, <3>2 DEF Places
    <2> QED
      BY <2>1, <2>2, <2>3, <2>5, <2>6 DEF PenaltiesInv
  <1> QED
    BY <1>1, <1>2, <1>3, <1>4, WorkSteps DEF Unmoved

(* An entry holds no more strikes of a model than its own work item, or    *)
(* the entry itself before it has one, gave: penalties neither leak to     *)
(* another item nor multiply when one is continued or reopened.            *)
THEOREM PenaltiesStayPut == Spec => []NoForeignPenalties
  <1>1. Init => OneItemPerEntry
    BY DEF Init, FreshEntry, OneItemPerEntry
  <1>2. Init => PenaltiesInv
    <2> SUFFICES ASSUME Init PROVE PenaltiesInv
      OBVIOUS
    <2>1. /\ blames = <<>> /\ state.item = None /\ state.prior = None
          /\ \A m \in Model : state.strikes[m] = 0
      BY DEF Init, FreshEntry, NoStrikes
    <2>2. Len(blames) = 0 /\ 1..Len(blames) = {}
      BY <2>1
    <2>3. \A m \in Model : Granted(m) = {}
      BY <2>1, <2>2 DEF Granted, Here
    <2>4. \A m \in Model : state.strikes[m] <= Cardinality(Granted(m))
      BY <2>1, <2>3, FS_EmptySet
    <2> QED
      BY <2>1, <2>2, <2>4 DEF PenaltiesInv
  <1>3. TypeInv /\ PenaltiesInv => NoForeignPenalties
    <2> SUFFICES ASSUME TypeInv, PenaltiesInv, NEW m \in Model
                 PROVE  state.strikes[m] <=
                   Cardinality({i \in DOMAIN blames :
                     /\ blames[i].model = m
                     /\ \/ blames[i].entry = entry
                        \/ state.item # None /\ blames[i].item = state.item})
      BY DEF NoForeignPenalties
    <2> DEFINE T == {i \in DOMAIN blames :
                     /\ blames[i].model = m
                     /\ \/ blames[i].entry = entry
                        \/ state.item # None /\ blames[i].item = state.item}
               n == Len(blames)
    <2>1. DOMAIN blames = 1..n /\ n \in Nat /\ state.strikes[m] \in Nat
      BY DEF TypeInv, TypeOK, EntryStates
    <2>2. /\ Granted(m) \in SUBSET (1..n) /\ T \in SUBSET (1..n+1)
          /\ Granted(m) \subseteq T
      BY <2>1 DEF Granted, Here, Given
    <2>3. state.strikes[m] <= Cardinality(Granted(m))
      BY DEF PenaltiesInv
    <2> HIDE DEF T
    <2>4. /\ Cardinality(Granted(m)) <= Cardinality(T)
          /\ Cardinality(Granted(m)) \in Nat /\ Cardinality(T) \in Nat
      BY <2>1, <2>2, IndexSets
    <2>5. state.strikes[m] <= Cardinality(T)
      BY <2>1, <2>3, <2>4
    <2> QED
      BY <2>5 DEF T
  <1> QED
    BY <1>1, <1>2, <1>3, OneItemStep, PenaltiesStep, TypeCorrect, PTL DEF Spec
=============================================================================
