---------------------- MODULE ExecutionContractProofs ----------------------
(***************************************************************************)
(* Theorems about ExecutionContract, for every set of models, items, files *)
(* and plans, and for every bound.                                         *)
(***************************************************************************)
EXTENDS ExecutionContract, TLAPS

-----------------------------------------------------------------------------
(* The pure transitions keep the shape of the entry state.                 *)

(* strike() yields an entry state with the same contract.                  *)
LEMMA StrikeType ==
  ASSUME NEW s \in EntryStates, NEW m \in Model, NEW submitter
  PROVE  /\ Strike(s, m, submitter) \in EntryStates
         /\ Strike(s, m, submitter).contract = s.contract
  <1> DEFINE n == [s.strikes EXCEPT ![m] = @ + 1]
             x == IF s.strikes[m] + 1 >= ContractStrikeLimit
                  THEN s.excluded \union {m} ELSE s.excluded
  <1>1. n \in [Model -> Nat] /\ x \subseteq Model
    BY DEF EntryStates
  <1>2. [s EXCEPT !.strikes = n, !.excluded = x] \in EntryStates
    <2> HIDE DEF n, x
    <2> QED BY <1>1 DEF EntryStates
  <1>3. [s EXCEPT !.strikes = n, !.excluded = x].contract = s.contract
    BY DEF EntryStates
  <1>4. Strike(s, m, submitter)
          \in {s, [s EXCEPT !.strikes = n, !.excluded = x]}
    BY DEF Strike, EntryStates
  <1> QED
    BY <1>2, <1>3, <1>4

(* breakContract() yields an entry state.                                  *)
LEMMA BreakType ==
  ASSUME NEW s \in EntryStates, NEW m \in Model \union {None}, NEW reason
  PROVE  BreakContract(s, m, reason) \in EntryStates
  <1> DEFINE struck == IF m # None /\ reason # "unattributed-mutation"
                       THEN Strike(s, m, s.contract.submitter) ELSE s
  <1>1. CASE ~Has(s, "active")
    BY <1>1 DEF BreakContract
  <1>2. CASE Has(s, "active")
    <2>1. s.contract \in Contracts
      BY <1>2 DEF Has, EntryStates
    <2>2. struck \in EntryStates /\ struck.contract = s.contract
      BY StrikeType
    <2>3. BreakContract(s, m, reason) = [struck EXCEPT !.contract.status = "broken"]
      BY <1>2 DEF BreakContract
    <2> QED
      BY <2>1, <2>2, <2>3 DEF EntryStates, Contracts
  <1> QED
    BY <1>1, <1>2

(* attributeExecutor() yields an entry state.                              *)
LEMMA AttributeType ==
  ASSUME NEW s \in EntryStates, NEW m \in Model \union {None}
  PROVE  AttributeExecutor(s, m) \in EntryStates
  BY DEF AttributeExecutor, EntryStates, Contracts

(* reworkContract() yields an entry state with the same contract.          *)
LEMMA ReworkType ==
  ASSUME NEW s \in EntryStates
  PROVE  /\ ReworkContract(s) \in EntryStates
         /\ ReworkContract(s).contract = s.contract
  <1>1. CASE Has(s, "executed") /\ s.contract.executor # None
    <2>1. s.contract.executor \in Model
      BY <1>1 DEF Has, EntryStates, Contracts
    <2> QED
      BY <1>1, <2>1, StrikeType DEF ReworkContract
  <1>2. CASE ~(Has(s, "executed") /\ s.contract.executor # None)
    BY <1>2 DEF ReworkContract
  <1> QED
    BY <1>1, <1>2

(* expireContract() yields an entry state.                                 *)
LEMMA ExpireType ==
  ASSUME NEW s \in EntryStates
  PROVE  ExpireContract(s) \in EntryStates
  BY DEF ExpireContract, Has, EntryStates, Contracts

(* noteContractEdit() yields an entry state.                               *)
LEMMA NoteEditType ==
  ASSUME NEW s \in EntryStates, NEW m \in Model \union {None}, NEW f \in File
  PROVE  NoteContractEdit(s, f, m) \in EntryStates
  <1> DEFINE left == s.contract.pending \ {f}
             a    == AttributeExecutor(s, m)
             done == [a EXCEPT !.contract.pending = left]
  <1>1. CASE Has(s, "executed")
    BY <1>1 DEF NoteContractEdit, Has, EntryStates, Contracts
  <1>2. CASE Has(s, "active") /\ f \in s.contract.pending
    <2>1. a \in EntryStates /\ a.contract \in Contracts /\ left \subseteq File
      BY <1>2, AttributeType DEF AttributeExecutor, Has, EntryStates, Contracts
    <2>2. done \in EntryStates /\ done.contract \in Contracts
      <3> HIDE DEF a, left
      <3> QED BY <2>1 DEF EntryStates, Contracts
    <2>3. [done EXCEPT !.contract.status = "executed"] \in EntryStates
      <3> HIDE DEF done
      <3> QED BY <2>2 DEF EntryStates, Contracts
    <2>4. NoteContractEdit(s, f, m)
            \in {done, [done EXCEPT !.contract.status = "executed"]}
      BY <1>2 DEF NoteContractEdit, Has
    <2> QED
      BY <2>2, <2>3, <2>4
  <1>3. CASE ~Has(s, "executed") /\ ~(Has(s, "active") /\ f \in s.contract.pending)
    BY <1>3 DEF NoteContractEdit
  <1> QED
    BY <1>1, <1>2, <1>3

(* withContinuedPenalties() yields an entry state with the same contract.  *)
LEMMA ContinueType ==
  ASSUME NEW s \in EntryStates, NEW w \in Item, NEW relation
  PROVE  /\ WithContinuedPenalties(s, w, relation) \in EntryStates
         /\ WithContinuedPenalties(s, w, relation).contract = s.contract
  BY DEF WithContinuedPenalties, EntryStates, Penalties

(* penaltiesOf() yields penalties, or none.                                *)
LEMMA PenaltiesType ==
  ASSUME NEW s \in EntryStates
  PROVE  PenaltiesOf(s) \in Penalties \union {None}
  BY DEF PenaltiesOf, EntryStates, Penalties

(* acceptContract() yields an entry state.                                 *)
LEMMA AcceptType ==
  ASSUME NEW s \in EntryStates, NEW p \in Plans, NEW m \in Model,
         NEW known \in BOOLEAN, NEW serial \in 1..MaxPlans
  PROVE  LET a == AcceptContract(s, p, m, known, serial) IN
         /\ a \in EntryStates /\ a.contract \in Contracts
         /\ a.contract.status = "active" /\ a.contract.executor = None
         /\ a.contract.reviewEdited = FALSE
  <1> DEFINE c == [serial |-> serial, status |-> "active", submitter |-> m,
                   plan |-> p, release |-> ~KeepsSubmitter(s, p, m, known),
                   pending |-> p.edits, acceptedAt |-> s.invocation,
                   executor |-> None, reviewEdited |-> FALSE]
  <1>1. p.edits \subseteq File
    BY PlanAssumption
  <1>2. (~KeepsSubmitter(s, p, m, known)) \in BOOLEAN
    OBVIOUS
  <1>3. /\ c \in Contracts /\ c.status = "active" /\ c.executor = None
        /\ c.reviewEdited = FALSE
    BY <1>1, <1>2 DEF Contracts, EntryStates
  <1>4. /\ [s EXCEPT !.contract = c] \in EntryStates
        /\ [s EXCEPT !.contract = c].contract = c
    <2> HIDE DEF c
    <2> QED BY <1>3 DEF EntryStates
  <1> QED
    <2> HIDE DEF c
    <2> QED BY <1>3, <1>4 DEF AcceptContract, c

-----------------------------------------------------------------------------
(* What a transition that neither opens nor closes a plan does to it: the  *)
(* steps of PlanLifecycle that leave its counters alone.                   *)

SamePlan(c, d) ==
  Stage(d) = Stage(c) /\ (Foreign(d) <=> Foreign(c)) /\ (Touched(d) <=> Touched(c))

Attributes(c, d) ==
  /\ Stage(c) \in {"active", "executed"} /\ Stage(d) = Stage(c)
  /\ ~Foreign(c) /\ Foreign(d) /\ (Touched(d) <=> Touched(c))

Progresses(c, d) ==
  /\ Stage(c) = "active" /\ Stage(d) \in {"broken", "executed"}
  /\ (Foreign(c) => Foreign(d)) /\ (Touched(d) <=> Touched(c))

Touches(c, d) ==
  /\ Stage(c) = "executed" /\ Stage(d) = "executed"
  /\ Foreign(c) /\ Foreign(d) /\ Touched(d)

Evolves(c, d) ==
  SamePlan(c, d) \/ Attributes(c, d) \/ Progresses(c, d) \/ Touches(c, d)

(* attributeExecutor() names an executor, once, and changes nothing else.  *)
LEMMA AttributeEvolves ==
  ASSUME NEW s \in EntryStates, NEW m \in Model \union {None}
  PROVE  LET d == AttributeExecutor(s, m).contract
         IN  SamePlan(s.contract, d) \/ Attributes(s.contract, d)
  BY ModelAssumption, NoneAssumption
     DEF AttributeExecutor, EntryStates, Contracts, SamePlan, Attributes,
         Stage, Foreign, Touched

(* breakContract() breaks an active plan, or does nothing.                 *)
LEMMA BreakEvolves ==
  ASSUME NEW s \in EntryStates, NEW m \in Model \union {None}, NEW reason
  PROVE  LET d == BreakContract(s, m, reason).contract
         IN  /\ SamePlan(s.contract, d) \/ Progresses(s.contract, d)
             /\ Foreign(s.contract) <=> Foreign(d)
  <1> DEFINE struck == IF m # None /\ reason # "unattributed-mutation"
                       THEN Strike(s, m, s.contract.submitter) ELSE s
  <1>1. CASE ~Has(s, "active")
    BY <1>1 DEF BreakContract, SamePlan
  <1>2. CASE Has(s, "active")
    <2>1. s.contract \in Contracts
      BY <1>2 DEF Has, EntryStates
    <2>2. struck \in EntryStates /\ struck.contract = s.contract
      BY StrikeType
    <2>3. BreakContract(s, m, reason).contract = [s.contract EXCEPT !.status = "broken"]
      <3> HIDE DEF struck
      <3>1. BreakContract(s, m, reason) = [struck EXCEPT !.contract.status = "broken"]
        BY <1>2 DEF BreakContract, struck
      <3> QED BY <3>1, <2>2 DEF EntryStates
    <2> QED
      BY <1>2, <2>1, <2>3, NoneAssumption DEF Has, Contracts, Progresses, Stage, Foreign, Touched
  <1> QED
    BY <1>1, <1>2

(* expireContract() executes an active plan, or does nothing.              *)
LEMMA ExpireEvolves ==
  ASSUME NEW s \in EntryStates
  PROVE  LET d == ExpireContract(s).contract
         IN  /\ SamePlan(s.contract, d) \/ Progresses(s.contract, d)
             /\ Foreign(s.contract) <=> Foreign(d)
  BY NoneAssumption DEF ExpireContract, Has, EntryStates, Contracts, SamePlan, Progresses,
         Stage, Foreign, Touched

(* noteContractEdit() evolves the plan.                                    *)
LEMMA NoteEditEvolves ==
  ASSUME NEW s \in EntryStates, NEW m \in Model \union {None}, NEW f \in File
  PROVE  Evolves(s.contract, NoteContractEdit(s, f, m).contract)
  <1> DEFINE left == s.contract.pending \ {f}
             a    == AttributeExecutor(s, m)
             done == [a EXCEPT !.contract.pending = left]
  <1>1. CASE Has(s, "executed")
    <2> DEFINE d == NoteContractEdit(s, f, m).contract
    <2>1. s.contract \in Contracts /\ s.contract.status = "executed"
      BY <1>1 DEF Has, EntryStates
    <2>2. CASE ~IsUnderReview(s.contract)
      BY <1>1, <2>2 DEF NoteContractEdit, Evolves, SamePlan
    <2>3. CASE IsUnderReview(s.contract)
      <3>1. d = [s.contract EXCEPT !.reviewEdited = TRUE]
        BY <1>1, <2>3 DEF NoteContractEdit, EntryStates
      <3>2. s.contract.executor # None
        BY <2>3 DEF IsUnderReview
      <3>3. d \in Contracts /\ d.status = "executed" /\ d.executor # None
              /\ d.reviewEdited
        BY <2>1, <3>1, <3>2 DEF Contracts
      <3> QED
        <4> HIDE DEF d
        <4> QED BY <2>1, <3>2, <3>3, NoneAssumption
                DEF Evolves, Touches, Stage, Foreign, Touched, d
    <2> QED
      BY <2>2, <2>3
  <1>2. CASE Has(s, "active") /\ f \in s.contract.pending
    <2> DEFINE c == a.contract
    <2>1. a \in EntryStates /\ c \in Contracts /\ c.status = "active"
      BY <1>2, AttributeType DEF AttributeExecutor, Has, EntryStates, Contracts
    <2>2. SamePlan(s.contract, c) \/ Attributes(s.contract, c)
      BY AttributeEvolves
    <2>3. NoteContractEdit(s, f, m).contract
            \in {[c EXCEPT !.pending = left],
                 [c EXCEPT !.pending = left, !.status = "executed"]}
      <3>1. NoteContractEdit(s, f, m)
              \in {done, [done EXCEPT !.contract.status = "executed"]}
        BY <1>2 DEF NoteContractEdit, Has
      <3>2. done.contract = [c EXCEPT !.pending = left]
        <4> HIDE DEF a
        <4> QED BY <2>1 DEF EntryStates
      <3>3. [done EXCEPT !.contract.status = "executed"].contract
              = [c EXCEPT !.pending = left, !.status = "executed"]
        <4> HIDE DEF a
        <4> QED BY <2>1, <3>2 DEF EntryStates
      <3> QED BY <3>1, <3>2, <3>3
    <2> DEFINE d == NoteContractEdit(s, f, m).contract
    <2>4. /\ d \in Contracts /\ d.status \in {"active", "executed"}
          /\ d.executor = c.executor /\ (d.reviewEdited <=> c.reviewEdited)
      <3>1. left \subseteq File
        BY <1>2 DEF Has, EntryStates, Contracts
      <3> QED
        <4> HIDE DEF a, left, d
        <4> QED BY <2>1, <2>3, <3>1 DEF Contracts, d
    <2>5. Stage(d) \in {"active", "executed"} /\ Stage(c) = "active"
            /\ (Foreign(d) <=> Foreign(c)) /\ (Touched(d) <=> Touched(c))
      <3> HIDE DEF a, d
      <3> QED BY <2>1, <2>4, NoneAssumption DEF Stage, Foreign, Touched
    <2> QED
      <3> HIDE DEF a, d
      <3> QED BY <2>2, <2>5 DEF Evolves, SamePlan, Attributes, Progresses, d
  <1>3. CASE ~Has(s, "executed") /\ ~(Has(s, "active") /\ f \in s.contract.pending)
    BY <1>3 DEF NoteContractEdit, Evolves, SamePlan
  <1> QED
    BY <1>1, <1>2, <1>3

(* settleExecutionContract() yields an entry state and evolves the plan.   *)
LEMMA SettleExecutionEvolves ==
  ASSUME NEW s \in EntryStates, NEW prev \in Model \union {None},
         NEW struggled
  PROVE  /\ SettleExecution(s, prev, struggled) \in EntryStates
         /\ Evolves(s.contract, SettleExecution(s, prev, struggled).contract)
  <1> DEFINE a == AttributeExecutor(s, prev)
             t == SettleExecution(s, prev, struggled)
  <1>1. a \in EntryStates
    BY AttributeType
  <1>2. SamePlan(s.contract, a.contract) \/ Attributes(s.contract, a.contract)
    BY AttributeEvolves
  <1>3. t \in {a, BreakContract(a, prev, "struggle"), ExpireContract(a)}
    BY DEF SettleExecution
  <1>4. t \in EntryStates
    BY <1>1, <1>3, BreakType, ExpireType
  <1>5. /\ SamePlan(a.contract, t.contract) \/ Progresses(a.contract, t.contract)
        /\ Foreign(a.contract) <=> Foreign(t.contract)
    <2> HIDE DEF a, t
    <2> QED BY <1>1, <1>3, BreakEvolves, ExpireEvolves DEF SamePlan
  <1>6. Evolves(s.contract, t.contract)
    <2> HIDE DEF a, t
    <2> QED BY <1>2, <1>5 DEF Evolves, SamePlan, Attributes, Progresses
  <1> QED
    BY <1>4, <1>6

-----------------------------------------------------------------------------
(* Type correctness.  It needs to know that a served model is on record    *)
(* while tools run, that a waiting submission still fits its bound, and    *)
(* that an invocation is scored with a handback of broken plans only.      *)

Orderly ==
  /\ turn \in {"serving", "settled"} => served \in Model
  /\ ~Quiet => turn \in {"serving", "settled"}
  /\ submission # None => accepted < MaxPlans
  /\ route.restored # None => route.restored.status = "broken"

TypeInv == TypeOK /\ Orderly

(* Committing an entry state keeps the types of the history.               *)
LEMMA CommitType ==
  ASSUME TypeOK, NEW s \in EntryStates, Commit(s)
  PROVE  /\ state' \in EntryStates /\ blames' \in Seq(Blames)
         /\ brokeAt' \in 0..MaxInvocations
  <1>1. state' \in EntryStates
    BY DEF Commit
  <1>2. blames' \in Seq(Blames)
    <2>1. CASE Struck(state, s) = {}
      BY <2>1 DEF Commit, TypeOK
    <2>2. CASE Struck(state, s) # {}
      <3> DEFINE m == CHOOSE m \in Struck(state, s) : TRUE
                 b == [plan |-> accepted, item |-> state.item,
                       entry |-> entry, model |-> m]
      <3>1. m \in Model
        BY <2>2 DEF Struck
      <3>2. b \in Blames
        BY <3>1 DEF TypeOK, EntryStates, Blames
      <3>3. blames' = Append(blames, b)
        BY <2>2 DEF Commit
      <3> QED
        <4> HIDE DEF b
        <4> QED BY <3>2, <3>3 DEF TypeOK
    <2> QED
      BY <2>1, <2>2
  <1>3. brokeAt' \in 0..MaxInvocations
    BY BoundAssumption DEF Commit, TypeOK, EntryStates
  <1> QED
    BY <1>1, <1>2, <1>3

(* Placing the strikes of an entry on its item keeps the history's type.   *)
LEMMA PlacedType ==
  ASSUME TypeOK, NEW w \in Item
  PROVE  Placed(w) \in Seq(Blames)
  <1> DEFINE p(i) == IF blames[i].entry = entry /\ blames[i].item = None
                     THEN [blames[i] EXCEPT !.item = w] ELSE blames[i]
  <1>1. blames \in Seq(Blames) /\ DOMAIN blames = 1..Len(blames) /\ Len(blames) \in Nat
    BY DEF TypeOK
  <1>2. \A i \in 1..Len(blames) : p(i) \in Blames
    <2> SUFFICES ASSUME NEW i \in 1..Len(blames) PROVE p(i) \in Blames
      OBVIOUS
    <2>1. blames[i] \in Blames
      BY <1>1
    <2>2. [blames[i] EXCEPT !.item = w] \in Blames
      BY <2>1 DEF Blames
    <2> QED
      BY <2>1, <2>2
  <1>3. [i \in 1..Len(blames) |-> p(i)] \in Seq(Blames)
    <2> HIDE DEF p
    <2> QED BY <1>1, <1>2
  <1> QED
    BY <1>1, <1>3 DEF Placed

(* A fresh entry state has the type of an entry state.                     *)
LEMMA FreshType ==
  ASSUME NEW d \in Deliverables \union {"gather"},
         NEW status \in {"none", "acquiring", "ready", "served"},
         NEW completed \in Item \union {None},
         NEW prior \in Penalties \union {None}
  PROVE  FreshEntry(d, status, completed, prior) \in EntryStates
  BY BoundAssumption DEF FreshEntry, NoStrikes, EntryStates

(* Init establishes the types.                                             *)
LEMMA InitType == Init => TypeInv
  <1> SUFFICES ASSUME Init PROVE TypeInv
    OBVIOUS
  <1>1. state \in EntryStates
    BY FreshType DEF Init
  <1>2. route \in [pool : SUBSET Model, restored : Contracts \union {None},
                   boundary : BOOLEAN,
                   dimension : Deliverables \union {"gather", "implement",
                                                    "review"}]
    BY DEF Init, NoRoute
  <1>3. TypeOK
    BY <1>1, <1>2, BoundAssumption DEF Init, TypeOK
  <1>4. Orderly
    BY DEF Init, Orderly, Quiet, NoRoute
  <1> QED
    BY <1>3, <1>4 DEF TypeInv

Routes == [pool : SUBSET Model, restored : Contracts \union {None},
           boundary : BOOLEAN,
           dimension : Deliverables \union {"gather", "implement", "review"}]

(* What scoreRouterTurn writes has its type.                               *)
LEMMA ScoreType ==
  ASSUME TypeOK, NEW s \in EntryStates, NEW pool \in Pools, Score(s, pool)
  PROVE  /\ turn' = "routed" /\ route' \in Routes
         /\ route'.restored # None => route'.restored.status = "broken"
         /\ served' = None /\ previous' \in Model \union {None}
  <1>1. pool \subseteq Model /\ ExecutorPool(s, pool) \subseteq Model
    BY ModelAssumption DEF ExecutorPool
  <1>2. s.contract \in Contracts \union {None}
    BY DEF EntryStates
  <1>3. RoutedDimension(s) \in Deliverables \union {"gather", "implement", "review"}
    BY DEF RoutedDimension, EntryStates
  <1>4. route' \in Routes
    <2>1. Has(s, "broken") => s.contract \in Contracts
      BY <1>2 DEF Has
    <2> QED
      BY <1>1, <1>3, <2>1 DEF Score, Routes
  <1>5. route'.restored # None => route'.restored.status = "broken"
    BY DEF Score, Has
  <1> QED
    BY <1>4, <1>5 DEF Score, Rotated, TypeOK

(* A routing step keeps the types.                                         *)
LEMMA RoutingType ==
  ASSUME TypeInv, NEW pool \in Pools
  PROVE  /\ \A struggled \in BOOLEAN : RouteAgain(pool, struggled) => TypeInv'
         /\ \A d \in Deliverables : RouteNewEntry(pool, d) => TypeInv'
  <1> USE DEF TypeInv
  <1>1. ASSUME NEW struggled \in BOOLEAN, RouteAgain(pool, struggled)
        PROVE  TypeInv'
    <2> DEFINE s == SettleExecution(state, Rotated, struggled)
    <2>1. Rotated \in Model \union {None} /\ state \in EntryStates
      BY DEF TypeOK, Rotated
    <2>2. s \in EntryStates
      BY <2>1, SettleExecutionEvolves
    <2>3. s.invocation = state.invocation
      BY <2>1 DEF SettleExecution, AttributeExecutor, BreakContract, Strike,
                  ExpireContract, EntryStates
    <2>4. [s EXCEPT !.invocation = @ + 1] \in EntryStates
      <3> HIDE DEF s
      <3>1. s.invocation + 1 \in 1..MaxInvocations
        BY <1>1, <2>2, <2>3, BoundAssumption DEF RouteAgain, EntryStates
      <3> QED
        BY <2>2, <3>1 DEF EntryStates
    <2>5. /\ state' \in EntryStates /\ blames' \in Seq(Blames)
          /\ brokeAt' \in 0..MaxInvocations
      BY <1>1, <2>4, CommitType DEF RouteAgain
    <2>6. /\ turn' = "routed" /\ route' \in Routes
          /\ route'.restored # None => route'.restored.status = "broken"
          /\ served' = None /\ previous' \in Model \union {None}
      BY <1>1, <2>2, ScoreType DEF RouteAgain
    <2> QED
      BY <1>1, <2>5, <2>6
         DEF RouteAgain, TypeOK, Orderly, Quiet, Routes, ledger, tools, log
  <1>2. ASSUME NEW d \in Deliverables, RouteNewEntry(pool, d)
        PROVE  TypeInv'
    <2> DEFINE s == FreshEntry(
                      IF incumbent = None THEN "gather" ELSE d,
                      IF incumbent = None THEN "acquiring" ELSE "none",
                      CompletedIncumbent, PenaltiesOf(state))
    <2>1. CompletedIncumbent \in Item \union {None}
      BY DEF CompletedIncumbent, TypeOK
    <2>2. s \in EntryStates
      BY <2>1, PenaltiesType, FreshType DEF TypeOK
    <2>3. /\ turn' = "routed" /\ route' \in Routes
          /\ route'.restored # None => route'.restored.status = "broken"
          /\ served' = None /\ previous' \in Model \union {None}
      BY <1>2, <2>2, ScoreType DEF RouteNewEntry
    <2>4. entry' \in 0..MaxEntries
      BY <1>2, BoundAssumption DEF RouteNewEntry, TypeOK
    <2>5. logged' \in Nat /\ outcome' \in {"none", "broken", "unfinished",
                                           "fixed", "clean", "rework"}
      BY <1>2 DEF RouteNewEntry, LogClose, LogOutcome, NoLog, EntryEndOutcome, TypeOK
    <2>6. state' \in EntryStates
      BY <1>2, <2>2 DEF RouteNewEntry
    <2> QED
      BY <1>2, <2>3, <2>4, <2>5, <2>6
         DEF RouteNewEntry, TypeOK, Orderly, Quiet, Routes, ledger, tools, blamed
  <1> QED
    BY <1>1, <1>2

(* Dropping the contract keeps the type.                                   *)
LEMMA ClosedType ==
  ASSUME NEW s \in EntryStates, NEW m \in Model \union {None}
  PROVE  /\ Closed(s, m) \in EntryStates /\ Closed(s, m).contract = None
         /\ [s EXCEPT !.contract = None] \in EntryStates
  <1> DEFINE a == AttributeExecutor(s, m)
  <1>1. a \in EntryStates
    BY AttributeType
  <1> QED
    <2> HIDE DEF a
    <2>1. \A t \in EntryStates : /\ [t EXCEPT !.contract = None] \in EntryStates
                                 /\ [t EXCEPT !.contract = None].contract = None
      BY DEF EntryStates
    <2> QED
      BY <1>1, <2>1 DEF Closed, a

(* An outcome is one of the documented ones.                               *)
LEMMA OutcomeType ==
  ASSUME TypeOK, LogClose(state) \/ LogOutcome("broken") \/ LogOutcome("rework") \/ NoLog
  PROVE  logged' \in Nat /\ outcome' \in {"none", "broken", "unfinished",
                                          "fixed", "clean", "rework"}
  BY DEF LogClose, LogOutcome, NoLog, EntryEndOutcome, TypeOK

(* A step of the invocation itself keeps the types.                        *)
LEMMA ServingType ==
  ASSUME TypeInv
  PROVE  /\ \A m \in Model : Serve(m) => TypeInv'
         /\ InvocationFails => TypeInv'
         /\ \A qualified \in BOOLEAN : Settle(qualified) => TypeInv'
         /\ EntrySettles => TypeInv'
  <1> USE DEF TypeInv
  <1>1. ASSUME NEW m \in Model, Serve(m)
        PROVE  TypeInv'
    BY <1>1 DEF Serve, TypeOK, Orderly, Quiet, ledger, tools, log, blamed
  <1>2. ASSUME InvocationFails
        PROVE  TypeInv'
    BY <1>2 DEF InvocationFails, TypeOK, Orderly, Quiet, ledger, tools, log, blamed
  <1>3. ASSUME NEW qualified \in BOOLEAN, Settle(qualified)
        PROVE  TypeInv'
    <2> DEFINE s == IF HandsBack(state) THEN [state EXCEPT !.contract = None]
                    ELSE state
               t == IF qualified /\ route.boundary /\ s.status = "ready"
                    THEN [s EXCEPT !.status = "served"] ELSE s
    <2>1. s \in EntryStates
      BY ClosedType DEF TypeOK
    <2>2. t \in EntryStates
      <3> HIDE DEF s
      <3> QED BY <2>1 DEF EntryStates
    <2>3. state' = t
      BY <1>3 DEF Settle
    <2>4. served \in Model
      BY <1>3 DEF Settle, Orderly
    <2>5. IncumbentItem(t) \in Item \union {None}
      <3> HIDE DEF t
      <3> QED BY <2>2 DEF IncumbentItem, EntryStates, TypeOK
    <2>6. incumbent' \in [model : Model, item : Item \union {None}] \union {None}
      <3>1. incumbent' = IF t.status = "acquiring" THEN incumbent
                         ELSE [model |-> served, item |-> IncumbentItem(t)]
        BY <1>3 DEF Settle
      <3> HIDE DEF t
      <3> QED BY <2>4, <2>5, <3>1 DEF TypeOK
    <2>7. logged' \in Nat /\ outcome' \in {"none", "broken", "unfinished",
                                           "fixed", "clean", "rework"}
      BY <1>3, OutcomeType DEF Settle
    <2>8. /\ UNCHANGED <<entry, route, served, previous, items, active, running,
                         submission, accepted, blames, brokeAt, workers>>
          /\ turn' = "settled"
      BY <1>3 DEF Settle, tools, blamed
    <2>9. TypeOK'
      <3> HIDE DEF t
      <3> QED BY <2>2, <2>3, <2>6, <2>7, <2>8 DEF TypeOK
    <2>10. Orderly'
      BY <2>4, <2>8 DEF Orderly, Quiet
    <2> QED
      BY <2>9, <2>10
  <1>4. ASSUME EntrySettles
        PROVE  TypeInv'
    <2>1. state' \in EntryStates
      BY <1>4, ClosedType DEF EntrySettles, TypeOK
    <2>2. logged' \in Nat /\ outcome' \in {"none", "broken", "unfinished",
                                           "fixed", "clean", "rework"}
      BY <1>4, OutcomeType DEF EntrySettles
    <2> QED
      BY <1>4, <2>1, <2>2
         DEF EntrySettles, TypeOK, Orderly, Quiet, ledger, tools, blamed
  <1> QED
    BY <1>1, <1>2, <1>3, <1>4

(* A call of a plan's tools or of an edit keeps the types.                 *)
LEMMA PlanCallType ==
  ASSUME TypeInv
  PROVE  /\ \A p \in Plans : SubmitPlan(p) => TypeInv'
         /\ \A measured \in BOOLEAN : JudgePlan(measured) => TypeInv'
         /\ \A f \in File : CallEdit(f) => TypeInv'
         /\ \A f \in File, ok \in BOOLEAN : EditReturns(f, ok) => TypeInv'
         /\ ShellWrites => TypeInv'
  <1> USE DEF TypeInv
  <1>0. state \in EntryStates /\ served \in Model \union {None}
    BY DEF TypeOK
  <1>1. ASSUME NEW p \in Plans, SubmitPlan(p)
        PROVE  TypeInv'
    <2>1. submission' \in [plan : Plans, open : BOOLEAN]
      BY <1>1 DEF SubmitPlan
    <2> QED
      BY <1>1, <2>1 DEF SubmitPlan, ToolsRun, ToolFrame, TypeOK, Orderly, Quiet,
                        turnVars, ledger, log, blamed
  <1>2. ASSUME NEW measured \in BOOLEAN, JudgePlan(measured)
        PROVE  TypeInv'
    <2> DEFINE known == submission.open /\ measured
               reviewed == state.contract # None /\ IsUnderReview(state.contract)
               base == IF reviewed THEN ReworkContract(state) ELSE state
               a == AcceptContract(base, submission.plan, served, known, accepted + 1)
    <2>0. /\ submission \in [plan : Plans, open : BOOLEAN] /\ served \in Model
          /\ turn \in {"serving", "settled"} /\ accepted + 1 \in 1..MaxPlans
      BY <1>2, BoundAssumption DEF JudgePlan, TypeOK, Orderly, Quiet
    <2>1. CASE Commit(BreakContract(state, served, "replan"))
                 /\ UNCHANGED <<log, workers>>
      <3>1. /\ state' \in EntryStates /\ blames' \in Seq(Blames)
            /\ brokeAt' \in 0..MaxInvocations
        BY <1>0, <2>1, BreakType, CommitType
      <3> QED
        BY <1>2, <2>0, <2>1, <3>1 DEF JudgePlan, ToolFrame, TypeOK, Orderly,
           Quiet, turnVars, ledger, log
    <2>2. CASE UNCHANGED <<state, log, blamed, workers>>
      BY <1>2, <2>0, <2>2 DEF JudgePlan, ToolFrame, TypeOK, Orderly, Quiet,
         turnVars, ledger, log, blamed
    <2>3. CASE /\ Commit(a) /\ accepted' = accepted + 1 /\ workers' = {}
               /\ IF reviewed THEN LogOutcome("rework") ELSE LogClose(state)
      <3>1. base \in EntryStates
        BY <1>0, ReworkType
      <3>2. a \in EntryStates
        <4> HIDE DEF base
        <4> QED BY <2>0, <3>1, AcceptType
      <3>3. /\ state' \in EntryStates /\ blames' \in Seq(Blames)
            /\ brokeAt' \in 0..MaxInvocations
        <4> HIDE DEF a
        <4> QED BY <2>3, <3>2, CommitType
      <3>4. logged' \in Nat /\ outcome' \in {"none", "broken", "unfinished",
                                             "fixed", "clean", "rework"}
        BY <2>3, OutcomeType
      <3> QED
        BY <1>2, <2>0, <2>3, <3>3, <3>4, BoundAssumption
           DEF JudgePlan, ToolFrame, TypeOK, Orderly, Quiet, turnVars, ledger
    <2> QED
      BY <1>2, <2>1, <2>2, <2>3 DEF JudgePlan
  <1>3. ASSUME NEW f \in File, CallEdit(f)
        PROVE  TypeInv'
    <2>1. /\ state' \in EntryStates /\ blames' \in Seq(Blames)
          /\ brokeAt' \in 0..MaxInvocations
      BY <1>0, <1>3, BreakType, CommitType DEF CallEdit
    <2> QED
      BY <1>3, <2>1 DEF CallEdit, ToolsRun, ToolFrame, TypeOK, Orderly, Quiet,
                        turnVars, ledger, log
  <1>4. ASSUME NEW f \in File, NEW ok \in BOOLEAN, EditReturns(f, ok)
        PROVE  TypeInv'
    <2>1. /\ state' \in EntryStates /\ blames' \in Seq(Blames)
          /\ brokeAt' \in 0..MaxInvocations
      BY <1>0, <1>4, NoteEditType, CommitType DEF EditReturns
    <2> QED
      BY <1>4, <2>1 DEF EditReturns, ToolFrame, TypeOK, Orderly, Quiet,
                        turnVars, ledger, log
  <1>5. ASSUME ShellWrites
        PROVE  TypeInv'
    <2>1. /\ state' \in EntryStates /\ blames' \in Seq(Blames)
          /\ brokeAt' \in 0..MaxInvocations
      BY <1>0, <1>5, BreakType, CommitType DEF ShellWrites
    <2> QED
      BY <1>5, <2>1 DEF ShellWrites, ToolFrame, TypeOK, Orderly, Quiet,
                        turnVars, ledger, tools, log
  <1> QED
    BY <1>1, <1>2, <1>3, <1>4, <1>5

(* A call of a lifecycle tool keeps the types.                             *)
LEMMA WorkCallType ==
  ASSUME TypeInv
  PROVE  /\ \A w \in Item, d \in Deliverables : HandOffContext(w, d) => TypeInv'
         /\ \A status \in {"done", "superseded"} : CompleteWork(status) => TypeInv'
         /\ \A d \in Deliverables : ReopenWork(d) => TypeInv'
  <1> USE DEF TypeInv
  <1>0. state \in EntryStates /\ served \in Model \union {None}
    BY DEF TypeOK
  <1>1. \A s \in EntryStates, w \in Item, d \in Deliverables :
          [s EXCEPT !.item = w, !.deliverable = d, !.status = "ready",
                    !.completion = None, !.priorCompletion = None] \in EntryStates
    BY DEF EntryStates
  <1>2. ASSUME NEW w \in Item, NEW d \in Deliverables, HandOffContext(w, d)
        PROVE  TypeInv'
    <2> DEFINE s == WithContinuedPenalties(state, w, RelationTo(w))
    <2>1. s \in EntryStates
      BY <1>0, ContinueType
    <2>2. state' \in EntryStates
      <3> HIDE DEF s
      <3> QED BY <1>1, <1>2, <2>1 DEF HandOffContext, s
    <2>3. blames' \in Seq(Blames)
      BY <1>2, PlacedType DEF HandOffContext
    <2> QED
      BY <1>2, <2>2, <2>3 DEF HandOffContext, Activate, ToolFrame, TypeOK,
         Orderly, Quiet, turnVars, tools, log
  <1>3. ASSUME NEW status \in {"done", "superseded"}, CompleteWork(status)
        PROVE  TypeInv'
    <2>1. active \in Item
      BY <1>3 DEF CompleteWork, TypeOK
    <2>2. state' \in EntryStates
      BY <1>0, <1>3, <2>1 DEF CompleteWork, EntryStates
    <2> QED
      BY <1>3, <2>1, <2>2 DEF CompleteWork, ToolFrame, TypeOK, Orderly, Quiet,
         turnVars, tools, log, blamed
  <1>4. ASSUME NEW d \in Deliverables, ReopenWork(d)
        PROVE  TypeInv'
    <2> DEFINE w == ReopenTarget
               s == WithContinuedPenalties(state, w, "reopen")
               c == Closed(s, served)
    <2>1. w \in Item
      BY <1>0, <1>4 DEF ReopenWork, ReopenTarget, EntryStates
    <2>2. s \in EntryStates
      BY <1>0, <2>1, ContinueType
    <2>3. c \in EntryStates
      <3> HIDE DEF s
      <3> QED BY <1>0, <2>2, ClosedType
    <2>4. state' \in EntryStates
      <3> HIDE DEF w
      <3> QED BY <1>1, <1>4, <2>1, <2>3 DEF ReopenWork, w
    <2>5. blames' \in Seq(Blames)
      BY <1>4, <2>1, PlacedType DEF ReopenWork
    <2>6. logged' \in Nat /\ outcome' \in {"none", "broken", "unfinished",
                                           "fixed", "clean", "rework"}
      BY <1>4, OutcomeType DEF ReopenWork
    <2>7. incumbent' \in [model : Model, item : Item \union {None}] \union {None}
      BY <1>4, <2>1 DEF ReopenWork, ToolsRun, TypeOK, Orderly
    <2>8. items' \in [Item -> {"new", "open", "done", "superseded"}]
            /\ active' \in Item \union {None}
      BY <1>4, <2>1 DEF ReopenWork, Activate, TypeOK
    <2> QED
      BY <1>4, <2>4, <2>5, <2>6, <2>7, <2>8
         DEF ReopenWork, ToolFrame, TypeOK, Orderly, Quiet, turnVars, tools
  <1> QED
    BY <1>2, <1>3, <1>4

(* Every step keeps the types.                                             *)
LEMMA TypeStep ==
  ASSUME TypeInv, [Next]_vars
  PROVE  TypeInv'
  <1>1. CASE Invocation
    BY <1>1, RoutingType, ServingType DEF Invocation
  <1>2. CASE ToolCall
    BY <1>2, PlanCallType, WorkCallType DEF ToolCall
  <1>3. CASE UNCHANGED vars
    BY <1>3 DEF vars, turnVars, ledger, tools, log, blamed, TypeInv, TypeOK,
                Orderly, Quiet
  <1> QED
    BY <1>1, <1>2, <1>3 DEF Next

(* Every reachable state has the types of the code's records, and every    *)
(* waiting submission has the model that made it on record.                *)
THEOREM TypeCorrect == Spec => []TypeInv
  BY InitType, TypeStep, PTL DEF Spec

(* The invariant the runs check.                                           *)
THEOREM TypeOKAlways == Spec => []TypeOK
  BY TypeCorrect, PTL DEF TypeInv

-----------------------------------------------------------------------------
(* The execution contract implements the outcome table.                    *)

(* A step that keeps the counters and evolves the plan is one of           *)
(* PlanLifecycle, or stutters there.                                       *)
LEMMA EvolvingStep ==
  ASSUME Evolves(state.contract, state'.contract),
         UNCHANGED <<accepted, logged, outcome>>
  PROVE  [Lifecycle!Next]_Lifecycle!vars
  <1> DEFINE c == state.contract
             d == state'.contract
  <1>1. CASE SamePlan(c, d)
    <2>1. Stage(d) = Stage(c) /\ Foreign(d) = Foreign(c) /\ Touched(d) = Touched(c)
      BY <1>1 DEF SamePlan, Foreign, Touched
    <2> QED
      BY <2>1 DEF Lifecycle!vars, Lifecycle!plan
  <1>2. CASE Attributes(c, d)
    <2>0. Touched(d) = Touched(c)
      BY <1>2 DEF Attributes, Touched
    <2>1. Lifecycle!Attribute
      BY <1>2, <2>0 DEF Attributes, Lifecycle!Attribute
    <2> QED
      BY <2>1 DEF Lifecycle!Next
  <1>3. CASE Progresses(c, d)
    <2>0. Touched(d) = Touched(c)
      BY <1>3 DEF Progresses, Touched
    <2>1. Lifecycle!Progress("broken") \/ Lifecycle!Progress("executed")
      BY <1>3, <2>0 DEF Progresses, Lifecycle!Progress
    <2> QED
      BY <2>1 DEF Lifecycle!Next
  <1>4. CASE Touches(c, d)
    <2>1. Lifecycle!Touch
      BY <1>4 DEF Touches, Lifecycle!Touch
    <2> QED
      BY <2>1 DEF Lifecycle!Next
  <1> QED
    BY <1>1, <1>2, <1>3, <1>4 DEF Evolves

(* Dropping the contract and logging how it stood is the end of a plan.    *)
LEMMA ClosingStep ==
  ASSUME state \in EntryStates, state'.contract = None, LogClose(state),
         UNCHANGED accepted
  PROVE  [Lifecycle!Next]_Lifecycle!vars
  <1>1. CASE state.contract = None
    BY <1>1 DEF LogClose, NoLog, Stage, Foreign, Touched, Lifecycle!vars,
                Lifecycle!plan
  <1>2. CASE state.contract # None
    <2>1. state.contract \in Contracts
      BY <1>2 DEF EntryStates
    <2>2. Lifecycle!End
      BY <1>2, <2>1 DEF Contracts, LogClose, LogOutcome, EntryEndOutcome,
         Stage, Foreign, Touched, Lifecycle!End, Lifecycle!LogOutcome,
         Lifecycle!EndOutcome
    <2> QED
      BY <2>2 DEF Lifecycle!Next
  <1> QED
    BY <1>1, <1>2

(* A judged submission breaks the active plan, is rejected, or opens a plan*)
(* in place of none, a broken, an executed or a reviewed one.              *)
LEMMA ReplaceStep ==
  ASSUME TypeInv, NEW measured \in BOOLEAN, JudgePlan(measured)
  PROVE  [Lifecycle!Next]_Lifecycle!vars
  <1> DEFINE known == submission.open /\ measured
             reviewed == state.contract # None /\ IsUnderReview(state.contract)
             base == IF reviewed THEN ReworkContract(state) ELSE state
             a == AcceptContract(base, submission.plan, served, known, accepted + 1)
  <1>0. state \in EntryStates /\ served \in Model \union {None}
    BY DEF TypeInv, TypeOK
  <1>1. CASE Commit(BreakContract(state, served, "replan")) /\ UNCHANGED log
    BY <1>0, <1>1, BreakEvolves, EvolvingStep DEF Commit, Evolves, log
  <1>2. CASE UNCHANGED <<state, log>>
    BY <1>2, EvolvingStep DEF Evolves, SamePlan, log
  <1>3. CASE /\ ~Has(state, "active") /\ Commit(a) /\ accepted' = accepted + 1
             /\ IF reviewed THEN LogOutcome("rework") ELSE LogClose(state)
    <2> DEFINE c == state.contract
               d == state'.contract
    <2>1. /\ submission.plan \in Plans /\ submission.open \in BOOLEAN
          /\ served \in Model /\ accepted + 1 \in 1..MaxPlans
      BY BoundAssumption DEF TypeInv, JudgePlan, TypeOK, Orderly, Quiet
    <2>2. base \in EntryStates
      BY <1>0, ReworkType
    <2>4. d \in Contracts /\ d.status = "active" /\ d.executor = None
            /\ d.reviewEdited = FALSE
      <3>1. /\ a.contract \in Contracts /\ a.contract.status = "active"
            /\ a.contract.executor = None /\ a.contract.reviewEdited = FALSE
        <4> HIDE DEF base
        <4> QED BY <2>1, <2>2, AcceptType
      <3> QED
        BY <1>3, <3>1 DEF Commit
    <2>5. Stage(d) = "active" /\ ~Foreign(d) /\ ~Touched(d)
      BY <2>4, NoneAssumption DEF Stage, Foreign, Touched
    <2>6. CASE c = None
      <3>1. Lifecycle!Open
        BY <1>3, <2>5, <2>6 DEF LogClose, NoLog, Stage, Lifecycle!Open,
           Lifecycle!FreshPlan
      <3> QED
        BY <3>1 DEF Lifecycle!Next
    <2>7. CASE c # None
      <3>1. c \in Contracts /\ c.status \in {"broken", "executed"}
        BY <1>0, <1>3, <2>7 DEF Has, EntryStates, Contracts
      <3>2. Stage(c) = c.status /\ (Foreign(c) <=> c.executor # None)
              /\ (Touched(c) <=> c.reviewEdited)
        BY <2>7 DEF Stage, Foreign, Touched
      <3>3. logged' = logged + 1
        BY <1>3, <2>7 DEF LogOutcome, LogClose
      <3>4. CASE reviewed
        <4>1. c.status = "executed" /\ c.executor # None
          BY <3>4 DEF IsUnderReview
        <4>2. Lifecycle!Replace
          BY <1>3, <2>5, <3>2, <3>3, <3>4, <4>1
             DEF LogOutcome, Lifecycle!Replace, Lifecycle!FreshPlan,
                 Lifecycle!LogOutcome
        <4> QED
          BY <4>2 DEF Lifecycle!Next
      <3>5. CASE ~reviewed
        <4>1. outcome' = EntryEndOutcome(c)
          BY <1>3, <2>7, <3>5 DEF LogClose, LogOutcome
        <4>2. ~(c.status = "executed" /\ c.executor # None)
          BY <2>7, <3>1, <3>5 DEF IsUnderReview, Contracts
        <4>3. Lifecycle!EndOutcome = EntryEndOutcome(c)
          BY <3>1, <3>2 DEF Lifecycle!EndOutcome, EntryEndOutcome
        <4>4. Lifecycle!Replace
          BY <1>3, <2>5, <3>1, <3>2, <3>3, <4>1, <4>2, <4>3
             DEF Lifecycle!Replace, Lifecycle!FreshPlan, Lifecycle!LogOutcome
        <4> QED
          BY <4>4 DEF Lifecycle!Next
      <3> QED
        BY <3>4, <3>5
    <2> QED
      BY <2>6, <2>7
  <1> QED
    BY <1>1, <1>2, <1>3 DEF JudgePlan

(* Every step of an invocation is a step of PlanLifecycle, or stutters.    *)
LEMMA InvocationStep ==
  ASSUME TypeInv, Invocation
  PROVE  [Lifecycle!Next]_Lifecycle!vars
  <1>0. state \in EntryStates /\ served \in Model \union {None}
          /\ Rotated \in Model \union {None}
    BY DEF TypeInv, TypeOK, Rotated
  <1>1. ASSUME NEW pool \in Pools, NEW struggled \in BOOLEAN,
               RouteAgain(pool, struggled)
        PROVE  [Lifecycle!Next]_Lifecycle!vars
    <2> DEFINE s == SettleExecution(state, Rotated, struggled)
    <2>1. s \in EntryStates /\ Evolves(state.contract, s.contract)
      BY <1>0, SettleExecutionEvolves
    <2>2. state'.contract = s.contract
      <3> HIDE DEF s
      <3> QED BY <1>1, <2>1 DEF RouteAgain, Commit, EntryStates, s
    <2> QED
      BY <1>1, <2>1, <2>2, EvolvingStep DEF RouteAgain, log
  <1>2. ASSUME NEW pool \in Pools, NEW d \in Deliverables, RouteNewEntry(pool, d)
        PROVE  [Lifecycle!Next]_Lifecycle!vars
    BY <1>0, <1>2, ClosingStep DEF RouteNewEntry, FreshEntry
  <1>3. ASSUME NEW qualified \in BOOLEAN, Settle(qualified)
        PROVE  [Lifecycle!Next]_Lifecycle!vars
    <2>1. CASE HandsBack(state)
      <3>1. state'.contract = None
        BY <1>0, <1>3, <2>1 DEF Settle, EntryStates
      <3>2. LogClose(state) /\ UNCHANGED accepted
        BY <1>3, <2>1 DEF Settle, HandsBack, LogClose, EntryEndOutcome, TypeInv,
           Orderly
      <3> QED
        BY <1>0, <3>1, <3>2, ClosingStep
    <2>2. CASE ~HandsBack(state)
      <3>1. state'.contract = state.contract
        BY <1>0, <1>3, <2>2 DEF Settle, EntryStates
      <3> QED
        BY <1>3, <2>2, <3>1, EvolvingStep
           DEF Settle, NoLog, Evolves, SamePlan
    <2> QED
      BY <2>1, <2>2
  <1>4. ASSUME EntrySettles
        PROVE  [Lifecycle!Next]_Lifecycle!vars
    BY <1>0, <1>4, ClosedType, ClosingStep DEF EntrySettles
  <1>5. ASSUME UNCHANGED <<state, log>>
        PROVE  [Lifecycle!Next]_Lifecycle!vars
    BY <1>5, EvolvingStep DEF Evolves, SamePlan, log
  <1> QED
    BY <1>1, <1>2, <1>3, <1>4, <1>5 DEF Invocation, Serve, InvocationFails

(* Every tool call is a step of PlanLifecycle, or stutters.                *)
LEMMA ToolCallStep ==
  ASSUME TypeInv, ToolCall
  PROVE  [Lifecycle!Next]_Lifecycle!vars
  <1>0. state \in EntryStates /\ served \in Model \union {None}
    BY DEF TypeInv, TypeOK
  <1>1. ASSUME UNCHANGED log, state'.contract = state.contract
        PROVE  [Lifecycle!Next]_Lifecycle!vars
    BY <1>1, EvolvingStep DEF Evolves, SamePlan, log
  <1>2. ASSUME UNCHANGED log, NEW reason,
               Commit(BreakContract(state, served, reason)) \/ Commit(state)
        PROVE  [Lifecycle!Next]_Lifecycle!vars
    BY <1>0, <1>2, BreakEvolves, EvolvingStep DEF Commit, Evolves, SamePlan, log
  <1>3. ASSUME NEW f \in File, NEW ok \in BOOLEAN, EditReturns(f, ok)
        PROVE  [Lifecycle!Next]_Lifecycle!vars
    BY <1>0, <1>3, NoteEditEvolves, EvolvingStep
       DEF EditReturns, Commit, Evolves, SamePlan, log
  <1>4. ASSUME NEW w \in Item, NEW d \in Deliverables, HandOffContext(w, d)
        PROVE  [Lifecycle!Next]_Lifecycle!vars
    <2>1. state'.contract = state.contract
      BY <1>0, <1>4, ContinueType DEF HandOffContext, EntryStates
    <2> QED
      BY <1>1, <1>4, <2>1 DEF HandOffContext
  <1>5. ASSUME NEW status \in {"done", "superseded"}, CompleteWork(status)
        PROVE  [Lifecycle!Next]_Lifecycle!vars
    <2>1. state'.contract = state.contract
      BY <1>0, <1>5 DEF CompleteWork, EntryStates
    <2> QED
      BY <1>1, <1>5, <2>1 DEF CompleteWork
  <1>6. ASSUME NEW d \in Deliverables, ReopenWork(d)
        PROVE  [Lifecycle!Next]_Lifecycle!vars
    <2> DEFINE s == WithContinuedPenalties(state, ReopenTarget, "reopen")
               c == Closed(s, served)
    <2>1. ReopenTarget \in Item
      BY <1>0, <1>6 DEF ReopenWork, ReopenTarget, EntryStates
    <2>2. c \in EntryStates /\ c.contract = None
      BY <1>0, <2>1, ContinueType, ClosedType
    <2>3. state'.contract = None
      <3> HIDE DEF c
      <3>1. state' = [c EXCEPT !.item = ReopenTarget, !.deliverable = d,
                      !.status = "ready", !.completion = None,
                      !.priorCompletion = None]
        BY <1>6 DEF ReopenWork, c
      <3> QED BY <2>2, <3>1 DEF EntryStates
    <2> QED
      BY <1>0, <1>6, <2>3, ClosingStep DEF ReopenWork
  <1> QED
    BY <1>1, <1>2, <1>3, <1>4, <1>5, <1>6, ReplaceStep
       DEF ToolCall, SubmitPlan, CallEdit, ShellWrites

(* The handlers implement the outcome table: whatever the order of         *)
(* invocations, tool calls and their late results, a plan is opened once,  *)
(* leaves "active" once, and ends with exactly one fitting outcome.        *)
THEOREM Refinement == Spec => LifecycleSpec
  <1>1. Init => Lifecycle!Init
    BY DEF Init, FreshEntry, Stage, Foreign, Touched, Lifecycle!Init,
           Lifecycle!NoPlan
  <1>2. TypeInv /\ [Next]_vars => [Lifecycle!Next]_Lifecycle!vars
    <2> SUFFICES ASSUME TypeInv, [Next]_vars
                 PROVE  [Lifecycle!Next]_Lifecycle!vars
      OBVIOUS
    <2>1. CASE UNCHANGED vars
      BY <2>1, EvolvingStep DEF vars, log, Evolves, SamePlan
    <2> QED
      BY <2>1, InvocationStep, ToolCallStep DEF Next
  <1> QED
    BY <1>1, <1>2, TypeCorrect, PTL DEF Spec, LifecycleSpec, Lifecycle!Spec
=============================================================================
