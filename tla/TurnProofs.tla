----------------------------- MODULE TurnProofs -----------------------------
(***************************************************************************)
(* Theorems about the routed turns of a session: whom the struggle         *)
(* evidence is about, and what an escalation waits for.                    *)
(***************************************************************************)
EXTENDS SessionTurns, FiniteSetTheorems, SequenceTheorems, WellFoundedInduction, TLAPS

-----------------------------------------------------------------------------
(* Induction over numbers.                                                 *)

LEMMA LeastNumber ==
  ASSUME NEW S, S \subseteq Nat, S # {}
  PROVE  \E n \in S : \A m \in S : n <= m
  <1> DEFINE R == {ss \in Nat \X Nat : ss[1] < ss[2]}
  <1>1. IsWellFoundedOn(OpToRel(<, Nat), Nat) /\ OpToRel(<, Nat) = R
    BY NatLessThanWellFounded DEF OpToRel
  <1>2. IsWellFoundedOn(R, Nat)
    BY <1>1
  <1> HIDE DEF R
  <1>3. PICK n \in S : \A m \in S : ~(<<m, n>> \in R)
    BY <1>2, WFMin
  <1>4. \A m \in S : ~(m < n)
    BY <1>3 DEF R
  <1> QED
    BY <1>4

LEMMA UpToNumber ==
  ASSUME NEW L \in Nat, NEW S, \A n \in 0..L : (\A m \in 0..(n - 1) : m \in S) => n \in S
  PROVE  0..L \subseteq S
  <1> SUFFICES ASSUME ~(0..L \subseteq S) PROVE FALSE
    OBVIOUS
  <1>1. PICK n \in (0..L) \ S : \A m \in (0..L) \ S : n <= m
    <2>1. (0..L) \ S \subseteq Nat /\ (0..L) \ S # {}
      OBVIOUS
    <2> QED
      BY <2>1, LeastNumber
  <1> QED
    BY <1>1


(* The largest number of a bounded set.                                    *)
LEMMA MaxOf ==
  ASSUME NEW L \in Nat, NEW S, S \subseteq 0..L, S # {}
  PROVE  Max(S) \in S /\ \A n \in S : n <= Max(S)
  <1> DEFINE Above == {n \in 0..L : \A m \in S : m <= n}
  <1>0. Above \subseteq Nat /\ L \in Above
    OBVIOUS
  <1>1. PICK b \in Above : \A c \in Above : b <= c
    <2> HIDE DEF Above
    <2> QED
      BY <1>0, LeastNumber
  <1>2. b \in 0..L /\ \A m \in S : m \in 0..L /\ m <= b
    BY <1>1
  <1>3. b \in S
    <2>1. CASE b = 0
      <3>1. PICK m : m \in S
        OBVIOUS
      <3> QED
        BY <3>1, <2>1, <1>2
    <2>2. CASE b # 0 /\ b \notin S
      <3>1. b - 1 \in 0..L /\ \A m \in S : m <= b - 1
        BY <2>2, <1>2
      <3>2. b - 1 \in Above
        BY <3>1
      <3> QED
        BY <3>2, <1>1, <1>2
    <2> QED
      BY <2>1, <2>2
  <1> QED
    BY <1>2, <1>3 DEF Max

LEMMA UpToIsFinite ==
  \A n \in Nat : IsFiniteSet(1..n) /\ Cardinality(1..n) = n
  <1> SUFFICES ASSUME NEW n \in Nat PROVE IsFiniteSet(1..n) /\ Cardinality(1..n) = n
    OBVIOUS
  <1>1. 1 \in Int /\ n \in Int
    OBVIOUS
  <1>2. IsFiniteSet(1..n) /\ Cardinality(1..n) = IF 1 > n THEN 0 ELSE n - 1 + 1
    BY <1>1, FS_Interval
  <1> QED
    BY <1>2

-----------------------------------------------------------------------------
(* A sequence, whatever its elements are.                                  *)
IsSequence(s) == Len(s) \in Nat /\ DOMAIN s = 1..Len(s) /\ s = [i \in 1..Len(s) |-> s[i]]

LEMMA SequenceOf ==
  ASSUME NEW s, IsSequence(s), NEW T, \A i \in 1..Len(s) : s[i] \in T
  PROVE  s \in Seq(T)
  <1>1. s \in [1..Len(s) -> T]
    BY DEF IsSequence
  <1> QED
    BY <1>1, SeqDef DEF IsSequence

LEMMA IsSequenceOf ==
  ASSUME NEW T, NEW s \in Seq(T)
  PROVE  IsSequence(s)
  BY LenProperties DEF IsSequence

LEMMA Appended ==
  ASSUME NEW s, IsSequence(s), NEW e
  PROVE  /\ IsSequence(Append(s, e))
         /\ Len(Append(s, e)) = Len(s) + 1
         /\ \A i \in 1..Len(s) : Append(s, e)[i] = s[i]
         /\ Append(s, e)[Len(s) + 1] = e
  <1> DEFINE T == {s[i] : i \in 1..Len(s)} \union {e}
  <1>1. s \in Seq(T) /\ e \in T
    BY SequenceOf
  <1>2. /\ Append(s, e) \in Seq(T)
        /\ Len(Append(s, e)) = Len(s) + 1
        /\ \A i \in 1..Len(s) : Append(s, e)[i] = s[i]
        /\ Append(s, e)[Len(s) + 1] = e
    BY <1>1, AppendProperties
  <1> QED
    BY <1>2, IsSequenceOf

LEMMA WithoutHead ==
  ASSUME NEW s, IsSequence(s), s # <<>>
  PROVE  /\ IsSequence(Tail(s)) /\ Len(Tail(s)) = Len(s) - 1
         /\ \A i \in 1..Len(Tail(s)) : Tail(s)[i] = s[i + 1]
  <1> DEFINE T == {s[i] : i \in 1..Len(s)}
  <1>1. s \in Seq(T)
    BY SequenceOf
  <1>2. Tail(s) \in Seq(T) /\ Len(Tail(s)) = Len(s) - 1
        /\ \A i \in 1..Len(Tail(s)) : Tail(s)[i] = s[i + 1]
    BY <1>1, HeadTailProperties
  <1> QED
    BY <1>2, IsSequenceOf

-----------------------------------------------------------------------------
(* The struggle evidence: one result, and a batch.                         *)
TrajFields ==
  {"intent", "owner", "recovered", "cycles", "frontier", "failures", "lastMutation", "mutations",
   "gross", "files", "trusted", "stagnation", "pending", "fingerprint", "calls", "results", "done",
   "unserved"}

TrajOK(t) ==
  /\ DOMAIN t = TrajFields
  /\ IsSequence(t.cycles) /\ t.stagnation \in Nat /\ t.mutations \in Nat
  /\ \A k \in DOMAIN t.failures : t.failures[k].corrections \in Nat
  /\ IsSequence(t.calls) /\ DOMAIN t.results \subseteq Range(t.calls)

\* What applying a result leaves alone.
SameOwner(t, u) ==
  /\ u.owner = t.owner /\ u.pending = t.pending /\ u.recovered = t.recovered
  /\ u.intent = t.intent /\ u.unserved = t.unserved
SameBatch(t, u) == u.calls = t.calls /\ u.results = t.results /\ u.done = t.done

\* Every detector's count is at most n, the number of results applied.
Bounded(t, n) ==
  /\ Len(t.cycles) <= n /\ t.stagnation <= n /\ t.mutations <= n
  /\ \A k \in DOMAIN t.failures : t.failures[k].corrections + 1 <= n

LEMMA TrackKeeps ==
  ASSUME NEW t, TrajOK(t), NEW e
  PROVE  LET u == TrackFileSnapshot(t, e)
         IN /\ TrajOK(u) /\ SameOwner(t, u) /\ SameBatch(t, u)
            /\ u.cycles = t.cycles /\ u.failures = t.failures /\ u.stagnation = t.stagnation
            /\ u.mutations = t.mutations
  BY DEF TrackFileSnapshot, TrajOK, SameOwner, SameBatch, TrajFields

LEMMA DisplacementKeeps ==
  ASSUME NEW t, TrajOK(t), NEW e
  PROVE  LET u == ApplyMutationDisplacement(t, e)
         IN /\ TrajOK(u) /\ SameOwner(t, u) /\ SameBatch(t, u)
            /\ u.cycles = t.cycles /\ u.failures = t.failures /\ u.stagnation = t.stagnation
            /\ u.mutations = t.mutations
  BY DEF ApplyMutationDisplacement, TrajOK, SameOwner, SameBatch, TrajFields

LEMMA FailuresKeep ==
  ASSUME NEW t, TrajOK(t), NEW e, NEW invocation
  PROVE  LET u == UpdateFailures(t, e, invocation)
         IN /\ TrajOK(u) /\ SameOwner(t, u) /\ SameBatch(t, u)
            /\ u.cycles = t.cycles /\ u.stagnation = t.stagnation /\ u.mutations = t.mutations
            /\ \A n \in Nat : Bounded(t, n) => Bounded(u, n + 1)
  <1> DEFINE u == UpdateFailures(t, e, invocation)
             Counted(k) == \/ k \in DOMAIN t.failures /\ u.failures[k] = t.failures[k]
                           \/ u.failures[k].corrections = 0
                           \/ /\ k \in DOMAIN t.failures
                              /\ u.failures[k].corrections \in {t.failures[k].corrections,
                                                              t.failures[k].corrections + 1}
  <1>1. /\ DOMAIN u = TrajFields /\ SameOwner(t, u) /\ SameBatch(t, u)
        /\ u.cycles = t.cycles /\ u.stagnation = t.stagnation /\ u.mutations = t.mutations
    BY DEF UpdateFailures, TrajOK, SameOwner, SameBatch, TrajFields
  <1>2. \A k \in DOMAIN u.failures : Counted(k)
    <2> DEFINE kept == Restrict(t.failures, DOMAIN t.failures \ {e.action})
    <2>1. DOMAIN kept = DOMAIN t.failures \ {e.action} /\ \A k \in DOMAIN kept : kept[k] = t.failures[k]
      BY DEF Restrict
    <2>2. \/ u.failures = kept \/ u.failures = t.failures
          \/ \E r : /\ u.failures = With(kept, e.action, r)
                   /\ \/ r.corrections = 0
                      \/ /\ e.action \in DOMAIN t.failures
                         /\ r.corrections \in {t.failures[e.action].corrections,
                                              t.failures[e.action].corrections + 1}
      BY DEF UpdateFailures, TrajOK, TrajFields
    <2> HIDE DEF kept, u
    <2>3. ASSUME NEW r, NEW k, u.failures = With(kept, e.action, r), k \in DOMAIN u.failures
          PROVE  IF k = e.action THEN u.failures[k] = r ELSE k \in DOMAIN kept /\ u.failures[k] = kept[k]
      BY <2>1, <2>3 DEF With
    <2> QED
      BY <2>1, <2>2, <2>3
  <1> HIDE DEF u
  <1>3. \A k \in DOMAIN u.failures : u.failures[k].corrections \in Nat
    BY <1>2 DEF TrajOK
  <1>4. TrajOK(u)
    BY <1>1, <1>3 DEF TrajOK, SameBatch
  <1>5. ASSUME NEW n \in Nat, Bounded(t, n) PROVE Bounded(u, n + 1)
    <2>1. /\ Len(t.cycles) \in Nat /\ t.stagnation \in Nat /\ t.mutations \in Nat
          /\ \A k \in DOMAIN t.failures : t.failures[k].corrections \in Nat
      BY DEF TrajOK, IsSequence
    <2>2. /\ Len(t.cycles) <= n /\ t.stagnation <= n /\ t.mutations <= n
          /\ \A k \in DOMAIN t.failures : t.failures[k].corrections + 1 <= n
      BY <1>5 DEF Bounded
    <2>3. Len(u.cycles) <= n + 1 /\ u.stagnation <= n + 1 /\ u.mutations <= n + 1
      BY <1>1, <2>1, <2>2
    <2>4. ASSUME NEW k \in DOMAIN u.failures PROVE u.failures[k].corrections + 1 <= n + 1
      <3>1. Counted(k)
        BY <1>2
      <3>2. CASE k \in DOMAIN t.failures /\ u.failures[k] = t.failures[k]
        BY <3>2, <2>1, <2>2
      <3>3. CASE u.failures[k].corrections = 0
        BY <3>3
      <3>4. CASE /\ k \in DOMAIN t.failures
                 /\ u.failures[k].corrections \in {t.failures[k].corrections,
                                                 t.failures[k].corrections + 1}
        BY <3>4, <2>1, <2>2
      <3> QED
        BY <3>1, <3>2, <3>3, <3>4
    <2> QED
      BY <2>3, <2>4 DEF Bounded
  <1> QED
    BY <1>1, <1>4, <1>5 DEF u

(* One result: it adds to each count at most one, and its model to the cycles. *)
LEMMA CycleKeeps ==
  ASSUME NEW t, TrajOK(t), NEW e, NEW invocation
  PROVE  LET u == ApplyCycle(t, e, invocation)
         IN /\ TrajOK(u) /\ SameOwner(t, u) /\ SameBatch(t, u)
            /\ \A i \in DOMAIN u.cycles : \/ u.cycles[i].by = e.by
                                          \/ \E j \in DOMAIN t.cycles : u.cycles[i] = t.cycles[j]
            /\ \A n \in Nat : Bounded(t, n) => Bounded(u, n + 1)
  <1> DEFINE u == ApplyCycle(t, e, invocation)
             t1 == TrackFileSnapshot(t, e)
             progress == ClassifyProgress(t1, e)
             counted == [t1 EXCEPT !.mutations = @ + 1, !.lastMutation = invocation]
             t2 == IF e.family = "mutation" /\ ~e.error
                   THEN ApplyMutationDisplacement(counted, e) ELSE t1
             t3 == IF e.family = "verifier" THEN UpdateFailures(t2, e, invocation) ELSE t2
             cycle == [action |-> e.action, obs |-> e.obs, verified |-> e.verified,
                       progress |-> progress, by |-> e.by]
             cycles == Append(t3.cycles, cycle)
  <1>1. TrajOK(t1) /\ SameOwner(t, t1) /\ SameBatch(t, t1) /\ t1.cycles = t.cycles
        /\ t1.failures = t.failures /\ t1.stagnation = t.stagnation /\ t1.mutations = t.mutations
    BY TrackKeeps
  <1>2. TrajOK(counted) /\ SameOwner(t1, counted) /\ SameBatch(t1, counted)
        /\ counted.cycles = t1.cycles /\ counted.failures = t1.failures
        /\ counted.stagnation = t1.stagnation /\ counted.mutations = t1.mutations + 1
    <2> HIDE DEF t1
    <2> QED
      BY <1>1 DEF TrajOK, TrajFields, SameOwner, SameBatch
  <1>3. TrajOK(t2) /\ SameOwner(t, t2) /\ SameBatch(t, t2) /\ t2.cycles = t.cycles
        /\ t2.failures = t.failures /\ t2.stagnation = t.stagnation
        /\ t2.mutations \in {t.mutations, t.mutations + 1}
    <2>1. LET v == ApplyMutationDisplacement(counted, e)
          IN /\ TrajOK(v) /\ SameOwner(counted, v) /\ SameBatch(counted, v)
             /\ v.cycles = counted.cycles /\ v.failures = counted.failures
             /\ v.stagnation = counted.stagnation /\ v.mutations = counted.mutations
      <3> HIDE DEF counted
      <3> QED
        BY <1>2, DisplacementKeeps
    <2> HIDE DEF counted, t1
    <2> QED
      BY <2>1, <1>1, <1>2 DEF SameOwner, SameBatch
  <1>4. /\ TrajOK(t3) /\ SameOwner(t, t3) /\ SameBatch(t, t3)
        /\ t3.cycles = t.cycles /\ t3.stagnation = t.stagnation
        /\ t3.mutations \in {t.mutations, t.mutations + 1}
        /\ \A n \in Nat : Bounded(t, n) =>
             \A k \in DOMAIN t3.failures : t3.failures[k].corrections + 1 <= n + 1
    <2>1. CASE e.family = "verifier"
      <3>1. LET v == UpdateFailures(t2, e, invocation)
            IN /\ TrajOK(v) /\ SameOwner(t2, v) /\ SameBatch(t2, v)
               /\ v.cycles = t2.cycles /\ v.stagnation = t2.stagnation /\ v.mutations = t2.mutations
               /\ \A n \in Nat : Bounded(t2, n) => Bounded(v, n + 1)
        <4> HIDE DEF t2
        <4> QED
          BY <1>3, FailuresKeep
      <3>2. t2 = t1
        BY <2>1
      <3>3. \A n \in Nat : Bounded(t, n) => Bounded(t2, n)
        <4> HIDE DEF t1, t2
        <4> QED
          BY <3>2, <1>1 DEF Bounded
      <3> HIDE DEF t2
      <3> QED
        BY <2>1, <3>1, <3>3, <1>3 DEF SameOwner, SameBatch, Bounded
    <2>2. CASE e.family # "verifier"
      <3>1. t3 = t2
        BY <2>2
      <3> HIDE DEF t2, t3
      <3> QED
        BY <3>1, <1>3 DEF TrajOK, Bounded
    <2> QED
      BY <2>1, <2>2
  <1>5. u = [t3 EXCEPT
              !.stagnation = IF progress = "progress" THEN 0
                             ELSE IF progress = "none" THEN @ + 1 ELSE @,
              !.frontier = IF progress = "progress" \/ (progress = "unknown" /\ Looks(e))
                           THEN @ \cup {Evidence(e)} ELSE @,
              !.cycles = IF Len(cycles) > MaxCycles THEN Tail(cycles) ELSE cycles]
    BY DEF ApplyCycle
  <1> HIDE DEF t1, t2, t3, progress, counted, u
  <1>6. /\ IsSequence(cycles) /\ Len(cycles) = Len(t.cycles) + 1
        /\ \A i \in 1..Len(t.cycles) : cycles[i] = t.cycles[i]
        /\ cycles[Len(t.cycles) + 1] = cycle
    <2> HIDE DEF cycle
    <2> QED
      BY <1>4, Appended DEF TrajOK
  <1>7. cycle.by = e.by
    OBVIOUS
  <1> HIDE DEF cycles, cycle
  <1>8. /\ IsSequence(u.cycles) /\ Len(u.cycles) <= Len(t.cycles) + 1
        /\ \A i \in DOMAIN u.cycles : \E j \in DOMAIN cycles : u.cycles[i] = cycles[j]
    <2>1. u.cycles = IF Len(cycles) > MaxCycles THEN Tail(cycles) ELSE cycles
      BY <1>4, <1>5 DEF TrajOK, TrajFields
    <2>2. CASE Len(cycles) > MaxCycles
      <3>1. cycles # <<>>
        BY <2>2, <1>6 DEF MaxCycles, IsSequence
      <3>2. IsSequence(Tail(cycles)) /\ Len(Tail(cycles)) = Len(cycles) - 1
            /\ \A i \in 1..Len(Tail(cycles)) : Tail(cycles)[i] = cycles[i + 1]
        BY <3>1, <1>6, WithoutHead
      <3>3. u.cycles = Tail(cycles)
        BY <2>1, <2>2
      <3>4. DOMAIN Tail(cycles) = 1..Len(Tail(cycles)) /\ DOMAIN cycles = 1..Len(cycles)
            /\ Len(cycles) \in Nat /\ Len(t.cycles) \in Nat
        BY <3>2, <1>6 DEF IsSequence, TrajOK
      <3>5. \A i \in DOMAIN Tail(cycles) : i + 1 \in DOMAIN cycles /\ Tail(cycles)[i] = cycles[i + 1]
        BY <3>2, <3>4
      <3> QED
        BY <3>2, <3>3, <3>4, <3>5, <1>6
    <2>3. CASE ~(Len(cycles) > MaxCycles)
      <3>1. u.cycles = cycles
        BY <2>1, <2>3
      <3> QED
        BY <3>1, <1>6 DEF IsSequence, TrajOK
    <2> QED
      BY <2>2, <2>3
  <1>9. /\ DOMAIN u = TrajFields /\ SameOwner(t, u) /\ SameBatch(t, u)
        /\ u.mutations = t3.mutations /\ u.failures = t3.failures
        /\ u.stagnation \in {0, t.stagnation, t.stagnation + 1}
    BY <1>4, <1>5 DEF TrajOK, TrajFields, SameOwner, SameBatch
  <1>10. TrajOK(u)
    BY <1>4, <1>8, <1>9 DEF TrajOK, SameBatch
  <1>11. \A i \in DOMAIN u.cycles : \/ u.cycles[i].by = e.by
                                    \/ \E j \in DOMAIN t.cycles : u.cycles[i] = t.cycles[j]
    <2> SUFFICES ASSUME NEW i \in DOMAIN u.cycles
                 PROVE  \/ u.cycles[i].by = e.by
                        \/ \E j \in DOMAIN t.cycles : u.cycles[i] = t.cycles[j]
      OBVIOUS
    <2>1. PICK j \in DOMAIN cycles : u.cycles[i] = cycles[j]
      BY <1>8
    <2>2. j \in 1..(Len(t.cycles) + 1) /\ Len(t.cycles) \in Nat /\ DOMAIN t.cycles = 1..Len(t.cycles)
      BY <2>1, <1>6 DEF IsSequence, TrajOK
    <2>3. CASE j = Len(t.cycles) + 1
      BY <2>1, <2>3, <1>6, <1>7
    <2>4. CASE j \in 1..Len(t.cycles)
      BY <2>1, <2>2, <2>4, <1>6
    <2> QED
      BY <2>2, <2>3, <2>4
  <1>12. ASSUME NEW n \in Nat, Bounded(t, n) PROVE Bounded(u, n + 1)
    <2>1. Len(t.cycles) \in Nat /\ Len(u.cycles) \in Nat /\ Len(t.cycles) <= n
      BY <1>8, <1>12 DEF Bounded, TrajOK, IsSequence
    <2>2. Len(u.cycles) <= n + 1
      BY <2>1, <1>8
    <2>3. t.stagnation \in Nat /\ t.mutations \in Nat /\ t.stagnation <= n /\ t.mutations <= n
      BY <1>12 DEF Bounded, TrajOK
    <2>4. u.stagnation <= n + 1 /\ u.mutations <= n + 1
      BY <2>3, <1>4, <1>9
    <2>5. \A k \in DOMAIN u.failures : u.failures[k].corrections + 1 <= n + 1
      BY <1>12, <1>4, <1>9
    <2> QED
      BY <2>2, <2>4, <2>5 DEF Bounded
  <1> QED
    BY <1>9, <1>10, <1>11, <1>12 DEF u

(* The states of a batch, as its results are applied in call order.        *)
AppliedTo(t, invocation, before, n) ==
  IF t.calls[n] \in DOMAIN t.results THEN ApplyCycle(before, t.results[t.calls[n]], invocation)
  ELSE before
BatchUpTo(t, invocation, f, m) ==
  f = [n \in 0..m |-> IF n = 0 THEN t ELSE AppliedTo(t, invocation, f[n - 1], n)]

LEMMA BatchExists ==
  ASSUME NEW t, NEW invocation, NEW L \in Nat
  PROVE  \A m \in 0..L : \E f : BatchUpTo(t, invocation, f, m)
  <1> DEFINE S == {m \in 0..L : \E f : BatchUpTo(t, invocation, f, m)}
  <1>1. ASSUME NEW m \in 0..L, \A k \in 0..(m - 1) : k \in S
        PROVE  \E f : BatchUpTo(t, invocation, f, m)
    <2>1. CASE m = 0
      <3>1. BatchUpTo(t, invocation, [n \in 0..0 |-> t], 0)
        BY DEF BatchUpTo
      <3> QED
        BY <3>1, <2>1
    <2>2. CASE m # 0
      <3>1. PICK g : BatchUpTo(t, invocation, g, m - 1)
        BY <2>2, <1>1
      <3> DEFINE f == [n \in 0..m |-> IF n = m THEN AppliedTo(t, invocation, g[m - 1], m) ELSE g[n]]
      <3>2. \A n \in 0..(m - 1) :
              g[n] = IF n = 0 THEN t ELSE AppliedTo(t, invocation, g[n - 1], n)
        BY <3>1 DEF BatchUpTo
      <3>3. ASSUME NEW n \in 0..m
            PROVE  f[n] = IF n = 0 THEN t ELSE AppliedTo(t, invocation, f[n - 1], n)
        BY <2>2, <3>2
      <3>4. f = [n \in 0..m |-> IF n = 0 THEN t ELSE AppliedTo(t, invocation, f[n - 1], n)]
        BY <3>3
      <3>5. BatchUpTo(t, invocation, f, m)
        BY <3>4 DEF BatchUpTo
      <3> QED
        BY <3>5
    <2> QED
      BY <2>1, <2>2
  <1>2. \A m \in 0..L : (\A k \in 0..(m - 1) : k \in S) => m \in S
    BY <1>1
  <1>3. 0..L \subseteq S
    <2> HIDE DEF S
    <2> QED
      BY <1>2, UpToNumber
  <1> QED
    BY <1>3

BatchTrace(t, invocation, after) ==
  /\ FlushBatch(t, invocation) =
       [after[Len(t.calls)] EXCEPT !.calls = <<>>, !.results = <<>>, !.done = @ \cup DOMAIN t.results]
  /\ after[0] = t
  /\ \A n \in 1..Len(t.calls) : after[n] = AppliedTo(t, invocation, after[n - 1], n)

LEMMA BatchSteps ==
  ASSUME NEW t, NEW invocation, Len(t.calls) \in Nat
  PROVE  \E after : BatchTrace(t, invocation, after)
  <1> DEFINE after == CHOOSE f : BatchUpTo(t, invocation, f, Len(t.calls))
  <1>1. BatchUpTo(t, invocation, after, Len(t.calls))
    <2>1. Len(t.calls) \in 0..Len(t.calls)
      OBVIOUS
    <2>2. \E f : BatchUpTo(t, invocation, f, Len(t.calls))
      BY <2>1, BatchExists, Zenon
    <2> QED
      BY <2>2, Zenon
  <1>2. FlushBatch(t, invocation) =
          [after[Len(t.calls)] EXCEPT !.calls = <<>>, !.results = <<>>, !.done = @ \cup DOMAIN t.results]
    BY DEF FlushBatch, BatchUpTo, AppliedTo
  <1> HIDE DEF after
  <1>3. \A n \in 0..Len(t.calls) :
          after[n] = IF n = 0 THEN t ELSE AppliedTo(t, invocation, after[n - 1], n)
    BY <1>1 DEF BatchUpTo
  <1>4. after[0] = t
    <2>1. 0 \in 0..Len(t.calls)
      OBVIOUS
    <2> QED
      BY <2>1, <1>3, Zenon
  <1>5. \A n \in 1..Len(t.calls) : after[n] = AppliedTo(t, invocation, after[n - 1], n)
    BY <1>3
  <1>6. BatchTrace(t, invocation, after)
    BY <1>2, <1>4, <1>5 DEF BatchTrace
  <1> QED
    BY <1>6

CallsOnce(t) == \A i, j \in DOMAIN t.calls : t.calls[i] = t.calls[j] => i = j
From(t, u) ==
  \A i \in DOMAIN u.cycles : \/ \E j \in DOMAIN t.cycles : u.cycles[i] = t.cycles[j]
                             \/ \E id \in DOMAIN t.results : u.cycles[i].by = t.results[id].by
Answers(t, n) == {t.calls[i] : i \in {k \in 1..n : t.calls[k] \in DOMAIN t.results}}

LEMMA BatchStep ==
  ASSUME NEW t, TrajOK(t), CallsOnce(t), NEW invocation, NEW after, BatchTrace(t, invocation, after)
  PROVE  \A m \in 0..Len(t.calls) :
           /\ TrajOK(after[m]) /\ SameOwner(t, after[m]) /\ SameBatch(t, after[m]) /\ From(t, after[m])
           /\ IsFiniteSet(Answers(t, m))
           /\ \A n \in Nat : Bounded(t, n) => Bounded(after[m], n + Cardinality(Answers(t, m)))
  <1> DEFINE Done(m) ==
               /\ TrajOK(after[m]) /\ SameOwner(t, after[m]) /\ SameBatch(t, after[m])
               /\ From(t, after[m]) /\ IsFiniteSet(Answers(t, m))
               /\ \A n \in Nat : Bounded(t, n) => Bounded(after[m], n + Cardinality(Answers(t, m)))
             S == {m \in 0..Len(t.calls) : Done(m)}
  <1>0. Len(t.calls) \in Nat /\ DOMAIN t.calls = 1..Len(t.calls)
    BY DEF TrajOK, IsSequence
  <1>1. ASSUME NEW m \in 0..Len(t.calls), \A k \in 0..(m - 1) : Done(k) PROVE Done(m)
    <2>1. CASE m = 0
      <3>1. after[m] = t
        BY <2>1 DEF BatchTrace
      <3>2. Answers(t, m) = {}
        BY <2>1 DEF Answers
      <3>3. IsFiniteSet(Answers(t, m)) /\ Cardinality(Answers(t, m)) = 0
        BY <3>2, FS_EmptySet
      <3> QED
        BY <3>1, <3>3 DEF SameOwner, SameBatch, From
    <2>2. CASE m # 0
      <3> DEFINE b == after[m - 1]
                 e == t.results[t.calls[m]]
      <3>1. m - 1 \in 0..(m - 1) /\ m \in 1..Len(t.calls) /\ m - 1 \in Nat
        BY <2>2, <1>0
      <3>2. Done(m - 1)
        BY <3>1, <1>1
      <3>3. after[m] = AppliedTo(t, invocation, b, m)
        BY <3>1 DEF BatchTrace
      <3>4. CASE t.calls[m] \in DOMAIN t.results
        <4> DEFINE u == ApplyCycle(b, e, invocation)
        <4>1. after[m] = u
          BY <3>3, <3>4 DEF AppliedTo
        <4>2. /\ TrajOK(u) /\ SameOwner(b, u) /\ SameBatch(b, u)
              /\ \A i \in DOMAIN u.cycles : \/ u.cycles[i].by = e.by
                                            \/ \E j \in DOMAIN b.cycles : u.cycles[i] = b.cycles[j]
              /\ \A n \in Nat : Bounded(b, n) => Bounded(u, n + 1)
          <5> HIDE DEF b, e
          <5>1. TrajOK(b)
            BY <3>2 DEF b
          <5> QED
            BY <5>1, CycleKeeps
        <4>3. Answers(t, m) = Answers(t, m - 1) \cup {t.calls[m]}
          BY <3>1, <3>4 DEF Answers
        <4>4. t.calls[m] \notin Answers(t, m - 1)
          BY <3>1, <1>0 DEF Answers, CallsOnce
        <4>5. IsFiniteSet(Answers(t, m)) /\ Cardinality(Answers(t, m)) = Cardinality(Answers(t, m - 1)) + 1
          <5> HIDE DEF b, e, u
          <5>1. IsFiniteSet(Answers(t, m - 1))
            BY <3>2
          <5>2. ASSUME NEW A, NEW x, IsFiniteSet(A), x \notin A
                PROVE  IsFiniteSet(A \cup {x}) /\ Cardinality(A \cup {x}) = Cardinality(A) + 1
            BY <5>2, FS_AddElement
          <5> QED
            BY <4>3, <4>4, <5>1, <5>2
        <4> HIDE DEF u, b, e
        <4>6. TrajOK(u) /\ SameOwner(t, u) /\ SameBatch(t, u)
          BY <3>2, <4>2 DEF SameOwner, SameBatch, b
        <4>7. From(t, u)
          <5>1. From(t, b)
            BY <3>2 DEF b
          <5>2. e.by = t.results[t.calls[m]].by
            BY DEF e
          <5> QED
            BY <5>1, <5>2, <4>2, <3>4 DEF From
        <4>8. ASSUME NEW n \in Nat, Bounded(t, n)
              PROVE  Bounded(u, n + Cardinality(Answers(t, m)))
          <5>1. Cardinality(Answers(t, m - 1)) \in Nat
            BY <3>2, FS_CardinalityType
          <5>2. Bounded(b, n + Cardinality(Answers(t, m - 1)))
            BY <3>2, <4>8 DEF b
          <5>3. Bounded(u, (n + Cardinality(Answers(t, m - 1))) + 1)
            BY <5>1, <5>2, <4>2
          <5>4. (n + Cardinality(Answers(t, m - 1))) + 1 = n + Cardinality(Answers(t, m))
            BY <5>1, <4>5
          <5> QED
            BY <5>3, <5>4
        <4> QED
          BY <4>1, <4>5, <4>6, <4>7, <4>8
      <3>5. CASE t.calls[m] \notin DOMAIN t.results
        <4>1. after[m] = b
          BY <3>3, <3>5 DEF AppliedTo
        <4>2. Answers(t, m) = Answers(t, m - 1)
          BY <3>1, <3>5 DEF Answers
        <4> QED
          BY <4>1, <4>2, <3>2
      <3> QED
        BY <3>4, <3>5
    <2> QED
      BY <2>1, <2>2
  <1>2. \A m \in 0..Len(t.calls) : (\A k \in 0..(m - 1) : k \in S) => m \in S
    <2> HIDE DEF Done
    <2> QED
      BY <1>1
  <1>3. 0..Len(t.calls) \subseteq S
    <2> HIDE DEF S
    <2> QED
      BY <1>0, <1>2, UpToNumber
  <1> QED
    BY <1>3

(* A batch: it adds to each count at most its results, and their models.   *)
LEMMA FlushKeeps ==
  ASSUME NEW t, TrajOK(t), CallsOnce(t), NEW invocation
  PROVE  LET u == FlushBatch(t, invocation)
         IN /\ TrajOK(u) /\ SameOwner(t, u) /\ From(t, u) /\ CallsOnce(u)
            /\ u.calls = <<>> /\ u.results = <<>> /\ u.done = t.done \cup DOMAIN t.results
            /\ IsFiniteSet(DOMAIN t.results)
            /\ \A n \in Nat : Bounded(t, n) => Bounded(u, n + Cardinality(DOMAIN t.results))
  <1> DEFINE L == Len(t.calls)
             u == FlushBatch(t, invocation)
  <1>0. L \in Nat /\ DOMAIN t.calls = 1..L
    BY DEF TrajOK, IsSequence
  <1>1. PICK after : BatchTrace(t, invocation, after)
    BY <1>0, BatchSteps, Zenon
  <1> DEFINE v == after[L]
  <1>2. /\ TrajOK(v) /\ SameOwner(t, v) /\ SameBatch(t, v) /\ From(t, v)
        /\ IsFiniteSet(Answers(t, L))
        /\ \A n \in Nat : Bounded(t, n) => Bounded(v, n + Cardinality(Answers(t, L)))
    BY <1>0, <1>1, BatchStep
  <1>3. Answers(t, L) = DOMAIN t.results
    BY <1>0 DEF Answers, TrajOK, Range
  <1>4. u = [v EXCEPT !.calls = <<>>, !.results = <<>>, !.done = @ \cup DOMAIN t.results]
    BY <1>1 DEF BatchTrace
  <1> HIDE DEF u, v
  <1>5. DOMAIN v = TrajFields
    BY <1>2 DEF TrajOK
  <1>6. /\ DOMAIN u = TrajFields /\ SameOwner(v, u) /\ u.cycles = v.cycles
        /\ u.stagnation = v.stagnation /\ u.mutations = v.mutations /\ u.failures = v.failures
        /\ u.calls = <<>> /\ u.results = <<>> /\ u.done = v.done \cup DOMAIN t.results
    BY <1>4, <1>5 DEF TrajFields, SameOwner
  <1>7. IsSequence(u.calls) /\ DOMAIN u.results = {}
    BY <1>6 DEF IsSequence
  <1>8. TrajOK(u) /\ CallsOnce(u)
    BY <1>2, <1>6, <1>7 DEF TrajOK, CallsOnce
  <1>9. From(t, u) /\ SameOwner(t, u)
    BY <1>2, <1>6 DEF From, SameOwner
  <1>10. ASSUME NEW n \in Nat, Bounded(t, n) PROVE Bounded(u, n + Cardinality(DOMAIN t.results))
    BY <1>10, <1>2, <1>3, <1>6 DEF Bounded
  <1>11. u.done = t.done \cup DOMAIN t.results
    BY <1>2, <1>6 DEF SameBatch
  <1> QED
    BY <1>2, <1>3, <1>6, <1>8, <1>9, <1>10, <1>11 DEF u

-----------------------------------------------------------------------------
(* An escalation needs three results: two warnings of two results would    *)
(* share the last one.                                                     *)
LEMMA LastOfSequence ==
  ASSUME NEW s, IsSequence(s), s # <<>>, NEW n \in Nat, n > 0
  PROVE  LET r == LastOf(s, n)
         IN /\ IsSequence(r) /\ Len(r) \in 1..Len(s) /\ Len(r) <= n
            /\ r # <<>> /\ r[Len(r)] = s[Len(s)]
  <1> DEFINE T == {s[i] : i \in 1..Len(s)}
             m == IF Len(s) > n THEN Len(s) - n + 1 ELSE 1
             r == SubSeq(s, m, Len(s))
  <1>1. s \in Seq(T)
    BY SequenceOf
  <1>2. Len(s) \in Nat /\ Len(s) # 0
    BY DEF IsSequence
  <1>3. m \in 1..Len(s) /\ Len(s) - m + 1 <= n
    BY <1>2
  <1> HIDE DEF m, T
  <1>4. /\ r \in Seq(T) /\ Len(r) = Len(s) - m + 1
        /\ \A i \in 1..(Len(s) - m + 1) : r[i] = s[m + i - 1]
    BY <1>1, <1>2, <1>3, SubSeqProperties
  <1>5. Len(s) - m + 1 \in 1..(Len(s) - m + 1) /\ m + (Len(s) - m + 1) - 1 = Len(s)
    BY <1>2, <1>3
  <1>6. IsSequence(r)
    BY <1>4, IsSequenceOf
  <1>7. r = LastOf(s, n)
    BY DEF LastOf, m
  <1> HIDE DEF r
  <1>8. r[Len(r)] = s[Len(s)]
    BY <1>4, <1>5
  <1>9. Len(r) \in 1..Len(s) /\ Len(r) <= n /\ r # <<>>
    BY <1>2, <1>3, <1>4
  <1> QED
    BY <1>6, <1>7, <1>8, <1>9

LEMMA EmptyHasNoEvidence == \A s : s = <<>> => \A n : LastOf(s, n) = <<>>
  BY DEF LastOf

LEMMA RecurrenceOfFew ==
  ASSUME NEW t, TrajOK(t), Len(t.cycles) <= 2
  PROVE  LET aor == DetectActionObservationRecurrence(t)
         IN /\ aor.severity # "severe"
            /\ Active(aor) => t.cycles # <<>> /\ aor.evidence = <<Evidence(t.cycles[Len(t.cycles)])>>
  <1> DEFINE window == LastOf(t.cycles, 6)
             last == window[Len(window)]
             breaks == {i \in DOMAIN window : window[i].progress = "progress" \/ ~window[i].verified}
             same == {i \in DOMAIN window : /\ \A b \in breaks : b < i
                                            /\ Evidence(window[i]) = Evidence(last)}
             severity == Severity(Cardinality(same), 2, 3)
             aor == DetectActionObservationRecurrence(t)
  <1>1. CASE t.cycles = <<>>
    <2>1. window = <<>>
      BY <1>1, EmptyHasNoEvidence
    <2>2. aor = Signal("aor", "none", <<>>)
      BY <2>1 DEF DetectActionObservationRecurrence
    <2> QED
      BY <2>2 DEF Signal, Active
  <1>2. CASE t.cycles # <<>>
    <2>1. /\ IsSequence(window) /\ Len(window) \in 1..Len(t.cycles)
          /\ window # <<>> /\ last = t.cycles[Len(t.cycles)]
      <3>1. IsSequence(t.cycles) /\ 6 \in Nat /\ 6 > 0
        BY DEF TrajOK
      <3> QED
        BY <3>1, <1>2, LastOfSequence
    <2>2. aor = IF ~last.verified \/ last.action = Unidentified THEN Signal("aor", "none", <<>>)
                ELSE Signal("aor", severity, IF severity = "none" THEN <<>> ELSE <<Evidence(last)>>)
      BY <2>1 DEF DetectActionObservationRecurrence
    <2>3. Cardinality(same) \in Nat /\ Cardinality(same) <= 2
      <3>1. same \subseteq 1..Len(window) /\ Len(window) \in Nat
        BY <2>1 DEF IsSequence
      <3> HIDE DEF same, window
      <3>2. IsFiniteSet(1..Len(window)) /\ Cardinality(1..Len(window)) = Len(window)
        BY <3>1, UpToIsFinite
      <3>3. IsFiniteSet(same) /\ Cardinality(same) <= Len(window)
        BY <3>1, <3>2, FS_Subset
      <3>4. Cardinality(same) \in Nat
        BY <3>3, FS_CardinalityType
      <3> QED
        BY <3>1, <3>3, <3>4, <2>1 DEF TrajOK, IsSequence
    <2> HIDE DEF same, window, aor
    <2>4. severity # "severe"
      BY <2>3 DEF Severity
    <2> HIDE DEF severity
    <2>5. aor.severity # "severe" /\ (Active(aor) => aor.evidence = <<Evidence(last)>>)
      BY <2>2, <2>4 DEF Signal, Active
    <2> QED
      BY <2>1, <2>5, <1>2 DEF aor
  <1> QED
    BY <1>1, <1>2

LEMMA PersistenceOfFew ==
  ASSUME NEW t, TrajOK(t), Bounded(t, 2)
  PROVE  DetectFailurePersistence(t).severity = "none"
  <1> DEFINE S == {0} \cup {t.failures[k].corrections : k \in DOMAIN t.failures}
  <1>1. S \subseteq 0..1 /\ S # {} /\ 1 \in Nat
    BY DEF TrajOK, Bounded
  <1> HIDE DEF S
  <1>2. Max(S) \in S
    BY <1>1, MaxOf
  <1>3. Max(S) \in 0..1
    BY <1>1, <1>2
  <1>4. DetectFailurePersistence(t).severity = Severity(Max(S), 2, 3)
    BY DEF DetectFailurePersistence, Signal, S
  <1> QED
    BY <1>3, <1>4 DEF Severity

LEMMA StagnationOfFew ==
  ASSUME NEW t, TrajOK(t), t.stagnation <= 2
  PROVE  LET ps == DetectProgressStagnation(t)
         IN /\ ps.severity # "severe"
            /\ t.cycles # <<>> => Evidence(t.cycles[Len(t.cycles)]) \in Range(ps.evidence)
  <1> DEFINE run == IF t.stagnation = 0 THEN t.cycles ELSE LastOf(t.cycles, t.stagnation)
             ps == DetectProgressStagnation(t)
  <1>1. ps.severity # "severe" /\ ps.evidence = [i \in DOMAIN run |-> Evidence(run[i])]
    BY DEF DetectProgressStagnation, Signal, Severity, TrajOK
  <1>2. ASSUME t.cycles # <<>>
        PROVE  Len(run) \in DOMAIN run /\ run[Len(run)] = t.cycles[Len(t.cycles)]
    <2>1. IsSequence(t.cycles) /\ t.stagnation \in Nat
      BY DEF TrajOK
    <2>2. CASE t.stagnation = 0
      BY <2>1, <2>2, <1>2 DEF IsSequence
    <2>3. CASE t.stagnation # 0
      <3>1. LET r == LastOf(t.cycles, t.stagnation)
            IN IsSequence(r) /\ Len(r) \in 1..Len(t.cycles) /\ r[Len(r)] = t.cycles[Len(t.cycles)]
        BY <2>1, <2>3, <1>2, LastOfSequence
      <3> QED
        BY <2>1, <2>3, <3>1 DEF IsSequence
    <2> QED
      BY <2>2, <2>3
  <1> HIDE DEF run, ps
  <1>3. ASSUME t.cycles # <<>> PROVE Evidence(t.cycles[Len(t.cycles)]) \in Range(ps.evidence)
    BY <1>1, <1>2, <1>3 DEF Range
  <1> QED
    BY <1>1, <1>3 DEF ps

(* The warnings that count, in detector order.                             *)
Counted(kept, signal) ==
  IF /\ Active(signal)
     /\ \A k \in kept : Range(k.evidence) \cap Range(signal.evidence) = {}
  THEN kept \cup {signal} ELSE kept

LEMMA FourSignals ==
  ASSUME NEW a, NEW b, NEW c, NEW d
  PROVE  IndependentWarningCount(<<a, b, c, d>>) =
           Cardinality(Counted(Counted(Counted(Counted({}, a), b), c), d))
  <1> DEFINE signals == <<a, b, c, d>>
             k1 == Counted({}, a)
             k2 == Counted(k1, b)
             k3 == Counted(k2, c)
             k4 == Counted(k3, d)
             Is(f) == f = [n \in 0..4 |-> IF n = 0 THEN {} ELSE Counted(f[n - 1], signals[n])]
             g == [n \in 0..4 |-> CASE n = 0 -> {} [] n = 1 -> k1 [] n = 2 -> k2
                                    [] n = 3 -> k3 [] OTHER -> k4]
             kept == CHOOSE f : Is(f)
  <1>1. Len(signals) = 4 /\ signals[1] = a /\ signals[2] = b /\ signals[3] = c /\ signals[4] = d
    OBVIOUS
  <1>2. k1 = Counted({}, a) /\ k2 = Counted(k1, b) /\ k3 = Counted(k2, c) /\ k4 = Counted(k3, d)
    OBVIOUS
  <1>3. Is(g)
    <2> HIDE DEF k1, k2, k3, k4, signals
    <2>1. ASSUME NEW n \in 0..4
          PROVE  g[n] = IF n = 0 THEN {} ELSE Counted(g[n - 1], signals[n])
      <3>1. g[0] = {} /\ g[1] = k1 /\ g[2] = k2 /\ g[3] = k3 /\ g[4] = k4
        OBVIOUS
      <3> HIDE DEF g
      <3>2. n = 0 \/ n = 1 \/ n = 2 \/ n = 3 \/ n = 4
        OBVIOUS
      <3> QED
        BY <1>1, <1>2, <3>1, <3>2
    <2> QED
      BY <2>1
  <1>4. Is(kept)
    <2> HIDE DEF Is, g
    <2> QED
      BY <1>3
  <1>5. IndependentWarningCount(signals) = Cardinality(kept[4])
    <2>1. IndependentWarningCount(signals) =
            Cardinality((CHOOSE f : f = [n \in 0..Len(signals) |->
                           IF n = 0 THEN {} ELSE Counted(f[n - 1], signals[n])])[Len(signals)])
      BY DEF IndependentWarningCount, Counted
    <2> HIDE DEF signals
    <2> QED
      BY <2>1, <1>1
  <1> HIDE DEF kept, k1, k2, k3, k4, signals, g
  <1>6. kept[0] = {} /\ kept[1] = k1 /\ kept[2] = k2 /\ kept[3] = k3 /\ kept[4] = k4
    <2>1. \A n \in 0..4 : kept[n] = IF n = 0 THEN {} ELSE Counted(kept[n - 1], signals[n])
      BY <1>4
    <2>2. kept[0] = {}
      BY <2>1
    <2>3. kept[1] = Counted(kept[0], signals[1])
      BY <2>1
    <2>4. kept[2] = Counted(kept[1], signals[2])
      BY <2>1
    <2>5. kept[3] = Counted(kept[2], signals[3])
      BY <2>1
    <2>6. kept[4] = Counted(kept[3], signals[4])
      BY <2>1
    <2> QED
      BY <2>2, <2>3, <2>4, <2>5, <2>6, <1>1, <1>2
  <1> QED
    BY <1>5, <1>6, <1>2 DEF signals

\* Three results at least.
Struggles(t) == \A n \in Nat : Bounded(t, n) => n >= 3

LEMMA EscalationNeedsThree ==
  ASSUME NEW t, TrajOK(t), ClassifyTrajectoryStruggle(t).escalate
  PROVE  Struggles(t)
  <1> SUFFICES ASSUME NEW n \in Nat, Bounded(t, n), n < 3 PROVE FALSE
    BY DEF Struggles
  <1> DEFINE aor == DetectActionObservationRecurrence(t)
             fp == DetectFailurePersistence(t)
             mb == DetectMutationBacktracking(t)
             ps == DetectProgressStagnation(t)
  <1>1. Bounded(t, 2) /\ Len(t.cycles) <= 2 /\ t.stagnation <= 2 /\ t.mutations <= 2
    BY DEF Bounded, TrajOK, IsSequence
  <1>2. /\ aor.severity # "severe"
        /\ Active(aor) => t.cycles # <<>> /\ aor.evidence = <<Evidence(t.cycles[Len(t.cycles)])>>
    BY <1>1, RecurrenceOfFew
  <1>3. fp.severity = "none"
    BY <1>1, PersistenceOfFew
  <1>4. mb.severity = "unavailable"
    BY <1>1 DEF DetectMutationBacktracking, Signal, TrajOK
  <1>5. /\ ps.severity # "severe"
        /\ t.cycles # <<>> => Evidence(t.cycles[Len(t.cycles)]) \in Range(ps.evidence)
    BY <1>1, StagnationOfFew
  <1>6. \/ \E o \in {aor, fp, ps} : o.severity = "severe"
        \/ IndependentWarningCount(<<aor, fp, mb, ps>>) >= 2
    BY DEF ClassifyTrajectoryStruggle
  <1> HIDE DEF aor, fp, mb, ps
  <1>7. IndependentWarningCount(<<aor, fp, mb, ps>>) >= 2
    BY <1>2, <1>3, <1>5, <1>6
  <1> DEFINE k1 == Counted({}, aor)
             k4 == Counted(k1, ps)
  <1>8. IndependentWarningCount(<<aor, fp, mb, ps>>) = Cardinality(k4)
    <2>1. ~Active(fp) /\ ~Active(mb)
      BY <1>3, <1>4 DEF Active
    <2>2. Counted(Counted(k1, fp), mb) = k1
      BY <2>1 DEF Counted
    <2>3. IndependentWarningCount(<<aor, fp, mb, ps>>) = Cardinality(Counted(Counted(Counted(k1, fp), mb), ps))
      BY FourSignals
    <2> QED
      BY <2>2, <2>3
  <1>9. \E x : k4 \subseteq {x}
    <2>1. CASE Active(aor)
      <3>1. k1 = {aor}
        BY <2>1 DEF Counted
      <3>2. Evidence(t.cycles[Len(t.cycles)]) \in Range(aor.evidence)
        BY <2>1, <1>2 DEF Range
      <3>3. k4 = k1
        BY <3>1, <3>2, <2>1, <1>2, <1>5 DEF Counted
      <3> QED
        BY <3>1, <3>3
    <2>2. CASE ~Active(aor)
      BY <2>2 DEF Counted
    <2> QED
      BY <2>1, <2>2
  <1> HIDE DEF k4
  <1>10. PICK x : k4 \subseteq {x}
    BY <1>9
  <1>11. Cardinality(k4) <= 1 /\ Cardinality(k4) \in Nat
    <2>1. IsFiniteSet({x}) /\ Cardinality({x}) = 1
      BY FS_Singleton
    <2>2. IsFiniteSet(k4) /\ Cardinality(k4) <= Cardinality({x})
      BY <2>1, <1>10, FS_Subset
    <2> QED
      BY <2>1, <2>2, FS_CardinalityType
  <1> QED
    BY <1>7, <1>8, <1>11

-----------------------------------------------------------------------------
(* The evidence and its owner, and what a recovery attempt leaves to do.   *)
SameModel(a, b) == RegistryId(a) = RegistryId(b)

OwnerOK(t) ==
  ~t.unserved =>
    /\ \A i \in DOMAIN t.cycles : t.owner # NoOwner /\ SameModel(t.cycles[i].by, t.owner)
    /\ \A p \in t.pending : t.owner # NoOwner /\ p.from = t.owner
    /\ \A id \in DOMAIN t.results : t.owner # NoOwner /\ SameModel(t.results[id].by, t.owner)

Claimed(t, C, gen, c) == c \in C /\ c.from = t.recovered /\ c.intent = t.intent /\ c.gen = gen
\* The counts are bounded by the calls made since the attempt, less those under way.
Room(t, calls, open, c) ==
  \E n \in Nat : Bounded(t, n) /\ n + Cardinality(DOMAIN t.results) + open <= calls - c.at
RecoveryOK(t, C, gen, calls, open) ==
  /\ t.recovered # NoOwner => \E c \in C : Claimed(t, C, gen, c) /\ Room(t, calls, open, c)
  /\ \A p \in t.pending :
       /\ p.from # NoOwner
       /\ p.from = t.recovered => \E c \in C : Claimed(t, C, gen, c) /\ c.at + 3 <= calls

EvidenceOK(t) == TrajOK(t) /\ CallsOnce(t) /\ IsFiniteSet(DOMAIN t.results)

\* A step that counts at most k results more, held or applied.
Grown(t, u, k) ==
  /\ EvidenceOK(u) /\ u.recovered = t.recovered /\ u.intent = t.intent
  /\ \A n \in Nat : Bounded(t, n) =>
       \E m \in Nat : /\ Bounded(u, m)
                      /\ m + Cardinality(DOMAIN u.results) <= n + Cardinality(DOMAIN t.results) + k
  /\ \/ u.pending \subseteq t.pending
     \/ Struggles(u) /\ \A p \in u.pending : p.from # NoOwner

LEMMA GrownRecovers ==
  ASSUME NEW t, NEW u, NEW k \in Nat, Grown(t, u, k), EvidenceOK(t),
         NEW C, \A c \in C : c.at \in Nat, NEW gen,
         NEW calls \in Nat, NEW open \in Nat, RecoveryOK(t, C, gen, calls, open),
         NEW calls2 \in Nat, NEW open2 \in Nat, calls <= calls2,
         open2 + k <= open + (calls2 - calls)
  PROVE  RecoveryOK(u, C, gen, calls2, open2)
  <1>1. /\ Cardinality(DOMAIN t.results) \in Nat /\ Cardinality(DOMAIN u.results) \in Nat
        /\ u.recovered = t.recovered /\ u.intent = t.intent
    BY FS_CardinalityType DEF Grown, EvidenceOK
  <1>2. ASSUME NEW c \in C, Claimed(t, C, gen, c), Room(t, calls, open, c)
        PROVE  Claimed(u, C, gen, c) /\ Room(u, calls2, open2, c)
    <2>1. PICK n \in Nat : Bounded(t, n) /\ n + Cardinality(DOMAIN t.results) + open <= calls - c.at
      BY <1>2 DEF Room
    <2>2. PICK m \in Nat : /\ Bounded(u, m)
                           /\ m + Cardinality(DOMAIN u.results) <= n + Cardinality(DOMAIN t.results) + k
      BY <2>1 DEF Grown
    <2>3. c.at \in Nat
      OBVIOUS
    <2>4. m + Cardinality(DOMAIN u.results) + open2 <= calls2 - c.at
      BY <2>1, <2>2, <2>3, <1>1
    <2>5. Claimed(u, C, gen, c)
      BY <1>1, <1>2 DEF Claimed
    <2> QED
      BY <2>2, <2>4, <2>5 DEF Room
  <1>3. u.recovered # NoOwner => \E c \in C : Claimed(u, C, gen, c) /\ Room(u, calls2, open2, c)
    BY <1>1, <1>2 DEF RecoveryOK
  <1>4. ASSUME NEW p \in u.pending
        PROVE  /\ p.from # NoOwner
               /\ p.from = u.recovered => \E c \in C : Claimed(u, C, gen, c) /\ c.at + 3 <= calls2
    <2>1. CASE p \in t.pending
      <3>1. p.from # NoOwner
        BY <2>1 DEF RecoveryOK
      <3>2. ASSUME p.from = u.recovered
            PROVE  \E c \in C : Claimed(u, C, gen, c) /\ c.at + 3 <= calls2
        <4>1. PICK c \in C : Claimed(t, C, gen, c) /\ c.at + 3 <= calls
          BY <2>1, <3>2, <1>1 DEF RecoveryOK
        <4>2. c.at \in Nat
          OBVIOUS
        <4>3. Claimed(u, C, gen, c) /\ c.at + 3 <= calls2
          BY <4>1, <4>2, <1>1 DEF Claimed
        <4> QED
          BY <4>3
      <3> QED
        BY <3>1, <3>2
    <2>2. CASE p \notin t.pending
      <3>1. Struggles(u) /\ p.from # NoOwner
        BY <2>2 DEF Grown
      <3>2. ASSUME p.from = u.recovered
            PROVE  \E c \in C : Claimed(u, C, gen, c) /\ c.at + 3 <= calls2
        <4>1. PICK c \in C : Claimed(u, C, gen, c) /\ Room(u, calls2, open2, c)
          BY <3>1, <3>2, <1>3
        <4>2. PICK n \in Nat : Bounded(u, n) /\ n + Cardinality(DOMAIN u.results) + open2 <= calls2 - c.at
          BY <4>1 DEF Room
        <4>3. n >= 3 /\ c.at \in Nat
          BY <4>2, <3>1 DEF Struggles
        <4>4. c.at + 3 <= calls2
          BY <4>2, <4>3, <1>1
        <4> QED
          BY <4>1, <4>4
      <3> QED
        BY <3>1, <3>2
    <2> QED
      BY <2>1, <2>2
  <1> QED
    BY <1>3, <1>4 DEF RecoveryOK

LEMMA ResetKeeps ==
  ASSUME NEW t, EvidenceOK(t)
  PROVE  LET u == ResetStruggle(t)
         IN /\ EvidenceOK(u) /\ SameBatch(t, u) /\ u.owner = t.owner /\ u.recovered = t.recovered
            /\ u.intent = t.intent /\ u.unserved = t.unserved /\ u.pending = {} /\ u.cycles = <<>>
            /\ \A n \in Nat : Bounded(u, n)
  <1> DEFINE u == ResetStruggle(t)
  <1>1. /\ DOMAIN u = TrajFields /\ SameBatch(t, u) /\ u.owner = t.owner /\ u.recovered = t.recovered
        /\ u.intent = t.intent /\ u.unserved = t.unserved /\ u.pending = {} /\ u.cycles = <<>>
        /\ u.failures = <<>> /\ u.stagnation = 0 /\ u.mutations = 0
    BY DEF ResetStruggle, EvidenceOK, TrajOK, TrajFields, SameBatch
  <1> HIDE DEF u
  <1>2. IsSequence(u.cycles) /\ DOMAIN u.failures = {} /\ Len(u.cycles) = 0
    BY <1>1 DEF IsSequence
  <1>3. EvidenceOK(u)
    BY <1>1, <1>2 DEF EvidenceOK, TrajOK, SameBatch, CallsOnce
  <1>4. \A n \in Nat : Bounded(u, n)
    BY <1>1, <1>2 DEF Bounded
  <1> QED
    BY <1>1, <1>3, <1>4 DEF u

LEMMA OwnerBound ==
  ASSUME NEW t, EvidenceOK(t), NEW owner
  PROVE  LET u == BindOwner(t, owner)
         IN /\ Grown(t, u, 0) /\ SameBatch(t, u) /\ u.unserved = t.unserved
            /\ u.owner = IF owner = NoOwner THEN t.owner ELSE owner
            /\ u.pending \subseteq t.pending
            /\ OwnerOK(t) /\ (DOMAIN t.results = {} \/ (~t.unserved => owner \in {NoOwner, t.owner}))
                 => OwnerOK(u)
  <1> DEFINE u == BindOwner(t, owner)
             r == ResetStruggle(t)
  <1>1. CASE owner \in {NoOwner, t.owner}
    <2>1. u = t
      BY <1>1 DEF BindOwner
    <2>2. Cardinality(DOMAIN t.results) \in Nat
      BY FS_CardinalityType DEF EvidenceOK
    <2>3. Grown(t, t, 0)
      BY <2>2 DEF Grown
    <2> QED
      BY <1>1, <2>1, <2>3 DEF SameBatch
  <1>2. CASE owner \notin {NoOwner, t.owner} /\ t.owner = NoOwner
    <2>1. u = [t EXCEPT !.owner = owner]
      BY <1>2 DEF BindOwner
    <2> HIDE DEF u
    <2>2. /\ DOMAIN u = TrajFields /\ SameBatch(t, u) /\ u.recovered = t.recovered
          /\ u.intent = t.intent /\ u.unserved = t.unserved /\ u.pending = t.pending
          /\ u.cycles = t.cycles /\ u.failures = t.failures /\ u.stagnation = t.stagnation
          /\ u.mutations = t.mutations /\ u.owner = owner
      BY <2>1 DEF EvidenceOK, TrajOK, TrajFields, SameBatch
    <2>3. EvidenceOK(u)
      BY <2>2 DEF EvidenceOK, TrajOK, SameBatch, CallsOnce
    <2>4. Cardinality(DOMAIN t.results) \in Nat /\ u.results = t.results
      BY <2>2, FS_CardinalityType DEF EvidenceOK, SameBatch
    <2>5. \A n \in Nat : Bounded(t, n) => Bounded(u, n)
      BY <2>2 DEF Bounded
    <2>6. Grown(t, u, 0)
      BY <2>2, <2>3, <2>4, <2>5 DEF Grown
    <2>7. OwnerOK(t) => OwnerOK(u)
      BY <1>2, <2>2, <2>4 DEF OwnerOK
    <2> QED
      BY <1>2, <2>2, <2>6, <2>7 DEF u
  <1>3. CASE owner \notin {NoOwner, t.owner} /\ t.owner # NoOwner
    <2>1. u = [r EXCEPT !.owner = owner]
      BY <1>3 DEF BindOwner
    <2>2. /\ EvidenceOK(r) /\ SameBatch(t, r) /\ r.owner = t.owner /\ r.recovered = t.recovered
          /\ r.intent = t.intent /\ r.unserved = t.unserved /\ r.pending = {} /\ r.cycles = <<>>
          /\ \A n \in Nat : Bounded(r, n)
      BY ResetKeeps
    <2> HIDE DEF r, u
    <2>3. /\ DOMAIN u = TrajFields /\ SameBatch(t, u) /\ u.recovered = t.recovered
          /\ u.intent = t.intent /\ u.unserved = t.unserved /\ u.pending = {}
          /\ u.cycles = <<>> /\ u.failures = r.failures /\ u.stagnation = r.stagnation
          /\ u.mutations = r.mutations /\ u.owner = owner /\ SameBatch(r, u) /\ u.cycles = r.cycles
      BY <2>1, <2>2 DEF EvidenceOK, TrajOK, TrajFields, SameBatch
    <2>4. EvidenceOK(u)
      BY <2>2, <2>3 DEF EvidenceOK, TrajOK, SameBatch, CallsOnce
    <2>5. Cardinality(DOMAIN t.results) \in Nat /\ u.results = t.results
      BY <2>3, FS_CardinalityType DEF EvidenceOK, SameBatch
    <2>6. \A n \in Nat : Bounded(u, n)
      BY <2>2, <2>3 DEF Bounded
    <2>7. Grown(t, u, 0)
      BY <2>3, <2>4, <2>5, <2>6 DEF Grown
    <2>8. DOMAIN u.cycles = {}
      BY <2>3
    <2>9. OwnerOK(t) /\ (DOMAIN t.results = {} \/ (~t.unserved => owner \in {NoOwner, t.owner}))
            => OwnerOK(u)
      BY <1>3, <2>3, <2>5, <2>8 DEF OwnerOK
    <2> QED
      BY <1>3, <2>3, <2>7, <2>9 DEF u
  <1> QED
    BY <1>1, <1>2, <1>3

LEMMA PendingSet ==
  ASSUME NEW t, EvidenceOK(t), NEW from, NEW dimension
  PROVE  LET u == MaybeSetPending(t, from, dimension)
         IN /\ EvidenceOK(u) /\ SameBatch(t, u) /\ u.owner = t.owner /\ u.recovered = t.recovered
            /\ u.intent = t.intent /\ u.unserved = t.unserved /\ u.cycles = t.cycles
            /\ \A n \in Nat : Bounded(t, n) <=> Bounded(u, n)
            /\ \/ u.pending \subseteq t.pending
               \/ Struggles(u) /\ from # NoOwner /\ t.owner \in {NoOwner, from}
                  /\ \A p \in u.pending : p.from = from
  <1> DEFINE u == MaybeSetPending(t, from, dimension)
             decision == ClassifyTrajectoryStruggle(t)
             set == [t EXCEPT !.fingerprint = decision.signals,
                              !.pending = {[from |-> from, dimension |-> dimension]}]
             cleared == [t EXCEPT !.pending = {}, !.fingerprint = <<>>]
  <1>1. ASSUME NEW v, v \in {t, set, cleared}
        PROVE  /\ EvidenceOK(v) /\ SameBatch(t, v) /\ v.owner = t.owner /\ v.recovered = t.recovered
               /\ v.intent = t.intent /\ v.unserved = t.unserved /\ v.cycles = t.cycles
               /\ \A n \in Nat : Bounded(t, n) <=> Bounded(v, n)
    <2> HIDE DEF decision
    <2>1. /\ DOMAIN v = TrajFields /\ SameBatch(t, v) /\ v.owner = t.owner /\ v.recovered = t.recovered
          /\ v.intent = t.intent /\ v.unserved = t.unserved /\ v.cycles = t.cycles
          /\ v.failures = t.failures /\ v.stagnation = t.stagnation /\ v.mutations = t.mutations
      BY <1>1 DEF EvidenceOK, TrajOK, TrajFields, SameBatch
    <2> QED
      BY <2>1 DEF EvidenceOK, TrajOK, SameBatch, CallsOnce, Bounded
  <1>2. \/ u = t \/ u = cleared
        \/ u = set /\ from # NoOwner /\ t.owner \in {NoOwner, from} /\ decision.escalate
    BY DEF MaybeSetPending
  <1>3. cleared.pending = {} /\ set.pending = {[from |-> from, dimension |-> dimension]}
    <2> HIDE DEF decision
    <2> QED
      BY DEF EvidenceOK, TrajOK, TrajFields
  <1>4. decision.escalate => Struggles(t)
    BY EscalationNeedsThree DEF EvidenceOK
  <1>5. Struggles(t) => Struggles(set)
    BY <1>1 DEF Struggles
  <1> HIDE DEF u, set, cleared, decision
  <1>6. /\ EvidenceOK(u) /\ SameBatch(t, u) /\ u.owner = t.owner /\ u.recovered = t.recovered
        /\ u.intent = t.intent /\ u.unserved = t.unserved /\ u.cycles = t.cycles
        /\ \A n \in Nat : Bounded(t, n) <=> Bounded(u, n)
    BY <1>1, <1>2
  <1>7. \/ u.pending \subseteq t.pending
        \/ Struggles(u) /\ from # NoOwner /\ t.owner \in {NoOwner, from}
           /\ \A p \in u.pending : p.from = from
    BY <1>2, <1>3, <1>4, <1>5
  <1> QED
    BY <1>6, <1>7 DEF u

\* A batch applied, and what an escalation is made of it.
LEMMA BatchDecided ==
  ASSUME NEW t, EvidenceOK(t), NEW invocation, NEW s
  PROVE  LET u == SetPending(FlushBatch(t, invocation), s)
         IN /\ Grown(t, u, 0) /\ u.owner = t.owner /\ u.unserved = t.unserved
            /\ u.calls = <<>> /\ u.results = <<>>
            /\ OwnerOK(t) /\ (DOMAIN t.results # {} \/ t.owner # NoOwner) => OwnerOK(u)
  <1> DEFINE v == FlushBatch(t, invocation)
             u == SetPending(v, s)
             from == ServedTrajectoryKey(s)
             dimension == s.decision.dimension
  <1>1. /\ TrajOK(v) /\ SameOwner(t, v) /\ From(t, v) /\ CallsOnce(v)
        /\ v.calls = <<>> /\ v.results = <<>>
        /\ \A n \in Nat : Bounded(t, n) => Bounded(v, n + Cardinality(DOMAIN t.results))
    BY FlushKeeps DEF EvidenceOK
  <1> HIDE DEF v
  <1>2. DOMAIN v.results = {} /\ IsFiniteSet({}) /\ Cardinality({}) = 0
    BY <1>1, FS_EmptySet
  <1>3. EvidenceOK(v)
    BY <1>1, <1>2 DEF EvidenceOK
  <1>4. u = MaybeSetPending(v, from, dimension)
    BY DEF SetPending
  <1> HIDE DEF u, from, dimension
  <1>5. /\ EvidenceOK(u) /\ SameBatch(v, u) /\ u.owner = v.owner /\ u.recovered = v.recovered
        /\ u.intent = v.intent /\ u.unserved = v.unserved /\ u.cycles = v.cycles
        /\ \A n \in Nat : Bounded(v, n) <=> Bounded(u, n)
        /\ \/ u.pending \subseteq v.pending
           \/ Struggles(u) /\ from # NoOwner /\ v.owner \in {NoOwner, from}
              /\ \A p \in u.pending : p.from = from
    BY <1>3, <1>4, PendingSet
  <1>6. Cardinality(DOMAIN t.results) \in Nat /\ Cardinality(DOMAIN u.results) = 0
    BY <1>2, <1>5, FS_CardinalityType DEF EvidenceOK, SameBatch
  <1>7. ASSUME NEW n \in Nat, Bounded(t, n)
        PROVE  \E m \in Nat : /\ Bounded(u, m)
                              /\ m + Cardinality(DOMAIN u.results) <= n + Cardinality(DOMAIN t.results) + 0
    <2>1. Bounded(u, n + Cardinality(DOMAIN t.results)) /\ n + Cardinality(DOMAIN t.results) \in Nat
      BY <1>1, <1>5, <1>6, <1>7
    <2> QED
      BY <2>1, <1>6
  <1>8. Grown(t, u, 0)
    BY <1>1, <1>5, <1>7 DEF Grown, SameOwner
  <1>9. ASSUME OwnerOK(t), DOMAIN t.results # {} \/ t.owner # NoOwner PROVE OwnerOK(u)
    <2>1. CASE t.unserved
      BY <2>1, <1>1, <1>5 DEF OwnerOK, SameOwner
    <2>2. CASE ~t.unserved
      <3>1. t.owner # NoOwner
        BY <2>2, <1>9 DEF OwnerOK
      <3>2. \A i \in DOMAIN u.cycles : SameModel(u.cycles[i].by, t.owner)
        BY <2>2, <1>9, <1>1, <1>5 DEF OwnerOK, From, SameModel
      <3>3. \A p \in u.pending : p.from = t.owner
        BY <2>2, <1>9, <1>1, <1>5, <3>1 DEF OwnerOK, SameOwner
      <3> QED
        BY <3>1, <3>2, <3>3, <1>1, <1>2, <1>5 DEF OwnerOK, SameOwner, SameBatch
    <2> QED
      BY <2>1, <2>2
  <1>10. u.owner = t.owner /\ u.unserved = t.unserved /\ u.calls = <<>> /\ u.results = <<>>
    BY <1>1, <1>5 DEF SameOwner, SameBatch
  <1> QED
    BY <1>8, <1>9, <1>10 DEF u, v

\* The end of a turn's calls: those without a result are given up.
LEMMA Abandoned ==
  ASSUME NEW t, EvidenceOK(t), NEW s
  PROVE  LET u == AfterEvidence(AbandonUnresolvedCalls(t), s)
         IN /\ Grown(t, u, 0) /\ u.owner = t.owner /\ u.unserved = t.unserved
            /\ DOMAIN u.results = {} /\ (OwnerOK(t) => OwnerOK(u))
  <1> DEFINE u == AfterEvidence(AbandonUnresolvedCalls(t), s)
             emptied == [t EXCEPT !.calls = <<>>, !.results = <<>>]
             invocation == Max({0, t.lastMutation})
  <1>0. Cardinality(DOMAIN t.results) \in Nat
    BY FS_CardinalityType DEF EvidenceOK
  <1>1. CASE t.calls = <<>>
    <2>1. DOMAIN t.results = {}
      BY <1>1 DEF EvidenceOK, TrajOK, Range
    <2>2. u = t
      BY <1>1, <2>1 DEF AfterEvidence, AbandonUnresolvedCalls
    <2>3. Grown(t, t, 0)
      BY <1>0 DEF Grown
    <2> QED
      BY <2>1, <2>2, <2>3
  <1>2. CASE t.calls # <<>> /\ DOMAIN t.results # {}
    <2>1. u = SetPending(FlushBatch(t, invocation), s)
      BY <1>2 DEF AfterEvidence, AbandonUnresolvedCalls
    <2> HIDE DEF u, invocation
    <2>2. /\ Grown(t, u, 0) /\ u.owner = t.owner /\ u.unserved = t.unserved
          /\ u.calls = <<>> /\ u.results = <<>>
          /\ OwnerOK(t) => OwnerOK(u)
      BY <1>2, <2>1, BatchDecided
    <2>3. DOMAIN u.results = {}
      BY <2>2
    <2> QED
      BY <2>2, <2>3 DEF u
  <1>3. CASE t.calls # <<>> /\ DOMAIN t.results = {}
    <2>1. u = emptied
      BY <1>3 DEF AfterEvidence, AbandonUnresolvedCalls
    <2> HIDE DEF u
    <2>2. /\ DOMAIN u = TrajFields /\ SameOwner(t, u) /\ u.calls = <<>> /\ u.results = <<>>
          /\ u.cycles = t.cycles /\ u.failures = t.failures /\ u.stagnation = t.stagnation
          /\ u.mutations = t.mutations
      BY <2>1 DEF EvidenceOK, TrajOK, TrajFields, SameOwner
    <2>3. DOMAIN u.results = {} /\ IsSequence(u.calls) /\ IsFiniteSet({}) /\ Cardinality({}) = 0
      BY <2>2, FS_EmptySet DEF IsSequence
    <2>4. EvidenceOK(u)
      BY <2>2, <2>3 DEF EvidenceOK, TrajOK, CallsOnce
    <2>5. Grown(t, u, 0)
      BY <2>2, <2>3, <2>4, <1>0 DEF Grown, SameOwner, Bounded
    <2>6. OwnerOK(t) => OwnerOK(u)
      BY <2>2, <2>3 DEF OwnerOK, SameOwner
    <2> QED
      BY <2>2, <2>3, <2>5, <2>6 DEF u, SameOwner
  <1> QED
    BY <1>1, <1>2, <1>3

\* A call is registered; after results it closes their batch first.
LEMMA CallNoted ==
  ASSUME NEW t, EvidenceOK(t), NEW id, NEW s
  PROVE  LET u == AfterEvidence(NoteToolCall(t, id), s)
         IN /\ Grown(t, u, 0) /\ u.owner = t.owner /\ u.unserved = t.unserved
            /\ DOMAIN u.results \subseteq DOMAIN t.results /\ (OwnerOK(t) => OwnerOK(u))
  <1> DEFINE u == AfterEvidence(NoteToolCall(t, id), s)
             flushed == IF DOMAIN t.results # {} THEN AbandonUnresolvedCalls(t)
                        ELSE [state |-> t, decided |-> FALSE]
             f == flushed.state
             called == [f EXCEPT !.calls = Append(@, id)]
  <1>0. Cardinality(DOMAIN t.results) \in Nat
    BY FS_CardinalityType DEF EvidenceOK
  <1>1. CASE id \in t.done \/ Contains(t.calls, id)
    <2>1. u = t
      BY <1>1 DEF AfterEvidence, NoteToolCall
    <2>2. Grown(t, t, 0)
      BY <1>0 DEF Grown
    <2> QED
      BY <2>1, <2>2
  <1>2. CASE ~(id \in t.done \/ Contains(t.calls, id))
    <2>1. NoteToolCall(t, id) = [flushed EXCEPT !.state.calls = Append(@, id)]
      BY <1>2 DEF NoteToolCall
    <2>2. /\ DOMAIN flushed = {"state", "decided"}
          /\ \/ f = t /\ flushed.decided = FALSE
             \/ f = FlushBatch(t, Max({0, t.lastMutation})) /\ flushed.decided = TRUE
                /\ DOMAIN t.results # {}
      <3>1. CASE DOMAIN t.results = {}
        <4>1. flushed = [state |-> t, decided |-> FALSE]
          BY <3>1
        <4> HIDE DEF flushed
        <4> QED
          BY <4>1
      <3>2. CASE DOMAIN t.results # {}
        <4>1. t.calls # <<>>
          BY <3>2 DEF EvidenceOK, TrajOK, Range
        <4>2. AbandonUnresolvedCalls(t) =
                [state |-> FlushBatch(t, Max({0, t.lastMutation})), decided |-> TRUE]
          BY <4>1, <3>2 DEF AbandonUnresolvedCalls
        <4>3. flushed = [state |-> FlushBatch(t, Max({0, t.lastMutation})), decided |-> TRUE]
          BY <4>2, <3>2
        <4> HIDE DEF flushed
        <4> QED
          BY <4>3, <3>2
      <3> QED
        BY <3>1, <3>2
    <2> HIDE DEF flushed
    <2>3. u = IF flushed.decided THEN SetPending(called, s) ELSE called
      BY <2>1, <2>2 DEF AfterEvidence
    <2>4. /\ EvidenceOK(f) /\ SameOwner(t, f) /\ From(t, f)
          /\ \A n \in Nat : Bounded(t, n) => Bounded(f, n + (Cardinality(DOMAIN t.results)
                                                             - Cardinality(DOMAIN f.results)))
          /\ DOMAIN f.results \subseteq DOMAIN t.results /\ f.results \in {t.results, <<>>}
          /\ f.calls \in {t.calls, <<>>} /\ Cardinality(DOMAIN f.results) \in Nat
          /\ Cardinality(DOMAIN f.results) <= Cardinality(DOMAIN t.results)
      <3>1. CASE f = t
        BY <3>1, <1>0 DEF SameOwner, From
      <3>2. CASE f = FlushBatch(t, Max({0, t.lastMutation}))
        <4> HIDE DEF f
        <4>1. /\ TrajOK(f) /\ SameOwner(t, f) /\ From(t, f) /\ CallsOnce(f)
              /\ f.calls = <<>> /\ f.results = <<>>
              /\ \A n \in Nat : Bounded(t, n) => Bounded(f, n + Cardinality(DOMAIN t.results))
          BY <3>2, FlushKeeps DEF EvidenceOK
        <4>2. DOMAIN f.results = {} /\ IsFiniteSet({}) /\ Cardinality({}) = 0
          BY <4>1, FS_EmptySet
        <4> QED
          BY <4>1, <4>2, <1>0 DEF EvidenceOK
      <3> QED
        BY <2>2, <3>1, <3>2
    <2> HIDE DEF f
    <2>5. /\ IsSequence(Append(f.calls, id)) /\ Len(Append(f.calls, id)) = Len(f.calls) + 1
          /\ \A i \in 1..Len(f.calls) : Append(f.calls, id)[i] = f.calls[i]
          /\ Append(f.calls, id)[Len(f.calls) + 1] = id
      BY <2>4, Appended DEF EvidenceOK, TrajOK
    <2>6. /\ DOMAIN called = TrajFields /\ SameOwner(f, called) /\ called.results = f.results
          /\ called.cycles = f.cycles /\ called.failures = f.failures
          /\ called.stagnation = f.stagnation /\ called.mutations = f.mutations
          /\ called.calls = Append(f.calls, id)
      BY <2>4 DEF EvidenceOK, TrajOK, TrajFields, SameOwner
    <2> HIDE DEF called
    <2>7. EvidenceOK(called)
      <3>1. \A i \in 1..Len(f.calls) : f.calls[i] # id
        BY <1>2, <2>4 DEF Contains, EvidenceOK, TrajOK, IsSequence
      <3>2. CallsOnce(called)
        <4> DEFINE L == Len(f.calls)
                   longer == Append(f.calls, id)
        <4>1. /\ L \in Nat /\ DOMAIN longer = 1..(L + 1)
              /\ \A i \in 1..L : longer[i] = f.calls[i] /\ longer[i] # id
              /\ longer[L + 1] = id
          BY <3>1, <2>4, <2>5 DEF EvidenceOK, TrajOK, IsSequence
        <4>2. \A i, j \in 1..L : f.calls[i] = f.calls[j] => i = j
          BY <2>4 DEF CallsOnce, EvidenceOK, TrajOK, IsSequence
        <4> HIDE DEF longer, L
        <4>3. \A i \in 1..(L + 1) : i \in 1..L \/ i = L + 1
          BY <4>1
        <4>4. \A i, j \in 1..(L + 1) : longer[i] = longer[j] => i = j
          BY <4>1, <4>2, <4>3
        <4> QED
          BY <4>1, <4>4, <2>6 DEF CallsOnce, longer
      <3>3. DOMAIN called.results \subseteq Range(called.calls)
        <4>1. Range(f.calls) \subseteq Range(called.calls)
          BY <2>4, <2>5, <2>6 DEF Range, EvidenceOK, TrajOK, IsSequence
        <4> QED
          BY <4>1, <2>4, <2>6 DEF EvidenceOK, TrajOK
      <3> QED
        BY <3>2, <3>3, <2>4, <2>5, <2>6 DEF EvidenceOK, TrajOK
    <2>8. \A n \in Nat : Bounded(f, n) <=> Bounded(called, n)
      BY <2>6 DEF Bounded
    <2>9. \/ u = called
          \/ /\ DOMAIN t.results # {}
             /\ u = MaybeSetPending(called, ServedTrajectoryKey(s), s.decision.dimension)
      BY <2>2, <2>3 DEF SetPending
    <2> HIDE DEF u
    <2>10. /\ EvidenceOK(u) /\ SameBatch(called, u) /\ u.owner = called.owner
           /\ u.recovered = called.recovered /\ u.intent = called.intent
           /\ u.unserved = called.unserved /\ u.cycles = called.cycles
           /\ \A n \in Nat : Bounded(called, n) <=> Bounded(u, n)
           /\ \/ u.pending \subseteq called.pending
              \/ Struggles(u) /\ called.owner \in {NoOwner, ServedTrajectoryKey(s)}
                 /\ ServedTrajectoryKey(s) # NoOwner /\ DOMAIN t.results # {}
                 /\ \A p \in u.pending : p.from = ServedTrajectoryKey(s)
      BY <2>7, <2>9, PendingSet DEF SameBatch
    <2>11. ASSUME NEW n \in Nat, Bounded(t, n)
           PROVE  \E m \in Nat : /\ Bounded(u, m)
                                 /\ m + Cardinality(DOMAIN u.results) <= n + Cardinality(DOMAIN t.results) + 0
      <3> DEFINE m == n + (Cardinality(DOMAIN t.results) - Cardinality(DOMAIN f.results))
      <3>1. m \in Nat /\ m + Cardinality(DOMAIN f.results) = n + Cardinality(DOMAIN t.results)
        BY <1>0, <2>4
      <3>2. Bounded(u, m)
        BY <3>1, <2>4, <2>8, <2>10, <2>11
      <3>3. u.results = f.results
        BY <2>6, <2>10 DEF SameBatch
      <3> HIDE DEF m
      <3> QED
        BY <3>1, <3>2, <3>3, <1>0
    <2>12. Grown(t, u, 0)
      BY <2>4, <2>6, <2>10, <2>11 DEF Grown, SameOwner
    <2>13. u.owner = t.owner /\ u.unserved = t.unserved /\ DOMAIN u.results \subseteq DOMAIN t.results
      BY <2>4, <2>6, <2>10 DEF SameOwner, SameBatch
    <2>14. ASSUME OwnerOK(t) PROVE OwnerOK(u)
      <3>1. \A i \in DOMAIN u.cycles :
              \/ \E j \in DOMAIN t.cycles : u.cycles[i] = t.cycles[j]
              \/ \E x \in DOMAIN t.results : u.cycles[i].by = t.results[x].by
        BY <2>4, <2>6, <2>10 DEF From
      <3>2. \A x \in DOMAIN u.results : x \in DOMAIN t.results /\ u.results[x] = t.results[x]
        BY <2>4, <2>6, <2>10 DEF SameBatch
      <3>3. \A p \in u.pending : p \in t.pending \/ (DOMAIN t.results # {}
              /\ t.owner \in {NoOwner, ServedTrajectoryKey(s)} /\ p.from = ServedTrajectoryKey(s))
        BY <2>4, <2>6, <2>10 DEF SameOwner
      <3> QED
        BY <2>13, <2>14, <3>1, <3>2, <3>3 DEF OwnerOK, SameModel
    <2> QED
      BY <2>12, <2>13, <2>14 DEF u
  <1> QED
    BY <1>1, <1>2

\* A result: applied alone, held for its batch, or the last one of its batch.
LEMMA ResultObserved ==
  ASSUME NEW t, EvidenceOK(t), NEW e, NEW invocation, NEW s
  PROVE  LET u == AfterEvidence(ObserveToolResult(t, e, invocation), s)
         IN /\ Grown(t, u, 1) /\ u.owner = t.owner /\ u.unserved = t.unserved
            /\ OwnerOK(t) /\ (~t.unserved => t.owner # NoOwner /\ SameModel(e.by, t.owner))
                 => OwnerOK(u)
  <1> DEFINE u == AfterEvidence(ObserveToolResult(t, e, invocation), s)
             held == [t EXCEPT !.results = IF e.id \in DOMAIN @ THEN @ ELSE With(@, e.id, e)]
             c == ApplyCycle(t, e, invocation)
             cycled == [c EXCEPT !.done = @ \cup {e.id}]
             Attributed == OwnerOK(t) /\ (~t.unserved => t.owner # NoOwner /\ SameModel(e.by, t.owner))
  <1>0. Cardinality(DOMAIN t.results) \in Nat
    BY FS_CardinalityType DEF EvidenceOK
  <1>1. CASE e.id \in t.done
    <2>1. u = t
      BY <1>1 DEF AfterEvidence, ObserveToolResult
    <2>2. Grown(t, t, 1)
      BY <1>0 DEF Grown
    <2> QED
      BY <2>1, <2>2
  <1>2. CASE e.id \notin t.done /\ ~Contains(t.calls, e.id)
    <2>1. u = SetPending(cycled, s)
      BY <1>2 DEF AfterEvidence, ObserveToolResult
    <2>2. /\ TrajOK(c) /\ SameOwner(t, c) /\ SameBatch(t, c)
          /\ \A i \in DOMAIN c.cycles : \/ c.cycles[i].by = e.by
                                        \/ \E j \in DOMAIN t.cycles : c.cycles[i] = t.cycles[j]
          /\ \A n \in Nat : Bounded(t, n) => Bounded(c, n + 1)
      BY CycleKeeps DEF EvidenceOK
    <2> HIDE DEF c, u
    <2>3. /\ DOMAIN cycled = TrajFields /\ SameOwner(t, cycled) /\ cycled.cycles = c.cycles
          /\ cycled.failures = c.failures /\ cycled.stagnation = c.stagnation
          /\ cycled.mutations = c.mutations /\ cycled.calls = t.calls /\ cycled.results = t.results
      BY <2>2 DEF TrajOK, TrajFields, SameOwner, SameBatch
    <2> HIDE DEF cycled
    <2>4. EvidenceOK(cycled)
      BY <2>2, <2>3 DEF EvidenceOK, TrajOK, CallsOnce
    <2>5. \A n \in Nat : Bounded(t, n) => Bounded(cycled, n + 1)
      BY <2>2, <2>3 DEF Bounded
    <2>6. u = MaybeSetPending(cycled, ServedTrajectoryKey(s), s.decision.dimension)
      BY <2>1 DEF SetPending
    <2>7. /\ EvidenceOK(u) /\ SameBatch(cycled, u) /\ u.owner = cycled.owner
          /\ u.recovered = cycled.recovered /\ u.intent = cycled.intent
          /\ u.unserved = cycled.unserved /\ u.cycles = cycled.cycles
          /\ \A n \in Nat : Bounded(cycled, n) <=> Bounded(u, n)
          /\ \/ u.pending \subseteq cycled.pending
             \/ Struggles(u) /\ cycled.owner \in {NoOwner, ServedTrajectoryKey(s)}
                /\ ServedTrajectoryKey(s) # NoOwner
                /\ \A p \in u.pending : p.from = ServedTrajectoryKey(s)
      BY <2>4, <2>6, PendingSet
    <2>8. u.results = t.results
      BY <2>3, <2>7 DEF SameBatch
    <2>9. ASSUME NEW n \in Nat, Bounded(t, n)
          PROVE  \E m \in Nat : /\ Bounded(u, m)
                                /\ m + Cardinality(DOMAIN u.results) <= n + Cardinality(DOMAIN t.results) + 1
      <3>1. n + 1 \in Nat /\ Bounded(u, n + 1)
        BY <2>5, <2>7, <2>9
      <3> QED
        BY <3>1, <2>8, <1>0
    <2>10. Grown(t, u, 1)
      BY <2>3, <2>7, <2>9 DEF Grown, SameOwner
    <2>11. u.owner = t.owner /\ u.unserved = t.unserved
      BY <2>3, <2>7 DEF SameOwner
    <2>12. ASSUME Attributed PROVE OwnerOK(u)
      <3>1. \A i \in DOMAIN u.cycles : \/ u.cycles[i].by = e.by
                                       \/ \E j \in DOMAIN t.cycles : u.cycles[i] = t.cycles[j]
        BY <2>2, <2>3, <2>7
      <3>2. \A p \in u.pending : p \in t.pending
              \/ (t.owner \in {NoOwner, ServedTrajectoryKey(s)} /\ p.from = ServedTrajectoryKey(s))
        BY <2>3, <2>7 DEF SameOwner
      <3> QED
        BY <2>8, <2>11, <2>12, <3>1, <3>2 DEF OwnerOK, SameModel
    <2> QED
      BY <2>10, <2>11, <2>12 DEF u
  <1>3. CASE e.id \notin t.done /\ Contains(t.calls, e.id)
    <2> DEFINE results == IF e.id \in DOMAIN t.results THEN t.results ELSE With(t.results, e.id, e)
    <2>1. /\ DOMAIN held = TrajFields /\ SameOwner(t, held) /\ held.cycles = t.cycles
          /\ held.failures = t.failures /\ held.stagnation = t.stagnation
          /\ held.mutations = t.mutations /\ held.calls = t.calls /\ held.results = results
      <3> HIDE DEF results
      <3>1. held = [t EXCEPT !.results = results]
        BY DEF results
      <3> HIDE DEF held
      <3> QED
        BY <3>1 DEF EvidenceOK, TrajOK, TrajFields, SameOwner
    <2>2. DOMAIN results = DOMAIN t.results \cup {e.id}
          /\ \A x \in DOMAIN results : \/ x \in DOMAIN t.results /\ results[x] = t.results[x]
                                       \/ results[x] = e
      BY DEF With
    <2> HIDE DEF results
    <2>3. /\ IsFiniteSet(DOMAIN results) /\ Cardinality(DOMAIN results) \in Nat
          /\ Cardinality(DOMAIN results) <= Cardinality(DOMAIN t.results) + 1
      <3>1. IsFiniteSet(DOMAIN t.results)
        BY DEF EvidenceOK
      <3>2. ASSUME NEW A, IsFiniteSet(A), NEW x
            PROVE  IsFiniteSet(A \cup {x}) /\ Cardinality(A \cup {x}) \in Nat
                   /\ Cardinality(A \cup {x}) <= Cardinality(A) + 1
        BY <3>2, FS_AddElement, FS_CardinalityType
      <3> QED
        BY <3>1, <3>2, <2>2
    <2> HIDE DEF held
    <2>4. EvidenceOK(held)
      <3>1. e.id \in Range(t.calls)
        BY <1>3 DEF Contains, Range, EvidenceOK, TrajOK, IsSequence
      <3> QED
        BY <3>1, <2>1, <2>2, <2>3 DEF EvidenceOK, TrajOK, CallsOnce
    <2>5. \A n \in Nat : Bounded(t, n) <=> Bounded(held, n)
      BY <2>1 DEF Bounded
    <2>6. Attributed => OwnerOK(held)
      BY <2>1, <2>2 DEF OwnerOK, SameOwner
    <2>7. \/ u = held
          \/ u = SetPending(FlushBatch(held, invocation), s)
      BY <1>3 DEF AfterEvidence, ObserveToolResult, held
    <2> HIDE DEF u
    <2>8. /\ Grown(held, u, 0) /\ u.owner = held.owner /\ u.unserved = held.unserved
          /\ OwnerOK(held) => OwnerOK(u)
      <3>1. CASE u = held
        BY <3>1, <2>1, <2>3, <2>4 DEF Grown
      <3>2. CASE u = SetPending(FlushBatch(held, invocation), s)
        <4>1. DOMAIN held.results # {}
          BY <2>1, <2>2
        <4> QED
          BY <4>1, <3>2, <2>4, BatchDecided
      <3> QED
        BY <2>7, <3>1, <3>2
    <2>9. ASSUME NEW n \in Nat, Bounded(t, n)
          PROVE  \E m \in Nat : /\ Bounded(u, m)
                                /\ m + Cardinality(DOMAIN u.results) <= n + Cardinality(DOMAIN t.results) + 1
      <3>1. PICK m \in Nat : /\ Bounded(u, m)
                             /\ m + Cardinality(DOMAIN u.results) <= n + Cardinality(DOMAIN held.results) + 0
        BY <2>5, <2>8, <2>9 DEF Grown
      <3>2. Cardinality(DOMAIN u.results) \in Nat
        BY <2>8, FS_CardinalityType DEF Grown, EvidenceOK
      <3> QED
        BY <3>1, <3>2, <2>1, <2>3, <1>0
    <2>10. Grown(t, u, 1)
      BY <2>1, <2>8, <2>9 DEF Grown, SameOwner
    <2> QED
      BY <2>1, <2>6, <2>8, <2>10 DEF u, SameOwner
  <1> QED
    BY <1>1, <1>2, <1>3

-----------------------------------------------------------------------------
(* The session: what choosing the serving mode and a decision leave alone. *)
SessionFields ==
  {"gen", "decision", "chosen", "served", "previous", "hold", "pin", "snapshot", "resumeIntent",
   "resolved", "synced", "warm", "head", "tokens", "cached", "phase", "incumbent", "active",
   "recoveryDue"}
SessionOK(s) == DOMAIN s = SessionFields
\* The same serving model, in the same session.
SameServing(s, u) == SessionOK(u) /\ u.served = s.served /\ u.gen = s.gen
\* The same pin and held model as well.
SamePins(s, u) == SameServing(s, u) /\ u.pin = s.pin /\ u.hold = s.hold

LEMMA FreshIsSession ==
  \A gen, due : LET s == FreshSession(gen, due)
                IN SessionOK(s) /\ s.served = NoKey /\ s.gen = gen
  BY DEF FreshSession, SessionOK, SessionFields

LEMMA SamePinsIsOrder ==
  /\ \A s : SessionOK(s) => SamePins(s, s)
  /\ \A s, u : SamePins(s, u) => SessionOK(u) /\ SameServing(s, u)
  /\ \A s, u, v : SamePins(s, u) /\ SamePins(u, v) => SamePins(s, v)
  /\ \A s, u, v : SameServing(s, u) /\ SameServing(u, v) => SameServing(s, v)
  BY DEF SamePins, SameServing

LEMMA FieldSteps ==
  ASSUME NEW s, SessionOK(s), NEW x, NEW y
  PROVE  /\ SamePins(s, [s EXCEPT !.cached = x]) /\ SamePins(s, [s EXCEPT !.phase = x])
         /\ SamePins(s, [s EXCEPT !.incumbent = x]) /\ SamePins(s, [s EXCEPT !.warm = x])
         /\ SamePins(s, [s EXCEPT !.recoveryDue = x]) /\ SamePins(s, [s EXCEPT !.synced = x])
         /\ SamePins(s, [s EXCEPT !.resolved = x, !.synced = y])
         /\ SameServing(s, [s EXCEPT !.hold = x])
  BY DEF SessionOK, SessionFields, SamePins, SameServing

LEMMA SessionSteps ==
  /\ \A s, x : SessionOK(s) => SamePins(s, SetLastDecision(s, x))
  /\ \A s, x, y : SessionOK(s) => SamePins(s, NoteRequest(s, x, y))
  /\ \A s : SessionOK(s) => SamePins(s, ClearPendingResume(s))
  /\ \A s, x : SessionOK(s) => SameServing(s, SetManualModel(s, x))
  /\ \A s, x : SessionOK(s) => SamePins(s, RestoreWorkLedger(s, x))
  BY DEF SessionOK, SessionFields, SamePins, SameServing, SetLastDecision, ClearPendingResume,
         SetManualModel, NoteRequest, RestoreWorkLedger

LEMMA ThinkingChangeKeeps ==
  ASSUME NEW s, SessionOK(s)
  PROVE  SameServing(s, PinOnThinkingChange(s))
  <1> DEFINE target == IF s.pin # NoKey THEN s.pin ELSE s.previous
             seen == [s EXCEPT !.synced = pi.level]
             level == ResolveThinkingLevel(ModelOf(RegistryId(target)), pi.level)
  <1>1. SameServing(s, seen) /\ SessionOK(seen)
    BY DEF SessionOK, SessionFields, SameServing
  <1> HIDE DEF seen
  <1>2. SameServing(seen, SetManualModel(seen, <<target[1], target[2], level>>))
    BY <1>1, SessionSteps
  <1>3. \/ PinOnThinkingChange(s) = s \/ PinOnThinkingChange(s) = seen
        \/ PinOnThinkingChange(s) = SetManualModel(seen, <<target[1], target[2], level>>)
    BY DEF PinOnThinkingChange, seen
  <1> QED
    BY <1>1, <1>2, <1>3 DEF SameServing

LEMMA ServingKeeps ==
  ASSUME NEW s, SessionOK(s), NEW intent, NEW candidates
  PROVE  SameServing(s, ServingMode(s, intent, candidates).session)
  <1> DEFINE held == [s EXCEPT !.hold = IF s.hold.intent = intent THEN @ ELSE NoHold]
             bound == IF held.resumeIntent = NoIntent THEN [held EXCEPT !.resumeIntent = intent] ELSE held
             resume == ResolveResumeDecision(held, intent)
  <1>1. SameServing(s, held) /\ SessionOK(held)
    BY DEF SessionOK, SessionFields, SameServing
  <1> HIDE DEF held
  <1>2. SameServing(s, bound) /\ SessionOK(bound)
    BY <1>1 DEF SessionOK, SessionFields, SameServing
  <1>3. resume.session \in {held, bound, ClearPendingResume(bound)}
    BY DEF ResolveResumeDecision
  <1> HIDE DEF bound, resume
  <1>4. SameServing(s, resume.session) /\ SessionOK(resume.session)
    BY <1>1, <1>2, <1>3, SessionSteps, SamePinsIsOrder
  <1>5. ServingMode(s, intent, candidates).session
          \in {s, held, resume.session, ClearPendingResume(resume.session)}
    BY DEF ServingMode, held, resume
  <1>6. SameServing(s, s)
    BY DEF SameServing
  <1> QED
    BY <1>1, <1>4, <1>5, <1>6, SessionSteps, SamePinsIsOrder

LEMMA PhaseKeeps ==
  ASSUME NEW s, SessionOK(s)
  PROVE  /\ \A t, identity : SamePins(s, AdvanceWorkPhase(s, t, identity))
         /\ \A cause : SamePins(s, EnterAcquisition(s, cause))
  BY DEF AdvanceWorkPhase, EnterAcquisition, SessionOK, SessionFields, SamePins, SameServing

LEMMA ScoreKeeps ==
  ASSUME NEW s, SessionOK(s), NEW t, NEW pool, NEW esc, NEW cause, NEW identity, NEW pinned
  PROVE  SamePins(s, ScoreRouterTurn(s, t, pool, esc, cause, identity, pinned).session)
  <1> DEFINE routable == IF pinned THEN pool ELSE ApplyRuntimeExclusions(pool, black)
             advanced == AdvanceWorkPhase(s, t, identity)
             routed == EntryPhase(advanced.phase, [t.base EXCEPT !.cause = cause])
             entered == EnterAcquisition(advanced, routed.cause)
  <1>1. SamePins(s, advanced) /\ SessionOK(advanced)
    BY PhaseKeeps DEF SamePins, SameServing
  <1> HIDE DEF advanced
  <1>2. SamePins(s, entered) /\ SessionOK(entered)
    BY <1>1, PhaseKeeps DEF SamePins, SameServing
  <1>3. \/ ScoreRouterTurn(s, t, pool, esc, cause, identity, pinned).session = s
        \/ \E decision : ScoreRouterTurn(s, t, pool, esc, cause, identity, pinned).session
                           = SetLastDecision(entered, decision)
    BY DEF ScoreRouterTurn, ScorePhase, ScoreEntered, Decided, WithDecision, advanced
  <1> HIDE DEF entered, routed, routable
  <1>4. \A decision : SamePins(entered, SetLastDecision(entered, decision))
    BY <1>2, SessionSteps
  <1> HIDE DEF advanced
  <1> QED
    BY <1>2, <1>3, <1>4, SamePinsIsOrder

-----------------------------------------------------------------------------
(* The invariant.                                                          *)
PiFields ==
  {"model", "level", "head", "messages", "notes", "branch", "open", "next", "due", "calling", "batch",
   "server"}
UsedFields == {"users", "requests", "calls", "upsets", "fails"}
BeforeServing == {"entry", "semi", "gate", "walk"}
TurnFields == {"pc", "mode", "pin", "resume", "intent", "hit", "base", "messages", "requested", "tokens",
               "black", "esc", "gen", "asked", "observed"}

\* What a turn in progress is, and whose calls Pi makes without one.
StateOK ==
  /\ SessionOK(session) /\ DOMAIN pi = PiFields /\ DOMAIN used = UsedFields
  /\ used.calls \in Nat /\ pi.open \subseteq 1..used.calls
  /\ \A c \in claims : c.at \in Nat
  /\ turn = Idle \/ (turn.pc \in BeforeServing \cup {"settle"} /\ TurnFields \subseteq DOMAIN turn)
  /\ turn # Idle /\ turn.pc \in {"gate", "walk", "settle"} => "served" \in DOMAIN turn
  /\ turn # Idle /\ turn.pc = "gate" => turn.entryGen = turn.gen
  /\ turn # Idle => pi.open = {} /\ pi.calling = FALSE
  /\ turn.pc \in BeforeServing => session.served = NoKey
  /\ turn.pc = "settle" => session.served \in {NoKey, turn.served}
  /\ turn = Idle /\ (pi.calling \/ pi.open # {}) /\ session.served # NoKey =>
       SameModel(session.served, pi.server)

EvidenceInv ==
  /\ EvidenceOK(traj) /\ OwnerOK(traj)
  /\ RecoveryOK(traj, claims, session.gen, used.calls, Cardinality(pi.open))
  /\ DOMAIN traj.results # {} =>
       turn = Idle /\ (~traj.unserved => session.served \in {NoKey, traj.owner})

TurnInv == StateOK /\ EvidenceInv /\ RecoveryBeforeEscalation

LEMMA OpenIsFinite ==
  StateOK => IsFiniteSet(pi.open) /\ Cardinality(pi.open) \in Nat
  <1> SUFFICES ASSUME StateOK PROVE IsFiniteSet(pi.open) /\ Cardinality(pi.open) \in Nat
    OBVIOUS
  <1>1. pi.open \subseteq 1..used.calls /\ used.calls \in Nat
    BY DEF StateOK
  <1>2. IsFiniteSet(pi.open)
    BY <1>1, UpToIsFinite, FS_Subset
  <1> QED
    BY <1>2, FS_CardinalityType

LEMMA NothingKnown ==
  ASSUME NEW t, \/ t = EmptyTrajectory \/ \E i : t = [EmptyTrajectory EXCEPT !.intent = i]
  PROVE  /\ EvidenceOK(t) /\ OwnerOK(t) /\ DOMAIN t.results = {} /\ t.recovered = NoOwner
         /\ t.pending = {}
         /\ \A C, gen, calls, open : RecoveryOK(t, C, gen, calls, open)
         /\ \A i : t = [EmptyTrajectory EXCEPT !.intent = i] => t.intent = i
  <1>1. /\ DOMAIN t = TrajFields /\ t.cycles = <<>> /\ t.stagnation = 0 /\ t.mutations = 0
        /\ t.failures = <<>> /\ t.calls = <<>> /\ t.results = <<>> /\ t.pending = {}
        /\ t.recovered = NoOwner
    BY DEF EmptyTrajectory, TrajFields
  <1>2. \A i : t = [EmptyTrajectory EXCEPT !.intent = i] => t.intent = i
    BY DEF EmptyTrajectory
  <1>3. DOMAIN t.results = {} /\ DOMAIN t.failures = {} /\ DOMAIN t.cycles = {}
        /\ IsSequence(t.cycles) /\ IsSequence(t.calls) /\ IsFiniteSet(DOMAIN t.results)
    BY <1>1, FS_EmptySet DEF IsSequence
  <1>4. EvidenceOK(t)
    BY <1>1, <1>3 DEF EvidenceOK, TrajOK, CallsOnce
  <1>5. OwnerOK(t)
    BY <1>1, <1>3 DEF OwnerOK
  <1> QED
    BY <1>1, <1>2, <1>3, <1>4, <1>5 DEF RecoveryOK

LEMMA PendingConsumed ==
  ASSUME NEW t, EvidenceOK(t)
  PROVE  LET u == ConsumePending(t)
         IN /\ Grown(t, u, 0) /\ u.owner = t.owner /\ u.unserved = t.unserved
            /\ u.results = t.results /\ (OwnerOK(t) => OwnerOK(u))
  <1> DEFINE u == ConsumePending(t)
  <1>1. /\ DOMAIN u = TrajFields /\ SameBatch(t, u) /\ u.owner = t.owner /\ u.recovered = t.recovered
        /\ u.intent = t.intent /\ u.unserved = t.unserved /\ u.cycles = t.cycles /\ u.pending = {}
        /\ u.failures = t.failures /\ u.stagnation = t.stagnation /\ u.mutations = t.mutations
    BY DEF ConsumePending, EvidenceOK, TrajOK, TrajFields, SameBatch
  <1> HIDE DEF u
  <1>2. EvidenceOK(u) /\ \A n \in Nat : Bounded(t, n) => Bounded(u, n)
    BY <1>1 DEF EvidenceOK, TrajOK, SameBatch, CallsOnce, Bounded
  <1>3. Cardinality(DOMAIN t.results) \in Nat /\ u.results = t.results
    BY <1>1, FS_CardinalityType DEF EvidenceOK, SameBatch
  <1>4. Grown(t, u, 0)
    BY <1>1, <1>2, <1>3 DEF Grown
  <1>5. OwnerOK(t) => OwnerOK(u)
    BY <1>1, <1>3 DEF OwnerOK
  <1> QED
    BY <1>1, <1>3, <1>4, <1>5 DEF u

LEMMA Unchanged ==
  ASSUME NEW t, EvidenceOK(t)
  PROVE  Grown(t, t, 0)
  <1>1. Cardinality(DOMAIN t.results) \in Nat
    BY FS_CardinalityType DEF EvidenceOK
  <1> QED
    BY <1>1 DEF Grown

SameEscalation == /\ turn # Idle /\ turn'.esc = turn.esc /\ turn'.intent = turn.intent
                  /\ turn'.observed = turn.observed

LEMMA EvidenceStep ==
  ASSUME TurnInv, StateOK', NEW k \in Nat, Grown(traj, traj', k), OwnerOK(traj'),
         claims' = claims, session'.gen = session.gen, used.calls <= used'.calls,
         Cardinality(pi'.open) + k <= Cardinality(pi.open) + (used'.calls - used.calls),
         DOMAIN traj'.results # {} =>
           turn' = Idle /\ (~traj'.unserved => session'.served \in {NoKey, traj'.owner}),
         turn' = Idle \/ SameEscalation
  PROVE  TurnInv'
  <1>1. /\ used.calls \in Nat /\ used'.calls \in Nat /\ \A c \in claims : c.at \in Nat
    BY DEF TurnInv, StateOK
  <1>2. Cardinality(pi.open) \in Nat /\ Cardinality(pi'.open) \in Nat
    <2>1. Cardinality(pi.open) \in Nat
      BY OpenIsFinite DEF TurnInv
    <2>2. pi'.open \subseteq 1..used'.calls
      BY DEF StateOK
    <2>3. IsFiniteSet(pi'.open)
      BY <1>1, <2>2, UpToIsFinite, FS_Subset
    <2> QED
      BY <2>1, <2>3, FS_CardinalityType
  <1>3. RecoveryOK(traj', claims, session.gen, used'.calls, Cardinality(pi'.open))
    BY <1>1, <1>2, GrownRecovers DEF TurnInv, EvidenceInv
  <1>4. EvidenceOK(traj')
    BY DEF Grown
  <1>5. EvidenceInv'
    BY <1>3, <1>4 DEF EvidenceInv
  <1>6. RecoveryBeforeEscalation'
    BY DEF TurnInv, RecoveryBeforeEscalation, SameEscalation
  <1> QED
    BY <1>5, <1>6 DEF TurnInv

LEMMA TurnInvInit == Init => TurnInv
  <1> SUFFICES ASSUME Init PROVE TurnInv
    OBVIOUS
  <1>1. /\ session = FreshSession(1, FALSE) /\ traj = EmptyTrajectory /\ turn = Idle /\ claims = {}
        /\ used = [users |-> 0, requests |-> 0, calls |-> 0, upsets |-> 0, fails |-> 0]
        /\ DOMAIN pi = PiFields /\ pi.open = {} /\ pi.calling = FALSE
    BY DEF Init, PiFields
  <1>2. /\ EvidenceOK(traj) /\ OwnerOK(traj) /\ DOMAIN traj.results = {}
        /\ \A C, gen, calls, open : RecoveryOK(traj, C, gen, calls, open)
    BY <1>1, NothingKnown
  <1>3. SessionOK(session) /\ session.served = NoKey
    BY <1>1, FreshIsSession
  <1>4. turn.pc = "idle"
    BY <1>1 DEF Idle
  <1>5. StateOK
    BY <1>1, <1>3, <1>4 DEF StateOK, UsedFields, BeforeServing
  <1> QED
    BY <1>1, <1>2, <1>5 DEF TurnInv, EvidenceInv, RecoveryBeforeEscalation

-----------------------------------------------------------------------------
(* The user, Pi and the subagents.                                         *)
LEMMA Spending ==
  ASSUME DOMAIN used = UsedFields, used.calls \in Nat, NEW kind \in UsedFields, Spends(kind)
  PROVE  /\ DOMAIN used' = UsedFields
         /\ used'.calls = IF kind = "calls" THEN used.calls + 1 ELSE used.calls
  BY DEF Spends, UsedFields

\* Nothing is served, called or learned.
EnvironmentStep ==
  /\ SessionOK(session') /\ session'.gen = session.gen /\ session'.served \in {NoKey, session.served}
  /\ DOMAIN pi' = PiFields /\ pi'.open \subseteq pi.open /\ pi'.calling \in {pi.calling, FALSE}
  /\ pi'.server = pi.server
  /\ DOMAIN used' = UsedFields /\ used'.calls = used.calls
  /\ claims' = claims /\ turn' = turn /\ traj' \in {traj, ConsumePending(traj)}

LEMMA EnvironmentKeeps ==
  ASSUME TurnInv, EnvironmentStep
  PROVE  TurnInv'
  <1>1. StateOK'
    BY DEF TurnInv, StateOK, EnvironmentStep
  <1>2. EvidenceOK(traj) /\ OwnerOK(traj)
    BY DEF TurnInv, EvidenceInv
  <1>3. /\ Grown(traj, traj', 0) /\ traj'.owner = traj.owner /\ traj'.unserved = traj.unserved
        /\ traj'.results = traj.results /\ OwnerOK(traj')
    <2>1. CASE traj' = traj
      BY <2>1, <1>2, Unchanged
    <2>2. CASE traj' = ConsumePending(traj)
      BY <2>2, <1>2, PendingConsumed
    <2> QED
      BY <2>1, <2>2 DEF EnvironmentStep
  <1>4. Cardinality(pi'.open) <= Cardinality(pi.open) /\ Cardinality(pi.open) \in Nat
        /\ Cardinality(pi'.open) \in Nat
    <2>1. IsFiniteSet(pi.open) /\ Cardinality(pi.open) \in Nat
      BY OpenIsFinite DEF TurnInv
    <2>2. pi'.open \subseteq pi.open
      BY DEF EnvironmentStep
    <2>3. IsFiniteSet(pi'.open) /\ Cardinality(pi'.open) <= Cardinality(pi.open)
      BY <2>1, <2>2, FS_Subset
    <2> QED
      BY <2>1, <2>3, FS_CardinalityType
  <1>5. /\ claims' = claims /\ session'.gen = session.gen /\ used'.calls = used.calls
        /\ used.calls \in Nat
    BY DEF EnvironmentStep, TurnInv, StateOK
  <1>6. Cardinality(pi'.open) + 0 <= Cardinality(pi.open) + (used'.calls - used.calls)
    BY <1>4, <1>5
  <1>7. DOMAIN traj'.results # {} =>
          turn' = Idle /\ (~traj'.unserved => session'.served \in {NoKey, traj'.owner})
    BY <1>3 DEF TurnInv, EvidenceInv, EnvironmentStep
  <1>8. turn' = Idle \/ SameEscalation
    BY DEF EnvironmentStep, SameEscalation
  <1> QED
    BY <1>1, <1>3, <1>5, <1>6, <1>7, <1>8, EvidenceStep

LEMMA UpsetSpends ==
  ASSUME NEW kind, Upset(kind)
  PROVE  Spends("upsets")
  BY DEF Upset

LEMMA EnvironmentOfPi ==
  ASSUME TurnInv
  PROVE  /\ NewUser => EnvironmentStep
         /\ \A level \in w.levels : SetLevel(level) => EnvironmentStep
         /\ FlipHead => EnvironmentStep
         /\ \A writable \in w.writable : ConcreteRequest(writable) => EnvironmentStep
         /\ \A pattern \in w.patterns : BlacklistAdd(pattern) => EnvironmentStep
         /\ \A pattern \in w.patterns : BlacklistRemove(pattern) => EnvironmentStep
         /\ ClearSessionBlacklist => EnvironmentStep
         /\ \A id \in pi.open : BlockCall(id) => EnvironmentStep
         /\ \A capped : SubagentResult(capped) => EnvironmentStep
  <1>1. /\ SessionOK(session) /\ DOMAIN pi = PiFields /\ DOMAIN used = UsedFields /\ used.calls \in Nat
    BY DEF TurnInv, StateOK
  <1>2. \A kind \in UsedFields \ {"calls"} :
          Spends(kind) => DOMAIN used' = UsedFields /\ used'.calls = used.calls
    BY <1>1, Spending
  <1>3. {"users", "requests", "upsets"} \subseteq UsedFields \ {"calls"}
    BY DEF UsedFields
  <1>4. NewUser => EnvironmentStep
    BY <1>1, <1>2, <1>3 DEF NewUser, EnvironmentStep, PiFields, Recorded
  <1>5. \A level \in w.levels : SetLevel(level) => EnvironmentStep
    BY <1>1, <1>2, <1>3, UpsetSpends DEF SetLevel, EnvironmentStep, PiFields
  <1>6. FlipHead => EnvironmentStep
    BY <1>1, <1>2, <1>3, UpsetSpends DEF FlipHead, EnvironmentStep, PiFields
  <1>7. \A writable \in w.writable : ConcreteRequest(writable) => EnvironmentStep
    BY <1>1, <1>2, <1>3 DEF ConcreteRequest, EnvironmentStep, PiFields
  <1>8. \A pattern \in w.patterns : BlacklistAdd(pattern) => EnvironmentStep
    BY <1>1, <1>2, <1>3, UpsetSpends DEF BlacklistAdd, EnvironmentStep
  <1>9. \A pattern \in w.patterns : BlacklistRemove(pattern) => EnvironmentStep
    BY <1>1, <1>2, <1>3, UpsetSpends DEF BlacklistRemove, EnvironmentStep
  <1>10. ClearSessionBlacklist => EnvironmentStep
    BY <1>1, <1>2, <1>3, UpsetSpends DEF ClearSessionBlacklist, EnvironmentStep
  <1>11. \A id \in pi.open : BlockCall(id) => EnvironmentStep
    BY <1>1 DEF BlockCall, EnvironmentStep, PiFields, Answered
  <1>12. \A capped : SubagentResult(capped) => EnvironmentStep
    BY <1>1 DEF SubagentResult, EnvironmentStep, PiFields, Answered
  <1> QED
    BY <1>4, <1>5, <1>6, <1>7, <1>8, <1>9, <1>10, <1>11, <1>12

LEMMA EnvironmentOfSession ==
  ASSUME TurnInv
  PROVE  /\ \A pin \in w.manual : UserPin(pin) => EnvironmentStep
         /\ ResumeManual => EnvironmentStep
         /\ SelectConcrete => EnvironmentStep
         /\ SelectRouter => EnvironmentStep
         /\ Compact => EnvironmentStep
         /\ \A count : Tree(count) => EnvironmentStep
  <1>1. /\ SessionOK(session) /\ DOMAIN pi = PiFields /\ DOMAIN used = UsedFields /\ used.calls \in Nat
    BY DEF TurnInv, StateOK
  <1>2. Spends("upsets") => DOMAIN used' = UsedFields /\ used'.calls = used.calls
    <2>1. "upsets" \in UsedFields
      BY DEF UsedFields
    <2> QED
      BY <2>1, <1>1, Spending
  <1>3. \A pin \in w.manual : UserPin(pin) => EnvironmentStep
    <2> SUFFICES ASSUME NEW pin \in w.manual, UserPin(pin) PROVE EnvironmentStep
      OBVIOUS
    <2>1. SameServing(session, session')
      BY <1>1, SessionSteps DEF UserPin
    <2> QED
      BY <1>1, <1>2, <2>1, UpsetSpends DEF UserPin, EnvironmentStep, SameServing
  <1>4. ResumeManual => EnvironmentStep
    BY <1>1, <1>2, UpsetSpends DEF ResumeManual, EnvironmentStep, SessionOK, SessionFields
  <1>5. SelectConcrete => EnvironmentStep
    <2> SUFFICES ASSUME SelectConcrete PROVE EnvironmentStep
      OBVIOUS
    <2>1. SessionOK(session') /\ session'.gen = session.gen /\ session'.served = NoKey
      BY <1>1 DEF SelectConcrete, EndServing, SessionOK, SessionFields
    <2>2. /\ DOMAIN pi' = PiFields /\ pi'.open = pi.open /\ pi'.calling = pi.calling
          /\ pi'.server = pi.server
      BY <1>1 DEF SelectConcrete, Recorded, PiFields
    <2>3. claims' = claims /\ turn' = turn /\ traj' = traj /\ Spends("upsets")
      BY UpsetSpends DEF SelectConcrete
    <2> QED
      BY <1>2, <2>1, <2>2, <2>3 DEF EnvironmentStep
  <1>6. SelectRouter => EnvironmentStep
    <2> SUFFICES ASSUME SelectRouter PROVE EnvironmentStep
      OBVIOUS
    <2>1. SamePins(session, session')
      <3> DEFINE s == [session EXCEPT !.synced = NoEffort]
      <3>1. SamePins(session, s)
        BY <1>1, FieldSteps
      <3>2. session' = RestoreWorkLedger(s, pi.branch)
        BY DEF SelectRouter
      <3> HIDE DEF s
      <3> QED
        BY <3>1, <3>2, SessionSteps, SamePinsIsOrder
    <2>2. /\ DOMAIN pi' = PiFields /\ pi'.open = pi.open /\ pi'.calling = pi.calling
          /\ pi'.server = pi.server
      BY <1>1 DEF SelectRouter, PiFields
    <2>3. claims' = claims /\ turn' = turn /\ traj' = traj /\ Spends("upsets")
      BY UpsetSpends DEF SelectRouter
    <2> QED
      BY <1>2, <2>1, <2>2, <2>3 DEF EnvironmentStep, SamePins, SameServing
  <1>7. Compact => EnvironmentStep
    <2> SUFFICES ASSUME Compact PROVE EnvironmentStep
      OBVIOUS
    <2>1. SamePins(session, session')
      BY <1>1, FieldSteps DEF Compact
    <2>2. /\ DOMAIN pi' = PiFields /\ pi'.open = pi.open /\ pi'.calling = pi.calling
          /\ pi'.server = pi.server
      BY <1>1 DEF Compact, PiFields
    <2>3. claims' = claims /\ turn' = turn /\ traj' = traj /\ Spends("upsets")
      BY UpsetSpends DEF Compact
    <2> QED
      BY <1>2, <2>1, <2>2, <2>3 DEF EnvironmentStep, SamePins, SameServing
  <1>8. \A count : Tree(count) => EnvironmentStep
    <2> SUFFICES ASSUME NEW count, Tree(count) PROVE EnvironmentStep
      OBVIOUS
    <2>1. SamePins(session, session')
      <3> DEFINE s == [session EXCEPT !.warm = {}]
      <3>1. SamePins(session, s)
        BY <1>1, FieldSteps
      <3>2. PICK branch, phase :
              LET r == RestoreWorkLedger(s, branch)
              IN session' = r \/ session' = [r EXCEPT !.phase = phase]
        BY DEF Tree
      <3> HIDE DEF s
      <3> DEFINE r == RestoreWorkLedger(s, branch)
      <3>3. SamePins(session, r)
        BY <3>1, SessionSteps, SamePinsIsOrder
      <3> HIDE DEF r
      <3>4. SamePins(r, [r EXCEPT !.phase = phase])
        BY <3>3, SamePinsIsOrder, FieldSteps
      <3> QED
        BY <3>2, <3>3, <3>4, SamePinsIsOrder DEF r
    <2>2. /\ DOMAIN pi' = PiFields /\ pi'.open = pi.open /\ pi'.calling = FALSE
          /\ pi'.server = pi.server
      BY <1>1 DEF Tree, PiFields
    <2>3. claims' = claims /\ turn' = turn /\ traj' = traj /\ Spends("upsets")
      BY UpsetSpends DEF Tree
    <2> QED
      BY <1>2, <2>1, <2>2, <2>3 DEF EnvironmentStep, SamePins, SameServing
  <1> QED
    BY <1>3, <1>4, <1>5, <1>6, <1>7, <1>8

\* session_start forgets the evidence, and every attempt with it.
LEMMA SessionStartKeeps ==
  ASSUME TurnInv, NEW reload \in BOOLEAN, SessionStart(reload)
  PROVE  TurnInv'
  <1>1. /\ SessionOK(session) /\ DOMAIN pi = PiFields /\ DOMAIN used = UsedFields /\ used.calls \in Nat
    BY DEF TurnInv, StateOK
  <1>2. DOMAIN used' = UsedFields /\ used'.calls = used.calls
    <2>1. "upsets" \in UsedFields
      BY DEF UsedFields
    <2>2. Spends("upsets")
      BY UpsetSpends DEF SessionStart
    <2> QED
      BY <2>1, <2>2, <1>1, Spending
  <1>3. SessionOK(session') /\ session'.served = NoKey
    <2> DEFINE f == FreshSession(session.gen + 1, session.recoveryDue)
    <2>1. SessionOK(f) /\ f.served = NoKey
      BY FreshIsSession
    <2>2. \E branch : session' = RestoreWorkLedger(f, branch)
      BY DEF SessionStart
    <2> HIDE DEF f
    <2> QED
      BY <2>1, <2>2, SessionSteps DEF SamePins, SameServing
  <1>4. DOMAIN pi' = PiFields /\ pi'.open = {} /\ pi'.calling = FALSE
    BY <1>1 DEF SessionStart, PiFields
  <1>5. claims' = claims /\ turn' = turn /\ traj' = EmptyTrajectory
    BY DEF SessionStart
  <1>6. StateOK'
    BY <1>1, <1>2, <1>3, <1>4, <1>5 DEF TurnInv, StateOK
  <1>7. EvidenceInv'
    BY <1>5, NothingKnown DEF EvidenceInv
  <1>8. RecoveryBeforeEscalation'
    BY <1>5 DEF TurnInv, RecoveryBeforeEscalation
  <1> QED
    BY <1>6, <1>7, <1>8 DEF TurnInv

-----------------------------------------------------------------------------
(* Tool calls and their results.                                           *)
LEMMA GrownThen ==
  ASSUME NEW t, NEW u, NEW v, NEW k \in Nat, Grown(t, u, 0), u.pending \subseteq t.pending,
         Grown(u, v, k), EvidenceOK(t)
  PROVE  Grown(t, v, k)
  <1>1. /\ Cardinality(DOMAIN t.results) \in Nat /\ Cardinality(DOMAIN u.results) \in Nat
        /\ Cardinality(DOMAIN v.results) \in Nat
    BY FS_CardinalityType DEF Grown, EvidenceOK
  <1>2. ASSUME NEW n \in Nat, Bounded(t, n)
        PROVE  \E m \in Nat : /\ Bounded(v, m)
                              /\ m + Cardinality(DOMAIN v.results) <= n + Cardinality(DOMAIN t.results) + k
    <2>1. PICK m \in Nat : /\ Bounded(u, m)
                           /\ m + Cardinality(DOMAIN u.results) <= n + Cardinality(DOMAIN t.results) + 0
      BY <1>2 DEF Grown
    <2>2. PICK l \in Nat : /\ Bounded(v, l)
                           /\ l + Cardinality(DOMAIN v.results) <= m + Cardinality(DOMAIN u.results) + k
      BY <2>1 DEF Grown
    <2> QED
      BY <1>1, <2>1, <2>2
  <1> QED
    BY <1>2 DEF Grown

\* What the code asks of a result: it is the served model's, or nobody's.
LEMMA ResultAttributed ==
  ASSUME NEW t, EvidenceOK(t), OwnerOK(t), NEW e,
         session.served # NoKey => SameModel(session.served, e.by),
         DOMAIN t.results # {} => (~t.unserved => session.served \in {NoKey, t.owner})
  PROVE  LET u == Observed(t, e)
         IN /\ Grown(t, u, 1) /\ OwnerOK(u)
            /\ ~u.unserved => session.served \in {NoKey, u.owner}
  <1> DEFINE b == BindOwner(t, session.served)
             c == [b EXCEPT !.unserved = @ \/ session.served = NoKey]
             u == AfterEvidence(ObserveToolResult(c, e, Invocation(session)), session)
  <1>0. NoKey = NoOwner
    BY DEF NoKey, NoOwner, NoEffort
  <1>1. /\ Grown(t, b, 0) /\ SameBatch(t, b) /\ b.unserved = t.unserved
        /\ b.owner = IF session.served = NoOwner THEN t.owner ELSE session.served
        /\ b.pending \subseteq t.pending
        /\ OwnerOK(t) /\ (DOMAIN t.results = {} \/ (~t.unserved => session.served \in {NoOwner, t.owner}))
             => OwnerOK(b)
    BY OwnerBound
  <1>2. OwnerOK(b)
    BY <1>0, <1>1
  <1> HIDE DEF b
  <1>3. /\ DOMAIN c = TrajFields /\ SameBatch(b, c) /\ c.owner = b.owner /\ c.recovered = b.recovered
        /\ c.intent = b.intent /\ c.cycles = b.cycles /\ c.pending = b.pending
        /\ c.failures = b.failures /\ c.stagnation = b.stagnation /\ c.mutations = b.mutations
        /\ c.unserved = (b.unserved \/ session.served = NoKey)
    BY <1>1 DEF Grown, EvidenceOK, TrajOK, TrajFields, SameBatch
  <1> HIDE DEF c
  <1>4. EvidenceOK(c) /\ \A n \in Nat : Bounded(b, n) => Bounded(c, n)
    BY <1>1, <1>3 DEF Grown, EvidenceOK, TrajOK, SameBatch, CallsOnce, Bounded
  <1>5. Grown(t, c, 0) /\ c.pending \subseteq t.pending
    BY <1>1, <1>3, <1>4 DEF Grown, SameBatch
  <1>6. OwnerOK(c)
    BY <1>2, <1>3 DEF OwnerOK, SameBatch
  <1>7. ~c.unserved => c.owner # NoOwner /\ SameModel(e.by, c.owner) /\ c.owner = session.served
    BY <1>0, <1>1, <1>3 DEF SameModel
  <1>8. /\ Grown(c, u, 1) /\ u.owner = c.owner /\ u.unserved = c.unserved
        /\ OwnerOK(c) /\ (~c.unserved => c.owner # NoOwner /\ SameModel(e.by, c.owner)) => OwnerOK(u)
    BY <1>4, ResultObserved
  <1>9. u = Observed(t, e)
    BY DEF Observed, b, c
  <1> HIDE DEF u
  <1>10. Grown(t, u, 1)
    BY <1>5, <1>8, GrownThen
  <1> QED
    BY <1>6, <1>7, <1>8, <1>9, <1>10

LEMMA CallAttributed ==
  ASSUME NEW t, EvidenceOK(t), OwnerOK(t), NEW id,
         DOMAIN t.results # {} => (~t.unserved => session.served \in {NoKey, t.owner})
  PROVE  LET u == Called(t, id)
         IN /\ Grown(t, u, 0) /\ OwnerOK(u) /\ u.unserved = t.unserved
            /\ DOMAIN u.results \subseteq DOMAIN t.results
            /\ u.owner = IF session.served = NoKey THEN t.owner ELSE session.served
  <1> DEFINE b == BindOwner(t, session.served)
             u == AfterEvidence(NoteToolCall(b, id), session)
  <1>0. NoKey = NoOwner
    BY DEF NoKey, NoOwner, NoEffort
  <1>1. /\ Grown(t, b, 0) /\ SameBatch(t, b) /\ b.unserved = t.unserved
        /\ b.owner = IF session.served = NoOwner THEN t.owner ELSE session.served
        /\ b.pending \subseteq t.pending
        /\ OwnerOK(t) /\ (DOMAIN t.results = {} \/ (~t.unserved => session.served \in {NoOwner, t.owner}))
             => OwnerOK(b)
    BY OwnerBound
  <1>2. OwnerOK(b) /\ EvidenceOK(b)
    BY <1>0, <1>1 DEF Grown
  <1> HIDE DEF b
  <1>3. /\ Grown(b, u, 0) /\ u.owner = b.owner /\ u.unserved = b.unserved
        /\ DOMAIN u.results \subseteq DOMAIN b.results /\ (OwnerOK(b) => OwnerOK(u))
    BY <1>2, CallNoted
  <1>4. u = Called(t, id)
    BY DEF Called, b
  <1> HIDE DEF u
  <1>5. Grown(t, u, 0)
    BY <1>1, <1>3, GrownThen
  <1> QED
    BY <1>0, <1>1, <1>2, <1>3, <1>4, <1>5 DEF SameBatch

\* The evidence of an idle turn, with one call more or one result more.
CallStep ==
  /\ Calls /\ session'.served = session.served /\ session'.gen = session.gen /\ SessionOK(session')
  /\ turn' = turn /\ claims' = claims
  /\ DOMAIN pi' = PiFields /\ pi'.calling = TRUE /\ pi'.server = pi.server

LEMMA CallMade ==
  ASSUME TurnInv, CallStep
  PROVE  /\ used'.calls = used.calls + 1 /\ DOMAIN used' = UsedFields
         /\ (pi'.open \subseteq pi.open \cup {NextId} => StateOK')
  <1>1. /\ DOMAIN used = UsedFields /\ used.calls \in Nat /\ "calls" \in UsedFields
    BY DEF TurnInv, StateOK, UsedFields
  <1>2. used'.calls = used.calls + 1 /\ DOMAIN used' = UsedFields
    BY <1>1, Spending DEF CallStep, Calls
  <1>3. NextId \in 1..(used.calls + 1) /\ 1..used.calls \subseteq 1..(used.calls + 1)
    BY <1>1 DEF NextId
  <1>4. turn' = Idle /\ turn = Idle /\ turn.pc = "idle" /\ pi.calling
    BY DEF CallStep, Calls, Idle
  <1>5. ASSUME pi'.open \subseteq pi.open \cup {NextId} PROVE StateOK'
    <2>1. pi'.open \subseteq 1..used'.calls
      BY <1>2, <1>3, <1>5 DEF TurnInv, StateOK
    <2>2. \A c \in claims' : c.at \in Nat
      BY DEF CallStep, TurnInv, StateOK
    <2>3. session'.served # NoKey => SameModel(session'.served, pi'.server)
      BY <1>4 DEF CallStep, TurnInv, StateOK
    <2> QED
      BY <1>1, <1>2, <1>4, <2>1, <2>2, <2>3 DEF CallStep, StateOK, BeforeServing
  <1> QED
    BY <1>2, <1>5

LEMMA CallToolKeeps == TurnInv /\ CallTool => TurnInv'
  <1> SUFFICES ASSUME TurnInv, CallTool PROVE TurnInv'
    OBVIOUS
  <1>1. CallStep
    <2>1. /\ SessionOK(session) /\ DOMAIN pi = PiFields /\ pi.calling
      BY DEF TurnInv, StateOK, CallTool, Calls
    <2> QED
      BY <2>1 DEF CallTool, CallStep, PiFields
  <1>2. pi'.open = pi.open \cup {NextId}
    BY DEF CallTool, TurnInv, StateOK, PiFields
  <1>3. used'.calls = used.calls + 1 /\ StateOK' /\ used.calls \in Nat
    BY <1>1, <1>2, CallMade DEF TurnInv, StateOK
  <1>4. Cardinality(pi'.open) = Cardinality(pi.open) + 1 /\ Cardinality(pi.open) \in Nat
    <2>1. IsFiniteSet(pi.open) /\ Cardinality(pi.open) \in Nat
      BY OpenIsFinite DEF TurnInv
    <2>2. NextId \notin pi.open
      BY <1>3 DEF NextId, TurnInv, StateOK
    <2> QED
      BY <1>2, <2>1, <2>2, FS_AddElement
  <1>5. /\ Grown(traj, traj', 0) /\ OwnerOK(traj') /\ traj'.unserved = traj.unserved
        /\ DOMAIN traj'.results \subseteq DOMAIN traj.results
        /\ traj'.owner = IF session.served = NoKey THEN traj.owner ELSE session.served
    BY CallAttributed DEF CallTool, TurnInv, EvidenceInv
  <1>6. DOMAIN traj'.results # {} =>
          turn' = Idle /\ (~traj'.unserved => session'.served \in {NoKey, traj'.owner})
    BY <1>1, <1>5 DEF CallStep, Calls
  <1> QED
    BY <1>1, <1>3, <1>4, <1>5, <1>6, EvidenceStep DEF CallStep, Calls

LEMMA SpawnKeeps == TurnInv /\ (\E requests \in w.spawns : Spawn(requests)) => TurnInv'
  <1> SUFFICES ASSUME TurnInv, NEW requests \in w.spawns, Spawn(requests) PROVE TurnInv'
    OBVIOUS
  <1>1. CallStep
    <2>1. /\ SessionOK(session) /\ DOMAIN pi = PiFields /\ pi.calling
      BY DEF TurnInv, StateOK, Spawn, Calls
    <2> QED
      BY <2>1 DEF Spawn, CallStep, PiFields
  <1>2. pi'.open = pi.open \cup {NextId}
    BY DEF Spawn, TurnInv, StateOK, PiFields
  <1>3. used'.calls = used.calls + 1 /\ StateOK' /\ used.calls \in Nat
    BY <1>1, <1>2, CallMade DEF TurnInv, StateOK
  <1>4. Cardinality(pi'.open) = Cardinality(pi.open) + 1 /\ Cardinality(pi.open) \in Nat
    <2>1. IsFiniteSet(pi.open) /\ Cardinality(pi.open) \in Nat
      BY OpenIsFinite DEF TurnInv
    <2>2. NextId \notin pi.open
      BY <1>3 DEF NextId, TurnInv, StateOK
    <2> QED
      BY <1>2, <2>1, <2>2, FS_AddElement
  <1>5. traj' = traj /\ Grown(traj, traj', 0) /\ OwnerOK(traj')
    <2>1. traj' = traj
      BY DEF Spawn
    <2> QED
      BY <2>1, Unchanged DEF TurnInv, EvidenceInv
  <1>6. DOMAIN traj'.results # {} =>
          turn' = Idle /\ (~traj'.unserved => session'.served \in {NoKey, traj'.owner})
    BY <1>1, <1>5 DEF CallStep, Calls, TurnInv, EvidenceInv
  <1> QED
    BY <1>1, <1>3, <1>4, <1>5, <1>6, EvidenceStep DEF CallStep, Calls

LEMMA ToolResultKeeps ==
  TurnInv /\ (\E id \in pi.open, r \in w.results : ToolResult(id, r)) => TurnInv'
  <1> SUFFICES ASSUME TurnInv, NEW id \in pi.open, NEW r \in w.results, ToolResult(id, r)
               PROVE  TurnInv'
    OBVIOUS
  <1> DEFINE e == Joined([id |-> id, by |-> pi.server], r)
  <1>1. /\ SessionOK(session) /\ DOMAIN pi = PiFields /\ used.calls \in Nat /\ turn = Idle
        /\ EvidenceOK(traj) /\ OwnerOK(traj)
    BY DEF TurnInv, StateOK, EvidenceInv, ToolResult
  <1>2. /\ DOMAIN pi' = PiFields /\ pi'.open = pi.open \ {id} /\ pi'.calling = pi.calling
        /\ pi'.server = pi.server
    BY <1>1 DEF ToolResult, Answered, PiFields
  <1>3. UNCHANGED <<session, turn, claims, used>>
    BY DEF ToolResult
  <1>4. StateOK'
    BY <1>1, <1>2, <1>3 DEF TurnInv, StateOK
  <1>5. Cardinality(pi'.open) + 1 = Cardinality(pi.open) /\ Cardinality(pi'.open) \in Nat
    <2>1. IsFiniteSet(pi.open) /\ Cardinality(pi.open) \in Nat
      BY OpenIsFinite DEF TurnInv
    <2>2. IsFiniteSet(pi.open \ {id}) /\ Cardinality(pi.open \ {id}) = Cardinality(pi.open) - 1
      BY <2>1, FS_RemoveElement
    <2> QED
      BY <1>2, <2>1, <2>2, FS_CardinalityType
  <1>6. session.served # NoKey => SameModel(session.served, e.by)
    <2>1. e.by = pi.server
      BY DEF Joined
    <2> QED
      BY <2>1, <1>1 DEF TurnInv, StateOK
  <1>7. /\ DOMAIN traj.results # {} => (~traj.unserved => session.served \in {NoKey, traj.owner})
    BY DEF TurnInv, EvidenceInv
  <1>8. /\ Grown(traj, traj', 1) /\ OwnerOK(traj')
        /\ DOMAIN traj'.results # {} => (~traj'.unserved => session.served \in {NoKey, traj'.owner})
    <2>1. CASE Routed
      <3>1. traj' = Observed(traj, e)
        BY <2>1 DEF ToolResult
      <3> HIDE DEF e
      <3> QED
        BY <3>1, <1>1, <1>6, <1>7, ResultAttributed
    <2>2. CASE ~Routed
      <3>1. traj' = traj
        BY <2>2 DEF ToolResult
      <3>2. Cardinality(DOMAIN traj.results) \in Nat
        BY <1>1, FS_CardinalityType DEF EvidenceOK
      <3>3. Grown(traj, traj, 1)
        BY <3>2, <1>1 DEF Grown
      <3> QED
        BY <3>1, <3>3, <1>1, <1>7
    <2> QED
      BY <2>1, <2>2
  <1>9. DOMAIN traj'.results # {} =>
          turn' = Idle /\ (~traj'.unserved => session'.served \in {NoKey, traj'.owner})
    BY <1>1, <1>3, <1>8
  <1>10. Cardinality(pi'.open) + 1 <= Cardinality(pi.open) + (used'.calls - used.calls)
    BY <1>1, <1>3, <1>5
  <1> QED
    BY <1>1, <1>3, <1>4, <1>8, <1>9, <1>10, EvidenceStep

LEMMA AcceptHandoffKeeps == TurnInv /\ (\E h \in w.handoffs : AcceptHandoff(h)) => TurnInv'
  <1> SUFFICES ASSUME TurnInv, NEW h \in w.handoffs, AcceptHandoff(h) PROVE TurnInv'
    OBVIOUS
  <1> DEFINE e == Joined([id |-> NextId, by |-> pi.server], HandoffResult)
             c == Called(traj, NextId)
  <1>1. /\ SessionOK(session) /\ DOMAIN pi = PiFields /\ used.calls \in Nat /\ turn = Idle /\ pi.calling
        /\ EvidenceOK(traj) /\ OwnerOK(traj)
    BY DEF TurnInv, StateOK, EvidenceInv, AcceptHandoff, Calls
  <1>2. /\ session'.served = session.served /\ session'.gen = session.gen /\ SessionOK(session')
    <2>1. \E phase, active, cached : session' = [session EXCEPT !.phase = phase, !.active = active,
                                                                !.cached.dimension = cached]
      <3> HIDE DEF c, e
      <3> QED
        BY DEF AcceptHandoff
    <2> QED
      BY <2>1, <1>1 DEF SessionOK, SessionFields
  <1>3. /\ DOMAIN pi' = PiFields /\ pi'.calling = TRUE /\ pi'.server = pi.server /\ pi'.open = pi.open
    <2> DEFINE answered == [Answered(pi) EXCEPT !.batch = @ + 1]
    <2>1. /\ DOMAIN answered = PiFields /\ answered.calling = TRUE /\ answered.server = pi.server
          /\ answered.open = pi.open
      BY <1>1 DEF Answered, PiFields
    <2>2. pi' = answered \/ pi' = Recorded(answered, "active", NoKey, h.deliverable)
      <3> HIDE DEF c, e
      <3> QED
        BY DEF AcceptHandoff
    <2> HIDE DEF answered
    <2> QED
      BY <2>1, <2>2 DEF Recorded, PiFields
  <1>4. CallStep /\ claims' = claims /\ turn' = turn
    BY <1>1, <1>2, <1>3 DEF AcceptHandoff, CallStep
  <1>5. used'.calls = used.calls + 1 /\ StateOK'
    BY <1>3, <1>4, CallMade
  <1>6. /\ Grown(traj, c, 0) /\ OwnerOK(c) /\ c.unserved = traj.unserved
        /\ DOMAIN c.results \subseteq DOMAIN traj.results
        /\ c.owner = IF session.served = NoKey THEN traj.owner ELSE session.served
    BY <1>1, CallAttributed DEF TurnInv, EvidenceInv
  <1>7. session.served # NoKey => SameModel(session.served, e.by)
    <2>1. e.by = pi.server
      BY DEF Joined
    <2> QED
      BY <2>1, <1>1 DEF TurnInv, StateOK
  <1>8. traj' = Observed(c, e)
    BY DEF AcceptHandoff
  <1> HIDE DEF c, e
  <1>9. DOMAIN c.results # {} => (~c.unserved => session.served \in {NoKey, c.owner})
    BY <1>6
  <1>10. /\ Grown(c, traj', 1) /\ OwnerOK(traj')
         /\ ~traj'.unserved => session.served \in {NoKey, traj'.owner}
    BY <1>6, <1>7, <1>8, <1>9, ResultAttributed DEF Grown
  <1>11. /\ \A x \in claims : x.at \in Nat
         /\ Cardinality(pi.open) \in Nat
         /\ RecoveryOK(traj, claims, session.gen, used.calls, Cardinality(pi.open))
    BY OpenIsFinite DEF TurnInv, StateOK, EvidenceInv
  <1>12. RecoveryOK(c, claims, session.gen, used.calls, Cardinality(pi.open))
    BY <1>1, <1>6, <1>11, GrownRecovers
  <1>13. RecoveryOK(traj', claims, session.gen, used.calls + 1, Cardinality(pi.open))
    <2>1. EvidenceOK(c) /\ used.calls + 1 \in Nat
      BY <1>1, <1>6 DEF Grown
    <2>2. used.calls <= used.calls + 1
          /\ Cardinality(pi.open) + 1 <= Cardinality(pi.open) + ((used.calls + 1) - used.calls)
      BY <1>1, <1>11
    <2> QED
      BY <2>1, <2>2, <1>1, <1>10, <1>11, <1>12, GrownRecovers
  <1>14. EvidenceInv'
    BY <1>1, <1>2, <1>3, <1>4, <1>5, <1>10, <1>13 DEF EvidenceInv, Grown
  <1>15. RecoveryBeforeEscalation'
    BY <1>1, <1>4 DEF RecoveryBeforeEscalation
  <1> QED
    BY <1>5, <1>14, <1>15 DEF TurnInv

-----------------------------------------------------------------------------
(* A request: the evidence of the last turn is closed, and a struggle      *)
(* becomes a recovery attempt or an escalation.                            *)
LEMMA Flushed ==
  ASSUME NEW t, EvidenceOK(t), OwnerOK(t), NEW s,
         DOMAIN t.results # {} => (~t.unserved => s.served \in {NoKey, t.owner})
  PROVE  LET u == FlushUnresolved(t, s)
         IN Grown(t, u, 0) /\ OwnerOK(u) /\ DOMAIN u.results = {}
  <1> DEFINE b == BindOwner(t, s.served)
             u == AfterEvidence(AbandonUnresolvedCalls(b), s)
  <1>0. NoKey = NoOwner
    BY DEF NoKey, NoOwner, NoEffort
  <1>1. /\ Grown(t, b, 0) /\ b.pending \subseteq t.pending
        /\ OwnerOK(t) /\ (DOMAIN t.results = {} \/ (~t.unserved => s.served \in {NoOwner, t.owner}))
             => OwnerOK(b)
    BY OwnerBound
  <1>2. OwnerOK(b) /\ EvidenceOK(b)
    BY <1>0, <1>1 DEF Grown
  <1> HIDE DEF b
  <1>3. Grown(b, u, 0) /\ DOMAIN u.results = {} /\ (OwnerOK(b) => OwnerOK(u))
    BY <1>2, Abandoned
  <1>4. u = FlushUnresolved(t, s)
    BY DEF FlushUnresolved, b
  <1> HIDE DEF u
  <1>5. Grown(t, u, 0)
    BY <1>1, <1>3, GrownThen
  <1> QED
    BY <1>2, <1>3, <1>4, <1>5

\* What is left of the evidence when a request of an entry is made.
LEMMA EvidenceOfRequest ==
  ASSUME TurnInv, turn = Idle, pi.open = {}, NEW intent, NEW s, s.served = NoKey
  PROVE  LET t == FlushUnresolved(BindIntent(FlushUnresolved(traj, session), intent), s)
         IN /\ EvidenceOK(t) /\ OwnerOK(t) /\ DOMAIN t.results = {} /\ t.intent = intent
            /\ RecoveryOK(t, claims, session.gen, used.calls, 0)
  <1> DEFINE a == FlushUnresolved(traj, session)
             b == BindIntent(a, intent)
             t == FlushUnresolved(b, s)
  <1>1. /\ EvidenceOK(traj) /\ OwnerOK(traj) /\ used.calls \in Nat /\ \A c \in claims : c.at \in Nat
        /\ DOMAIN traj.results # {} => (~traj.unserved => session.served \in {NoKey, traj.owner})
    BY DEF TurnInv, StateOK, EvidenceInv
  <1>2. RecoveryOK(traj, claims, session.gen, used.calls, 0)
    <2>1. Cardinality(pi.open) = 0
      BY FS_EmptySet
    <2> QED
      BY <2>1 DEF TurnInv, EvidenceInv
  <1>3. Grown(traj, a, 0) /\ OwnerOK(a) /\ DOMAIN a.results = {}
    BY <1>1, Flushed
  <1> HIDE DEF a
  <1>4. RecoveryOK(a, claims, session.gen, used.calls, 0)
    <2>1. used.calls <= used.calls /\ 0 + 0 <= 0 + (used.calls - used.calls) /\ 0 \in Nat
      BY <1>1
    <2> QED
      BY <2>1, <1>1, <1>2, <1>3, GrownRecovers
  <1>5. /\ EvidenceOK(b) /\ OwnerOK(b) /\ DOMAIN b.results = {} /\ b.intent = intent
        /\ RecoveryOK(b, claims, session.gen, used.calls, 0)
    <2>1. CASE a.intent = intent
      BY <2>1, <1>3, <1>4 DEF BindIntent, Grown
    <2>2. CASE a.intent # intent
      <3>1. b = [EmptyTrajectory EXCEPT !.intent = intent]
        BY <2>2 DEF BindIntent
      <3> HIDE DEF b
      <3> QED
        BY <3>1, NothingKnown
    <2> QED
      BY <2>1, <2>2
  <1> HIDE DEF b
  <1>6. Grown(b, t, 0) /\ OwnerOK(t) /\ DOMAIN t.results = {}
    BY <1>5, Flushed
  <1>7. RecoveryOK(t, claims, session.gen, used.calls, 0)
    <2>1. used.calls <= used.calls /\ 0 + 0 <= 0 + (used.calls - used.calls) /\ 0 \in Nat
      BY <1>1
    <2> HIDE DEF t
    <2> QED
      BY <2>1, <1>1, <1>5, <1>6, GrownRecovers
  <1> HIDE DEF t
  <1>8. EvidenceOK(t) /\ t.intent = intent
    BY <1>5, <1>6 DEF Grown
  <1> QED
    BY <1>6, <1>7, <1>8 DEF t, b, a

LEMMA Admitted ==
  ASSUME NEW s, SessionOK(s), NEW intent, NEW candidates, NEW esc, Admit(s, intent, candidates, esc)
  PROVE  /\ SameServing(s, session')
         /\ \/ turn' = turn
            \/ /\ turn'.pc = "entry" /\ DOMAIN turn' = TurnFields
               /\ turn'.esc = esc /\ turn'.intent = intent /\ turn'.observed = used.calls
  <1> DEFINE c == PinOnThinkingChange(s)
             serving == ServingMode(c, intent, candidates)
             base == BaseIntent(s, intent)
  <1>1. SameServing(s, c) /\ SessionOK(c)
    BY ThinkingChangeKeeps DEF SameServing
  <1> HIDE DEF c
  <1>2. SameServing(s, serving.session)
    BY <1>1, ServingKeeps, SamePinsIsOrder
  <1>3. SameServing(s, [s EXCEPT !.hold = NoHold])
    BY FieldSteps
  <1>4. \/ session' = [s EXCEPT !.hold = NoHold] /\ turn' = turn
        \/ session' = serving.session /\ turn' = Entering(serving, intent, base, esc)
    BY DEF Admit, c
  <1> HIDE DEF serving, base
  <1>5. LET e == Entering(serving, intent, base, esc)
        IN /\ e.pc = "entry" /\ DOMAIN e = TurnFields
           /\ e.esc = esc /\ e.intent = intent /\ e.observed = used.calls
    BY DEF Entering, TurnFields
  <1> QED
    BY <1>2, <1>3, <1>4, <1>5

\* The attempts that an entry's evidence knows, and those it is given.
LEMMA Recovered ==
  ASSUME TurnInv, NEW s, SessionOK(s), s.gen = session.gen, NEW t, NEW intent,
         EvidenceOK(t), OwnerOK(t), DOMAIN t.results = {}, t.intent = intent,
         RecoveryOK(t, claims, session.gen, used.calls, 0), Recover(s, t, intent)
  PROVE  /\ EvidenceOK(traj') /\ OwnerOK(traj') /\ DOMAIN traj'.results = {}
         /\ RecoveryOK(traj', claims', session.gen, used.calls, 0)
         /\ \A c \in claims' : c.at \in Nat
         /\ SessionOK(session') /\ session'.served = s.served /\ session'.gen = session.gen
         /\ \/ turn' = turn
            \/ /\ turn'.pc = "entry" /\ DOMAIN turn' = TurnFields
               /\ \A e \in turn'.esc : \E c \in claims' :
                    c.intent = turn'.intent /\ c.from = e.from /\ c.at + 3 <= turn'.observed
  <1> DEFINE recovers == {p \in t.pending : MayRecover(t, p.from)}
             from == (CHOOSE p \in recovers : TRUE).from
             kept == {c \in claims : c.intent = intent /\ c.gen = s.gen}
             given == {[intent |-> intent, from |-> p.from, at |-> used.calls, gen |-> s.gen] :
                         p \in recovers}
             due == [s EXCEPT !.recoveryDue = @ \/ recovers # {}]
             esc == IF recovers = {} THEN t.pending ELSE {}
  <1>0. used.calls \in Nat /\ \A c \in claims : c.at \in Nat
    BY DEF TurnInv, StateOK
  <1>1. /\ traj' = IF recovers = {} THEN t ELSE ClaimRecovery(t, from)
        /\ claims' = kept \cup given
        /\ Admit(due, intent, BuildRoutableCandidates(black), esc)
    BY DEF Recover
  <1>2. \A c \in claims' : c.at \in Nat
    BY <1>0, <1>1
  <1>3. SameServing(s, due) /\ SessionOK(due)
    <2>1. due = [s EXCEPT !.recoveryDue = s.recoveryDue \/ recovers # {}]
      OBVIOUS
    <2> HIDE DEF due, recovers
    <2> QED
      BY <2>1, FieldSteps DEF SamePins, SameServing
  <1>4. \A p \in recovers : p \in t.pending /\ t.recovered # p.from /\ p.from # NoOwner
    BY DEF MayRecover, RecoveryOK
  <1>5. \A p \in t.pending : p \in recovers \/ p.from = t.recovered
    BY DEF MayRecover
  <1>6. recovers # {} => from \in {p.from : p \in recovers}
    OBVIOUS
  <1>7. \A c \in claims : Claimed(t, claims, session.gen, c) => c \in kept
    BY DEF Claimed
  <1> HIDE DEF recovers, from, kept, due
  <1>8. /\ EvidenceOK(traj') /\ OwnerOK(traj') /\ DOMAIN traj'.results = {}
        /\ RecoveryOK(traj', claims', session.gen, used.calls, 0)
    <2>1. CASE recovers = {}
      <3>1. traj' = t
        BY <2>1, <1>1
      <3>2. \A c \in claims : Claimed(t, claims, session.gen, c) => Claimed(t, claims', session.gen, c)
        BY <1>1, <1>7 DEF Claimed
      <3>3. RecoveryOK(t, claims', session.gen, used.calls, 0)
        BY <3>2 DEF RecoveryOK, Claimed
      <3> QED
        BY <3>1, <3>3
    <2>2. CASE recovers # {}
      <3> DEFINE r == ResetStruggle(t)
                 u == [r EXCEPT !.recovered = from]
      <3>1. traj' = u
        BY <2>2, <1>1 DEF ClaimRecovery
      <3>2. /\ EvidenceOK(r) /\ SameBatch(t, r) /\ r.owner = t.owner /\ r.recovered = t.recovered
            /\ r.intent = t.intent /\ r.unserved = t.unserved /\ r.pending = {} /\ r.cycles = <<>>
            /\ \A n \in Nat : Bounded(r, n)
        BY ResetKeeps
      <3> HIDE DEF r
      <3>3. /\ DOMAIN u = TrajFields /\ SameBatch(r, u) /\ u.owner = r.owner /\ u.recovered = from
            /\ u.intent = r.intent /\ u.unserved = r.unserved /\ u.pending = {} /\ u.cycles = <<>>
            /\ u.failures = r.failures /\ u.stagnation = r.stagnation /\ u.mutations = r.mutations
        BY <3>2 DEF EvidenceOK, TrajOK, TrajFields, SameBatch
      <3> HIDE DEF u
      <3>4. EvidenceOK(u) /\ Bounded(u, 0)
        BY <3>2, <3>3 DEF EvidenceOK, TrajOK, SameBatch, CallsOnce, Bounded
      <3>5. DOMAIN u.results = {} /\ DOMAIN u.cycles = {}
        BY <3>2, <3>3 DEF SameBatch
      <3>6. OwnerOK(u)
        BY <3>3, <3>5 DEF OwnerOK
      <3>7. PICK p \in recovers : from = p.from
        BY <2>2, <1>6
      <3> DEFINE c == [intent |-> intent, from |-> p.from, at |-> used.calls, gen |-> s.gen]
      <3>8. c \in claims'
        BY <1>1
      <3>9. Claimed(u, claims', session.gen, c) /\ c.at = used.calls
        BY <3>2, <3>3, <3>7, <3>8 DEF Claimed
      <3>10. Room(u, used.calls, 0, c)
        <4>1. Cardinality(DOMAIN u.results) = 0
          BY <3>5, FS_EmptySet
        <4>2. 0 + Cardinality(DOMAIN u.results) + 0 <= used.calls - c.at /\ 0 \in Nat
          BY <4>1, <3>9, <1>0
        <4> HIDE DEF c
        <4> QED
          BY <4>2, <3>4 DEF Room
      <3> HIDE DEF c
      <3>11. RecoveryOK(u, claims', session.gen, used.calls, 0)
        BY <3>3, <3>8, <3>9, <3>10 DEF RecoveryOK
      <3> QED
        BY <3>1, <3>4, <3>5, <3>6, <3>11
    <2> QED
      BY <2>1, <2>2
  <1>9. \A e \in esc : \E c \in claims' : c.intent = intent /\ c.from = e.from /\ c.at + 3 <= used.calls
    <2> SUFFICES ASSUME NEW e \in esc
                 PROVE  \E c \in claims' : c.intent = intent /\ c.from = e.from /\ c.at + 3 <= used.calls
      OBVIOUS
    <2>1. recovers = {} /\ e \in t.pending
      OBVIOUS
    <2>2. e.from = t.recovered
      BY <2>1, <1>5
    <2>3. PICK c \in claims : Claimed(t, claims, session.gen, c) /\ c.at + 3 <= used.calls
      BY <2>1, <2>2 DEF RecoveryOK
    <2>4. c \in claims' /\ c.from = e.from /\ c.intent = intent
      BY <2>2, <2>3, <1>1, <1>7 DEF Claimed
    <2> QED
      BY <2>3, <2>4
  <1> HIDE DEF esc, given
  <1>10. /\ SameServing(due, session')
         /\ \/ turn' = turn
            \/ /\ turn'.pc = "entry" /\ DOMAIN turn' = TurnFields
               /\ turn'.esc = esc /\ turn'.intent = intent /\ turn'.observed = used.calls
    BY <1>1, <1>3, Admitted
  <1>11. SessionOK(session') /\ session'.served = s.served /\ session'.gen = session.gen
    BY <1>3, <1>10 DEF SameServing
  <1> QED
    BY <1>2, <1>8, <1>9, <1>10, <1>11

LEMMA SendRequestKeeps == TurnInv /\ SendRequest => TurnInv'
  <1> SUFFICES ASSUME TurnInv, SendRequest PROVE TurnInv'
    OBVIOUS
  <1> DEFINE intent == IntentKey(pi.messages)
             rotated == NoteRequest(RotateServed(session), pi.head, Tokens(pi.messages))
             t == FlushUnresolved(BindIntent(FlushUnresolved(traj, session), intent), rotated)
  <1>1. /\ SessionOK(session) /\ DOMAIN pi = PiFields /\ DOMAIN used = UsedFields /\ used.calls \in Nat
        /\ turn = Idle /\ pi.open = {} /\ Idle.pc = "idle"
    BY DEF TurnInv, StateOK, SendRequest, Idle
  <1>2. DOMAIN used' = UsedFields /\ used'.calls = used.calls
    <2>1. "requests" \in UsedFields
      BY DEF UsedFields
    <2>2. Spends("requests")
      BY DEF SendRequest
    <2> QED
      BY <2>1, <2>2, <1>1, Spending
  <1>3. /\ DOMAIN pi' = PiFields /\ pi'.open = {} /\ pi'.calling = FALSE
    BY <1>1 DEF SendRequest, PiFields
  <1>4. SessionOK(rotated) /\ rotated.served = NoKey /\ rotated.gen = session.gen
    <2>1. LET r == RotateServed(session)
          IN SessionOK(r) /\ r.served = NoKey /\ r.gen = session.gen
      BY <1>1 DEF RotateServed, SessionOK, SessionFields
    <2> QED
      BY <2>1, SessionSteps DEF SamePins, SameServing
  <1> HIDE DEF rotated, intent
  <1>5. /\ EvidenceOK(t) /\ OwnerOK(t) /\ DOMAIN t.results = {} /\ t.intent = intent
        /\ RecoveryOK(t, claims, session.gen, used.calls, 0)
    BY <1>1, <1>4, EvidenceOfRequest
  <1>6. Recover(rotated, t, intent)
    BY DEF SendRequest, rotated, intent
  <1> HIDE DEF t
  <1>7. /\ EvidenceOK(traj') /\ OwnerOK(traj') /\ DOMAIN traj'.results = {}
        /\ RecoveryOK(traj', claims', session.gen, used.calls, 0)
        /\ \A c \in claims' : c.at \in Nat
        /\ SessionOK(session') /\ session'.served = NoKey /\ session'.gen = session.gen
        /\ \/ turn' = turn
           \/ /\ turn'.pc = "entry" /\ DOMAIN turn' = TurnFields
              /\ \A e \in turn'.esc : \E c \in claims' :
                   c.intent = turn'.intent /\ c.from = e.from /\ c.at + 3 <= turn'.observed
    BY <1>4, <1>5, <1>6, Recovered
  <1>8. StateOK'
    BY <1>1, <1>2, <1>3, <1>7 DEF StateOK, BeforeServing
  <1>9. Cardinality(pi'.open) = 0
    BY <1>3, FS_EmptySet
  <1>10. EvidenceInv'
    BY <1>2, <1>7, <1>9 DEF EvidenceInv
  <1>11. RecoveryBeforeEscalation'
    BY <1>1, <1>7 DEF RecoveryBeforeEscalation
  <1> QED
    BY <1>8, <1>10, <1>11 DEF TurnInv

-----------------------------------------------------------------------------
(* Sequences put together from others.                                     *)
Starts(s, t) == Len(s) <= Len(t) /\ \A i \in 1..Len(s) : t[i] = s[i]

LEMMA StartsIsOrder ==
  /\ \A s : IsSequence(s) => Starts(s, s)
  /\ \A s, t, u : IsSequence(s) /\ IsSequence(t) /\ IsSequence(u) /\ Starts(s, t) /\ Starts(t, u) =>
       Starts(s, u)
  BY DEF Starts, IsSequence

LEMMA StartsIsPrefix ==
  ASSUME NEW s, NEW t, IsSequence(s), IsSequence(t), Starts(s, t)
  PROVE  IsPrefix(s, t)
  BY DEF Starts, IsSequence, IsPrefix

LEMMA Joins ==
  ASSUME NEW s, IsSequence(s), NEW t, IsSequence(t)
  PROVE  /\ IsSequence(s \o t) /\ Len(s \o t) = Len(s) + Len(t)
         /\ \A i \in 1..Len(s) : (s \o t)[i] = s[i]
         /\ \A i \in 1..Len(t) : (s \o t)[Len(s) + i] = t[i]
         /\ Starts(s, s \o t)
  <1> DEFINE T == {s[i] : i \in 1..Len(s)} \union {t[i] : i \in 1..Len(t)}
  <1>1. s \in Seq(T) /\ t \in Seq(T)
    BY SequenceOf
  <1>2. /\ s \o t \in Seq(T) /\ Len(s \o t) = Len(s) + Len(t)
        /\ \A i \in 1..(Len(s) + Len(t)) : (s \o t)[i] = IF i <= Len(s) THEN s[i] ELSE t[i - Len(s)]
    <2> HIDE DEF T
    <2> QED
      BY <1>1, ConcatProperties
  <1>3. IsSequence(s \o t)
    <2> HIDE DEF T
    <2> QED
      BY <1>2, IsSequenceOf
  <1> HIDE DEF T
  <1>4. Len(s) \in Nat /\ Len(t) \in Nat
    BY DEF IsSequence
  <1>5. \A i \in 1..Len(s) : (s \o t)[i] = s[i]
    BY <1>2, <1>4
  <1>6. \A i \in 1..Len(t) : (s \o t)[Len(s) + i] = t[i]
    BY <1>2, <1>4
  <1> QED
    BY <1>2, <1>3, <1>4, <1>5, <1>6 DEF Starts

LEMMA JoinsOfStart ==
  ASSUME NEW s, IsSequence(s), NEW t, IsSequence(t), NEW u, IsSequence(u), Starts(t, u)
  PROVE  Starts(s \o t, s \o u)
  <1>1. /\ Len(s \o t) = Len(s) + Len(t) /\ Len(s \o u) = Len(s) + Len(u)
        /\ \A i \in 1..Len(s) : (s \o t)[i] = s[i] /\ (s \o u)[i] = s[i]
        /\ \A i \in 1..Len(t) : (s \o t)[Len(s) + i] = t[i]
        /\ \A i \in 1..Len(u) : (s \o u)[Len(s) + i] = u[i]
    BY Joins
  <1>2. Len(s) \in Nat /\ Len(t) \in Nat /\ Len(u) \in Nat /\ Len(t) <= Len(u)
        /\ \A i \in 1..Len(t) : u[i] = t[i]
    BY DEF IsSequence, Starts
  <1>3. ASSUME NEW i \in 1..(Len(s) + Len(t))
        PROVE  (s \o u)[i] = (s \o t)[i]
    <2>1. CASE i <= Len(s)
      BY <2>1, <1>1, <1>2
    <2>2. CASE ~(i <= Len(s))
      <3>1. i - Len(s) \in 1..Len(t) /\ i - Len(s) \in 1..Len(u) /\ Len(s) + (i - Len(s)) = i
        BY <2>2, <1>2
      <3> QED
        BY <3>1, <1>1, <1>2
    <2> QED
      BY <2>1, <2>2
  <1> QED
    BY <1>1, <1>2, <1>3 DEF Starts

FlatUpTo(seqs, f, m) ==
  f = [i \in 1..m |-> IF i = 1 THEN seqs[i] ELSE f[i - 1] \o seqs[i]]

LEMMA FlatExists ==
  ASSUME NEW seqs, NEW L \in Nat
  PROVE  \A m \in 0..L : \E f : FlatUpTo(seqs, f, m)
  <1> DEFINE S == {m \in 0..L : \E f : FlatUpTo(seqs, f, m)}
  <1>1. ASSUME NEW m \in 0..L, \A k \in 0..(m - 1) : k \in S
        PROVE  \E f : FlatUpTo(seqs, f, m)
    <2>1. CASE m = 0
      <3>1. FlatUpTo(seqs, [i \in 1..0 |-> seqs[i]], 0)
        BY DEF FlatUpTo
      <3> QED
        BY <3>1, <2>1
    <2>2. CASE m # 0
      <3>1. PICK g : FlatUpTo(seqs, g, m - 1)
        BY <2>2, <1>1
      <3> DEFINE f == [i \in 1..m |-> IF i = m THEN IF i = 1 THEN seqs[i] ELSE g[i - 1] \o seqs[i]
                                      ELSE g[i]]
      <3>2. \A i \in 1..(m - 1) : g[i] = IF i = 1 THEN seqs[i] ELSE g[i - 1] \o seqs[i]
        BY <3>1 DEF FlatUpTo
      <3>3. ASSUME NEW i \in 1..m
            PROVE  f[i] = IF i = 1 THEN seqs[i] ELSE f[i - 1] \o seqs[i]
        BY <2>2, <3>2
      <3>4. f = [i \in 1..m |-> IF i = 1 THEN seqs[i] ELSE f[i - 1] \o seqs[i]]
        BY <3>3
      <3>5. FlatUpTo(seqs, f, m)
        BY <3>4 DEF FlatUpTo
      <3> QED
        BY <3>5
    <2> QED
      BY <2>1, <2>2
  <1>2. \A m \in 0..L : (\A k \in 0..(m - 1) : k \in S) => m \in S
    BY <1>1
  <1>3. 0..L \subseteq S
    <2> HIDE DEF S
    <2> QED
      BY <1>2, UpToNumber
  <1> QED
    BY <1>3

FlatTrace(seqs, f) ==
  /\ FlattenSeq(seqs) = IF Len(seqs) = 0 THEN seqs ELSE f[Len(seqs)]
  /\ Len(seqs) # 0 => f[1] = seqs[1]
  /\ \A i \in 2..Len(seqs) : f[i] = f[i - 1] \o seqs[i]

LEMMA FlatSteps ==
  ASSUME NEW seqs, Len(seqs) \in Nat
  PROVE  \E f : FlatTrace(seqs, f)
  <1> DEFINE flat == CHOOSE f : FlatUpTo(seqs, f, Len(seqs))
  <1>1. FlatUpTo(seqs, flat, Len(seqs))
    <2>1. Len(seqs) \in 0..Len(seqs)
      OBVIOUS
    <2>2. \E f : FlatUpTo(seqs, f, Len(seqs))
      BY <2>1, FlatExists, Zenon
    <2> QED
      BY <2>2, Zenon
  <1>2. FlattenSeq(seqs) = IF Len(seqs) = 0 THEN seqs ELSE flat[Len(seqs)]
    BY DEF FlattenSeq, FlatUpTo
  <1> HIDE DEF flat
  <1>3. \A i \in 1..Len(seqs) : flat[i] = IF i = 1 THEN seqs[i] ELSE flat[i - 1] \o seqs[i]
    BY <1>1 DEF FlatUpTo
  <1>4. Len(seqs) # 0 => flat[1] = seqs[1]
    <2>1. Len(seqs) # 0 => 1 \in 1..Len(seqs)
      OBVIOUS
    <2> QED
      BY <2>1, <1>3, Zenon
  <1>5. \A i \in 2..Len(seqs) : flat[i] = flat[i - 1] \o seqs[i]
    <2>1. \A i \in 2..Len(seqs) : i \in 1..Len(seqs) /\ i # 1
      OBVIOUS
    <2> QED
      BY <2>1, <1>3, Zenon
  <1>6. FlatTrace(seqs, flat)
    BY <1>2, <1>4, <1>5 DEF FlatTrace
  <1> QED
    BY <1>6

(* What grows at its end only, in the parts and in the last of them, grows at
   its end only when the parts are put together.                           *)
Parts(p) == IsSequence(p) /\ \A i \in 1..Len(p) : IsSequence(p[i])
LongerParts(p, q) ==
  /\ Len(p) <= Len(q)
  /\ \A i \in 1..(Len(p) - 1) : q[i] = p[i]
  /\ Len(p) # 0 => Starts(p[Len(p)], q[Len(p)])

LEMMA FlatIsSequence ==
  ASSUME NEW p, Parts(p), NEW f, FlatTrace(p, f)
  PROVE  \A i \in 1..Len(p) : IsSequence(f[i])
  <1> DEFINE S == {i \in 0..Len(p) : i = 0 \/ IsSequence(f[i])}
  <1>1. Len(p) \in Nat
    BY DEF Parts, IsSequence
  <1>2. ASSUME NEW i \in 0..Len(p), \A k \in 0..(i - 1) : k \in S
        PROVE  i \in S
    <2>1. CASE i = 0
      BY <2>1
    <2>2. CASE i = 1
      BY <2>2, <1>1 DEF FlatTrace, Parts
    <2>3. CASE i \notin {0, 1}
      <3>1. i \in 2..Len(p) /\ i \in 1..Len(p) /\ i - 1 \in 0..(i - 1) /\ i - 1 # 0
        BY <2>3, <1>1
      <3>2. IsSequence(f[i - 1])
        BY <3>1, <1>2
      <3>3. f[i] = f[i - 1] \o p[i] /\ IsSequence(p[i])
        BY <3>1 DEF FlatTrace, Parts
      <3>4. IsSequence(f[i])
        BY <3>2, <3>3, Joins
      <3> QED
        BY <3>4
    <2> QED
      BY <2>1, <2>2, <2>3
  <1>3. 0..Len(p) \subseteq S
    <2> HIDE DEF S
    <2> QED
      BY <1>1, <1>2, UpToNumber
  <1> QED
    BY <1>1, <1>3

LEMMA FlattenIsSequence ==
  ASSUME NEW p, Parts(p)
  PROVE  IsSequence(FlattenSeq(p))
  <1>1. Len(p) \in Nat /\ IsSequence(p)
    BY DEF Parts, IsSequence
  <1>2. PICK f : FlatTrace(p, f)
    BY <1>1, FlatSteps
  <1>3. \A i \in 1..Len(p) : IsSequence(f[i])
    BY <1>2, FlatIsSequence
  <1>4. Len(p) # 0 => Len(p) \in 1..Len(p)
    BY <1>1
  <1> QED
    BY <1>1, <1>2, <1>3, <1>4 DEF FlatTrace

LEMMA FlattenGrows ==
  ASSUME NEW p, Parts(p), NEW q, Parts(q), LongerParts(p, q)
  PROVE  Starts(FlattenSeq(p), FlattenSeq(q))
  <1> DEFINE L == Len(p)
             M == Len(q)
  <1>1. L \in Nat /\ M \in Nat /\ L <= M
    BY DEF Parts, IsSequence, LongerParts
  <1>2. PICK f : FlatTrace(p, f)
    BY <1>1, FlatSteps
  <1>3. PICK g : FlatTrace(q, g)
    BY <1>1, FlatSteps
  <1>4. /\ \A i \in 1..L : IsSequence(f[i]) /\ IsSequence(p[i])
        /\ \A i \in 1..M : IsSequence(g[i]) /\ IsSequence(q[i])
    BY <1>2, <1>3, FlatIsSequence DEF Parts
  <1>5. /\ L # 0 => f[1] = p[1]
        /\ \A i \in 2..L : f[i] = f[i - 1] \o p[i]
        /\ M # 0 => g[1] = q[1]
        /\ \A i \in 2..M : g[i] = g[i - 1] \o q[i]
        /\ \A i \in 1..(L - 1) : q[i] = p[i]
        /\ L # 0 => Starts(p[L], q[L])
    BY <1>2, <1>3 DEF FlatTrace, LongerParts
  <1>6. CASE L = 0
    <2>1. FlattenSeq(p) = p /\ Len(p) = 0
      BY <1>2, <1>6 DEF FlatTrace
    <2>2. IsSequence(FlattenSeq(q))
      BY FlattenIsSequence
    <2> QED
      BY <2>1, <2>2 DEF Starts, IsSequence
  <1>7. CASE L # 0
    <2> DEFINE S == {i \in 0..(L - 1) : i = 0 \/ f[i] = g[i]}
               U == {i \in 0..(M - L) : Starts(f[L], g[L + i])}
    <2>0. L - 1 \in Nat /\ M - L \in Nat /\ L \in 1..M /\ L \in 1..L
      BY <1>1, <1>7
    <2>1. ASSUME NEW i \in 0..(L - 1), \A k \in 0..(i - 1) : k \in S
          PROVE  i \in S
      <3>1. CASE i = 0
        BY <3>1
      <3>2. CASE i = 1
        BY <3>2, <1>5, <1>7, <1>1
      <3>3. CASE i \notin {0, 1}
        <4>1. i \in 2..L /\ i \in 2..M /\ i - 1 \in 0..(i - 1) /\ i - 1 # 0 /\ i \in 1..(L - 1)
          BY <3>3, <1>1
        <4>2. f[i - 1] = g[i - 1]
          BY <4>1, <2>1
        <4>3. f[i] = g[i]
          BY <4>1, <4>2, <1>5
        <4> QED
          BY <4>3
      <3> QED
        BY <3>1, <3>2, <3>3
    <2>2. \A i \in 1..(L - 1) : f[i] = g[i]
      <3>1. 0..(L - 1) \subseteq S
        <4> HIDE DEF S
        <4> QED
          BY <2>0, <2>1, UpToNumber
      <3> QED
        BY <3>1
    <2>3. Starts(f[L], g[L])
      <3>1. CASE L = 1
        BY <3>1, <1>5, <1>1
      <3>2. CASE L # 1
        <4>1. L \in 2..L /\ L \in 2..M /\ L - 1 \in 1..(L - 1) /\ L - 1 \in 1..L
          <5> HIDE DEF L, M
          <5>1. L \in Nat /\ M \in Nat /\ L <= M /\ L # 0 /\ L # 1
            BY <3>2, <1>1, <1>7
          <5> QED
            BY <5>1
        <4>2. f[L] = f[L - 1] \o p[L] /\ g[L] = f[L - 1] \o q[L]
          BY <4>1, <2>2, <1>5
        <4>3. IsSequence(f[L - 1]) /\ IsSequence(p[L]) /\ IsSequence(q[L])
          BY <4>1, <2>0, <1>4
        <4>4. Starts(p[L], q[L])
          BY <1>5, <1>7
        <4> QED
          BY <4>2, <4>3, <4>4, JoinsOfStart
      <3> QED
        BY <3>1, <3>2
    <2>4. ASSUME NEW i \in 0..(M - L), \A k \in 0..(i - 1) : k \in U
          PROVE  i \in U
      <3>1. CASE i = 0
        <4>1. L + i = L
          BY <3>1, <1>1
        <4> QED
          BY <4>1, <2>3
      <3>2. CASE i # 0
        <4>1. i - 1 \in 0..(i - 1) /\ L + (i - 1) \in 1..M /\ L + i \in 2..M /\ (L + i) - 1 = L + (i - 1)
              /\ L + i \in 1..M
          BY <3>2, <1>1, <2>0
        <4>2. Starts(f[L], g[L + (i - 1)])
          BY <4>1, <2>4
        <4>3. g[L + i] = g[L + (i - 1)] \o q[L + i]
          BY <4>1, <1>5
        <4>4. IsSequence(g[L + (i - 1)]) /\ IsSequence(q[L + i]) /\ IsSequence(f[L]) /\ IsSequence(g[L + i])
          BY <4>1, <2>0, <1>4
        <4>5. Starts(g[L + (i - 1)], g[L + i])
          BY <4>3, <4>4, Joins
        <4>6. Starts(f[L], g[L + i])
          BY <4>2, <4>4, <4>5, StartsIsOrder
        <4> QED
          BY <4>6
      <3> QED
        BY <3>1, <3>2
    <2>5. \A i \in 0..(M - L) : i \in U
      <3>1. 0..(M - L) \subseteq U
        <4> HIDE DEF U
        <4> QED
          BY <2>0, <2>4, UpToNumber
      <3> QED
        BY <3>1
    <2>6. Starts(f[L], g[M])
      <3>1. M - L \in 0..(M - L) /\ L + (M - L) = M
        BY <2>0, <1>1
      <3> QED
        BY <3>1, <2>5
    <2>7. FlattenSeq(p) = f[L] /\ FlattenSeq(q) = g[M]
      BY <1>1, <1>2, <1>3, <1>7 DEF FlatTrace
    <2> QED
      BY <2>6, <2>7
  <1> QED
    BY <1>6, <1>7

LEMMA FunctionIsSequence ==
  ASSUME NEW n \in Nat, NEW f, DOMAIN f = 1..n, f = [k \in 1..n |-> f[k]]
  PROVE  IsSequence(f) /\ Len(f) = n
  <1> DEFINE T == {f[k] : k \in 1..n}
  <1>1. f \in [1..n -> T]
    OBVIOUS
  <1>2. f \in Seq(T)
    <2> HIDE DEF T
    <2> QED
      BY <1>1, SeqDef
  <1> HIDE DEF T
  <1>3. Len(f) \in Nat /\ DOMAIN f = 1..Len(f)
    BY <1>2, LenProperties
  <1>4. Len(f) = n
    BY <1>3
  <1> QED
    BY <1>2, <1>4, IsSequenceOf

LEMMA ShortSequences ==
  /\ IsSequence(<<>>) /\ Len(<<>>) = 0
  /\ \A x : IsSequence(<<x>>) /\ Len(<<x>>) = 1 /\ <<x>>[1] = x
  <1>1. IsSequence(<<>>) /\ Len(<<>>) = 0
    BY DEF IsSequence
  <1>2. ASSUME NEW x PROVE IsSequence(<<x>>) /\ Len(<<x>>) = 1 /\ <<x>>[1] = x
    BY DEF IsSequence
  <1> QED
    BY <1>1, <1>2

\* Parts that are added without an element add nothing.
LEMMA FlattenSame ==
  ASSUME NEW p, Parts(p), NEW q, Parts(q), Len(p) <= Len(q),
         \A i \in 1..Len(p) : q[i] = p[i],
         \A i \in (Len(p) + 1)..Len(q) : q[i] = <<>>
  PROVE  Starts(FlattenSeq(q), FlattenSeq(p))
  <1> DEFINE L == Len(p)
             M == Len(q)
             P == FlattenSeq(p)
  <1>1. L \in Nat /\ M \in Nat /\ L <= M
    BY DEF Parts, IsSequence
  <1>2. PICK f : FlatTrace(p, f)
    BY <1>1, FlatSteps
  <1>3. PICK g : FlatTrace(q, g)
    BY <1>1, FlatSteps
  <1>4. /\ \A i \in 1..L : IsSequence(f[i]) /\ IsSequence(p[i])
        /\ \A i \in 1..M : IsSequence(g[i]) /\ IsSequence(q[i])
    BY <1>2, <1>3, FlatIsSequence DEF Parts
  <1>5. /\ L # 0 => f[1] = p[1]
        /\ \A i \in 2..L : f[i] = f[i - 1] \o p[i]
        /\ M # 0 => g[1] = q[1]
        /\ \A i \in 2..M : g[i] = g[i - 1] \o q[i]
        /\ P = IF L = 0 THEN p ELSE f[L]
        /\ FlattenSeq(q) = IF M = 0 THEN q ELSE g[M]
    BY <1>2, <1>3 DEF FlatTrace
  <1>6. IsSequence(P)
    BY FlattenIsSequence
  <1> DEFINE S == {i \in 0..M : i # 0 => IF i <= L THEN g[i] = f[i] ELSE Starts(g[i], P)}
  <1>7. ASSUME NEW i \in 0..M, \A k \in 0..(i - 1) : k \in S
        PROVE  i \in S
    <2>1. CASE i = 0
      BY <2>1
    <2>2. CASE i = 1
      <3>1. CASE L # 0
        BY <3>1, <2>2, <1>5, <1>1
      <3>2. CASE L = 0
        <4>1. g[1] = <<>>
          BY <3>2, <2>2, <1>5, <1>1
        <4>2. Starts(g[i], P)
          <5> HIDE DEF P
          <5> QED
            BY <4>1, <2>2, <1>6, ShortSequences DEF Starts, IsSequence
        <4> QED
          BY <4>2, <3>2, <2>2
      <3> QED
        BY <3>1, <3>2
    <2>3. CASE i \notin {0, 1}
      <3>1. i \in 2..M /\ i - 1 \in 0..(i - 1) /\ i - 1 # 0 /\ i - 1 \in 1..M /\ i \in 1..M
        BY <2>3, <1>1
      <3>2. i - 1 \in S
        BY <3>1, <1>7
      <3>3. CASE i <= L
        <4>1. i \in 2..L /\ i \in 1..L /\ i - 1 <= L
          BY <3>1, <3>3, <1>1
        <4>2. g[i - 1] = f[i - 1] /\ q[i] = p[i]
          BY <3>1, <3>2, <4>1
        <4>3. g[i] = f[i]
          BY <3>1, <4>1, <4>2, <1>5
        <4> QED
          BY <3>3, <4>3
      <3>4. CASE ~(i <= L)
        <4>1. i \in (L + 1)..M
          BY <3>1, <3>4, <1>1
        <4>2. q[i] = <<>> /\ g[i] = g[i - 1] \o q[i]
          BY <3>1, <4>1, <1>5
        <4>3. Starts(g[i - 1], P)
          <5>1. CASE i - 1 <= L
            <6>1. i - 1 = L /\ L # 0 /\ g[i - 1] = f[i - 1]
              BY <5>1, <3>1, <3>2, <3>4, <1>1
            <6>2. P = g[i - 1]
              BY <6>1, <1>5
            <6> QED
              BY <6>2, <1>6, StartsIsOrder
          <5>2. CASE ~(i - 1 <= L)
            BY <5>2, <3>1, <3>2
          <5> QED
            BY <5>1, <5>2
        <4>4. IsSequence(g[i - 1]) /\ IsSequence(g[i])
          BY <3>1, <1>4
        <4>5. /\ Len(g[i]) = Len(g[i - 1]) + 0
              /\ \A j \in 1..Len(g[i - 1]) : g[i][j] = g[i - 1][j]
          BY <4>2, <4>4, ShortSequences, Joins
        <4>6. Starts(g[i], P)
          <5> HIDE DEF P
          <5> QED
            BY <4>3, <4>4, <4>5 DEF Starts, IsSequence
        <4> QED
          BY <4>6, <3>4
      <3> QED
        BY <3>3, <3>4
    <2> QED
      BY <2>1, <2>2, <2>3
  <1>8. \A i \in 0..M : i \in S
    <2>1. 0..M \subseteq S
      <3> HIDE DEF S
      <3> QED
        BY <1>1, <1>7, UpToNumber
    <2> QED
      BY <2>1
  <1>9. CASE M = 0
    <2>1. FlattenSeq(q) = q /\ Len(q) = 0
      BY <1>5, <1>9
    <2> QED
      BY <2>1, <1>6 DEF Starts, IsSequence
  <1>10. CASE M # 0
    <2>1. M \in S /\ FlattenSeq(q) = g[M]
      BY <1>1, <1>5, <1>8, <1>10
    <2>2. CASE M <= L
      <3>1. M = L /\ g[M] = P
        BY <2>1, <2>2, <1>1, <1>5, <1>10
      <3> QED
        BY <3>1, <2>1, <1>6, StartsIsOrder
    <2>3. CASE ~(M <= L)
      BY <2>1, <2>3, <1>10
    <2> QED
      BY <2>2, <2>3
  <1> QED
    BY <1>9, <1>10

-----------------------------------------------------------------------------
(* The notes of a request.                                                 *)
Given(ns, anchor) ==
  [k \in DOMAIN ns |-> IF ns[k].anchor # NoAnchor /\ ns[k].anchor = anchor
                          THEN <<ns[k].text>> ELSE <<>>]
Texts(ns, anchor) == FlattenSeq(Given(ns, anchor))

LEMMA GivenParts ==
  ASSUME NEW ns, IsSequence(ns), NEW anchor
  PROVE  /\ Parts(Given(ns, anchor)) /\ Len(Given(ns, anchor)) = Len(ns)
         /\ \A k \in 1..Len(ns) :
              Given(ns, anchor)[k] = IF ns[k].anchor # NoAnchor /\ ns[k].anchor = anchor
                                        THEN <<ns[k].text>> ELSE <<>>
  <1> DEFINE g == Given(ns, anchor)
  <1>1. /\ Len(ns) \in Nat /\ DOMAIN g = 1..Len(ns)
        /\ \A k \in 1..Len(ns) :
              g[k] = IF ns[k].anchor # NoAnchor /\ ns[k].anchor = anchor
                     THEN <<ns[k].text>> ELSE <<>>
        /\ g = [k \in 1..Len(ns) |-> g[k]]
    BY DEF IsSequence, Given
  <1> HIDE DEF g
  <1>2. IsSequence(g) /\ Len(g) = Len(ns)
    BY <1>1, FunctionIsSequence
  <1>3. \A k \in 1..Len(ns) : IsSequence(g[k])
    <2> TAKE k \in 1..Len(ns)
    <2>1. g[k] = <<>> \/ g[k] = <<ns[k].text>>
      BY <1>1
    <2> QED
      BY <2>1, ShortSequences
  <1>4. Parts(g)
    BY <1>2, <1>3 DEF Parts
  <1> QED
    BY <1>1, <1>2, <1>4 DEF g

LEMMA TextsGrow ==
  ASSUME NEW ns, IsSequence(ns), NEW more, IsSequence(more), Starts(ns, more), NEW anchor
  PROVE  /\ IsSequence(Texts(ns, anchor))
         /\ Starts(Texts(ns, anchor), Texts(more, anchor))
         /\ (\A k \in (Len(ns) + 1)..Len(more) : more[k].anchor \in {NoAnchor} \/ more[k].anchor # anchor)
              => Texts(more, anchor) = Texts(ns, anchor)
  <1> DEFINE p == Given(ns, anchor)
             q == Given(more, anchor)
  <1>1. /\ Parts(p) /\ Parts(q) /\ Len(p) = Len(ns) /\ Len(q) = Len(more)
    BY GivenParts
  <1>2. /\ Len(ns) \in Nat /\ Len(more) \in Nat /\ Len(ns) <= Len(more)
        /\ \A k \in 1..Len(ns) : more[k] = ns[k]
    BY DEF IsSequence, Starts
  <1>3. \A k \in 1..Len(p) : q[k] = p[k]
    <2> SUFFICES ASSUME NEW k \in 1..Len(p) PROVE q[k] = p[k]
      OBVIOUS
    <2>1. k \in 1..Len(ns) /\ k \in 1..Len(more)
      BY <1>1, <1>2
    <2>2. more[k] = ns[k]
      BY <2>1, <1>2
    <2>3. p[k] = IF ns[k].anchor # NoAnchor /\ ns[k].anchor = anchor
                 THEN <<ns[k].text>> ELSE <<>>
      BY <2>1, GivenParts
    <2>4. q[k] = IF more[k].anchor # NoAnchor /\ more[k].anchor = anchor
                 THEN <<more[k].text>> ELSE <<>>
      BY <2>1, GivenParts
    <2> HIDE DEF p, q
    <2> QED
      BY <2>2, <2>3, <2>4
  <1>4. IsSequence(FlattenSeq(p)) /\ IsSequence(FlattenSeq(q))
    BY <1>1, FlattenIsSequence
  <1>5. LongerParts(p, q)
    <2>1. Len(p) # 0 => Starts(p[Len(p)], q[Len(p)])
      <3> SUFFICES ASSUME Len(p) # 0 PROVE Starts(p[Len(p)], q[Len(p)])
        OBVIOUS
      <3>1. Len(p) \in 1..Len(p)
        BY <1>1, <1>2
      <3>2. q[Len(p)] = p[Len(p)] /\ IsSequence(p[Len(p)])
        BY <3>1, <1>1, <1>3 DEF Parts
      <3> QED
        BY <3>2, StartsIsOrder
    <2>2. \A k \in 1..(Len(p) - 1) : q[k] = p[k]
      BY <1>1, <1>2, <1>3
    <2> QED
      BY <1>1, <1>2, <2>1, <2>2 DEF LongerParts
  <1>6. Starts(FlattenSeq(p), FlattenSeq(q))
    <2> HIDE DEF p, q
    <2> QED
      BY <1>1, <1>5, FlattenGrows
  <1>7. ASSUME \A k \in (Len(ns) + 1)..Len(more) : more[k].anchor \in {NoAnchor} \/ more[k].anchor # anchor
        PROVE  FlattenSeq(q) = FlattenSeq(p)
    <2>1. \A k \in (Len(p) + 1)..Len(q) : q[k] = <<>>
      <3> SUFFICES ASSUME NEW k \in (Len(p) + 1)..Len(q) PROVE q[k] = <<>>
        OBVIOUS
      <3>1. k \in (Len(ns) + 1)..Len(more) /\ k \in 1..Len(more)
        BY <1>1, <1>2
      <3> QED
        BY <3>1, <1>7, GivenParts
    <2> HIDE DEF p, q
    <2>2. Starts(FlattenSeq(q), FlattenSeq(p))
      BY <1>1, <1>2, <1>3, <2>1, FlattenSame
    <2>3. \A s, t : IsSequence(s) /\ IsSequence(t) /\ Starts(s, t) /\ Starts(t, s) => s = t
      <3> SUFFICES ASSUME NEW s, NEW t, IsSequence(s), IsSequence(t), Starts(s, t), Starts(t, s)
                   PROVE  s = t
        OBVIOUS
      <3>1. Len(s) = Len(t) /\ \A k \in 1..Len(s) : s[k] = t[k]
        <4>1. Len(s) \in Nat /\ Len(t) \in Nat /\ Len(s) <= Len(t) /\ Len(t) <= Len(s)
          BY DEF Starts, IsSequence
        <4>2. Len(s) = Len(t)
          BY <4>1
        <4> QED
          BY <4>2 DEF Starts
      <3>2. s = [k \in 1..Len(s) |-> s[k]] /\ t = [k \in 1..Len(s) |-> t[k]]
        BY <3>1 DEF IsSequence
      <3>3. [k \in 1..Len(s) |-> s[k]] = [k \in 1..Len(s) |-> t[k]]
        BY <3>1
      <3> QED
        BY <3>2, <3>3
    <2> QED
      BY <2>2, <2>3, <1>4, <1>6
  <1> QED
    BY <1>4, <1>6, <1>7 DEF Texts

\* A request: messages, and what the notes add to each.
RequestOK(r) == IsSequence(r) /\ \A i \in 1..Len(r) : IsSequence(r[i].texts)
LongerRequest(r, s) ==
  /\ Len(r) <= Len(s)
  /\ \A i \in 1..(Len(r) - 1) : s[i].message = r[i].message /\ s[i].texts = r[i].texts
  /\ Len(r) # 0 => s[Len(r)].message = r[Len(r)].message /\ Starts(r[Len(r)].texts, s[Len(r)].texts)

Line(anchor, texts) == [k \in DOMAIN texts |-> <<anchor, texts[k]>>]
Block(anchor, texts) == <<<<anchor, <<>>>>>> \o Line(anchor, texts)
Blocks(r) == [i \in DOMAIN r |-> Block(r[i].message.anchor, r[i].texts)]

LEMMA BlockGrows ==
  ASSUME NEW s, IsSequence(s), NEW t, IsSequence(t), Starts(s, t), NEW anchor
  PROVE  IsSequence(Block(anchor, s)) /\ Starts(Block(anchor, s), Block(anchor, t))
  <1>1. \A u : IsSequence(u) => /\ IsSequence(Line(anchor, u)) /\ Len(Line(anchor, u)) = Len(u)
                                /\ \A k \in 1..Len(u) : Line(anchor, u)[k] = <<anchor, u[k]>>
    <2> SUFFICES ASSUME NEW u, IsSequence(u)
                 PROVE  /\ IsSequence(Line(anchor, u)) /\ Len(Line(anchor, u)) = Len(u)
                        /\ \A k \in 1..Len(u) : Line(anchor, u)[k] = <<anchor, u[k]>>
      OBVIOUS
    <2> DEFINE f == Line(anchor, u)
    <2>1. Len(u) \in Nat /\ DOMAIN f = 1..Len(u) /\ \A k \in 1..Len(u) : f[k] = <<anchor, u[k]>>
      BY DEF IsSequence, Line
    <2>2. f = [k \in 1..Len(u) |-> f[k]]
      BY DEF IsSequence, Line
    <2> HIDE DEF f
    <2>3. IsSequence(f) /\ Len(f) = Len(u)
      BY <2>1, <2>2, FunctionIsSequence
    <2> QED
      BY <2>1, <2>3 DEF f
  <1>2. Starts(Line(anchor, s), Line(anchor, t))
    <2>1. /\ Len(Line(anchor, s)) = Len(s) /\ Len(Line(anchor, t)) = Len(t)
          /\ \A k \in 1..Len(s) : Line(anchor, s)[k] = <<anchor, s[k]>>
          /\ \A k \in 1..Len(t) : Line(anchor, t)[k] = <<anchor, t[k]>>
      BY <1>1
    <2>2. /\ Len(s) \in Nat /\ Len(t) \in Nat /\ Len(s) <= Len(t)
          /\ \A k \in 1..Len(s) : t[k] = s[k]
      BY DEF Starts, IsSequence
    <2>3. \A k \in 1..Len(s) : Line(anchor, t)[k] = Line(anchor, s)[k]
      <3> TAKE k \in 1..Len(s)
      <3>1. k \in 1..Len(t)
        BY <2>2
      <3> QED
        BY <3>1, <2>1, <2>2
    <2> QED
      BY <2>1, <2>2, <2>3 DEF Starts
  <1>3. IsSequence(<<<<anchor, <<>>>>>>)
    BY ShortSequences
  <1>4. IsSequence(Line(anchor, s)) /\ IsSequence(Line(anchor, t))
    BY <1>1
  <1> QED
    BY <1>2, <1>3, <1>4, Joins, JoinsOfStart DEF Block

LEMMA ContentGrows ==
  ASSUME NEW r, RequestOK(r), NEW s, RequestOK(s), LongerRequest(r, s)
  PROVE  IsSequence(Content(r)) /\ Starts(Content(r), Content(s))
  <1>1. Content(r) = FlattenSeq(Blocks(r)) /\ Content(s) = FlattenSeq(Blocks(s))
    BY DEF Content, Blocks, Block, Line
  <1>2. ASSUME NEW u, RequestOK(u)
        PROVE  /\ Parts(Blocks(u)) /\ Len(Blocks(u)) = Len(u)
               /\ \A i \in 1..Len(u) : Blocks(u)[i] = Block(u[i].message.anchor, u[i].texts)
    <2> DEFINE f == Blocks(u)
    <2>1. /\ Len(u) \in Nat /\ DOMAIN f = 1..Len(u) /\ f = [i \in 1..Len(u) |-> f[i]]
          /\ \A i \in 1..Len(u) : f[i] = Block(u[i].message.anchor, u[i].texts)
      BY <1>2 DEF RequestOK, IsSequence, Blocks
    <2> HIDE DEF f
    <2>2. IsSequence(f) /\ Len(f) = Len(u)
      BY <2>1, FunctionIsSequence
    <2>3. \A i \in 1..Len(u) : IsSequence(f[i])
      BY <2>1, <1>2, BlockGrows, StartsIsOrder DEF RequestOK
    <2>4. Parts(f)
      BY <2>2, <2>3 DEF Parts
    <2> QED
      BY <2>1, <2>2, <2>4 DEF f
  <1>3. LongerParts(Blocks(r), Blocks(s))
    <2>1. Len(r) \in Nat /\ Len(s) \in Nat
      BY DEF RequestOK, IsSequence
    <2>2. Len(Blocks(r)) = Len(r) /\ Len(Blocks(s)) = Len(s)
      BY <1>2
    <2>3. \A i \in 1..(Len(r) - 1) : Blocks(s)[i] = Blocks(r)[i]
      <3> TAKE i \in 1..(Len(r) - 1)
      <3>1. i \in 1..Len(r) /\ i \in 1..Len(s)
        BY <2>1 DEF LongerRequest
      <3>2. s[i].message = r[i].message /\ s[i].texts = r[i].texts
        BY DEF LongerRequest
      <3> QED
        BY <3>1, <3>2, <1>2
    <2>4. ASSUME Len(r) # 0 PROVE Starts(Blocks(r)[Len(r)], Blocks(s)[Len(r)])
      <3>1. Len(r) \in 1..Len(r) /\ Len(r) \in 1..Len(s)
        BY <2>1, <2>4 DEF LongerRequest
      <3>2. /\ s[Len(r)].message = r[Len(r)].message /\ Starts(r[Len(r)].texts, s[Len(r)].texts)
            /\ IsSequence(r[Len(r)].texts) /\ IsSequence(s[Len(r)].texts)
        BY <3>1, <2>4 DEF LongerRequest, RequestOK
      <3>3. /\ Blocks(r)[Len(r)] = Block(r[Len(r)].message.anchor, r[Len(r)].texts)
            /\ Blocks(s)[Len(r)] = Block(r[Len(r)].message.anchor, s[Len(r)].texts)
        BY <3>1, <3>2, <1>2
      <3> QED
        BY <3>2, <3>3, BlockGrows
    <2> QED
      BY <2>2, <2>3, <2>4 DEF LongerParts, LongerRequest
  <1> QED
    BY <1>1, <1>2, <1>3, FlattenGrows, FlattenIsSequence

LEMMA NotedIsRequest ==
  ASSUME NEW messages, IsSequence(messages), NEW ns, IsSequence(ns)
  PROVE  LET r == WithRequestNotes(messages, ns)
         IN /\ RequestOK(r) /\ Len(r) = Len(messages)
            /\ \A i \in 1..Len(messages) : /\ r[i].message = messages[i]
                                           /\ r[i].texts = Texts(ns, messages[i].anchor)
  <1> DEFINE r == WithRequestNotes(messages, ns)
  <1>1. /\ Len(messages) \in Nat /\ DOMAIN r = 1..Len(messages)
        /\ r = [i \in 1..Len(messages) |-> r[i]]
        /\ \A i \in 1..Len(messages) : /\ r[i].message = messages[i]
                                       /\ r[i].texts = Texts(ns, messages[i].anchor)
    BY DEF IsSequence, WithRequestNotes, Texts, Given
  <1> HIDE DEF r
  <1>2. IsSequence(r) /\ Len(r) = Len(messages)
    BY <1>1, FunctionIsSequence
  <1>3. \A i \in 1..Len(messages) : IsSequence(r[i].texts)
    BY <1>1, TextsGrow, StartsIsOrder
  <1> QED
    BY <1>1, <1>2, <1>3 DEF r, RequestOK

\* Each message is told from those before it.
Distinct(messages) ==
  \A i, j \in 1..Len(messages) : i # j => messages[i].anchor # messages[j].anchor
\* The notes that are added belong to the last message.
AddedTo(messages, ns, more) ==
  /\ Starts(ns, more)
  /\ \A k \in (Len(ns) + 1)..Len(more) :
       messages # <<>> /\ more[k].anchor = messages[Len(messages)].anchor

LEMMA NotedGrows ==
  ASSUME NEW messages, IsSequence(messages), Distinct(messages), NEW ns, IsSequence(ns),
         NEW more, IsSequence(more), AddedTo(messages, ns, more)
  PROVE  Starts(Content(WithRequestNotes(messages, ns)), Content(WithRequestNotes(messages, more)))
  <1> DEFINE r == WithRequestNotes(messages, ns)
             s == WithRequestNotes(messages, more)
  <1>1. /\ RequestOK(r) /\ Len(r) = Len(messages)
        /\ \A i \in 1..Len(messages) : /\ r[i].message = messages[i]
                                       /\ r[i].texts = Texts(ns, messages[i].anchor)
    BY NotedIsRequest
  <1>2. /\ RequestOK(s) /\ Len(s) = Len(messages)
        /\ \A i \in 1..Len(messages) : /\ s[i].message = messages[i]
                                       /\ s[i].texts = Texts(more, messages[i].anchor)
    BY NotedIsRequest
  <1> HIDE DEF r, s
  <1>3. Len(messages) \in Nat
    BY DEF IsSequence
  <1>4. ASSUME NEW i \in 1..(Len(messages) - 1) PROVE s[i].texts = r[i].texts
    <2>1. i \in 1..Len(messages) /\ Len(messages) \in 1..Len(messages) /\ i # Len(messages)
      BY <1>3
    <2>2. messages[i].anchor # messages[Len(messages)].anchor
      BY <2>1 DEF Distinct
    <2>3. \A k \in (Len(ns) + 1)..Len(more) : more[k].anchor # messages[i].anchor
      BY <2>2 DEF AddedTo
    <2>4. Starts(ns, more)
      BY DEF AddedTo
    <2>5. Texts(more, messages[i].anchor) = Texts(ns, messages[i].anchor)
      BY <2>3, <2>4, TextsGrow
    <2> QED
      BY <2>1, <2>5, <1>1, <1>2
  <1>5. ASSUME Len(messages) # 0
        PROVE  Starts(r[Len(messages)].texts, s[Len(messages)].texts)
    <2>1. Len(messages) \in 1..Len(messages)
      BY <1>3, <1>5
    <2>2. Starts(ns, more)
      BY DEF AddedTo
    <2> QED
      BY <2>1, <2>2, <1>1, <1>2, TextsGrow
  <1>6. LongerRequest(r, s)
    <2>1. \A i \in 1..Len(messages) : s[i].message = r[i].message
      BY <1>1, <1>2
    <2>2. Len(messages) # 0 => Len(messages) \in 1..Len(messages)
      BY <1>3
    <2>3. \A i \in 1..(Len(messages) - 1) : i \in 1..Len(messages)
      BY <1>3
    <2>4. Len(r) <= Len(s)
      BY <1>1, <1>2, <1>3
    <2> QED
      BY <1>1, <1>4, <1>5, <2>1, <2>2, <2>3, <2>4 DEF LongerRequest
  <1> QED
    BY <1>1, <1>2, <1>6, ContentGrows DEF r, s

\* A message at the end, or more of them.
LEMMA LongerHistory ==
  ASSUME NEW messages, IsSequence(messages), NEW longer, IsSequence(longer), Starts(messages, longer),
         NEW ns, IsSequence(ns)
  PROVE  Starts(Content(WithRequestNotes(messages, ns)), Content(WithRequestNotes(longer, ns)))
  <1> DEFINE r == WithRequestNotes(messages, ns)
             s == WithRequestNotes(longer, ns)
  <1>1. /\ RequestOK(r) /\ Len(r) = Len(messages)
        /\ \A i \in 1..Len(messages) : /\ r[i].message = messages[i]
                                       /\ r[i].texts = Texts(ns, messages[i].anchor)
    BY NotedIsRequest
  <1>2. /\ RequestOK(s) /\ Len(s) = Len(longer)
        /\ \A i \in 1..Len(longer) : /\ s[i].message = longer[i]
                                     /\ s[i].texts = Texts(ns, longer[i].anchor)
    BY NotedIsRequest
  <1> HIDE DEF r, s
  <1>3. Len(messages) \in Nat /\ Len(longer) \in Nat /\ Len(messages) <= Len(longer)
    BY DEF IsSequence, Starts
  <1>4. \A i \in 1..Len(messages) : s[i].message = r[i].message /\ s[i].texts = r[i].texts
    <2> TAKE i \in 1..Len(messages)
    <2>1. i \in 1..Len(longer) /\ longer[i] = messages[i]
      BY <1>3 DEF Starts
    <2> QED
      BY <2>1, <1>1, <1>2
  <1>5. \A i \in 1..Len(messages) : IsSequence(r[i].texts)
    BY <1>1 DEF RequestOK
  <1>6. LongerRequest(r, s)
    <2>2. Len(messages) # 0 => Len(messages) \in 1..Len(messages)
      BY <1>3
    <2>3. \A i \in 1..(Len(messages) - 1) : i \in 1..Len(messages)
      BY <1>3
    <2>4. Len(messages) # 0 => Starts(r[Len(messages)].texts, s[Len(messages)].texts)
      BY <2>2, <1>4, <1>5, StartsIsOrder
    <2> QED
      BY <1>1, <1>2, <1>3, <1>4, <2>2, <2>3, <2>4 DEF LongerRequest
  <1> QED
    BY <1>1, <1>2, <1>6, ContentGrows DEF r, s

LEMMA JoinedAs ==
  ASSUME NEW s, IsSequence(s), NEW t, IsSequence(t), NEW u, u = s \o t
  PROVE  /\ IsSequence(u) /\ Len(u) = Len(s) + Len(t) /\ Starts(s, u)
         /\ \A k \in 1..Len(s) : u[k] = s[k]
  BY Joins

LEMMA JoinElement ==
  ASSUME NEW s, IsSequence(s), NEW t, IsSequence(t), NEW u, u = s \o t, NEW k \in 1..Len(u)
  PROVE  \/ (k \in 1..Len(s) /\ u[k] = s[k])
         \/ (\E j \in 1..Len(t) : u[k] = t[j])
  <1>1. /\ Len(u) = Len(s) + Len(t) /\ \A i \in 1..Len(s) : u[i] = s[i]
        /\ \A i \in 1..Len(t) : u[Len(s) + i] = t[i]
    BY Joins
  <1>2. Len(s) \in Nat /\ Len(t) \in Nat
    BY DEF IsSequence
  <1>3. CASE k <= Len(s)
    BY <1>1, <1>2, <1>3
  <1>4. CASE ~(k <= Len(s))
    <2>1. k - Len(s) \in 1..Len(t) /\ Len(s) + (k - Len(s)) = k
      BY <1>1, <1>2, <1>4
    <2>2. u[k] = t[k - Len(s)]
      BY <2>1, <1>1
    <2> QED
      BY <2>1, <2>2
  <1> QED
    BY <1>3, <1>4

\* Requests that differ in the texts of their last message only.
LEMMA LastTextsGrow ==
  ASSUME NEW r, NEW s, NEW n \in Nat, Len(r) = n, Len(s) = n,
         \A i \in 1..(n - 1) : s[i].message = r[i].message /\ s[i].texts = r[i].texts,
         s[n].message = r[n].message, Starts(r[n].texts, s[n].texts)
  PROVE  LongerRequest(r, s)
  BY DEF LongerRequest

LEMMA FlattenElements ==
  ASSUME NEW p, Parts(p)
  PROVE  \A k \in 1..Len(FlattenSeq(p)) :
           \E i \in 1..Len(p) : \E j \in 1..Len(p[i]) : FlattenSeq(p)[k] = p[i][j]
  <1> DEFINE Known(x) == \E i \in 1..Len(p) : \E j \in 1..Len(p[i]) : x = p[i][j]
  <1>1. Len(p) \in Nat /\ \A i \in 1..Len(p) : IsSequence(p[i])
    BY DEF Parts, IsSequence
  <1>2. PICK f : FlatTrace(p, f)
    BY <1>1, FlatSteps
  <1>3. \A i \in 1..Len(p) : IsSequence(f[i])
    BY <1>2, FlatIsSequence
  <1> DEFINE S == {i \in 0..Len(p) : i # 0 => \A k \in 1..Len(f[i]) : Known(f[i][k])}
  <1>4. ASSUME NEW i \in 0..Len(p), \A m \in 0..(i - 1) : m \in S
        PROVE  i \in S
    <2>1. CASE i = 0
      BY <2>1
    <2>2. CASE i = 1
      <3>1. f[1] = p[1] /\ 1 \in 1..Len(p)
        BY <2>2, <1>1, <1>2 DEF FlatTrace
      <3>2. \A k \in 1..Len(f[1]) : Known(f[1][k])
        BY <3>1
      <3> QED
        BY <3>2, <2>2
    <2>3. CASE i \notin {0, 1}
      <3>1. i \in 2..Len(p) /\ i - 1 \in 0..(i - 1) /\ i - 1 # 0 /\ i - 1 \in 1..Len(p) /\ i \in 1..Len(p)
        BY <2>3, <1>1
      <3>2. f[i] = f[i - 1] \o p[i] /\ \A k \in 1..Len(f[i - 1]) : Known(f[i - 1][k])
        BY <3>1, <1>2, <1>4 DEF FlatTrace
      <3>3. IsSequence(f[i - 1]) /\ IsSequence(p[i])
        BY <3>1, <1>1, <1>3
      <3>5. ASSUME NEW k \in 1..Len(f[i]) PROVE Known(f[i][k])
        <4>1. \/ (k \in 1..Len(f[i - 1]) /\ f[i][k] = f[i - 1][k])
              \/ (\E j \in 1..Len(p[i]) : f[i][k] = p[i][j])
          <5> DEFINE u == f[i - 1]
                     v == p[i]
                     z == f[i]
          <5>1. z = u \o v /\ IsSequence(u) /\ IsSequence(v) /\ k \in 1..Len(z)
            BY <3>2, <3>3
          <5>2. \/ (k \in 1..Len(u) /\ z[k] = u[k])
                \/ (\E j \in 1..Len(v) : z[k] = v[j])
            <6> HIDE DEF u, v, z, Known
            <6> QED
              BY <5>1, JoinElement
          <5> QED
            BY <5>2
        <4>2. CASE k \in 1..Len(f[i - 1]) /\ f[i][k] = f[i - 1][k]
          <5>1. Known(f[i - 1][k])
            BY <4>2, <3>2
          <5> HIDE DEF Known
          <5> QED
            BY <4>2, <5>1
        <4>3. CASE \E j \in 1..Len(p[i]) : f[i][k] = p[i][j]
          BY <4>3, <3>1
        <4> QED
          BY <4>1, <4>2, <4>3
      <3> QED
        BY <3>5
    <2> QED
      BY <2>1, <2>2, <2>3
  <1>5. \A i \in 0..Len(p) : i \in S
    <2>1. 0..Len(p) \subseteq S
      <3> HIDE DEF S
      <3> QED
        BY <1>1, <1>4, UpToNumber
    <2> QED
      BY <2>1
  <1>6. CASE Len(p) = 0
    <2>1. FlattenSeq(p) = p
      BY <1>2, <1>6 DEF FlatTrace
    <2> QED
      BY <2>1, <1>6
  <1>7. CASE Len(p) # 0
    <2>1. FlattenSeq(p) = f[Len(p)] /\ Len(p) \in S
      BY <1>1, <1>2, <1>5, <1>7 DEF FlatTrace
    <2>2. \A k \in 1..Len(f[Len(p)]) : Known(f[Len(p)][k])
      BY <2>1, <1>7
    <2> QED
      BY <2>1, <2>2
  <1> QED
    BY <1>6, <1>7

\* The plans of one request are for its last message.
PlansFor(messages, plans) ==
  IsSequence(plans) /\ \A k \in 1..Len(plans) : plans[k].anchor = LastAnchor(messages)

LEMMA NotesApplied ==
  ASSUME NEW messages, IsSequence(messages), Distinct(messages), NEW ns, IsSequence(ns),
         NEW plans, PlansFor(messages, plans), NEW writable
  PROVE  LET applied == ApplyNotePlans(ns, messages, plans, writable)
         IN /\ IsSequence(applied.notes) /\ AddedTo(messages, ns, applied.notes)
            /\ IsSequence(Content(applied.request))
            /\ Starts(Content(WithRequestNotes(messages, ns)), Content(applied.request))
            /\ applied.recorded => Starts(Content(applied.request),
                                          Content(WithRequestNotes(messages, applied.notes)))
  <1> DEFINE applied == ApplyNotePlans(ns, messages, plans, writable)
             Kept(p) == p.anchor # NoAnchor /\ writable
             some == [k \in DOMAIN plans |-> IF Kept(plans[k]) THEN <<plans[k]>> ELSE <<>>]
             rest == [k \in DOMAIN plans |-> IF Kept(plans[k]) THEN <<>> ELSE <<plans[k]>>]
             kept == ns \o FlattenSeq(some)
             lost == FlattenSeq(rest)
             noted == WithRequestNotes(messages, kept)
             passing == [k \in DOMAIN lost |-> lost[k].text]
  <1>1. /\ applied.notes = kept /\ (applied.recorded <=> lost = <<>>)
        /\ applied.request = IF noted = <<>> THEN noted
                             ELSE [noted EXCEPT ![Len(noted)].texts = @ \o passing]
    BY DEF ApplyNotePlans
  <1>2. Parts(some) /\ Parts(rest) /\ Len(some) = Len(plans) /\ \A k \in 1..Len(plans) :
          some[k] = <<>> \/ (some[k] = <<plans[k]>> /\ plans[k].anchor # NoAnchor)
    <2>1. /\ Len(plans) \in Nat /\ DOMAIN some = 1..Len(plans) /\ DOMAIN rest = 1..Len(plans)
          /\ some = [k \in 1..Len(plans) |-> some[k]] /\ rest = [k \in 1..Len(plans) |-> rest[k]]
          /\ \A k \in 1..Len(plans) :
               some[k] = <<>> \/ (some[k] = <<plans[k]>> /\ plans[k].anchor # NoAnchor)
          /\ \A k \in 1..Len(plans) : rest[k] = <<>> \/ rest[k] = <<plans[k]>>
      BY DEF PlansFor, IsSequence
    <2> HIDE DEF some, rest
    <2>2. IsSequence(some) /\ IsSequence(rest) /\ Len(some) = Len(plans) /\ Len(rest) = Len(plans)
      BY <2>1, FunctionIsSequence
    <2>3. \A k \in 1..Len(plans) : IsSequence(some[k]) /\ IsSequence(rest[k])
      <3> TAKE k \in 1..Len(plans)
      <3>1. \A x : IsSequence(<<x>>)
        BY ShortSequences
      <3>2. some[k] \in {<<>>, <<plans[k]>>} /\ rest[k] \in {<<>>, <<plans[k]>>}
        BY <2>1
      <3>3. IsSequence(<<plans[k]>>) /\ IsSequence(<<>>)
        BY <3>1, ShortSequences
      <3> QED
        BY <3>2, <3>3
    <2> QED
      BY <2>1, <2>2, <2>3 DEF Parts
  <1> HIDE DEF some, rest
  <1>3. IsSequence(FlattenSeq(some)) /\ IsSequence(lost)
    BY <1>2, FlattenIsSequence
  <1>4. \A k \in 1..Len(FlattenSeq(some)) :
          FlattenSeq(some)[k].anchor = LastAnchor(messages) /\ LastAnchor(messages) # NoAnchor
    <2> SUFFICES ASSUME NEW k \in 1..Len(FlattenSeq(some))
                 PROVE  FlattenSeq(some)[k].anchor = LastAnchor(messages) /\ LastAnchor(messages) # NoAnchor
      OBVIOUS
    <2>1. PICK i \in 1..Len(some) : \E j \in 1..Len(some[i]) : FlattenSeq(some)[k] = some[i][j]
      BY <1>2, FlattenElements
    <2>2. PICK j \in 1..Len(some[i]) : FlattenSeq(some)[k] = some[i][j]
      BY <2>1
    <2>3. i \in 1..Len(plans) /\ some[i] # <<>>
      <3>1. Len(<<>>) = 0
        BY ShortSequences
      <3>2. some[i] # <<>>
        BY <3>1, <2>2
      <3> QED
        BY <3>2, <1>2
    <2>4. some[i] = <<plans[i]>> /\ plans[i].anchor # NoAnchor
      BY <2>3, <1>2
    <2>5. Len(some[i]) = 1 /\ some[i][1] = plans[i]
      BY <2>4, ShortSequences
    <2>6. j = 1
      BY <2>5
    <2>7. FlattenSeq(some)[k] = plans[i] /\ plans[i].anchor = LastAnchor(messages)
      BY <2>2, <2>3, <2>5, <2>6 DEF PlansFor
    <2> QED
      BY <2>4, <2>7
  <1>5. IsSequence(kept) /\ AddedTo(messages, ns, kept)
    <2>1. /\ IsSequence(kept) /\ Len(kept) = Len(ns) + Len(FlattenSeq(some)) /\ Starts(ns, kept)
          /\ \A i \in 1..Len(FlattenSeq(some)) : kept[Len(ns) + i] = FlattenSeq(some)[i]
      BY <1>3, Joins
    <2>2. ASSUME NEW k \in (Len(ns) + 1)..Len(kept)
          PROVE  messages # <<>> /\ kept[k].anchor = messages[Len(messages)].anchor
      <3> DEFINE i == k - Len(ns)
      <3>1. i \in 1..Len(FlattenSeq(some)) /\ Len(ns) + i = k
        BY <2>1, <1>3 DEF IsSequence
      <3>2. kept[k] = FlattenSeq(some)[i]
        BY <2>1, <3>1
      <3> HIDE DEF i, kept
      <3> QED
        BY <3>1, <3>2, <1>4 DEF LastAnchor, Last
    <2> QED
      BY <2>1, <2>2 DEF AddedTo
  <1> HIDE DEF kept, lost
  <1>6. /\ RequestOK(noted) /\ Len(noted) = Len(messages)
        /\ \A i \in 1..Len(messages) : noted[i] = [message |-> messages[i], texts |-> noted[i].texts]
    <2>1. \A i \in DOMAIN messages : noted[i] = [message |-> messages[i], texts |-> noted[i].texts]
      BY DEF WithRequestNotes
    <2> HIDE DEF noted
    <2> QED
      BY <2>1, <1>5, NotedIsRequest DEF noted, IsSequence
  <1>7. Starts(Content(WithRequestNotes(messages, ns)), Content(noted))
    BY <1>5, NotedGrows
  <1>8. IsSequence(passing) /\ Len(passing) = Len(lost)
    <2>1. Len(lost) \in Nat /\ DOMAIN passing = 1..Len(lost) /\ passing = [k \in 1..Len(lost) |-> passing[k]]
      BY <1>3 DEF IsSequence
    <2> HIDE DEF passing
    <2> QED
      BY <2>1, FunctionIsSequence
  <1> HIDE DEF noted, passing
  <1>9. CASE noted = <<>>
    <2>1. applied.request = noted
      BY <1>1, <1>9
    <2>2. IsSequence(Content(noted))
      <3>1. Len(noted) = 0
        BY <1>9, ShortSequences
      <3>2. LongerRequest(noted, noted)
        BY <3>1 DEF LongerRequest
      <3> QED
        BY <3>2, <1>6, ContentGrows
    <2> QED
      BY <2>1, <2>2, <1>1, <1>5, <1>7, StartsIsOrder DEF noted
  <1>10. CASE noted # <<>>
    <2> DEFINE n == Len(messages)
               request == [noted EXCEPT ![n].texts = @ \o passing]
    <2>1. applied.request = request
      BY <1>1, <1>6, <1>10
    <2>2. n \in Nat /\ n # 0 /\ DOMAIN noted = 1..n /\ noted = [i \in 1..n |-> noted[i]] /\ n \in 1..n
      <3>1. n \in Nat /\ DOMAIN noted = 1..n /\ noted = [i \in 1..n |-> noted[i]]
        BY <1>6 DEF RequestOK, IsSequence
      <3>2. n # 0
        BY <3>1, <1>6, <1>10 DEF RequestOK, IsSequence
      <3> QED
        BY <3>1, <3>2
    <2>3. /\ DOMAIN request = 1..n
          /\ \A i \in 1..(n - 1) : request[i] = noted[i]
          /\ request[n].message = messages[n] /\ request[n].texts = noted[n].texts \o passing
          /\ noted[n].message = messages[n]
      <3>1. noted[n] = [message |-> messages[n], texts |-> noted[n].texts]
        BY <2>2, <1>6
      <3>2. request[n] = [noted[n] EXCEPT !.texts = @ \o passing]
        BY <2>2
      <3>3. /\ request[n].message = messages[n] /\ request[n].texts = noted[n].texts \o passing
            /\ noted[n].message = messages[n]
        BY <3>1, <3>2
      <3>4. DOMAIN request = 1..n /\ \A i \in 1..(n - 1) : request[i] = noted[i]
        BY <2>2
      <3> HIDE DEF request
      <3> QED
        BY <3>3, <3>4
    <2>4. request = [i \in 1..n |-> request[i]]
      BY <2>2
    <2>5. IsSequence(noted[n].texts)
      BY <2>2, <1>6 DEF RequestOK
    <2>6. /\ IsSequence(request[n].texts) /\ Starts(noted[n].texts, request[n].texts)
          /\ Len(request[n].texts) = Len(noted[n].texts) + Len(lost)
          /\ \A i \in 1..Len(noted[n].texts) : request[n].texts[i] = noted[n].texts[i]
      <3> DEFINE u == request[n].texts
                 v == noted[n].texts
      <3>1. u = v \o passing /\ IsSequence(v)
        BY <2>3, <2>5
      <3>2. IsSequence(u) /\ Len(u) = Len(v) + Len(passing) /\ Starts(v, u) /\ \A k \in 1..Len(v) : u[k] = v[k]
        <4> HIDE DEF u, v
        <4> QED
          BY <3>1, <1>8, JoinedAs
      <3> QED
        BY <3>2, <1>8
    <2> HIDE DEF request
    <2>7. IsSequence(request) /\ Len(request) = n
      BY <2>2, <2>3, <2>4, FunctionIsSequence
    <2>8. RequestOK(request)
      <3>1. ASSUME NEW i \in 1..n PROVE IsSequence(request[i].texts)
        <4>1. CASE i = n
          BY <4>1, <2>6
        <4>2. CASE i # n
          <5>1. i \in 1..(n - 1)
            BY <4>2, <2>2
          <5> QED
            BY <5>1, <2>3, <1>6 DEF RequestOK
        <4> QED
          BY <4>1, <4>2
      <3> QED
        BY <3>1, <2>7 DEF RequestOK
    <2>9. LongerRequest(noted, request)
      <3>1. \A i \in 1..(Len(noted) - 1) : request[i].message = noted[i].message
                                         /\ request[i].texts = noted[i].texts
        BY <2>3, <1>6
      <3>2. Len(noted) = n /\ Len(request) = n /\ request[n].message = noted[n].message
        BY <2>3, <2>7, <1>6
      <3> QED
        <4>1. \A i \in 1..(n - 1) : request[i].message = noted[i].message /\ request[i].texts = noted[i].texts
          BY <3>1, <3>2
        <4> HIDE DEF n
        <4> QED
          BY <2>2, <2>6, <4>1, <3>2, LastTextsGrow
    <2>10. IsSequence(Content(noted)) /\ Starts(Content(noted), Content(request))
      BY <2>8, <2>9, <1>6, ContentGrows
    <2>11. ASSUME lost = <<>> PROVE LongerRequest(request, noted)
      <3>1. Len(lost) = 0
        BY <2>11, ShortSequences
      <3>2. Starts(request[n].texts, noted[n].texts)
        <4>1. Len(noted[n].texts) \in Nat
          BY <2>5 DEF IsSequence
        <4> QED
          BY <3>1, <4>1, <2>6 DEF Starts
      <3>3. Len(noted) = n /\ Len(request) = n /\ request[n].message = noted[n].message
        BY <2>3, <2>7, <1>6
      <3>4. \A i \in 1..(Len(request) - 1) : noted[i].message = request[i].message
                                           /\ noted[i].texts = request[i].texts
        BY <2>3, <2>7
      <3> QED
        <4>1. \A i \in 1..(n - 1) : noted[i].message = request[i].message /\ noted[i].texts = request[i].texts
          BY <3>3, <3>4
        <4> HIDE DEF n
        <4> QED
          BY <2>2, <3>2, <4>1, <3>3, LastTextsGrow
    <2>12. IsSequence(Content(request))
      <3>1. LongerRequest(request, request)
        BY <2>6, <2>7, <2>2, StartsIsOrder DEF LongerRequest
      <3> QED
        BY <3>1, <2>8, ContentGrows
    <2>13. lost = <<>> => Starts(Content(request), Content(noted))
      BY <2>8, <2>11, <1>6, ContentGrows
    <2>14. IsSequence(Content(WithRequestNotes(messages, ns)))
      <3>1. RequestOK(WithRequestNotes(messages, ns))
            /\ Len(WithRequestNotes(messages, ns)) = n
        BY NotedIsRequest
      <3>2. LongerRequest(WithRequestNotes(messages, ns), WithRequestNotes(messages, ns))
        BY <3>1, <2>2, StartsIsOrder DEF LongerRequest, RequestOK
      <3> QED
        BY <3>1, <3>2, ContentGrows
    <2>15. Starts(Content(WithRequestNotes(messages, ns)), Content(request))
      BY <2>10, <2>12, <2>14, <1>7, StartsIsOrder
    <2> QED
      BY <2>1, <2>12, <2>13, <2>15, <1>1, <1>5 DEF noted
  <1> QED
    BY <1>9, <1>10

LEMMA PlansJoin ==
  ASSUME NEW messages, NEW p, PlansFor(messages, p), NEW q, PlansFor(messages, q)
  PROVE  PlansFor(messages, p \o q)
  <1> DEFINE u == p \o q
  <1>1. IsSequence(p) /\ IsSequence(q)
    BY DEF PlansFor
  <1>2. IsSequence(u) /\ u = p \o q
    BY <1>1, Joins
  <1> HIDE DEF u
  <1>3. ASSUME NEW k \in 1..Len(u) PROVE u[k].anchor = LastAnchor(messages)
    <2>1. \/ (k \in 1..Len(p) /\ u[k] = p[k])
          \/ (\E j \in 1..Len(q) : u[k] = q[j])
      <3>1. k \in 1..Len(u) /\ u = p \o q /\ IsSequence(p) /\ IsSequence(q)
        BY <1>1, <1>2
      <3> QED
        BY <3>1, JoinElement, SMTT(60)
    <2> QED
      BY <2>1 DEF PlansFor
  <1> QED
    BY <1>2, <1>3 DEF PlansFor, u

LEMMA NoPlans == \A messages : PlansFor(messages, <<>>)
  <1>1. IsSequence(<<>>) /\ Len(<<>>) = 0
    BY ShortSequences
  <1> QED
    BY <1>1 DEF PlansFor

\* Nothing is planned, or one note for the last message.
Planned(messages, plan) ==
  plan = {} \/ \E entry, instruction, text : plan = Plan(messages, entry, instruction, text)

LEMMA PlanIsFor ==
  ASSUME NEW messages, NEW plan, Planned(messages, plan)
  PROVE  PlansFor(messages, SeqOfPlan(plan))
  <1>1. CASE plan = {}
    BY <1>1, NoPlans DEF SeqOfPlan
  <1>2. CASE plan # {}
    <2>1. \A p \in plan : p.anchor = LastAnchor(messages)
      BY DEF Planned, Plan
    <2> DEFINE p == CHOOSE x \in plan : TRUE
    <2>2. p \in plan /\ SeqOfPlan(plan) = <<p>>
      BY <1>2 DEF SeqOfPlan
    <2> HIDE DEF p
    <2>3. IsSequence(<<p>>) /\ Len(<<p>>) = 1 /\ <<p>>[1] = p
      BY ShortSequences
    <2>4. \A k \in 1..1 : <<p>>[k] = p
      BY <2>3
    <2> QED
      BY <2>1, <2>2, <2>3, <2>4 DEF PlansFor
  <1> QED
    BY <1>1, <1>2

LEMMA EveryPlan ==
  /\ \A ns, messages, entry, instruction : Planned(messages, PlanRequestNote(ns, messages, entry, instruction))
  /\ \A ns, messages, on : Planned(messages, PlanToolsNote(ns, messages, on))
  /\ \A messages : Planned(messages, PlanRecoveryNote(messages))
  BY DEF Planned, PlanRequestNote, PlanToolsNote, PlanRecoveryNote

LEMMA RequestsApplyPlans ==
  ASSUME NEW ns, NEW messages, NEW writable
  PROVE  /\ \A entry, instruction, routed, recovery : \E plans :
              PlansFor(messages, plans)
              /\ WithEntryNotes(ns, messages, entry, instruction, routed, recovery, writable)
                   = ApplyNotePlans(ns, messages, plans, writable)
         /\ \E plans : PlansFor(messages, plans)
              /\ WithConcreteNotes(ns, messages, writable) = ApplyNotePlans(ns, messages, plans, writable)
  <1>1. ASSUME NEW entry, NEW instruction, NEW routed, NEW recovery
        PROVE  \E plans :
              PlansFor(messages, plans)
              /\ WithEntryNotes(ns, messages, entry, instruction, routed, recovery, writable)
                   = ApplyNotePlans(ns, messages, plans, writable)
    <2> DEFINE a == SeqOfPlan(PlanToolsNote(ns, messages, TRUE))
               b == IF routed THEN SeqOfPlan(PlanRequestNote(ns, messages, entry, instruction)) ELSE <<>>
               c == IF recovery THEN SeqOfPlan(PlanRecoveryNote(messages)) ELSE <<>>
    <2>1. PlansFor(messages, a) /\ PlansFor(messages, b) /\ PlansFor(messages, c)
      BY EveryPlan, PlanIsFor, NoPlans
    <2>2. WithEntryNotes(ns, messages, entry, instruction, routed, recovery, writable)
            = ApplyNotePlans(ns, messages, (a \o b) \o c, writable)
      BY DEF WithEntryNotes
    <2> HIDE DEF a, b, c
    <2>3. PlansFor(messages, (a \o b) \o c)
      BY <2>1, PlansJoin
    <2> QED
      BY <2>2, <2>3
  <1>2. \E plans : PlansFor(messages, plans)
              /\ WithConcreteNotes(ns, messages, writable) = ApplyNotePlans(ns, messages, plans, writable)
    <2>1. PlansFor(messages, SeqOfPlan(PlanToolsNote(ns, messages, FALSE)))
      BY EveryPlan, PlanIsFor
    <2> QED
      BY <2>1 DEF WithConcreteNotes
  <1> QED
    BY <1>1, <1>2

\* What is added to a sequence makes it the longer one.
LEMMA RestAdded ==
  ASSUME NEW s, IsSequence(s), NEW t, IsSequence(t), Starts(s, t)
  PROVE  s \o SubSeq(t, Len(s) + 1, Len(t)) = t
  <1> DEFINE r == SubSeq(t, Len(s) + 1, Len(t))
             u == s \o r
             m == Len(s)
             n == Len(t)
  <1>1. m \in Nat /\ n \in Nat /\ m <= n
    BY DEF IsSequence, Starts
  <1>2. r = [i \in 1..(1 + n - (m + 1)) |-> t[i + (m + 1) - 1]]
    OBVIOUS
  <1>3. DOMAIN r = 1..(n - m) /\ r = [i \in 1..(n - m) |-> r[i]] /\ n - m \in Nat
        /\ \A i \in 1..(n - m) : r[i] = t[m + i]
    <2>1. 1 + n - (m + 1) = n - m /\ n - m \in Nat
      BY <1>1
    <2>2. \A i \in 1..(n - m) : i + (m + 1) - 1 = m + i
      BY <1>1
    <2> HIDE DEF r, m, n
    <2>3. r = [i \in 1..(n - m) |-> t[i + (m + 1) - 1]]
      BY <1>2, <2>1
    <2> QED
      BY <2>1, <2>2, <2>3
  <1>4. IsSequence(r) /\ Len(r) = n - m
    <2> HIDE DEF r, m, n
    <2> QED
      BY <1>3, FunctionIsSequence
  <1> HIDE DEF r
  <1>5. /\ IsSequence(u) /\ Len(u) = m + Len(r) /\ \A i \in 1..m : u[i] = s[i]
        /\ \A i \in 1..Len(r) : u[m + i] = r[i]
    BY <1>4, Joins
  <1> HIDE DEF u
  <1>6. Len(u) = n
    <2> HIDE DEF m, n
    <2> QED
      BY <1>1, <1>4, <1>5
  <1>7. \A i \in 1..m : u[i] = t[i]
    BY <1>5 DEF Starts
  <1>8. ASSUME NEW i \in 1..n, ~(i \in 1..m) PROVE u[i] = t[i]
    <2> DEFINE k == i - m
    <2>1. k \in 1..(n - m) /\ m + k = i
      <3> HIDE DEF m, n
      <3> QED
        BY <1>1, <1>8
    <2> HIDE DEF m, n, k
    <2>2. u[m + k] = r[k]
      <3>1. k \in 1..Len(r)
        BY <2>1, <1>4
      <3> QED
        BY <3>1, <1>5
    <2>3. r[k] = t[m + k]
      BY <2>1, <1>3
    <2> QED
      BY <2>1, <2>2, <2>3
  <1>9. \A i \in 1..n : u[i] = t[i]
    BY <1>7, <1>8
  <1>10. u = [i \in 1..n |-> u[i]] /\ t = [i \in 1..n |-> t[i]]
    BY <1>5, <1>6 DEF IsSequence
  <1> QED
    BY <1>9, <1>10 DEF u, r

LEMMA NotedContent ==
  ASSUME NEW messages, IsSequence(messages), NEW ns, IsSequence(ns)
  PROVE  IsSequence(Content(WithRequestNotes(messages, ns)))
  <1> DEFINE r == WithRequestNotes(messages, ns)
  <1>1. RequestOK(r) /\ Len(r) = Len(messages)
    BY NotedIsRequest
  <1> HIDE DEF r
  <1>2. Len(r) \in Nat
    BY <1>1 DEF RequestOK, IsSequence
  <1>3. Len(r) # 0 => IsSequence(r[Len(r)].texts)
    BY <1>1, <1>2 DEF RequestOK
  <1>4. LongerRequest(r, r)
    BY <1>2, <1>3, StartsIsOrder DEF LongerRequest
  <1>5. IsSequence(Content(r))
    BY <1>1, <1>4, ContentGrows
  <1> QED
    BY <1>5 DEF r

\* A part of a sequence.
LEMMA PartOf ==
  ASSUME NEW s, IsSequence(s), NEW m \in 1..Len(s), NEW n \in 0..Len(s)
  PROVE  LET p == SubSeq(s, m, n)
         IN IsSequence(p) /\ \A i \in 1..Len(p) : m + i - 1 \in 1..Len(s) /\ p[i] = s[m + i - 1]
  <1> DEFINE p == SubSeq(s, m, n)
             L == IF m <= n THEN n - m + 1 ELSE 0
  <1>1. Len(s) \in Nat /\ L \in Nat /\ m \in Int /\ n \in Int
    BY DEF IsSequence
  <1> DEFINE T == {s[i] : i \in 1..Len(s)}
  <1>2. \A i \in m..n : s[i] \in T
    BY <1>1
  <1>3. p \in Seq(T) /\ Len(p) = L /\ \A i \in 1..(n - m + 1) : p[i] = s[m + i - 1]
    <2> HIDE DEF T
    <2> QED
      BY <1>1, <1>2, SubSeqProperties
  <1>4. IsSequence(p)
    <2> HIDE DEF T, p
    <2> QED
      BY <1>3, IsSequenceOf
  <1> HIDE DEF p
  <1>5. ASSUME NEW i \in 1..Len(p) PROVE m + i - 1 \in 1..Len(s) /\ p[i] = s[m + i - 1]
    <2>1. i \in 1..L
      BY <1>3
    <2>2. i \in 1..(n - m + 1) /\ m + i - 1 \in 1..Len(s)
      BY <2>1, <1>1
    <2> QED
      BY <2>2, <1>3
  <1> QED
    BY <1>4, <1>5 DEF p

-----------------------------------------------------------------------------
(* The turn in progress: no step before an answer serves a model or        *)
(* touches the evidence.                                                   *)
SameTurn(t) == /\ TurnFields \subseteq DOMAIN turn' /\ turn'.esc = t.esc /\ turn'.intent = t.intent
               /\ turn'.observed = t.observed
\* A turn that has not sent its request keeps the messages it is about; the request that
\* starts the walk has the notes planned for them.
Keeps(t) ==
  /\ UNCHANGED <<notes, sent>> /\ pi'.notes = pi.notes
  /\ turn'.pc \in {"entry", "semi", "gate"} => turn'.messages = t.messages
  /\ turn'.pc \in {"semi", "gate"} => turn'.gen = t.gen
  /\ turn'.pc = "entry" => /\ turn'.gen = session.gen
                           /\ (t.pc = "entry" /\ t.hit) \/ t.gen = session.gen
Sends(t) ==
  /\ turn'.pc = "walk"
  /\ \E plans, writable :
       LET request == ApplyNotePlans(notes, t.messages, plans, writable)
       IN /\ PlansFor(t.messages, plans) /\ notes' = request.notes
          /\ pi'.notes = pi.notes \o SubSeq(request.notes, Len(notes) + 1, Len(request.notes))
          /\ sent' = [content |-> Content(request.request),
                      stable |-> request.recorded /\ t.gen = session'.gen]
Leads(s, t) ==
  /\ SameServing(s, session')
  /\ DOMAIN pi' = PiFields /\ pi'.open = pi.open /\ pi'.calling = pi.calling
  /\ pi'.messages = pi.messages /\ pi'.next = pi.next
  /\ Keeps(t) \/ Sends(t)
  /\ \/ turn' = Idle
     \/ /\ turn'.pc \in BeforeServing /\ SameTurn(t)
        /\ turn'.pc \in {"gate", "walk"} => "served" \in DOMAIN turn'
        /\ turn'.pc = "gate" => turn'.entryGen = turn'.gen

LEMMA WalkStarts ==
  ASSUME NEW s, SessionOK(s), NEW p, DOMAIN p = PiFields, p.open = pi.open, p.calling = pi.calling,
         p.messages = pi.messages, p.next = pi.next, p.notes = pi.notes,
         NEW t, TurnFields \subseteq DOMAIN t, "served" \in DOMAIN t, t.entryGen = t.gen, NEW writable,
         StartWalk(s, p, t, writable)
  PROVE  Leads(s, t)
  <1>1. SameServing(s, session')
    BY FieldSteps DEF StartWalk, SamePins
  <1>2. /\ DOMAIN pi' = PiFields /\ pi'.open = pi.open /\ pi'.calling = pi.calling
        /\ pi'.messages = pi.messages /\ pi'.next = pi.next
    <2>1. \E x : pi' = [p EXCEPT !.notes = x]
      BY DEF StartWalk
    <2> QED
      BY <2>1 DEF PiFields
  <1>3. turn'.pc = "walk" /\ SameTurn(t) /\ "served" \in DOMAIN turn'
    <2>1. turn' = [t EXCEPT !.pc = "walk", !.gen = s.gen, !.pending = traj.pending]
      BY DEF StartWalk
    <2> QED
      BY <2>1 DEF SameTurn, TurnFields
  <1>4. Sends(t)
    <2> DEFINE routed == s.phase.intent = t.intent
               request == WithEntryNotes(notes, t.messages, t.intent, Instruction(s, routed), routed,
                                         s.recoveryDue, writable)
    <2>1. PICK plans : /\ PlansFor(t.messages, plans)
                       /\ request = ApplyNotePlans(notes, t.messages, plans, writable)
      <3> DEFINE instruction == Instruction(s, routed)
      <3> HIDE DEF routed, instruction
      <3>1. \E plans :
              /\ PlansFor(t.messages, plans)
              /\ WithEntryNotes(notes, t.messages, t.intent, instruction, routed, s.recoveryDue, writable)
                   = ApplyNotePlans(notes, t.messages, plans, writable)
        BY RequestsApplyPlans
      <3> QED
        BY <3>1 DEF instruction
    <2>2. /\ notes' = request.notes
          /\ pi' = [p EXCEPT !.notes = @ \o SubSeq(request.notes, Len(notes) + 1, Len(request.notes))]
          /\ sent' = [content |-> Content(request.request), stable |-> request.recorded /\ t.entryGen = s.gen]
      BY DEF StartWalk
    <2> HIDE DEF request
    <2>3. pi'.notes = pi.notes \o SubSeq(request.notes, Len(notes) + 1, Len(request.notes))
      BY <2>2 DEF PiFields
    <2>4. s.gen = session'.gen
      BY <1>1 DEF SameServing
    <2> QED
      BY <2>1, <2>2, <2>3, <2>4, <1>3 DEF Sends
  <1> QED
    BY <1>1, <1>2, <1>3, <1>4 DEF Leads, BeforeServing

LEMMA LeadsOn ==
  ASSUME NEW s, NEW u, SameServing(s, u), NEW t, NEW v, Leads(u, v),
         v.esc = t.esc, v.intent = t.intent, v.observed = t.observed, v.messages = t.messages,
         v.gen = t.gen, v.hit = t.hit, v.pc = "entry" => t.pc = "entry"
  PROVE  Leads(s, t)
  <1>1. Keeps(v) => Keeps(t)
    BY DEF Keeps
  <1>2. Sends(v) => Sends(t)
    BY DEF Sends
  <1> QED
    BY <1>1, <1>2, SamePinsIsOrder DEF Leads, SameTurn

LEMMA Delegated ==
  ASSUME DOMAIN pi = PiFields, NEW s, SessionOK(s), NEW scored, NEW decision,
         NEW t, TurnFields \subseteq DOMAIN t, NEW writable, Delegate(s, scored, decision, t, writable)
  PROVE  Leads(s, t)
  <1> DEFINE pin == IF s.pin # NoKey THEN s.pin ELSE HoldOf(s, t.intent)
             gate == [pc |-> "gate", decision |-> decision, pool |-> scored.pool,
                      boundary |-> scored.boundary, index |-> 1, dead |-> {}, served |-> NoKey,
                      pending |-> {}, entryGen |-> t.gen]
             ready == Joined(gate, t)
             effort == TurnEffort(s, ready, pin)
             level == IF effort.level = NoEffort THEN 0 ELSE effort.level
             synced == [s EXCEPT !.resolved = effort.level, !.synced = level]
             paced == [pi EXCEPT !.level = level]
             next == Joined(ready, [effort |-> effort])
  <1>1. /\ TurnFields \subseteq DOMAIN ready /\ "served" \in DOMAIN ready /\ ready.pc = "gate"
        /\ ready.esc = t.esc /\ ready.intent = t.intent /\ ready.observed = t.observed
        /\ ready.messages = t.messages /\ ready.hit = t.hit
        /\ ready.gen = t.gen /\ ready.entryGen = t.gen
        /\ "entryGen" \in DOMAIN ready
    <2>1. DOMAIN gate = {"pc", "decision", "pool", "boundary", "index", "dead", "served", "pending",
                         "entryGen"} /\ gate.pc = "gate" /\ gate.entryGen = t.gen
      OBVIOUS
    <2> HIDE DEF gate
    <2> QED
      BY <2>1 DEF Joined, TurnFields
  <1> HIDE DEF ready, gate
  <1>2. /\ TurnFields \subseteq DOMAIN next /\ "served" \in DOMAIN next /\ next.pc = "gate"
        /\ next.esc = t.esc /\ next.intent = t.intent /\ next.observed = t.observed
        /\ next.messages = t.messages /\ next.hit = t.hit
        /\ next.gen = t.gen /\ next.entryGen = t.gen
    <2> HIDE DEF effort
    <2> QED
      BY <1>1 DEF Joined, TurnFields
  <1>3. \/ session' = synced /\ pi' = paced /\ turn' = next /\ UNCHANGED <<notes, sent>>
        \/ StartWalk(synced, paced, next, writable)
    BY DEF Delegate, ready, gate
  <1> HIDE DEF next, effort, level
  <1>4. SameServing(s, synced) /\ SessionOK(synced)
    BY DEF SessionOK, SessionFields, SameServing
  <1>5. /\ DOMAIN paced = PiFields /\ paced.open = pi.open /\ paced.calling = pi.calling
        /\ paced.messages = pi.messages /\ paced.next = pi.next /\ paced.notes = pi.notes
    BY DEF PiFields
  <1> HIDE DEF synced, paced
  <1>6. CASE session' = synced /\ pi' = paced /\ turn' = next /\ UNCHANGED <<notes, sent>>
    <2>1. Keeps(t)
      BY <1>2, <1>5, <1>6 DEF Keeps
    <2> QED
      BY <1>2, <1>4, <1>5, <1>6, <2>1 DEF Leads, SameTurn, BeforeServing
  <1>7. CASE StartWalk(synced, paced, next, writable)
    <2>1. Leads(synced, next)
      BY <1>2, <1>4, <1>5, <1>7, WalkStarts
    <2> QED
      BY <2>1, <1>2, <1>4, LeadsOn
  <1> QED
    BY <1>3, <1>6, <1>7

LEMMA Ended ==
  ASSUME DOMAIN pi = PiFields, NEW s, SessionOK(s), EndTurn(s), NEW t
  PROVE  Leads(s, t)
  BY DEF EndTurn, Leads, SameServing, Keeps, Idle

LEMMA ServedTurns ==
  ASSUME DOMAIN pi = PiFields, NEW s, SessionOK(s), NEW t, TurnFields \subseteq DOMAIN t, NEW writable
  PROVE  /\ ServeResumed(s, t, writable) => Leads(s, t)
         /\ \A identity : ServePinned(s, t, identity, writable) => Leads(s, t)
         /\ \A identity : ServeRouted(s, t, identity, writable) => Leads(s, t)
  <1>1. ASSUME ServeResumed(s, t, writable) PROVE Leads(s, t)
    <2>1. PICK decision, scored : Delegate(SetLastDecision(s, decision), scored, decision, t, writable)
      BY <1>1 DEF ServeResumed
    <2>2. SameServing(s, SetLastDecision(s, decision)) /\ SessionOK(SetLastDecision(s, decision))
      BY SessionSteps DEF SamePins, SameServing
    <2>3. Leads(SetLastDecision(s, decision), t)
      BY <2>1, <2>2, Delegated
    <2> QED
      BY <2>2, <2>3, LeadsOn
  <1>2. ASSUME NEW identity, ServePinned(s, t, identity, writable) PROVE Leads(s, t)
    <2> DEFINE cause == IF t.mode = "manual" THEN "manual-override" ELSE "semi-hold"
               scored == ScoreRouterTurn(s, t, ManualCandidates(BuildRoutableCandidates(t.black), t.pin),
                                         {}, cause, identity, t.mode = "manual")
    <2>1. SamePins(s, scored.session)
      BY ScoreKeeps
    <2>2. DelegatePinned(s, t, scored, writable)
      BY <1>2 DEF ServePinned
    <2> HIDE DEF scored
    <2>3. \/ EndTurn(s)
          \/ \E decision : Delegate(SetLastDecision(scored.session, decision), scored, decision, t, writable)
      BY <2>2 DEF DelegatePinned
    <2>4. ASSUME NEW decision, Delegate(SetLastDecision(scored.session, decision), scored, decision, t, writable)
          PROVE  Leads(s, t)
      <3> DEFINE u == SetLastDecision(scored.session, decision)
      <3>1. SameServing(s, u) /\ SessionOK(u)
        BY <2>1, SessionSteps, SamePinsIsOrder
      <3> HIDE DEF u
      <3>2. Leads(u, t)
        BY <2>4, <3>1, Delegated DEF u
      <3> QED
        BY <3>1, <3>2, LeadsOn
    <2> QED
      BY <2>3, <2>4, Ended
  <1>3. ASSUME NEW identity, ServeRouted(s, t, identity, writable) PROVE Leads(s, t)
    <2> DEFINE scored == ScoreRouterTurn(s, t, BuildRoutableCandidates(t.black), t.esc, t.base.cause,
                                         identity, FALSE)
               semi == [pc |-> "semi", keep |-> s.previous, gateGen |-> s.gen, gatePin |-> s.pin,
                        scored |-> [decision |-> scored.decision, pool |-> scored.pool,
                                    boundary |-> scored.boundary]]
    <2>1. SamePins(s, scored.session)
      BY ScoreKeeps
    <2>2. DelegateRouted(s, t, scored, writable)
      BY <1>3 DEF ServeRouted
    <2> HIDE DEF scored
    <2>3. \/ EndTurn(s)
          \/ /\ session' = scored.session /\ turn' = Joined(semi, t)
             /\ UNCHANGED <<pi, notes, sent>>
          \/ Delegate(scored.session, scored, scored.decision, t, writable)
      BY <2>2 DEF DelegateRouted
    <2>4. ASSUME session' = scored.session, turn' = Joined(semi, t), UNCHANGED <<pi, notes, sent>>
          PROVE  Leads(s, t)
      <3>1. DOMAIN semi = {"pc", "keep", "gateGen", "gatePin", "scored"} /\ semi.pc = "semi"
        OBVIOUS
      <3> HIDE DEF semi
      <3>2. turn'.pc = "semi" /\ SameTurn(t) /\ turn'.messages = t.messages /\ turn'.gen = t.gen
        BY <2>4, <3>1 DEF Joined, SameTurn, TurnFields
      <3>3. Keeps(t)
        BY <2>4, <3>2 DEF Keeps
      <3> QED
        BY <2>1, <2>4, <3>2, <3>3 DEF Leads, SamePins, BeforeServing
    <2>5. ASSUME Delegate(scored.session, scored, scored.decision, t, writable) PROVE Leads(s, t)
      <3>1. SameServing(s, scored.session) /\ SessionOK(scored.session)
        BY <2>1, SamePinsIsOrder
      <3>2. Leads(scored.session, t)
        BY <2>5, <3>1, Delegated
      <3> QED
        BY <3>1, <3>2, LeadsOn
    <2> QED
      BY <2>3, <2>4, <2>5, Ended
  <1> QED
    BY <1>1, <1>2, <1>3

LEMMA LeadKeeps ==
  ASSUME TurnInv, turn.pc \in BeforeServing, Leads(session, turn), traj' = traj, claims' = claims,
         DOMAIN used' = UsedFields, used'.calls = used.calls
  PROVE  TurnInv'
  <1>1. turn # Idle /\ Idle.pc = "idle"
    BY DEF Idle, BeforeServing
  <1>2. /\ pi.open = {} /\ pi.calling = FALSE /\ session.served = NoKey
        /\ used.calls \in Nat /\ \A c \in claims : c.at \in Nat
    BY <1>1 DEF TurnInv, StateOK
  <1>3. /\ SessionOK(session') /\ session'.served = NoKey /\ session'.gen = session.gen
        /\ DOMAIN pi' = PiFields /\ pi'.open = {} /\ pi'.calling = FALSE
        /\ \/ turn' = Idle
           \/ /\ turn'.pc \in BeforeServing /\ SameTurn(turn)
              /\ turn'.pc \in {"gate", "walk"} => "served" \in DOMAIN turn'
              /\ turn'.pc = "gate" => turn'.entryGen = turn'.gen
    BY <1>2 DEF Leads, SameServing
  <1>4. StateOK'
    BY <1>1, <1>2, <1>3 DEF StateOK, SameTurn, BeforeServing
  <1>5. EvidenceOK(traj) /\ OwnerOK(traj) /\ DOMAIN traj.results = {} /\ Grown(traj, traj', 0)
    BY <1>1, Unchanged DEF TurnInv, EvidenceInv
  <1>6. turn' = Idle \/ SameEscalation
    BY <1>1, <1>3 DEF SameTurn, SameEscalation
  <1>7. Cardinality(pi'.open) + 0 <= Cardinality(pi.open) + (used'.calls - used.calls)
    <2>1. Cardinality({}) = 0
      BY FS_EmptySet
    <2> QED
      BY <2>1, <1>2, <1>3
  <1> QED
    BY <1>2, <1>3, <1>4, <1>5, <1>6, <1>7, EvidenceStep

LEMMA EntryReadLeads ==
  ASSUME TurnInv, NEW outcome, NEW writable, EntryRead(outcome, writable)
  PROVE  Leads(session, turn)
  <1> DEFINE identity == IF turn.hit THEN session.phase.identity ELSE outcome = "identity"
             known == IF turn.hit THEN session ELSE [session EXCEPT !.cached = turn.base]
             t == Joined([steady |-> session.pin = turn.asked], turn)
  <1>1. /\ SessionOK(session) /\ DOMAIN pi = PiFields /\ TurnFields \subseteq DOMAIN turn
    <2>1. turn # Idle
      BY DEF EntryRead, Idle
    <2> QED
      BY <2>1 DEF TurnInv, StateOK
  <1>2. SameServing(session, known) /\ SessionOK(known)
    BY <1>1, FieldSteps DEF SamePins, SameServing
  <1>3. /\ TurnFields \subseteq DOMAIN t /\ t.esc = turn.esc /\ t.intent = turn.intent
        /\ t.observed = turn.observed /\ t.messages = turn.messages /\ t.gen = turn.gen
        /\ t.hit = turn.hit /\ t.pc = turn.pc
    BY <1>1 DEF Joined, TurnFields
  <1>4. \/ EndTurn(session)
        \/ /\ session' = ClearPendingResume(session) /\ UNCHANGED <<pi, notes, sent>>
           /\ turn' = [turn EXCEPT !.mode = "auto", !.gen = session.gen]
           /\ (turn.pc = "entry" /\ turn.hit) \/ turn.gen = session.gen
        \/ ServeResumed(known, t, writable)
        \/ ServePinned(known, t, identity, writable)
        \/ ServeRouted(known, t, identity, writable)
    BY DEF EntryRead
  <1> HIDE DEF known, t, identity
  <1>5. CASE EndTurn(session)
    BY <1>1, <1>5, Ended
  <1>6. CASE /\ session' = ClearPendingResume(session) /\ UNCHANGED <<pi, notes, sent>>
             /\ turn' = [turn EXCEPT !.mode = "auto", !.gen = session.gen]
             /\ (turn.pc = "entry" /\ turn.hit) \/ turn.gen = session.gen
    <2>1. SameServing(session, session')
      BY <1>1, <1>6, SessionSteps DEF SamePins
    <2>2. /\ turn'.pc = "entry" /\ SameTurn(turn) /\ turn'.messages = turn.messages
          /\ turn'.gen = session.gen
      BY <1>1, <1>6 DEF SameTurn, TurnFields, EntryRead
    <2>3. Keeps(turn)
      BY <1>6, <2>2 DEF Keeps
    <2> QED
      BY <1>1, <1>6, <2>1, <2>2, <2>3 DEF Leads, BeforeServing
  <1>7. ServeResumed(known, t, writable) \/ ServePinned(known, t, identity, writable)
          \/ ServeRouted(known, t, identity, writable) => Leads(known, t)
    BY <1>1, <1>2, <1>3, ServedTurns
  <1> QED
    BY <1>2, <1>3, <1>4, <1>5, <1>6, <1>7, LeadsOn

LEMMA DialogLeads ==
  ASSUME TurnInv
  PROVE  /\ DismissSwitch => Leads(session, turn)
         /\ \A writable \in w.writable : AcceptSwitch(writable) => Leads(session, turn)
         /\ \A writable \in w.writable : KeepIncumbent(writable) => Leads(session, turn)
         /\ \A pin \in w.manual, writable \in w.writable : PinOther(pin, writable) => Leads(session, turn)
         /\ \A continue \in BOOLEAN, writable \in w.writable :
              AnswerUnavailable(continue, writable) => Leads(session, turn)
  <1>1. /\ SessionOK(session) /\ DOMAIN pi = PiFields
        /\ turn.pc \in BeforeServing => TurnFields \subseteq DOMAIN turn
        /\ turn.pc = "gate" => "served" \in DOMAIN turn /\ turn.entryGen = turn.gen
    BY DEF TurnInv, StateOK, Idle, BeforeServing
  <1>2. Asking => TurnFields \subseteq DOMAIN turn
    BY <1>1 DEF Asking, BeforeServing
  <1>3. EndTurn(session) => Leads(session, turn)
    BY <1>1, Ended
  <1>4. ASSUME NEW s, SameServing(session, s), TurnFields \subseteq DOMAIN turn, NEW scored, NEW decision,
               NEW writable, Delegate(s, scored, decision, turn, writable)
        PROVE  Leads(session, turn)
    <2>1. SessionOK(s)
      BY <1>4 DEF SameServing
    <2>2. Leads(s, turn)
      BY <2>1, <1>1, <1>4, Delegated
    <2> QED
      BY <2>2, <1>4, LeadsOn
  <1>5. ASSUME NEW s, SameServing(session, s), TurnFields \subseteq DOMAIN turn, NEW candidates, NEW cause,
               NEW writable, Override(s, candidates, cause, writable)
        PROVE  Leads(session, turn)
    <2>1. PICK decision :
            Delegate(SetLastDecision(s, decision), [pool |-> candidates, boundary |-> FALSE], decision,
                     turn, writable)
      BY <1>5 DEF Override
    <2>2. SameServing(session, SetLastDecision(s, decision))
      BY <1>5, SessionSteps, SamePinsIsOrder DEF SameServing
    <2> QED
      BY <2>1, <2>2, <1>4, <1>5
  <1>6. ASSUME NEW writable \in w.writable, AcceptSwitch(writable) PROVE Leads(session, turn)
    <2>1. EndTurn(session) \/ Delegate(session, turn.scored, turn.scored.decision, turn, writable)
      BY <1>6 DEF AcceptSwitch
    <2>2. SameServing(session, session) /\ TurnFields \subseteq DOMAIN turn
      BY <1>1, <1>2, <1>6 DEF AcceptSwitch, SameServing
    <2> QED
      BY <2>1, <2>2, <1>3, <1>4
  <1>7. ASSUME NEW writable \in w.writable, KeepIncumbent(writable) PROVE Leads(session, turn)
    <2>1. EndTurn(session) \/ \E held, candidates :
            Override([session EXCEPT !.hold = held], candidates, "semi-hold", writable)
      BY <1>7 DEF KeepIncumbent
    <2>2. TurnFields \subseteq DOMAIN turn
      BY <1>2, <1>7 DEF KeepIncumbent
    <2>3. ASSUME NEW held, NEW candidates,
                 Override([session EXCEPT !.hold = held], candidates, "semi-hold", writable)
          PROVE  Leads(session, turn)
      <3> DEFINE s == [session EXCEPT !.hold = held]
      <3>1. SameServing(session, s)
        BY <1>1, FieldSteps
      <3>2. Override(s, candidates, "semi-hold", writable)
        BY <2>3
      <3> HIDE DEF s
      <3> QED
        BY <3>1, <3>2, <2>2, <1>5
    <2> QED
      BY <2>1, <2>3, <1>3
  <1>8. ASSUME NEW pin \in w.manual, NEW writable \in w.writable, PinOther(pin, writable)
        PROVE  Leads(session, turn)
    <2>1. \/ EndTurn(session)
          \/ Override(SetManualModel(session, pin), Available(pin), "manual-override", writable)
      BY <1>8 DEF PinOther
    <2>2. TurnFields \subseteq DOMAIN turn
      BY <1>2, <1>8 DEF PinOther
    <2>3. SameServing(session, SetManualModel(session, pin))
      BY <1>1, SessionSteps
    <2> QED
      BY <2>1, <2>2, <2>3, <1>3, <1>5
  <1>9. ASSUME NEW continue \in BOOLEAN, NEW writable \in w.writable, AnswerUnavailable(continue, writable)
        PROVE  Leads(session, turn)
    <2>1. StartWalk(session, pi, turn, writable) \/ EndTurn(session)
      BY <1>9 DEF AnswerUnavailable
    <2>2. TurnFields \subseteq DOMAIN turn /\ "served" \in DOMAIN turn /\ turn.entryGen = turn.gen
      BY <1>1, <1>9 DEF AnswerUnavailable, BeforeServing
    <2>3. StartWalk(session, pi, turn, writable) => Leads(session, turn)
      BY <2>2, <1>1, WalkStarts
    <2> QED
      BY <2>1, <2>3, <1>3
  <1>10. DismissSwitch => Leads(session, turn)
    BY <1>3 DEF DismissSwitch
  <1> QED
    BY <1>6, <1>7, <1>8, <1>9, <1>10

LEMMA BeforeAnswerKeeps ==
  ASSUME TurnInv
  PROVE  /\ \A outcome, writable : EntryRead(outcome, writable) => TurnInv'
         /\ DismissSwitch => TurnInv'
         /\ \A writable \in w.writable : AcceptSwitch(writable) \/ KeepIncumbent(writable) => TurnInv'
         /\ \A pin \in w.manual, writable \in w.writable : PinOther(pin, writable) => TurnInv'
         /\ \A continue \in BOOLEAN, writable \in w.writable :
              AnswerUnavailable(continue, writable) => TurnInv'
         /\ \A consequence : AttemptFails(consequence) => TurnInv'
  <1>1. DOMAIN used = UsedFields /\ SessionOK(session) /\ DOMAIN pi = PiFields /\ used.calls \in Nat
    BY DEF TurnInv, StateOK
  <1>2. ASSUME turn.pc \in BeforeServing, Leads(session, turn), UNCHANGED <<traj, claims, used>>
        PROVE  TurnInv'
    BY <1>1, <1>2, LeadKeeps
  <1>3. ASSUME NEW outcome, NEW writable, EntryRead(outcome, writable) PROVE TurnInv'
    BY <1>2, <1>3, EntryReadLeads DEF EntryRead, BeforeServing
  <1>4. DismissSwitch => TurnInv'
    BY <1>2, DialogLeads DEF DismissSwitch, Asking, BeforeServing
  <1>5. \A writable \in w.writable : AcceptSwitch(writable) \/ KeepIncumbent(writable) => TurnInv'
    BY <1>2, DialogLeads DEF AcceptSwitch, KeepIncumbent, Asking, BeforeServing
  <1>6. \A pin \in w.manual, writable \in w.writable : PinOther(pin, writable) => TurnInv'
    BY <1>2, DialogLeads DEF PinOther, Asking, BeforeServing
  <1>7. \A continue \in BOOLEAN, writable \in w.writable : AnswerUnavailable(continue, writable) => TurnInv'
    BY <1>2, DialogLeads DEF AnswerUnavailable, BeforeServing
  <1>8. ASSUME NEW consequence, AttemptFails(consequence) PROVE TurnInv'
    <2>1. turn.pc = "walk" /\ TurnFields \subseteq DOMAIN turn /\ "served" \in DOMAIN turn
      BY <1>8 DEF AttemptFails, TurnInv, StateOK, Idle
    <2>2. \/ turn' = Idle
          \/ \E index, dead : turn' = [turn EXCEPT !.index = index, !.dead = dead]
      BY <1>8 DEF AttemptFails
    <2>3. turn' = Idle \/ (turn'.pc = "walk" /\ SameTurn(turn) /\ "served" \in DOMAIN turn')
      BY <2>1, <2>2 DEF SameTurn, TurnFields
    <2>4. UNCHANGED <<session, pi, traj, claims, notes, sent>> /\ Spends("fails")
      BY <1>8 DEF AttemptFails
    <2>5. DOMAIN used' = UsedFields /\ used'.calls = used.calls
      <3>1. "fails" \in UsedFields
        BY DEF UsedFields
      <3> QED
        BY <3>1, <2>4, <1>1, Spending
    <2>6. Leads(session, turn)
      <3>1. Keeps(turn)
        BY <2>3, <2>4 DEF Keeps, Idle
      <3> QED
        BY <1>1, <2>3, <2>4, <3>1 DEF Leads, SameServing, BeforeServing
    <2> QED
      BY <2>1, <2>4, <2>5, <2>6, LeadKeeps DEF BeforeServing
  <1> QED
    BY <1>3, <1>4, <1>5, <1>6, <1>7, <1>8

LEMMA AttemptServesKeeps == TurnInv /\ AttemptServes => TurnInv'
  <1> SUFFICES ASSUME TurnInv, AttemptServes PROVE TurnInv'
    OBVIOUS
  <1>1. /\ SessionOK(session) /\ DOMAIN pi = PiFields /\ turn.pc = "walk" /\ turn # Idle
        /\ TurnFields \subseteq DOMAIN turn /\ "served" \in DOMAIN turn
        /\ pi.open = {} /\ pi.calling = FALSE /\ session.served = NoKey /\ used.calls \in Nat
    BY DEF TurnInv, StateOK, AttemptServes, Idle, BeforeServing
  <1>2. UNCHANGED <<pi, traj, claims, used>>
    BY DEF AttemptServes
  <1>3. PICK key : /\ turn' = [turn EXCEPT !.pc = "settle", !.served = key]
                   /\ \/ session' = session
                      \/ session' = SetLastDecision(SetLastServed(session, key), FinalDecision(turn))
    BY DEF AttemptServes
  <1>4. turn'.pc = "settle" /\ turn'.served = key /\ SameTurn(turn) /\ "served" \in DOMAIN turn'
    BY <1>1, <1>3 DEF SameTurn, TurnFields
  <1>5. SessionOK(session') /\ session'.gen = session.gen /\ session'.served \in {NoKey, key}
    <2> DEFINE s == SetLastServed(session, key)
    <2>1. SessionOK(s) /\ s.gen = session.gen /\ s.served = key
      BY <1>1 DEF SetLastServed, SessionOK, SessionFields
    <2> HIDE DEF s
    <2>2. SamePins(s, SetLastDecision(s, FinalDecision(turn)))
      BY <2>1, SessionSteps
    <2> QED
      BY <2>1, <2>2, <1>1, <1>3 DEF SamePins, SameServing, s
  <1>6. turn'.pc # "idle" /\ Idle.pc = "idle"
    BY <1>4 DEF Idle
  <1>7. StateOK'
    BY <1>1, <1>2, <1>4, <1>5, <1>6 DEF TurnInv, StateOK, SameTurn, BeforeServing
  <1>8. EvidenceOK(traj) /\ OwnerOK(traj) /\ DOMAIN traj.results = {} /\ Grown(traj, traj', 0)
    BY <1>1, <1>2, Unchanged DEF TurnInv, EvidenceInv
  <1>9. SameEscalation
    BY <1>1, <1>4 DEF SameTurn, SameEscalation
  <1>10. Cardinality(pi'.open) + 0 <= Cardinality(pi.open) + (used'.calls - used.calls)
    <2>1. Cardinality({}) = 0
      BY FS_EmptySet
    <2>2. pi'.open = {} /\ pi.open = {} /\ used'.calls = used.calls
      BY <1>1, <1>2
    <2> QED
      BY <2>1, <2>2, <1>1
  <1> QED
    BY <1>1, <1>2, <1>5, <1>7, <1>8, <1>9, <1>10, EvidenceStep

LEMMA SettleTurnKeeps == TurnInv /\ SettleTurn => TurnInv'
  <1> SUFFICES ASSUME TurnInv, SettleTurn PROVE TurnInv'
    OBVIOUS
  <1> DEFINE settled == SettleBoundary(session, turn)
             incumbent == [key |-> turn.served, dimension |-> turn.decision.dimension]
             noted == NotesIncumbent(settled, turn)
             held == IF noted THEN [settled EXCEPT !.incumbent = incumbent] ELSE settled
             written == IF noted /\ settled.incumbent # incumbent
                        THEN Recorded(pi, "incumbent", turn.served, incumbent.dimension) ELSE pi
  <1>1. /\ SessionOK(session) /\ DOMAIN pi = PiFields /\ turn.pc = "settle" /\ turn # Idle
        /\ DOMAIN used = UsedFields
        /\ pi.open = {} /\ pi.calling = FALSE /\ session.served \in {NoKey, turn.served}
        /\ used.calls \in Nat /\ \A c \in claims : c.at \in Nat
    BY DEF TurnInv, StateOK, SettleTurn, Idle
  <1>2. /\ turn' = Idle /\ claims' = claims /\ used' = used
        /\ traj' \in {traj, ConsumePending(traj)}
        /\ session' \in {held, SetLastDecision(held, FinalDecision(turn))}
        /\ pi' \in {written, [written EXCEPT !.server = turn.served, !.calling = TRUE, !.due = FALSE,
                                             !.batch = 0]}
    BY DEF SettleTurn
  <1>3. SamePins(session, settled) /\ SessionOK(settled)
    <2>1. settled = session \/ settled = [session EXCEPT !.phase.status = "served", !.phase.pending = FALSE]
      BY DEF SettleBoundary
    <2> HIDE DEF settled
    <2> QED
      BY <2>1, <1>1 DEF SessionOK, SessionFields, SamePins, SameServing
  <1> HIDE DEF settled, incumbent
  <1>4. SamePins(session, held) /\ SessionOK(held)
    BY <1>3, FieldSteps, SamePinsIsOrder
  <1>5. DOMAIN written = PiFields /\ written.open = {} /\ written.calling = FALSE /\ written.server = pi.server
    BY <1>1 DEF Recorded, PiFields
  <1> HIDE DEF held, written
  <1>6. SessionOK(session') /\ session'.gen = session.gen /\ session'.served \in {NoKey, turn.served}
    BY <1>1, <1>2, <1>4, SessionSteps DEF SamePins, SameServing
  <1>7. /\ DOMAIN pi' = PiFields /\ pi'.open = {}
        /\ pi'.calling => pi'.server = turn.served
    BY <1>2, <1>5 DEF PiFields
  <1>8. turn'.pc = "idle"
    BY <1>2 DEF Idle
  <1>9. session'.served # NoKey /\ pi'.calling => SameModel(session'.served, pi'.server)
    BY <1>6, <1>7 DEF SameModel
  <1>10. StateOK'
    BY <1>1, <1>2, <1>6, <1>7, <1>8, <1>9 DEF StateOK, BeforeServing
  <1>11. EvidenceOK(traj) /\ OwnerOK(traj) /\ DOMAIN traj.results = {}
    BY <1>1 DEF TurnInv, EvidenceInv
  <1>12. Grown(traj, traj', 0) /\ OwnerOK(traj') /\ traj'.results = traj.results
    BY <1>2, <1>11, Unchanged, PendingConsumed
  <1>13. Cardinality(pi'.open) + 0 <= Cardinality(pi.open) + (used'.calls - used.calls)
    <2>1. Cardinality({}) = 0
      BY FS_EmptySet
    <2> QED
      BY <2>1, <1>1, <1>2, <1>7
  <1> QED
    BY <1>1, <1>2, <1>6, <1>10, <1>11, <1>12, <1>13, EvidenceStep

-----------------------------------------------------------------------------
(* The theorems.                                                           *)
LEMMA TurnInvStep == TurnInv /\ [Next]_vars => TurnInv'
  <1> SUFFICES ASSUME TurnInv, [Next]_vars PROVE TurnInv'
    OBVIOUS
  <1>1. CASE Turn
    <2>1. SendRequest => TurnInv'
      BY SendRequestKeeps
    <2>2. \A writable \in w.writable : ConcreteRequest(writable) => TurnInv'
      BY EnvironmentOfPi, EnvironmentKeeps
    <2> QED
      BY <1>1, <2>1, <2>2, BeforeAnswerKeeps, AttemptServesKeeps, SettleTurnKeeps DEF Turn
  <1>2. CASE Tools
    <2>1. \A id \in pi.open : BlockCall(id) => TurnInv'
      BY EnvironmentOfPi, EnvironmentKeeps
    <2>2. \A capped : SubagentResult(capped) => TurnInv'
      BY EnvironmentOfPi, EnvironmentKeeps
    <2> QED
      BY <1>2, <2>1, <2>2, CallToolKeeps, ToolResultKeeps, AcceptHandoffKeeps, SpawnKeeps DEF Tools
  <1>3. CASE Environment
    <2>1. \A reload \in BOOLEAN : SessionStart(reload) => TurnInv'
      BY SessionStartKeeps
    <2>2. NewUser \/ FlipHead \/ ClearSessionBlacklist
            \/ (\E level \in w.levels : SetLevel(level))
            \/ (\E pattern \in w.patterns : BlacklistAdd(pattern) \/ BlacklistRemove(pattern))
            => TurnInv'
      BY EnvironmentOfPi, EnvironmentKeeps
    <2>3. ResumeManual \/ SelectConcrete \/ SelectRouter \/ Compact
            \/ (\E pin \in w.manual : UserPin(pin)) \/ (\E count \in DOMAIN pi.messages : Tree(count))
            => TurnInv'
      BY EnvironmentOfSession, EnvironmentKeeps
    <2> QED
      BY <1>3, <2>1, <2>2, <2>3 DEF Environment
  <1>4. CASE UNCHANGED vars
    <2>1. UNCHANGED <<session, traj, pi, turn, claims, used>>
      BY <1>4 DEF vars
    <2>2. StateOK'
      BY <2>1 DEF TurnInv, StateOK
    <2>3. EvidenceInv'
      BY <2>1 DEF TurnInv, EvidenceInv
    <2>4. RecoveryBeforeEscalation'
      BY <2>1 DEF TurnInv, RecoveryBeforeEscalation
    <2> QED
      BY <2>2, <2>3, <2>4 DEF TurnInv
  <1> QED
    BY <1>1, <1>2, <1>3, <1>4 DEF Next

(* The invariant of the routed turns: struggle evidence is of its owner's model, the
   counts of every detector stay below the calls made since the recovery attempt,
   and a turn serves nobody before a candidate answers (trajectory.ts,
   router-session-state.ts, provider.ts). *)
THEOREM TurnsKeepTheirEvidence == Spec => []TurnInv
  <1>1. Init => TurnInv
    BY TurnInvInit
  <1>2. TurnInv /\ [Next]_vars => TurnInv'
    BY TurnInvStep
  <1> QED
    BY <1>1, <1>2, PTL DEF Spec

(* An escalation away from a model rests on tool results of that model only, as long
   as each result of the entry came in while a served model was known
   (syncTrajectoryOwner, noteToolCall, abandonUnresolvedCalls, maybeSetPending). *)
THEOREM EscalationRestsOnItsModel == Spec => []PendingNamesProducer
  <1>1. TurnInv => PendingNamesProducer
    BY DEF TurnInv, EvidenceInv, OwnerOK, SameModel, PendingNamesProducer, ClaimNamesProducer
  <1> QED
    BY <1>1, TurnsKeepTheirEvidence, PTL

(* No turn leaves a struggling model before that model had its recovery attempt in the
   same entry, and three calls to use it (claimRecovery, takeRecoveryNotice). *)
THEOREM RecoveryComesFirst == Spec => []RecoveryBeforeEscalation
  <1>1. TurnInv => RecoveryBeforeEscalation
    BY DEF TurnInv
  <1> QED
    BY <1>1, TurnsKeepTheirEvidence, PTL

-----------------------------------------------------------------------------
(* The prefix of a request.                                                *)
HistoryOK(messages, next) ==
  /\ IsSequence(messages) /\ Distinct(messages) /\ next \in Nat
  /\ \A i \in 1..Len(messages) : messages[i].anchor \in Nat /\ messages[i].anchor < next
Told(messages, ns) == Content(WithRequestNotes(messages, ns))
Waiting == {"entry", "semi", "gate"}

\* The turn that waits is about the history as it is, or its session is gone.
TurnHistoryOK ==
  /\ turn.pc \in Waiting =>
       /\ IsSequence(turn.messages) /\ Distinct(turn.messages)
       /\ turn.gen \in Nat /\ turn.gen <= session.gen
       /\ turn.gen = session.gen \/ sent.stable => turn.messages = pi.messages
  /\ turn.pc = "entry" /\ turn.hit => turn.gen = session.gen
\* What was sent starts what the history and its notes say now.
PrefixInv ==
  /\ HistoryOK(pi.messages, pi.next) /\ IsSequence(notes) /\ pi.notes = notes
  /\ session.gen \in Nat /\ DOMAIN sent = {"content", "stable"} /\ IsSequence(sent.content)
  /\ sent.stable => Starts(sent.content, Told(pi.messages, notes))
  /\ TurnHistoryOK
Extends == sent.stable /\ sent'.content # sent.content => IsPrefix(sent.content, sent'.content)

LEMMA PrefixInit == Init => PrefixInv
  <1> SUFFICES ASSUME Init PROVE PrefixInv
    OBVIOUS
  <1>1. IsSequence(<<>>) /\ Len(<<>>) = 0
    BY ShortSequences
  <1>2. HistoryOK(<<>>, 1)
    BY <1>1 DEF HistoryOK, Distinct
  <1>3. pi.messages = <<>> /\ pi.notes = <<>> /\ pi.next = 1 /\ notes = <<>>
    BY DEF Init
  <1>4. sent = [content |-> <<>>, stable |-> FALSE] /\ turn = Idle /\ session.gen = 1
    BY DEF Init, FreshSession
  <1>5. TurnHistoryOK
    BY <1>4 DEF TurnHistoryOK, Idle, Waiting
  <1> QED
    BY <1>1, <1>2, <1>3, <1>4, <1>5 DEF PrefixInv

\* A request: its notes are added to the end of what the last one told.
LEMMA RequestExtends ==
  ASSUME PrefixInv, NEW messages, IsSequence(messages), Distinct(messages),
         NEW plans, PlansFor(messages, plans), NEW writable, NEW request,
         request = ApplyNotePlans(notes, messages, plans, writable),
         notes' = request.notes,
         pi'.notes = pi.notes \o SubSeq(request.notes, Len(notes) + 1, Len(request.notes)),
         pi'.messages = pi.messages, sent.stable => messages = pi.messages,
         DOMAIN sent' = {"content", "stable"}, sent'.content = Content(request.request),
         sent'.stable => request.recorded /\ messages = pi.messages
  PROVE  /\ IsSequence(notes') /\ pi'.notes = notes' /\ IsSequence(sent'.content)
         /\ sent'.stable => Starts(sent'.content, Told(pi'.messages, notes'))
         /\ Extends
  <1>1. IsSequence(notes) /\ pi.notes = notes /\ IsSequence(sent.content)
    BY DEF PrefixInv
  <1>2. /\ IsSequence(request.notes) /\ AddedTo(messages, notes, request.notes)
        /\ IsSequence(Content(request.request))
        /\ Starts(Told(messages, notes), Content(request.request))
        /\ request.recorded => Starts(Content(request.request), Told(messages, request.notes))
    BY <1>1, NotesApplied DEF Told
  <1>3. pi'.notes = notes'
    <2>1. notes \o SubSeq(request.notes, Len(notes) + 1, Len(request.notes)) = request.notes
      BY <1>1, <1>2, RestAdded DEF AddedTo
    <2> QED
      BY <2>1, <1>1
  <1>4. sent'.stable => Starts(sent'.content, Told(pi'.messages, notes'))
    BY <1>2
  <1>5. ASSUME sent.stable PROVE IsPrefix(sent.content, sent'.content)
    <2>1. messages = pi.messages /\ Starts(sent.content, Told(messages, notes))
      BY <1>5 DEF PrefixInv
    <2>2. IsSequence(Told(messages, notes))
      BY <1>1, NotedContent DEF Told
    <2>3. Starts(sent.content, sent'.content)
      BY <1>1, <1>2, <2>1, <2>2, StartsIsOrder
    <2> QED
      BY <1>1, <1>2, <2>3, StartsIsPrefix
  <1> QED
    BY <1>2, <1>3, <1>4, <1>5 DEF Extends

\* The history is left alone.
LEMMA HistoryKept ==
  ASSUME PrefixInv, pi'.messages = pi.messages, pi'.next = pi.next, pi'.notes = pi.notes,
         notes' = notes, sent' = sent, session'.gen = session.gen,
         turn' = turn \/ turn'.pc \notin Waiting
  PROVE  PrefixInv' /\ Extends
  <1>1. TurnHistoryOK'
    BY DEF PrefixInv, TurnHistoryOK, Waiting
  <1> QED
    BY <1>1 DEF PrefixInv, Extends

\* A message is added, between turns.
LEMMA HistoryGrown ==
  ASSUME PrefixInv, NEW m, m.anchor = pi.next, pi'.messages = Append(pi.messages, m),
         pi'.next = pi.next + 1, pi'.notes = pi.notes, notes' = notes, sent' = sent,
         session'.gen = session.gen, turn' = Idle
  PROVE  PrefixInv' /\ Extends
  <1> DEFINE h == pi.messages
             g == pi'.messages
             L == Len(h)
  <1>1. /\ IsSequence(h) /\ Distinct(h) /\ pi.next \in Nat /\ IsSequence(notes)
        /\ \A i \in 1..Len(h) : h[i].anchor \in Nat /\ h[i].anchor < pi.next
    BY DEF PrefixInv, HistoryOK
  <1>2. /\ IsSequence(g) /\ Len(g) = L + 1 /\ g[L + 1] = m
        /\ \A i \in 1..L : g[i] = h[i]
    BY <1>1, Appended
  <1>3. L \in Nat
    BY <1>1 DEF IsSequence
  <1> HIDE DEF g
  <1>4. HistoryOK(g, pi'.next)
    <2> HIDE DEF L
    <2>1. \A i \in 1..L : g[i].anchor \in Nat /\ g[i].anchor < pi.next
      BY <1>1, <1>2 DEF L
    <2>2. g[L + 1].anchor = pi.next
      BY <1>2
    <2>3. \A i \in 1..(L + 1) : i \in 1..L \/ i = L + 1
      BY <1>3
    <2>4. \A i, j \in 1..L : i # j => g[i].anchor # g[j].anchor
      BY <1>1, <1>2 DEF Distinct, L
    <2>5. Distinct(g)
      <3> SUFFICES ASSUME NEW i \in 1..(L + 1), NEW j \in 1..(L + 1), i # j
                   PROVE  g[i].anchor # g[j].anchor
        BY <1>2 DEF Distinct
      <3>1. CASE i \in 1..L /\ j \in 1..L
        BY <3>1, <2>4
      <3>2. CASE i \in 1..L /\ j = L + 1
        BY <3>2, <2>1, <2>2, <1>1
      <3>3. CASE i = L + 1 /\ j \in 1..L
        BY <3>3, <2>1, <2>2, <1>1
      <3> QED
        BY <3>1, <3>2, <3>3, <2>3
    <2>6. \A i \in 1..(L + 1) : g[i].anchor \in Nat /\ g[i].anchor < pi.next + 1
      BY <2>1, <2>2, <2>3, <1>1
    <2> QED
      BY <1>1, <1>2, <2>5, <2>6 DEF HistoryOK
  <1>5. sent.stable => Starts(sent.content, Told(g, notes))
    <2>1. Starts(h, g)
      BY <1>2, <1>3 DEF Starts
    <2>2. Starts(Told(h, notes), Told(g, notes))
      BY <1>1, <1>2, <2>1, LongerHistory DEF Told
    <2>3. IsSequence(Told(h, notes)) /\ IsSequence(Told(g, notes)) /\ IsSequence(sent.content)
      BY <1>1, <1>2, NotedContent DEF Told, PrefixInv
    <2> QED
      BY <2>2, <2>3, StartsIsOrder DEF PrefixInv
  <1>6. TurnHistoryOK'
    BY DEF TurnHistoryOK, Idle, Waiting
  <1> QED
    BY <1>4, <1>5, <1>6 DEF PrefixInv, Extends, g

\* The history is rewritten: nothing is promised of the next request.
LEMMA HistoryRewritten ==
  ASSUME PrefixInv, HistoryOK(pi'.messages, pi'.next), IsSequence(notes'), pi'.notes = notes',
         sent' = [sent EXCEPT !.stable = FALSE], turn' = turn,
         \/ session'.gen = session.gen /\ turn = Idle
         \/ session'.gen = session.gen + 1 /\ (turn.pc = "entry" => ~turn.hit)
  PROVE  PrefixInv' /\ Extends
  <1>1. DOMAIN sent' = {"content", "stable"} /\ sent'.content = sent.content /\ ~sent'.stable
        /\ session.gen \in Nat
    BY DEF PrefixInv
  <1>2. TurnHistoryOK'
    <2>1. CASE turn = Idle
      BY <2>1 DEF TurnHistoryOK, Idle, Waiting
    <2>2. CASE session'.gen = session.gen + 1 /\ (turn.pc = "entry" => ~turn.hit)
      BY <2>2, <1>1 DEF PrefixInv, TurnHistoryOK
    <2> QED
      BY <2>1, <2>2
  <1> QED
    BY <1>1, <1>2 DEF PrefixInv, Extends

\* A step of a turn that has sent nothing yet.
LEMMA LeadExtends ==
  ASSUME PrefixInv, turn.pc \in Waiting, Leads(session, turn)
  PROVE  PrefixInv' /\ Extends
  <1>1. /\ session'.gen = session.gen /\ pi'.messages = pi.messages /\ pi'.next = pi.next
        /\ Keeps(turn) \/ Sends(turn)
    BY DEF Leads, SameServing
  <1>2. /\ IsSequence(turn.messages) /\ Distinct(turn.messages) /\ session.gen \in Nat
        /\ turn.gen \in Nat /\ turn.gen <= session.gen
        /\ turn.gen = session.gen \/ sent.stable => turn.messages = pi.messages
        /\ turn.pc = "entry" /\ turn.hit => turn.gen = session.gen
    BY DEF PrefixInv, TurnHistoryOK
  <1>3. ASSUME Keeps(turn) PROVE PrefixInv' /\ Extends
    <2>1. UNCHANGED <<notes, sent>> /\ pi'.notes = pi.notes
      BY <1>3 DEF Keeps
    <2>2. turn'.pc \in Waiting =>
            turn'.messages = turn.messages /\ (turn'.gen = turn.gen \/ turn'.gen = session.gen)
      BY <1>3 DEF Keeps, Waiting
    <2>3. turn'.pc = "entry" => turn'.gen = session.gen /\ turn.gen = session.gen
      BY <1>3, <1>2 DEF Keeps
    <2>4. TurnHistoryOK'
      <3>1. ASSUME turn'.pc \in Waiting
            PROVE  /\ IsSequence(turn'.messages) /\ Distinct(turn'.messages)
                   /\ turn'.gen \in Nat /\ turn'.gen <= session'.gen
                   /\ turn'.gen = session'.gen \/ sent'.stable => turn'.messages = pi'.messages
        <4>1. CASE turn'.pc = "entry"
          BY <4>1, <1>1, <1>2, <2>1, <2>2, <2>3 DEF Waiting
        <4>2. CASE turn'.pc # "entry"
          <5>1. turn'.messages = turn.messages /\ turn'.gen = turn.gen
            BY <3>1, <4>2, <1>3 DEF Keeps, Waiting
          <5> QED
            BY <5>1, <1>1, <1>2, <2>1
        <4> QED
          BY <4>1, <4>2
      <3> QED
        BY <3>1, <2>3, <1>1 DEF TurnHistoryOK
    <2> QED
      BY <1>1, <2>1, <2>4 DEF PrefixInv, Extends
  <1>4. ASSUME Sends(turn) PROVE PrefixInv' /\ Extends
    <2> DEFINE request(plans, writable) == ApplyNotePlans(notes, turn.messages, plans, writable)
    <2>1. PICK plans, writable :
            /\ PlansFor(turn.messages, plans) /\ notes' = request(plans, writable).notes
            /\ pi'.notes = pi.notes \o SubSeq(request(plans, writable).notes, Len(notes) + 1,
                                              Len(request(plans, writable).notes))
            /\ sent' = [content |-> Content(request(plans, writable).request),
                        stable |-> request(plans, writable).recorded /\ turn.gen = session'.gen]
      BY <1>4 DEF Sends
    <2> DEFINE r == request(plans, writable)
    <2>2. /\ r = ApplyNotePlans(notes, turn.messages, plans, writable) /\ notes' = r.notes
          /\ pi'.notes = pi.notes \o SubSeq(r.notes, Len(notes) + 1, Len(r.notes))
          /\ sent' = [content |-> Content(r.request), stable |-> r.recorded /\ turn.gen = session'.gen]
      BY <2>1
    <2> HIDE DEF r, request
    <2>3. /\ DOMAIN sent' = {"content", "stable"} /\ sent'.content = Content(r.request)
          /\ sent'.stable => r.recorded /\ turn.messages = pi.messages
      BY <2>2, <1>1, <1>2
    <2>4. /\ IsSequence(notes') /\ pi'.notes = notes' /\ IsSequence(sent'.content)
          /\ sent'.stable => Starts(sent'.content, Told(pi'.messages, notes'))
          /\ Extends
      BY <2>1, <2>2, <2>3, <1>1, <1>2, RequestExtends
    <2>5. TurnHistoryOK'
      BY <1>4 DEF Sends, TurnHistoryOK, Waiting
    <2> QED
      BY <1>1, <2>3, <2>4, <2>5 DEF PrefixInv
  <1> QED
    BY <1>1, <1>3, <1>4

LEMMA WaitingExtends ==
  ASSUME TurnInv, PrefixInv
  PROVE  /\ \A outcome, writable : EntryRead(outcome, writable) => PrefixInv' /\ Extends
         /\ DismissSwitch => PrefixInv' /\ Extends
         /\ \A writable \in w.writable :
              AcceptSwitch(writable) \/ KeepIncumbent(writable) => PrefixInv' /\ Extends
         /\ \A pin \in w.manual, writable \in w.writable :
              PinOther(pin, writable) => PrefixInv' /\ Extends
         /\ \A continue \in BOOLEAN, writable \in w.writable :
              AnswerUnavailable(continue, writable) => PrefixInv' /\ Extends
  <1>1. ASSUME turn.pc \in Waiting, Leads(session, turn) PROVE PrefixInv' /\ Extends
    BY <1>1, LeadExtends
  <1>2. ASSUME NEW outcome, NEW writable, EntryRead(outcome, writable) PROVE PrefixInv' /\ Extends
    <2>1. turn.pc \in Waiting
      BY <1>2 DEF EntryRead, Waiting
    <2> QED
      BY <2>1, <1>1, <1>2, EntryReadLeads
  <1>3. Asking => turn.pc \in Waiting
    BY DEF Asking, Waiting
  <1>4. DismissSwitch => PrefixInv' /\ Extends
    BY <1>1, <1>3, DialogLeads DEF DismissSwitch
  <1>5. \A writable \in w.writable :
          AcceptSwitch(writable) \/ KeepIncumbent(writable) => PrefixInv' /\ Extends
    BY <1>1, <1>3, DialogLeads DEF AcceptSwitch, KeepIncumbent
  <1>6. \A pin \in w.manual, writable \in w.writable :
          PinOther(pin, writable) => PrefixInv' /\ Extends
    BY <1>1, <1>3, DialogLeads DEF PinOther
  <1>7. \A continue \in BOOLEAN, writable \in w.writable :
          AnswerUnavailable(continue, writable) => PrefixInv' /\ Extends
    BY <1>1, DialogLeads DEF AnswerUnavailable, Waiting
  <1> QED
    BY <1>2, <1>4, <1>5, <1>6, <1>7

LEMMA SendRequestExtends ==
  ASSUME TurnInv, PrefixInv, SendRequest
  PROVE  PrefixInv' /\ Extends
  <1> DEFINE rotated == NoteRequest(RotateServed(session), pi.head, Tokens(pi.messages))
  <1>1. SessionOK(session) /\ DOMAIN pi = PiFields /\ turn = Idle /\ UNCHANGED <<notes, sent>>
    BY DEF TurnInv, StateOK, SendRequest
  <1>2. SessionOK(rotated) /\ rotated.gen = session.gen
    <2>1. LET r == RotateServed(session) IN SessionOK(r) /\ r.gen = session.gen
      BY <1>1 DEF RotateServed, SessionOK, SessionFields
    <2> QED
      BY <2>1, SessionSteps DEF SamePins, SameServing
  <1>3. PICK due, intent, candidates, esc : Admit([rotated EXCEPT !.recoveryDue = due], intent, candidates, esc)
    BY DEF SendRequest, Recover
  <1> HIDE DEF rotated
  <1> DEFINE s == [rotated EXCEPT !.recoveryDue = due]
  <1>4. SessionOK(s) /\ s.gen = session.gen
    BY <1>2 DEF SessionOK, SessionFields
  <1>5. Admit(s, intent, candidates, esc)
    BY <1>3
  <1> HIDE DEF s
  <1>6. session'.gen = session.gen
    BY <1>4, <1>5, Admitted DEF SameServing
  <1>7. turn' = turn \/ \E serving, base : turn' = Entering(serving, intent, base, esc)
    BY <1>5 DEF Admit
  <1>8. turn' = turn \/ (turn'.pc = "entry" /\ turn'.messages = pi.messages /\ turn'.gen = session.gen)
    BY <1>7 DEF Entering
  <1>9. /\ pi'.messages = pi.messages /\ pi'.next = pi.next /\ pi'.notes = pi.notes
    BY <1>1 DEF SendRequest, PiFields
  <1>10. TurnHistoryOK'
    <2>1. CASE turn' = turn
      BY <2>1, <1>1 DEF TurnHistoryOK, Idle, Waiting
    <2>2. CASE turn'.pc = "entry" /\ turn'.messages = pi.messages /\ turn'.gen = session.gen
      BY <2>2, <1>6, <1>9 DEF TurnHistoryOK, PrefixInv, HistoryOK
    <2> QED
      BY <2>1, <2>2, <1>8
  <1> QED
    BY <1>1, <1>6, <1>9, <1>10 DEF PrefixInv, Extends

LEMMA ConcreteRequestExtends ==
  ASSUME TurnInv, PrefixInv, NEW writable, ConcreteRequest(writable)
  PROVE  PrefixInv' /\ Extends
  <1> DEFINE request == WithConcreteNotes(notes, pi.messages, writable)
  <1>1. PICK plans : /\ PlansFor(pi.messages, plans)
                     /\ request = ApplyNotePlans(notes, pi.messages, plans, writable)
    BY RequestsApplyPlans
  <1>2. /\ notes' = request.notes /\ turn = Idle /\ turn' = turn /\ session' = session
        /\ pi' = [pi EXCEPT !.due = FALSE, !.calling = FALSE,
                    !.notes = @ \o SubSeq(request.notes, Len(notes) + 1, Len(request.notes))]
        /\ sent' = [content |-> Content(request.request), stable |-> request.recorded]
    BY DEF ConcreteRequest, Quiet
  <1> HIDE DEF request
  <1>3. DOMAIN pi = PiFields
    BY DEF TurnInv, StateOK
  <1>4. /\ pi'.messages = pi.messages /\ pi'.next = pi.next
        /\ pi'.notes = pi.notes \o SubSeq(request.notes, Len(notes) + 1, Len(request.notes))
    BY <1>2, <1>3 DEF PiFields
  <1>5. IsSequence(pi.messages) /\ Distinct(pi.messages)
    BY DEF PrefixInv, HistoryOK
  <1>6. /\ DOMAIN sent' = {"content", "stable"} /\ sent'.content = Content(request.request)
        /\ sent'.stable => request.recorded
    BY <1>2
  <1>7. /\ IsSequence(notes') /\ pi'.notes = notes' /\ IsSequence(sent'.content)
        /\ sent'.stable => Starts(sent'.content, Told(pi'.messages, notes'))
        /\ Extends
    BY <1>1, <1>2, <1>4, <1>5, <1>6, RequestExtends
  <1>8. TurnHistoryOK'
    BY <1>2 DEF TurnHistoryOK, Idle, Waiting
  <1> QED
    BY <1>2, <1>4, <1>6, <1>7, <1>8 DEF PrefixInv

LEMMA ServedExtends ==
  ASSUME TurnInv, PrefixInv
  PROVE  /\ \A consequence : AttemptFails(consequence) => PrefixInv' /\ Extends
         /\ AttemptServes => PrefixInv' /\ Extends
         /\ SettleTurn => PrefixInv' /\ Extends
  <1>1. SessionOK(session) /\ DOMAIN pi = PiFields /\ Idle.pc \notin Waiting
    BY DEF TurnInv, StateOK, Idle, Waiting
  <1>2. ASSUME NEW consequence, AttemptFails(consequence) PROVE PrefixInv' /\ Extends
    <2>1. UNCHANGED <<session, notes, pi, sent>>
      BY <1>2 DEF AttemptFails
    <2>2. turn.pc = "walk" /\ TurnFields \subseteq DOMAIN turn
      BY <1>2 DEF AttemptFails, TurnInv, StateOK, Idle
    <2>3. turn' = Idle \/ \E index, dead : turn' = [turn EXCEPT !.index = index, !.dead = dead]
      BY <1>2 DEF AttemptFails
    <2>4. turn'.pc \notin Waiting
      BY <1>1, <2>2, <2>3 DEF TurnFields, Waiting
    <2> QED
      BY <2>1, <2>4, HistoryKept
  <1>3. ASSUME AttemptServes PROVE PrefixInv' /\ Extends
    <2>1. UNCHANGED <<notes, pi, sent>>
      BY <1>3 DEF AttemptServes
    <2>2. turn.pc = "walk" /\ TurnFields \subseteq DOMAIN turn
      BY <1>3 DEF AttemptServes, TurnInv, StateOK, Idle
    <2>3. \E key : turn' = [turn EXCEPT !.pc = "settle", !.served = key]
      BY <1>3 DEF AttemptServes
    <2>4. turn'.pc \notin Waiting
      BY <2>2, <2>3 DEF TurnFields, Waiting
    <2>5. session'.gen = session.gen
      <3>1. session' = session \/ \E key, decision : session' = SetLastDecision(SetLastServed(session, key), decision)
        BY <1>3 DEF AttemptServes
      <3>2. \A key, decision : SetLastDecision(SetLastServed(session, key), decision).gen = session.gen
        BY <1>1 DEF SetLastDecision, SetLastServed, SessionOK, SessionFields
      <3> QED
        BY <3>1, <3>2
    <2> QED
      BY <2>1, <2>4, <2>5, HistoryKept
  <1>4. ASSUME SettleTurn PROVE PrefixInv' /\ Extends
    <2> DEFINE settled == SettleBoundary(session, turn)
               incumbent == [key |-> turn.served, dimension |-> turn.decision.dimension]
               noted == NotesIncumbent(settled, turn)
               held == IF noted THEN [settled EXCEPT !.incumbent = incumbent] ELSE settled
               written == IF noted /\ settled.incumbent # incumbent
                          THEN Recorded(pi, "incumbent", turn.served, incumbent.dimension) ELSE pi
    <2>1. UNCHANGED <<notes, sent>> /\ turn' = Idle
      BY <1>4 DEF SettleTurn
    <2>2. /\ session' \in {held, SetLastDecision(held, FinalDecision(turn))}
          /\ pi' \in {written, [written EXCEPT !.server = turn.served, !.calling = TRUE, !.due = FALSE,
                                               !.batch = 0]}
      BY <1>4 DEF SettleTurn
    <2>3. SamePins(session, settled) /\ SessionOK(settled)
      <3>1. \/ settled = session
            \/ settled = [session EXCEPT !.phase.status = "served", !.phase.pending = FALSE]
        BY DEF SettleBoundary
      <3> HIDE DEF settled
      <3> QED
        BY <3>1, <1>1 DEF SessionOK, SessionFields, SamePins, SameServing
    <2> HIDE DEF settled, incumbent
    <2>4. SamePins(session, held) /\ SessionOK(held)
      BY <2>3, FieldSteps, SamePinsIsOrder
    <2>5. /\ DOMAIN written = PiFields /\ written.messages = pi.messages
          /\ written.next = pi.next /\ written.notes = pi.notes
      BY <1>1 DEF Recorded, PiFields
    <2> HIDE DEF held, written
    <2>6. session'.gen = session.gen
      BY <2>2, <2>4, SessionSteps DEF SamePins, SameServing
    <2>7. pi'.messages = pi.messages /\ pi'.next = pi.next /\ pi'.notes = pi.notes
      BY <2>2, <2>5 DEF PiFields
    <2> QED
      BY <1>1, <2>1, <2>6, <2>7, HistoryKept
  <1> QED
    BY <1>2, <1>3, <1>4

LEMMA ToolsExtend ==
  ASSUME TurnInv, PrefixInv, Tools
  PROVE  PrefixInv' /\ Extends
  <1>1. DOMAIN pi = PiFields /\ SessionOK(session)
    BY DEF TurnInv, StateOK
  <1>2. ASSUME CallTool \/ \E requests \in w.spawns : Spawn(requests)
        PROVE  PrefixInv' /\ Extends
    <2>1. UNCHANGED <<session, notes, turn, sent>>
      BY <1>2 DEF CallTool, Spawn
    <2>2. pi'.messages = pi.messages /\ pi'.next = pi.next /\ pi'.notes = pi.notes
      BY <1>1, <1>2 DEF CallTool, Spawn, PiFields
    <2> QED
      BY <2>1, <2>2, HistoryKept
  <1>3. /\ Answered(pi).messages = Append(pi.messages, [role |-> "tool", anchor |-> pi.next])
        /\ Answered(pi).next = pi.next + 1 /\ Answered(pi).notes = pi.notes
        /\ DOMAIN Answered(pi) = PiFields
    BY <1>1 DEF Answered, PiFields
  <1>4. ASSUME UNCHANGED <<notes, turn, sent>>, turn = Idle, session'.gen = session.gen,
               pi'.messages = Answered(pi).messages, pi'.next = Answered(pi).next,
               pi'.notes = Answered(pi).notes
        PROVE  PrefixInv' /\ Extends
    <2>1. [role |-> "tool", anchor |-> pi.next].anchor = pi.next
      OBVIOUS
    <2> QED
      BY <1>3, <1>4, <2>1, HistoryGrown
  <1> HIDE DEF Answered
  <1>5. ASSUME NEW id \in pi.open, BlockCall(id) \/ \E r \in w.results : ToolResult(id, r)
        PROVE  PrefixInv' /\ Extends
    <2>1. UNCHANGED <<session, notes, turn, sent>> /\ turn = Idle
      BY <1>5 DEF BlockCall, ToolResult
    <2>2. pi' = [Answered(pi) EXCEPT !.open = @ \ {id}]
      BY <1>5 DEF BlockCall, ToolResult
    <2>3. pi'.messages = Answered(pi).messages /\ pi'.next = Answered(pi).next /\ pi'.notes = Answered(pi).notes
      BY <2>2, <1>3 DEF PiFields
    <2> QED
      BY <2>1, <2>3, <1>4
  <1>6. ASSUME NEW capped, SubagentResult(capped) PROVE PrefixInv' /\ Extends
    <2>1. UNCHANGED <<session, notes, turn, sent>> /\ turn = Idle
      BY <1>6 DEF SubagentResult
    <2>2. pi' = [Answered(pi) EXCEPT !.open = @ \ spawned.open]
      BY <1>6 DEF SubagentResult
    <2>3. pi'.messages = Answered(pi).messages /\ pi'.next = Answered(pi).next /\ pi'.notes = Answered(pi).notes
      BY <2>2, <1>3 DEF PiFields
    <2> QED
      BY <2>1, <2>3, <1>4
  <1>7. ASSUME NEW h \in w.handoffs, AcceptHandoff(h) PROVE PrefixInv' /\ Extends
    <2>1. UNCHANGED <<notes, turn, sent>> /\ turn = Idle
      BY <1>7 DEF AcceptHandoff, Calls
    <2>2. \E phase, active, dimension :
            session' = [session EXCEPT !.phase = phase, !.active = active, !.cached.dimension = dimension]
      BY <1>7 DEF AcceptHandoff
    <2>3. session'.gen = session.gen
      BY <2>2, <1>1 DEF SessionOK, SessionFields
    <2>4. \E answered : /\ answered = [Answered(pi) EXCEPT !.batch = @ + 1]
                        /\ pi' = answered \/ pi' = Recorded(answered, "active", NoKey, h.deliverable)
      BY <1>7 DEF AcceptHandoff
    <2>5. pi'.messages = Answered(pi).messages /\ pi'.next = Answered(pi).next /\ pi'.notes = Answered(pi).notes
      BY <2>4, <1>3 DEF PiFields, Recorded
    <2> QED
      BY <2>1, <2>3, <2>5, <1>4
  <1> QED
    BY <1>2, <1>5, <1>6, <1>7 DEF Tools

LEMMA EnvironmentExtends ==
  ASSUME TurnInv, PrefixInv
  PROVE  /\ NewUser \/ FlipHead \/ ResumeManual \/ SelectConcrete \/ SelectRouter => PrefixInv' /\ Extends
         /\ ClearSessionBlacklist => PrefixInv' /\ Extends
         /\ \A pin \in w.manual : UserPin(pin) => PrefixInv' /\ Extends
         /\ \A level \in w.levels : SetLevel(level) => PrefixInv' /\ Extends
         /\ \A pattern \in w.patterns :
              BlacklistAdd(pattern) \/ BlacklistRemove(pattern) => PrefixInv' /\ Extends
  <1>1. DOMAIN pi = PiFields /\ SessionOK(session) /\ pi.notes = notes
    BY DEF TurnInv, StateOK, PrefixInv
  <1>2. EnvironmentStep => session'.gen = session.gen /\ turn' = turn
    BY DEF EnvironmentStep
  <1>3. ASSUME EnvironmentStep, UNCHANGED <<notes, sent>>, pi'.messages = pi.messages,
               pi'.next = pi.next, pi'.notes = pi.notes
        PROVE  PrefixInv' /\ Extends
    BY <1>2, <1>3, HistoryKept
  <1>4. ASSUME FlipHead \/ \E level \in w.levels : SetLevel(level) PROVE PrefixInv' /\ Extends
    <2>1. UNCHANGED <<notes, sent>> /\ EnvironmentStep
      BY <1>4, EnvironmentOfPi DEF FlipHead, SetLevel
    <2>2. pi'.messages = pi.messages /\ pi'.next = pi.next /\ pi'.notes = pi.notes
      BY <1>1, <1>4 DEF FlipHead, SetLevel, PiFields
    <2> QED
      BY <2>1, <2>2, <1>3
  <1>5. ASSUME \/ ClearSessionBlacklist
               \/ \E pattern \in w.patterns : BlacklistAdd(pattern) \/ BlacklistRemove(pattern)
        PROVE  PrefixInv' /\ Extends
    <2>1. UNCHANGED <<notes, sent, pi>> /\ EnvironmentStep
      BY <1>5, EnvironmentOfPi DEF ClearSessionBlacklist, BlacklistAdd, BlacklistRemove
    <2> QED
      BY <2>1, <1>3
  <1>6. ASSUME ResumeManual \/ \E pin \in w.manual : UserPin(pin) PROVE PrefixInv' /\ Extends
    <2>1. UNCHANGED <<notes, sent, pi>> /\ EnvironmentStep
      BY <1>6, EnvironmentOfSession DEF ResumeManual, UserPin
    <2> QED
      BY <2>1, <1>3
  <1>7. ASSUME SelectConcrete \/ SelectRouter PROVE PrefixInv' /\ Extends
    <2>1. UNCHANGED <<notes, sent>> /\ EnvironmentStep
      BY <1>1, <1>7, EnvironmentOfSession DEF SelectConcrete, SelectRouter
    <2>2. pi'.messages = pi.messages /\ pi'.next = pi.next /\ pi'.notes = pi.notes
      BY <1>1, <1>7 DEF SelectConcrete, SelectRouter, Recorded, PiFields
    <2> QED
      BY <2>1, <2>2, <1>3
  <1>8. ASSUME NewUser PROVE PrefixInv' /\ Extends
    <2> DEFINE m == [role |-> "user", anchor |-> pi.next]
               asked == [pi EXCEPT !.messages = Append(@, m), !.next = @ + 1, !.due = TRUE, !.calling = FALSE]
    <2>1. UNCHANGED <<notes, sent, session>> /\ turn' = Idle /\ m.anchor = pi.next
      BY <1>8 DEF NewUser, Quiet
    <2>2. pi' = asked \/ pi' = Recorded(asked, "unrouted", NoKey, "none")
      BY <1>8 DEF NewUser
    <2> HIDE DEF m
    <2>3. /\ DOMAIN asked = PiFields /\ asked.messages = Append(pi.messages, m)
          /\ asked.next = pi.next + 1 /\ asked.notes = pi.notes
      BY <1>1 DEF PiFields
    <2> HIDE DEF asked
    <2>4. /\ pi'.messages = Append(pi.messages, m) /\ pi'.next = pi.next + 1 /\ pi'.notes = pi.notes
      BY <2>2, <2>3 DEF Recorded, PiFields
    <2> QED
      BY <2>1, <2>4, HistoryGrown
  <1> QED
    BY <1>4, <1>5, <1>6, <1>7, <1>8

\* A part of the history is one.
LEMMA HistoryPart ==
  ASSUME NEW h, NEW next, HistoryOK(h, next), NEW m \in 1..Len(h), NEW n \in 0..Len(h)
  PROVE  HistoryOK(SubSeq(h, m, n), next)
  <1> DEFINE p == SubSeq(h, m, n)
  <1>1. IsSequence(p) /\ \A i \in 1..Len(p) : m + i - 1 \in 1..Len(h) /\ p[i] = h[m + i - 1]
    BY PartOf DEF HistoryOK
  <1> HIDE DEF p
  <1>2. m \in Nat /\ Len(p) \in Nat
    BY <1>1 DEF HistoryOK, IsSequence
  <1>3. Distinct(p)
    <2> SUFFICES ASSUME NEW i \in 1..Len(p), NEW j \in 1..Len(p), i # j
                 PROVE  p[i].anchor # p[j].anchor
      BY DEF Distinct
    <2> DEFINE a == m + i - 1
               b == m + j - 1
    <2>1. a # b
      BY <1>2
    <2>2. a \in 1..Len(h) /\ b \in 1..Len(h) /\ p[i] = h[a] /\ p[j] = h[b]
      BY <1>1
    <2>3. \A k, l \in 1..Len(h) : k # l => h[k].anchor # h[l].anchor
      BY DEF HistoryOK, Distinct
    <2> HIDE DEF a, b
    <2> QED
      BY <2>1, <2>2, <2>3
  <1> QED
    BY <1>1, <1>3 DEF HistoryOK, p

\* What is kept of a record of entries is one.
LEMMA AmongIsSequence ==
  ASSUME NEW seq, IsSequence(seq), NEW S
  PROVE  IsSequence(Among(seq, S))
  <1> DEFINE some == [i \in DOMAIN seq |-> IF seq[i] \in S THEN <<seq[i]>> ELSE <<>>]
  <1>1. /\ Len(seq) \in Nat /\ DOMAIN some = 1..Len(seq)
        /\ some = [i \in 1..Len(seq) |-> some[i]]
        /\ \A i \in 1..Len(seq) : some[i] \in {<<>>, <<seq[i]>>}
    BY DEF IsSequence
  <1> HIDE DEF some
  <1>2. IsSequence(some) /\ Len(some) = Len(seq)
    BY <1>1, FunctionIsSequence
  <1>3. \A i \in 1..Len(seq) : IsSequence(some[i])
    <2> TAKE i \in 1..Len(seq)
    <2>1. IsSequence(<<seq[i]>>) /\ IsSequence(<<>>)
      BY ShortSequences
    <2> QED
      BY <2>1, <1>1
  <1>4. Parts(some)
    BY <1>2, <1>3 DEF Parts
  <1> QED
    BY <1>4, FlattenIsSequence DEF Among, some

\* Compaction keeps the last question and what follows it.
LEMMA CompactExtends == TurnInv /\ PrefixInv /\ Compact => PrefixInv' /\ Extends
  <1> SUFFICES ASSUME TurnInv, PrefixInv, Compact PROVE PrefixInv' /\ Extends
    OBVIOUS
  <1> DEFINE h == pi.messages
             asked == {i \in DOMAIN h : h[i].role = "user"}
             kept == SubSeq(h, Max(asked), Len(h))
  <1>1. DOMAIN pi = PiFields /\ HistoryOK(h, pi.next) /\ IsSequence(notes) /\ pi.notes = notes
    BY DEF TurnInv, StateOK, PrefixInv
  <1>2. session'.gen = session.gen
    BY EnvironmentOfSession DEF EnvironmentStep
  <1>3. /\ pi' = [pi EXCEPT !.messages = kept] /\ turn = Idle /\ turn' = turn /\ notes' = notes
        /\ sent' = [sent EXCEPT !.stable = FALSE] /\ Cardinality(asked) > 1
    BY DEF Compact, Quiet
  <1>4. Len(h) \in Nat /\ DOMAIN h = 1..Len(h)
    BY <1>1 DEF HistoryOK, IsSequence
  <1>5. asked \subseteq 1..Len(h)
    BY <1>4
  <1> HIDE DEF asked
  <1>6. asked # {}
    <2>1. Cardinality({}) = 0
      BY FS_EmptySet
    <2> QED
      BY <2>1, <1>3
  <1>7. Max(asked) \in 1..Len(h)
    <2>1. asked \subseteq 0..Len(h)
      BY <1>4, <1>5
    <2>2. Max(asked) \in asked
      BY <2>1, <1>4, <1>6, MaxOf
    <2> QED
      BY <2>2, <1>5
  <1>8. HistoryOK(kept, pi.next)
    <2>1. Len(h) \in 0..Len(h)
      BY <1>4
    <2> QED
      BY <2>1, <1>1, <1>7, HistoryPart
  <1> HIDE DEF kept
  <1>9. pi'.messages = kept /\ pi'.next = pi.next /\ pi'.notes = pi.notes
    BY <1>1, <1>3 DEF PiFields
  <1> QED
    BY <1>1, <1>2, <1>3, <1>8, <1>9, HistoryRewritten

\* Going back keeps the history up to an entry, and the notes to it.
LEMMA TreeExtends ==
  ASSUME TurnInv, PrefixInv, NEW count, Tree(count)
  PROVE  PrefixInv' /\ Extends
  <1> DEFINE h == pi.messages
             kept == SubSeq(h, 1, count)
             branch == Among(pi.branch, {e \in Range(pi.branch) : e.anchor <= LastAnchor(kept)})
             told == Among(pi.notes, {e \in Range(pi.notes) : e.anchor <= LastAnchor(kept)})
  <1>1. DOMAIN pi = PiFields /\ HistoryOK(h, pi.next) /\ IsSequence(pi.notes)
    BY DEF TurnInv, StateOK, PrefixInv
  <1>2. session'.gen = session.gen
    BY EnvironmentOfSession DEF EnvironmentStep
  <1>3. /\ pi' = [pi EXCEPT !.messages = kept, !.branch = branch, !.due = FALSE, !.calling = FALSE,
                            !.notes = told]
        /\ turn = Idle /\ turn' = turn /\ notes' = pi'.notes
        /\ sent' = [sent EXCEPT !.stable = FALSE] /\ count \in 1..(Len(h) - 1)
    BY DEF Tree, Quiet
  <1>4. HistoryOK(kept, pi.next)
    <2>1. Len(h) \in Nat
      BY <1>1 DEF HistoryOK, IsSequence
    <2>2. 1 \in 1..Len(h) /\ count \in 0..Len(h)
      BY <2>1, <1>3
    <2> QED
      BY <2>2, <1>1, HistoryPart
  <1>5. IsSequence(told)
    BY <1>1, AmongIsSequence
  <1> HIDE DEF kept, branch, told
  <1>6. pi'.messages = kept /\ pi'.next = pi.next /\ pi'.notes = told
    BY <1>1, <1>3 DEF PiFields
  <1> QED
    BY <1>2, <1>3, <1>4, <1>5, <1>6, HistoryRewritten

\* A reload keeps history and notes; a new session starts without either.
LEMMA SessionStartExtends ==
  ASSUME TurnInv, PrefixInv, NEW reload \in BOOLEAN, SessionStart(reload)
  PROVE  PrefixInv' /\ Extends
  <1>1. /\ DOMAIN pi = PiFields /\ HistoryOK(pi.messages, pi.next) /\ IsSequence(notes)
        /\ pi.notes = notes /\ session.gen \in Nat /\ TurnHistoryOK
        /\ DOMAIN sent = {"content", "stable"} /\ IsSequence(sent.content)
        /\ sent.stable => Starts(sent.content, Told(pi.messages, notes))
    BY DEF TurnInv, StateOK, PrefixInv
  <1>2. session'.gen = session.gen + 1
    <2> DEFINE f == FreshSession(session.gen + 1, session.recoveryDue)
    <2>1. SessionOK(f) /\ f.gen = session.gen + 1
      BY FreshIsSession
    <2>2. \E branch : session' = RestoreWorkLedger(f, branch)
      BY DEF SessionStart
    <2> HIDE DEF f
    <2> QED
      BY <2>1, <2>2, SessionSteps DEF SamePins, SameServing
  <1>3. /\ turn' = turn /\ (turn.pc = "entry" => ~turn.hit) /\ notes' = pi'.notes
        /\ sent' = [sent EXCEPT !.stable = @ /\ reload]
    BY DEF SessionStart, Upset
  <1>4. CASE reload
    <2>1. pi' = [pi EXCEPT !.open = {}, !.calling = FALSE]
      BY <1>4 DEF SessionStart
    <2>2. pi'.messages = pi.messages /\ pi'.next = pi.next /\ pi'.notes = pi.notes
      BY <2>1, <1>1 DEF PiFields
    <2>3. /\ DOMAIN sent' = {"content", "stable"} /\ sent'.content = sent.content
          /\ sent'.stable => sent.stable
      BY <1>1, <1>3
    <2>4. TurnHistoryOK'
      BY <1>1, <1>2, <1>3, <2>2, <2>3 DEF TurnHistoryOK
    <2>5. sent'.stable => Starts(sent'.content, Told(pi'.messages, notes'))
      BY <1>1, <1>3, <2>2, <2>3
    <2> QED
      BY <1>1, <1>2, <1>3, <2>2, <2>3, <2>4, <2>5 DEF PrefixInv, Extends
  <1>5. CASE ~reload
    <2>1. pi' = [pi EXCEPT !.messages = <<>>, !.notes = <<>>, !.branch = <<>>, !.due = FALSE,
                           !.open = {}, !.calling = FALSE]
      BY <1>5 DEF SessionStart
    <2>2. pi'.messages = <<>> /\ pi'.next = pi.next /\ pi'.notes = <<>>
      BY <2>1, <1>1 DEF PiFields
    <2>3. IsSequence(<<>>) /\ Len(<<>>) = 0
      BY ShortSequences
    <2>4. HistoryOK(pi'.messages, pi'.next)
      BY <1>1, <2>2, <2>3 DEF HistoryOK, Distinct
    <2>5. sent' = [sent EXCEPT !.stable = FALSE]
      BY <1>3, <1>5
    <2> QED
      BY <1>2, <1>3, <2>2, <2>3, <2>4, <2>5, HistoryRewritten
  <1> QED
    BY <1>4, <1>5

LEMMA PrefixStep == TurnInv /\ PrefixInv /\ [Next]_vars => PrefixInv' /\ Extends
  <1> SUFFICES ASSUME TurnInv, PrefixInv, [Next]_vars PROVE PrefixInv' /\ Extends
    OBVIOUS
  <1>1. CASE Turn
    BY <1>1, SendRequestExtends, ConcreteRequestExtends, WaitingExtends, ServedExtends DEF Turn
  <1>2. CASE Tools
    BY <1>2, ToolsExtend
  <1>3. CASE Environment
    <2>1. \A reload \in BOOLEAN : SessionStart(reload) => PrefixInv' /\ Extends
      BY SessionStartExtends
    <2>2. \A count : Tree(count) => PrefixInv' /\ Extends
      BY TreeExtends
    <2> QED
      BY <1>3, <2>1, <2>2, CompactExtends, EnvironmentExtends DEF Environment
  <1>4. CASE UNCHANGED vars
    <2>1. UNCHANGED <<session, pi, notes, turn, sent>>
      BY <1>4 DEF vars
    <2> QED
      BY <2>1, HistoryKept
  <1> QED
    BY <1>1, <1>2, <1>3, <1>4 DEF Next

(* While the history only grows, each request repeats what the one before it said, with
   its notes where they were, and goes on from there: nothing that has been sent is sent
   differently (withRequestNotes and its callers, request-notes.ts and provider.ts). *)
THEOREM RequestsExtendTheLast == Spec => PrefixStable
  <1>1. Init => PrefixInv
    BY PrefixInit
  <1>2. TurnInv /\ PrefixInv /\ [Next]_vars => PrefixInv'
    BY PrefixStep
  <1>3. TurnInv /\ PrefixInv /\ [Next]_vars
          => [sent.stable /\ sent'.content # sent.content => IsPrefix(sent.content, sent'.content)]_vars
    BY PrefixStep DEF Extends
  <1> QED
    BY <1>1, <1>2, <1>3, TurnsKeepTheirEvidence, PTL DEF Spec, PrefixStable
=============================================================================
